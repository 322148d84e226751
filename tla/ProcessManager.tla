--------------------------- MODULE ProcessManager ---------------------------
(***************************************************************************)
(* ProcessManager (internal/devserver/process.go): long-running processes  *)
(* by rule name.  StartProcess is called by the scheduler and by runtime   *)
(* features (tunnel, stripe) on their own goroutines; every process has    *)
(* one Wait goroutine; shutdown clears the callback, cancels the context   *)
(* every process was started under, waits for the scheduler and calls      *)
(* StopAll.                                                                *)
(*                                                                         *)
(* A process is a leader (`sh -c`) and possibly other members of its       *)
(* group, which share its output pipes.                                    *)
(***************************************************************************)
EXTENDS Naturals, FiniteSets

CONSTANTS
    Rules,      \* names of run rules and daemons
    Starters,   \* goroutines that call StartProcess
    Scheduler,  \* the one of them that shutdown waits for
    Main,       \* the goroutine of Run, which calls StopAll
    Nobody,     \* startMu is free
    MaxProcs    \* bound: processes ever started

ASSUME ManagerAssumption ==
    /\ Rules # {} /\ MaxProcs \in Nat
    /\ Scheduler \in Starters /\ Main \notin Starters /\ Nobody \notin Starters

Procs == 1 .. MaxProcs
Actors == Starters \cup {Main}

VARIABLES
    procs,     \* pm.procs: the tracked process of a rule, 0 for none
    startMu,   \* who holds it
    pc, want,  \* where an actor is in StartProcess or stopProcess, for which rule
    victim,    \* the process an actor's stopProcess took out of procs
    born,      \* processes started so far
    rule,      \* the rule of a process
    starter,   \* the goroutine that started it
    leader,    \* "unborn", "run", "exited" or, once Wait reaped it, "reaped"
    by,        \* why the leader ended: clean, crash, signal or cancel
    group,     \* other members of the process group are alive
    intr,      \* the group got SIGINT
    wait,      \* where the Wait goroutine is
    done,      \* mp.done is closed
    reported,  \* processes OnProcessExit was called for
    callback, cancelled, main, todo

actorVars == <<startMu, pc, want, victim>>
procVars  == <<born, rule, starter, leader, by, group, intr>>
waitVars  == <<wait, done, reported>>
downVars  == <<callback, cancelled, main, todo>>
vars == <<procs, actorVars, procVars, waitVars, downVars>>

TypeOK ==
    /\ procs \in [Rules -> 0 .. MaxProcs] /\ startMu \in Starters \cup {Nobody}
    /\ pc \in [Actors -> {"idle", "untrack", "signal", "wait", "kill", "last", "spawn", "track"}]
    /\ want \in [Actors -> Rules] /\ victim \in [Actors -> 0 .. MaxProcs]
    /\ born \in 0 .. MaxProcs /\ rule \in [Procs -> Rules] /\ starter \in [Procs -> Starters]
    /\ leader \in [Procs -> {"unborn", "run", "exited", "reaped"}]
    /\ by \in [Procs -> {"none", "clean", "crash", "signal", "cancel"}]
    /\ group \in [Procs -> BOOLEAN] /\ intr \in [Procs -> BOOLEAN]
    /\ wait \in [Procs -> {"unborn", "wait", "pipes", "cleanup", "report", "gone"}]
    /\ done \in [Procs -> BOOLEAN] /\ reported \subseteq Procs
    /\ callback \in BOOLEAN /\ cancelled \in BOOLEAN
    /\ main \in {"run", "cleared", "cancelled", "stopall", "down"} /\ todo \subseteq Rules

Init ==
    /\ procs = [r \in Rules |-> 0] /\ startMu = Nobody
    /\ pc = [a \in Actors |-> "idle"] /\ want \in [Actors -> {CHOOSE r \in Rules : TRUE}]
    /\ victim = [a \in Actors |-> 0] /\ born = 0
    /\ rule = [p \in Procs |-> CHOOSE r \in Rules : TRUE]
    /\ starter = [p \in Procs |-> Scheduler]
    /\ leader = [p \in Procs |-> "unborn"] /\ by = [p \in Procs |-> "none"]
    /\ group = [p \in Procs |-> FALSE] /\ intr = [p \in Procs |-> FALSE]
    /\ wait = [p \in Procs |-> "unborn"] /\ done = [p \in Procs |-> FALSE]
    /\ reported = {} /\ callback = TRUE /\ cancelled = FALSE /\ main = "run" /\ todo = {}

-----------------------------------------------------------------------------
(* StartProcess, and the stopProcess it and StopAll begin with.            *)

Goto(a, l) == pc' = [pc EXCEPT ![a] = l]

(* Mutant: StartProcess does not take startMu.                             *)
BeginUnlocked(a, r) ==
    /\ a \in Starters /\ pc[a] = "idle" /\ born < MaxProcs
    /\ a = Scheduler => main \in {"run", "cleared"}
    /\ startMu' = a /\ want' = [want EXCEPT ![a] = r] /\ Goto(a, "untrack")
    /\ UNCHANGED <<procs, victim, procVars, waitVars, downVars>>

(* The scheduler starts nothing any more once it has seen the context done.*)
Begin(a, r) ==
    /\ a \in Starters /\ pc[a] = "idle" /\ startMu = Nobody /\ born < MaxProcs
    /\ a = Scheduler => main \in {"run", "cleared"}
    /\ startMu' = a /\ want' = [want EXCEPT ![a] = r] /\ Goto(a, "untrack")
    /\ UNCHANGED <<procs, victim, procVars, waitVars, downVars>>

(* stopProcess returns: to StartProcess, or to StopAll.                    *)
Stopped(a) == Goto(a, IF a = Main THEN "idle" ELSE "spawn")

(* Mutant: the entry stays in procs until the Wait goroutine removes it.   *)
UntrackLater(a) ==
    /\ pc[a] = "untrack"
    /\ LET p == procs[want[a]] IN
          IF p = 0 THEN Stopped(a) /\ UNCHANGED victim
                   ELSE victim' = [victim EXCEPT ![a] = p] /\ Goto(a, "signal")
    /\ UNCHANGED <<procs, startMu, want, procVars, waitVars, downVars>>

(* Under pm.mu: take the entry out first, so that the exit that follows is *)
(* known to be intended.                                                   *)
Untrack(a) ==
    /\ pc[a] = "untrack"
    /\ LET p == procs[want[a]] IN
          IF p = 0 THEN Stopped(a) /\ UNCHANGED victim
                   ELSE victim' = [victim EXCEPT ![a] = p] /\ Goto(a, "signal")
    /\ procs' = [procs EXCEPT ![want[a]] = 0]
    /\ UNCHANGED <<startMu, want, procVars, waitVars, downVars>>

(* SIGINT to the group.  Getpgid fails for a reaped leader, and os.Process *)
(* refuses to signal it.                                                   *)
Interrupt(a) ==
    /\ pc[a] = "signal"
    /\ intr' = [intr EXCEPT ![victim[a]] = leader[victim[a]] # "reaped"]
    /\ Goto(a, "wait")
    /\ UNCHANGED <<procs, startMu, want, victim, born, rule, starter, leader, by, group, waitVars, downVars>>

StopDone(a) ==
    /\ pc[a] \in {"wait", "last"} /\ done[victim[a]]
    /\ Stopped(a) /\ victim' = [victim EXCEPT ![a] = 0]
    /\ UNCHANGED <<procs, startMu, want, procVars, waitVars, downVars>>

(* shutdownTimeout passes, and done is still open.                         *)
StopTimeout(a) ==
    /\ pc[a] = "wait" /\ ~done[victim[a]]
    /\ Goto(a, "kill")
    /\ UNCHANGED <<procs, startMu, want, victim, procVars, waitVars, downVars>>

(* SIGKILL to the group, if Getpgid still finds the leader.                *)
ForceKill(a) ==
    /\ pc[a] = "kill"
    /\ LET p == victim[a] IN
          IF leader[p] = "reaped" THEN UNCHANGED <<leader, by, group>>
          ELSE /\ group' = [group EXCEPT ![p] = FALSE]
               /\ leader' = [leader EXCEPT ![p] = "exited"]
               /\ by' = [by EXCEPT ![p] = IF leader[p] = "run" THEN "signal" ELSE @]
    /\ Goto(a, "last")
    /\ UNCHANGED <<procs, startMu, want, victim, born, rule, starter, intr, waitVars, downVars>>

(* cmd.Start, which refuses a cancelled context.                           *)
StartFails(a) ==
    /\ pc[a] = "spawn"
    /\ Goto(a, "idle") /\ startMu' = Nobody
    /\ UNCHANGED <<procs, want, victim, procVars, waitVars, downVars>>

(* The shell runs the program in its own place, or as a child.             *)
Spawn(a) ==
    /\ pc[a] = "spawn" /\ ~cancelled /\ born < MaxProcs
    /\ born' = born + 1
    /\ rule' = [rule EXCEPT ![born'] = want[a]] /\ starter' = [starter EXCEPT ![born'] = a]
    /\ leader' = [leader EXCEPT ![born'] = "run"]
    /\ \E forks \in BOOLEAN : group' = [group EXCEPT ![born'] = forks]
    /\ victim' = [victim EXCEPT ![a] = born']
    /\ Goto(a, "track")
    /\ UNCHANGED <<procs, startMu, want, by, intr, waitVars, downVars>>

(* Enter it into procs and start its Wait goroutine.                       *)
Track(a) ==
    /\ pc[a] = "track"
    /\ procs' = [procs EXCEPT ![want[a]] = victim[a]]
    /\ wait' = [wait EXCEPT ![victim[a]] = "wait"]
    /\ victim' = [victim EXCEPT ![a] = 0]
    /\ Goto(a, "idle") /\ startMu' = Nobody
    /\ UNCHANGED <<want, procVars, done, reported, downVars>>

-----------------------------------------------------------------------------
(* Processes.                                                              *)

(* The leader ends by itself, or because of SIGINT if it got one.          *)
Exit(p) ==
    /\ leader[p] = "run"
    /\ leader' = [leader EXCEPT ![p] = "exited"]
    /\ \E why \in IF intr[p] THEN {"signal"} ELSE {"clean", "crash"} : by' = [by EXCEPT ![p] = why]
    /\ UNCHANGED <<procs, actorVars, born, rule, starter, group, intr, waitVars, downVars>>

(* CommandContext's default Cancel kills the leader only.                  *)
CancelKill(p) ==
    /\ cancelled /\ leader[p] = "run"
    /\ leader' = [leader EXCEPT ![p] = "exited"]
    /\ by' = [by EXCEPT ![p] = "cancel"]
    /\ UNCHANGED <<procs, actorVars, born, rule, starter, group, intr, waitVars, downVars>>

GroupExit(p) ==
    /\ group[p]
    /\ group' = [group EXCEPT ![p] = FALSE]
    /\ UNCHANGED <<procs, actorVars, born, rule, starter, leader, by, intr, waitVars, downVars>>

-----------------------------------------------------------------------------
(* The Wait goroutine of a process.                                        *)

Reap(p) ==
    /\ wait[p] = "wait" /\ leader[p] = "exited"
    /\ leader' = [leader EXCEPT ![p] = "reaped"]
    /\ wait' = [wait EXCEPT ![p] = "pipes"]
    /\ UNCHANGED <<procs, actorVars, born, rule, starter, by, group, intr, done, reported, downVars>>

(* Mutant: without WaitDelay, Wait needs every holder of the pipes gone.   *)
PipesNeedEOF(p) ==
    /\ wait[p] = "pipes" /\ ~group[p]
    /\ done' = [done EXCEPT ![p] = TRUE]
    /\ wait' = [wait EXCEPT ![p] = "cleanup"]
    /\ UNCHANGED <<procs, actorVars, procVars, reported, downVars>>

(* The pipes reach EOF or WaitDelay expires; Wait returns; close(done).    *)
PipesClosed(p) ==
    /\ wait[p] = "pipes"
    /\ done' = [done EXCEPT ![p] = TRUE]
    /\ wait' = [wait EXCEPT ![p] = "cleanup"]
    /\ UNCHANGED <<procs, actorVars, procVars, reported, downVars>>

(* Mutant: the entry is deleted whatever process it now names.             *)
CleanupByName(p) ==
    /\ wait[p] = "cleanup"
    /\ procs' = [procs EXCEPT ![rule[p]] = 0]
    /\ wait' = [wait EXCEPT ![p] =
          IF procs[rule[p]] = p /\ callback /\ by[p] # "clean" THEN "report" ELSE "gone"]
    /\ UNCHANGED <<actorVars, procVars, done, reported, downVars>>

(* Under pm.mu: forget the process if it is still the tracked one, and     *)
(* read the callback.                                                      *)
Cleanup(p) ==
    /\ wait[p] = "cleanup"
    /\ LET tracked == procs[rule[p]] = p IN
          /\ procs' = IF tracked THEN [procs EXCEPT ![rule[p]] = 0] ELSE procs
          /\ wait' = [wait EXCEPT ![p] =
                IF tracked /\ callback /\ by[p] # "clean" THEN "report" ELSE "gone"]
    /\ UNCHANGED <<actorVars, procVars, done, reported, downVars>>

Report(p) ==
    /\ wait[p] = "report"
    /\ reported' = reported \cup {p}
    /\ wait' = [wait EXCEPT ![p] = "gone"]
    /\ UNCHANGED <<procs, actorVars, procVars, done, downVars>>

-----------------------------------------------------------------------------
(* Shutdown, as Run's deferred function does it.                           *)

(* q or SIGINT cancels the context before the shutdown clears the callback. *)
Quit ==
    /\ main = "run"
    /\ cancelled' = TRUE
    /\ UNCHANGED <<procs, actorVars, procVars, waitVars, callback, main, todo>>

ClearCallbacks ==
    /\ main = "run"
    /\ callback' = FALSE /\ main' = "cleared"
    /\ UNCHANGED <<procs, actorVars, procVars, waitVars, cancelled, todo>>

Cancel ==
    /\ main = "cleared"
    /\ cancelled' = TRUE /\ main' = "cancelled"
    /\ UNCHANGED <<procs, actorVars, procVars, waitVars, callback, todo>>

(* Mutant: StopAll does not wait for the scheduler goroutine.              *)
StopAllAtOnce ==
    /\ main = "cancelled"
    /\ todo' = {r \in Rules : procs[r] # 0} /\ main' = "stopall"
    /\ UNCHANGED <<procs, actorVars, procVars, waitVars, callback, cancelled>>

(* StopAll: the names are copied under pm.mu, then stopped one by one.     *)
StopAll ==
    /\ main = "cancelled" /\ pc[Scheduler] = "idle"
    /\ todo' = {r \in Rules : procs[r] # 0} /\ main' = "stopall"
    /\ UNCHANGED <<procs, actorVars, procVars, waitVars, callback, cancelled>>

(* Mutant: StopAll takes startMu for a stop.                               *)
StopNextLocks(r) ==
    /\ main = "stopall" /\ pc[Main] = "idle" /\ r \in todo /\ startMu = Nobody
    /\ todo' = todo \ {r} /\ want' = [want EXCEPT ![Main] = r] /\ Goto(Main, "untrack")
    /\ startMu' = Main
    /\ UNCHANGED <<procs, victim, procVars, waitVars, callback, cancelled, main>>

StopNext(r) ==
    /\ main = "stopall" /\ pc[Main] = "idle" /\ r \in todo
    /\ todo' = todo \ {r} /\ want' = [want EXCEPT ![Main] = r] /\ Goto(Main, "untrack")
    /\ UNCHANGED <<procs, startMu, victim, procVars, waitVars, callback, cancelled, main>>

AllStopped ==
    /\ main = "stopall" /\ pc[Main] = "idle" /\ todo = {}
    /\ main' = "down"
    /\ UNCHANGED <<procs, actorVars, procVars, waitVars, callback, cancelled, todo>>

ActorStep(a) ==
    \/ Untrack(a) \/ Interrupt(a) \/ StopDone(a) \/ StopTimeout(a) \/ ForceKill(a)
    \/ StartFails(a) \/ Spawn(a) \/ Track(a)

WaitStep(p) == Reap(p) \/ PipesClosed(p) \/ Cleanup(p) \/ Report(p)

Next ==
    \/ \E a \in Actors : ActorStep(a)
    \/ \E a \in Starters, r \in Rules : Begin(a, r)
    \/ \E p \in Procs : Exit(p) \/ CancelKill(p) \/ GroupExit(p) \/ WaitStep(p)
    \/ Quit \/ ClearCallbacks \/ Cancel \/ StopAll \/ AllStopped
    \/ \E r \in Rules : StopNext(r)

(* hamr's goroutines run and timers fire; a process need not end unless    *)
(* SIGKILL ends it.                                                        *)
Fairness ==
    /\ \A a \in Actors : WF_vars(ActorStep(a))
    /\ \A p \in Procs : WF_vars(WaitStep(p)) /\ WF_vars(CancelKill(p))

Spec == Init /\ [][Next]_vars /\ Fairness

-----------------------------------------------------------------------------
(* startMu makes stop+start of one name atomic across goroutines           *)
(* (process.go 102-106): never two leaders of one rule.                    *)
OneLeader ==
    \A p, q \in Procs : p # q /\ leader[p] = "run" /\ leader[q] = "run" => rule[p] # rule[q]

(* A running process is tracked, or in the hands of a goroutine that is    *)
(* starting or stopping it: the cleanup of an older one never forgets it   *)
(* (308-312), so that isRunning and StopAll see it.                        *)
NoLostProcess ==
    \A p \in Procs : leader[p] = "run" => procs[rule[p]] = p \/ \E a \in Actors : victim[a] = p

(* A process that hamr stopped or restarted is never reported as a build   *)
(* error, whatever it does meanwhile (318, 349-357).                       *)
StoppedIsNotReported == \A p \in reported : by[p] # "signal" /\ ~intr[p]

(* Once StopAll has returned, no leader the scheduler started is running,  *)
(* unless another goroutine is busy stopping it (335-347; Run waits for    *)
(* the scheduler and for no other starter).                                *)
LeadersGone ==
    main = "down" =>
        \A p \in Procs : starter[p] = Scheduler /\ leader[p] = "run" =>
            \E a \in Starters \ {Scheduler} : victim[a] = p

(* The invariant: types, at most one leader per rule, no process that is   *)
(* running and forgotten, none reported that hamr stopped, none left.      *)
Inv == TypeOK /\ OneLeader /\ NoLostProcess /\ StoppedIsNotReported /\ LeadersGone

(* stopProcess must always return, whatever the process does with SIGINT   *)
(* and whoever holds its pipes (272-276).                                  *)
Stopping == \E a \in Actors : pc[a] \in {"untrack", "signal", "wait", "kill", "last"}
=============================================================================
