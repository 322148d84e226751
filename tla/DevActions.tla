------------------------------- MODULE DevActions ------------------------------
(***************************************************************************)
(* The compose stack of `hamr dev` over its runs: it is brought up at the  *)
(* start of a run, restarted and wiped by the panel, the TUI and the       *)
(* gateway meanwhile (actions.go), followed by `compose logs -f` and taken *)
(* down at the end (devserver.go).  A wipe or a restart is a goroutine of  *)
(* its own, with a timeout of its own and no tie to the run it was asked   *)
(* of: two may overlap, and one may outlive its run.  What a docker        *)
(* command does to the containers is the world's part.                     *)
(***************************************************************************)
EXTENDS Integers, FiniteSets

CONSTANTS
    Services,   \* the services of the entry
    Jobs,       \* restarts and wipes asked for
    Scopes,     \* what they are about: the entry, or one of its services
    MaxRuns     \* bound: runs of the dev server

VARIABLES
    gen,        \* the run
    phase,      \* "inspect", "up", "on", "closing", "down", "torn", "quit"
    again,      \* the run ends for a restart
    keep,       \* keep_running of the entry
    running,    \* the services that have a container up
    spinner,    \* EvComposeUp was broadcast and no EvComposeOK since
    error,      \* errorState of each run has the entry
    follower,   \* the follower: "none", "attached", "backoff", "ended"
    pc,         \* a job: "idle", "restart", "rm", "up", "done"
    what,       \* the services it is about
    home,       \* the run it was asked of
    late,       \* a job was under way at some time since the stack was taken down
    mixed,      \* history: since the last command on the whole stack that said
                \* how it went, another one ran or one on a part of it
    downFailed  \* `down` failed at the end of the last run

vars == <<gen, phase, again, keep, running, spinner, error, follower, pc, what, home, late, mixed,
          downFailed>>

Runs == 1 .. MaxRuns
Active == {j \in Jobs : pc[j] \in {"restart", "rm", "up"}}

Init ==
    /\ gen = 1
    /\ phase = "inspect"
    /\ again = FALSE
    /\ keep \in BOOLEAN
    /\ running \in {{}, Services}
    /\ spinner = FALSE
    /\ error = [r \in Runs |-> FALSE]
    /\ follower = "none"
    /\ pc = [j \in Jobs |-> "idle"]
    /\ what = [j \in Jobs |-> Services]
    /\ home = [j \in Jobs |-> 1]
    /\ late = FALSE
    /\ mixed = FALSE
    /\ downFailed = FALSE

jobs == <<pc, what, home>>

\* What a docker command leaves running: all it was asked for, or any part.
Started(s, ok)  == {r \in SUBSET Services : running \subseteq r /\ r \subseteq running \cup s /\ (ok => s \subseteq r)}
Stopped(s, ok)  == {r \in SUBSET Services : r \subseteq running /\ running \ s \subseteq r /\ (ok => r \cap s = {})}

---------------------------------------------------------------------------
\* A run.

\* The entry is announced. A stack that is up is adopted, else brought up.
Inspect ==
    /\ phase = "inspect"
    /\ spinner' = TRUE
    /\ phase' = "up"
    /\ UNCHANGED <<gen, again, keep, running, error, follower, jobs, late, mixed, downFailed>>

(* Mutant: only a stack that came up is announced as over. *)
BringUpQuietOnFailure(ok) ==
    /\ phase = "up"
    /\ phase' = "on"
    /\ running' \in (IF running = Services /\ ok THEN {running} ELSE Started(Services, ok))
    /\ error' = [error EXCEPT ![gen] = ~ok]
    /\ spinner' = ~ok
    /\ follower' = "backoff"
    /\ mixed' = (Active # {})
    /\ UNCHANGED <<gen, again, keep, jobs, late, downFailed>>

\* ensureDockerCompose: how it went is recorded, the spinner ends either way, and
\* the follower is started either way.
BringUp(ok) ==
    /\ phase = "up"
    /\ phase' = "on"
    /\ running' \in (IF running = Services /\ ok THEN {running} ELSE Started(Services, ok))
    /\ error' = [error EXCEPT ![gen] = ~ok]
    /\ spinner' = FALSE
    /\ follower' = "backoff"
    /\ mixed' = (Active # {})
    /\ UNCHANGED <<gen, again, keep, jobs, late, downFailed>>

\* A follower starts, and ends by itself when there is nothing left to follow.
Follow ==
    /\ phase = "on" /\ follower = "backoff" /\ running # {}
    /\ follower' = "attached"
    /\ UNCHANGED <<gen, phase, again, keep, running, spinner, error, jobs, late, mixed, downFailed>>

LosesTrack ==
    /\ follower = "attached" /\ running = {}
    /\ follower' = "backoff"
    /\ UNCHANGED <<gen, phase, again, keep, running, spinner, error, jobs, late, mixed, downFailed>>

\* q, or R: runCtx is canceled.
Close(restart) ==
    /\ phase = "on"
    /\ phase' = "closing"
    /\ again' = restart
    /\ UNCHANGED <<gen, keep, running, spinner, error, follower, jobs, late, mixed, downFailed>>

FollowerEnds ==
    /\ phase = "closing" /\ follower # "ended"
    /\ follower' = "ended"
    /\ UNCHANGED <<gen, phase, again, keep, running, spinner, error, jobs, late, mixed, downFailed>>

(* Mutant: a run that is to be restarted leaves the stack up. *)
TakeDownOnQuit(ok) ==
    /\ phase = "closing" /\ follower = "ended"
    /\ phase' = "down"
    /\ IF keep \/ again THEN running' = running /\ downFailed' = FALSE
       ELSE running' \in Stopped(Services, ok) /\ downFailed' = ~ok
    /\ late' = (Active # {})
    /\ UNCHANGED <<gen, again, keep, spinner, error, follower, jobs, mixed>>

\* The followers are awaited, then the stack is taken down unless it is to be
\* kept; the failure of `down` is only logged.
TakeDown(ok) ==
    /\ phase = "closing" /\ follower = "ended"
    /\ phase' = "down"
    /\ IF keep THEN running' = running /\ downFailed' = FALSE
       ELSE running' \in Stopped(Services, ok) /\ downFailed' = ~ok
    /\ late' = (Active # {})
    /\ UNCHANGED <<gen, again, keep, spinner, error, follower, jobs, mixed>>

\* The proxy is closed: nobody can ask for anything until the next run.
CloseProxy ==
    /\ phase = "down"
    /\ phase' = "torn"
    /\ UNCHANGED <<gen, again, keep, running, spinner, error, follower, jobs, late, mixed, downFailed>>

NextRun ==
    /\ phase = "torn"
    /\ IF again /\ gen < MaxRuns
       THEN gen' = gen + 1 /\ phase' = "inspect" /\ follower' = "none"
       ELSE gen' = gen /\ phase' = "quit" /\ follower' = follower
    /\ spinner' = FALSE
    /\ UNCHANGED <<again, keep, running, error, jobs, late, mixed, downFailed>>

---------------------------------------------------------------------------
\* A restart or a wipe: of one service, or of all of them.

Ask(j, s, wipe) ==
    /\ pc[j] = "idle" /\ phase \in {"inspect", "up", "on", "closing", "down"}
    /\ pc' = [pc EXCEPT ![j] = IF wipe THEN "rm" ELSE "restart"]
    /\ what' = [what EXCEPT ![j] = s]
    /\ home' = [home EXCEPT ![j] = gen]
    /\ late' = TRUE
    /\ mixed' = (mixed \/ s # Services \/ Active # {} \/ ~wipe)
    /\ UNCHANGED <<gen, phase, again, keep, running, spinner, error, follower, downFailed>>

\* errorState of the run the job belongs to.
Says(j, ok) == error' = [error EXCEPT ![home[j]] = ~ok]

Done(j) ==
    /\ pc' = [pc EXCEPT ![j] = "done"]
    /\ what' = [what EXCEPT ![j] = Services]
    /\ home' = [home EXCEPT ![j] = 1]

\* dockerRestart.
RestartEnds(j, ok) ==
    /\ pc[j] = "restart"
    /\ \/ running' \in Started(what[j], FALSE)
       \/ ~ok /\ running' \in Stopped(what[j], FALSE)
    /\ Says(j, ok)
    /\ Done(j)
    /\ UNCHANGED <<gen, phase, again, keep, spinner, follower, late, mixed, downFailed>>

\* dockerWipe: what could not be removed is not brought up again.
Removed(j, ok) ==
    /\ pc[j] = "rm"
    /\ running' \in Stopped(what[j], ok)
    /\ IF ok THEN pc' = [pc EXCEPT ![j] = "up"] /\ UNCHANGED <<error, what, home>>
       ELSE Says(j, FALSE) /\ Done(j)
    /\ UNCHANGED <<gen, phase, again, keep, spinner, follower, late, mixed, downFailed>>

(* Mutant: the error of `up` is only logged. *)
BroughtUpSilently(j, ok) ==
    /\ pc[j] = "up"
    /\ running' \in Started(what[j], ok)
    /\ IF ok THEN Says(j, TRUE) ELSE error' = error
    /\ Done(j)
    /\ mixed' = (mixed \/ Active # {j})
    /\ UNCHANGED <<gen, phase, again, keep, spinner, follower, late, downFailed>>

BroughtUp(j, ok) ==
    /\ pc[j] = "up"
    /\ running' \in Started(what[j], ok)
    /\ Says(j, ok)
    /\ Done(j)
    /\ mixed' = (mixed \/ Active # {j})
    /\ UNCHANGED <<gen, phase, again, keep, spinner, follower, late, downFailed>>

JobEnds(j, ok) == RestartEnds(j, ok) \/ Removed(j, ok) \/ BroughtUp(j, ok)

Next ==
    \/ Inspect \/ Follow \/ LosesTrack \/ FollowerEnds \/ CloseProxy \/ NextRun
    \/ \E ok \in BOOLEAN :
           \/ BringUp(ok) \/ TakeDown(ok) \/ Close(ok)
           \/ \E j \in Jobs : JobEnds(j, ok)
    \/ \E j \in Jobs, wipe \in BOOLEAN, s \in Scopes : Ask(j, s, wipe)

\* Docker commands have timeouts; the run goes on, and ends what it began to end.
Fair ==
    /\ WF_vars(Inspect \/ \E ok \in BOOLEAN : BringUp(ok))
    /\ WF_vars(Follow)
    /\ WF_vars(LosesTrack)
    /\ WF_vars(FollowerEnds \/ (\E ok \in BOOLEAN : TakeDown(ok)) \/ CloseProxy \/ NextRun)
    /\ \A j \in Jobs : WF_vars(\E ok \in BOOLEAN : JobEnds(j, ok))

Spec == Init /\ [][Next]_vars /\ Fair

---------------------------------------------------------------------------

TypeOK ==
    /\ gen \in Runs
    /\ phase \in {"inspect", "up", "on", "closing", "down", "torn", "quit"}
    /\ running \subseteq Services
    /\ follower \in {"none", "attached", "backoff", "ended"}
    /\ \A j \in Jobs : pc[j] \in {"idle", "restart", "rm", "up", "done"} /\ what[j] \subseteq Services
    /\ {again, keep, spinner, late, mixed, downFailed} \subseteq BOOLEAN

\* "Every exit path below has to clear it or the indicator spins forever."
SpinnerEnds == phase \notin {"up"} => ~spinner

\* With no job under way, a stack that is not up has its error shown; but for a
\* job on a part of the stack, a restart and jobs that overlap: one error per
\* entry cannot tell whose it is.
StackExplained ==
    phase = "on" /\ Active = {} /\ ~mixed /\ running # Services => error[gen]

\* A stack that is not to be kept is down between two runs and after the last,
\* unless `down` failed or a job was asked for before it that outlived it.
TornDown ==
    phase \in {"torn", "quit"} /\ ~keep /\ ~downFailed /\ ~late => running = {}

\* Nobody follows the stack once its run is over.
FollowerGone == phase \in {"down", "torn", "quit"} => follower = "ended"

Inv == TypeOK /\ SpinnerEnds /\ StackExplained /\ TornDown /\ FollowerGone

\* A job, a start and a shutdown under way; a stack that is up and not followed.
Waiting ==
    \/ Active # {}
    \/ phase \in {"inspect", "up", "closing", "down", "torn"}
    \/ phase = "on" /\ ((running # {}) # (follower = "attached"))

=============================================================================
