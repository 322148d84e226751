------------------------------ MODULE AsyncGroup ------------------------------
(***************************************************************************)
(* A group of background jobs (pkg/async/group.go): Go waits for one of    *)
(* the slots of WithLimit, spawns the job, and Close waits for what was    *)
(* accepted.  Every caller calls Go once; its job carries its name.  A     *)
(* caller may be code inside the job of another, which then holds a slot   *)
(* while it waits for one.  The slots are the weighted semaphore of        *)
(* golang.org/x/sync: first come, first served.                            *)
(***************************************************************************)
EXTENDS Integers, Sequences, FiniteSets

CONSTANTS
    Callers,      \* calls of Go
    Outside,      \* the place of a caller that is not in a job of the group
    Within,       \* [Callers -> Callers \cup {Outside}]: whose job it is called in
    Limits        \* the limits looked at; 0 is a group without one

VARIABLES
    limit,
    held,         \* slots taken
    waiters,      \* the callers that wait for a slot, first come first
    closed,       \* Group.closed
    wg,           \* Group.wg
    call,         \* what each call of Go is at
    job,          \* what the job of each is at
    closer,       \* what the call of Close is at
    metrics       \* how often each callback fired

vars == <<limit, held, waiters, closed, wg, call, job, closer, metrics>>

TypeOK ==
    /\ limit \in Limits
    /\ held \in 0 .. Cardinality(Callers)
    /\ waiters \in Seq(Callers)
    /\ closed \in BOOLEAN
    /\ wg \in 0 .. Cardinality(Callers)
    /\ call \in [Callers -> {"none", "acquire", "blocked", "enter", "accepted", "dropped", "spawned"}]
    /\ job \in [Callers -> {"none", "running", "finished", "released", "done"}]
    /\ closer \in {"none", "waiting", "returned"}
    /\ metrics \in [{"dispatched", "ended"} -> 0 .. Cardinality(Callers)]

Init ==
    /\ limit \in Limits
    /\ held = 0 /\ waiters = << >>
    /\ closed = FALSE /\ wg = 0
    /\ call = [c \in Callers |-> "none"]
    /\ job = [c \in Callers |-> "none"]
    /\ closer = "none"
    /\ metrics = [m \in {"dispatched", "ended"} |-> 0]

\* A caller inside a job runs while that job does.
Running(c) == Within[c] # Outside => job[Within[c]] = "running"
InCall(c)  == call[c] \in {"acquire", "blocked", "enter", "accepted"}

\* Nobody may overtake those who already wait.
SlotFree == held < limit /\ waiters = << >>

\* Go: TryAcquire.
TryAcquire(c) ==
    /\ call[c] = "none" /\ Running(c)
    /\ IF limit = 0 \/ SlotFree
       THEN /\ held' = IF limit = 0 THEN held ELSE held + 1
            /\ call' = [call EXCEPT ![c] = "enter"]
       ELSE /\ call' = [call EXCEPT ![c] = "acquire"]
            /\ UNCHANGED held
    /\ UNCHANGED <<limit, waiters, closed, wg, job, closer, metrics>>

\* Acquire looks again before it waits.
Acquire(c) ==
    /\ call[c] = "acquire"
    /\ IF SlotFree
       THEN held' = held + 1 /\ call' = [call EXCEPT ![c] = "enter"] /\ UNCHANGED waiters
       ELSE /\ waiters' = Append(waiters, c)
            /\ call' = [call EXCEPT ![c] = "blocked"]
            /\ UNCHANGED held
    /\ UNCHANGED <<limit, closed, wg, job, closer, metrics>>

\* A slot given back goes to the one who waits longest; after says what the
\* calls are, the one who gives it back included.
ReleaseSlot(after) ==
    IF limit = 0 THEN call' = after /\ UNCHANGED <<held, waiters>>
    ELSE IF waiters = << >> THEN held' = held - 1 /\ call' = after /\ UNCHANGED waiters
    ELSE /\ waiters' = Tail(waiters)
         /\ call' = [after EXCEPT ![Head(waiters)] = "enter"]
         /\ UNCHANGED held

\* Mutant: whether the group is closed is looked at before the slot is waited for.
EnterUnchecked(c) ==
    /\ call[c] = "enter"
    /\ wg' = wg + 1
    /\ call' = [call EXCEPT ![c] = "accepted"]
    /\ UNCHANGED <<held, waiters, limit, closed, job, closer, metrics>>

\* Mutant: a call the closed group drops keeps its slot.
EnterKeepingSlot(c) ==
    /\ call[c] = "enter"
    /\ IF closed
       THEN call' = [call EXCEPT ![c] = "dropped"] /\ UNCHANGED wg
       ELSE wg' = wg + 1 /\ call' = [call EXCEPT ![c] = "accepted"]
    /\ UNCHANGED <<held, waiters, limit, closed, job, closer, metrics>>

\* Under mu: after Close the call does nothing; otherwise the group counts it.
Enter(c) ==
    /\ call[c] = "enter"
    /\ IF closed
       THEN ReleaseSlot([call EXCEPT ![c] = "dropped"]) /\ UNCHANGED wg
       ELSE /\ wg' = wg + 1
            /\ call' = [call EXCEPT ![c] = "accepted"]
            /\ UNCHANGED <<held, waiters>>
    /\ UNCHANGED <<limit, closed, job, closer, metrics>>

\* The metrics, then the goroutine.
Dispatch(c) ==
    /\ call[c] = "accepted"
    /\ call' = [call EXCEPT ![c] = "spawned"]
    /\ job' = [job EXCEPT ![c] = "running"]
    /\ metrics' = [metrics EXCEPT !["dispatched"] = @ + 1]
    /\ UNCHANGED <<limit, held, waiters, closed, wg, closer>>

\* fn returns or panics; either is counted.
Finish(c) ==
    /\ job[c] = "running"
    /\ \A d \in Callers : Within[d] = c => ~InCall(d)
    /\ job' = [job EXCEPT ![c] = "finished"]
    /\ metrics' = [metrics EXCEPT !["ended"] = @ + 1]
    /\ UNCHANGED <<limit, held, waiters, closed, wg, call, closer>>

Release(c) ==
    /\ job[c] = "finished"
    /\ ReleaseSlot(call)
    /\ job' = [job EXCEPT ![c] = "released"]
    /\ UNCHANGED <<limit, closed, wg, closer, metrics>>

Done(c) ==
    /\ job[c] = "released"
    /\ wg' = wg - 1
    /\ job' = [job EXCEPT ![c] = "done"]
    /\ UNCHANGED <<limit, held, waiters, closed, call, closer, metrics>>

Close ==
    /\ closer = "none"
    /\ closed' = TRUE /\ closer' = "waiting"
    /\ UNCHANGED <<limit, held, waiters, wg, call, job, metrics>>

CloseReturns ==
    /\ closer = "waiting" /\ wg = 0
    /\ closer' = "returned"
    /\ UNCHANGED <<limit, held, waiters, closed, wg, call, job, metrics>>

\* A call once made, and its job.
Progress(c) ==
    Acquire(c) \/ Enter(c) \/ Dispatch(c) \/ Finish(c) \/ Release(c) \/ Done(c)

Next == (\E c \in Callers : TryAcquire(c) \/ Progress(c)) \/ Close \/ CloseReturns

(***************************************************************************)
(* Safety                                                                  *)
(***************************************************************************)

\* Never more jobs run at once than the limit, whatever becomes of the calls
\* that wait while the group is closed under them (Go, WithLimit).
WithinLimit ==
    limit > 0 => Cardinality({c \in Callers : job[c] = "running"}) <= limit

\* After Close no job of the group runs and none will: everything accepted was
\* waited for, though Go takes its slot before it looks whether the group is
\* closed, and the metrics agree (Close; "every Dispatched call is followed by
\* exactly one Completed or Panicked").
ClosedIsQuiet ==
    (closer = "returned") =>
        /\ \A c \in Callers : call[c] # "accepted" /\ job[c] \in {"none", "done"}
        /\ metrics["dispatched"] = metrics["ended"]

Inv == TypeOK /\ WithinLimit /\ ClosedIsQuiet

(***************************************************************************)
(* Liveness                                                                *)
(***************************************************************************)

\* The callers whose job calls Go.
Nesting == {Within[c] : c \in Callers} \ {Outside}

\* Somebody waits for the group: in Go, unless as many jobs as there are slots
\* call Go themselves and so may wait for one another, or in Close.
MayDeadlock == limit # 0 /\ limit <= Cardinality(Nesting)
Waiting == ~MayDeadlock /\ ((\E c \in Callers : InCall(c)) \/ closer = "waiting")

\* Go and Close return when the jobs end; each is called once.
CallsReturn == Waiting ~> ~Waiting
===============================================================================
