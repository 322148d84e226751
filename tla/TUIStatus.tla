------------------------------ MODULE TUIStatus ------------------------------
(***************************************************************************)
(* The status of the terminal UI (internal/devserver/tui: model.go,        *)
(* runtime.go): which work is in flight, the errors, the spinner.  It is   *)
(* fed by the event bus of the run that is up, by the results of the makes *)
(* the UI has asked for, and by snapshots of the error state; every sender *)
(* is a goroutine of its own, blocked until the UI takes its message.      *)
(***************************************************************************)
EXTENDS Naturals, Sequences, SequencesExt, FiniteSets

CONSTANTS
    Jobs,       \* builds, composes and makes
    Builds,     \* those of them that are builds of a rule
    Own,        \* the makes dispatched by this UI
    Label,      \* what the bar shows for a job; two makes of a target share it
    Pushers,    \* goroutines that change the error state
    Runner,     \* the goroutine of Run
    Cap,        \* size of a subscription's channel (16 in the code)
    MaxRuns,    \* bound: runs of the dev server
    MaxEvents,  \* bound: jobs started, and changes of the errors
    MaxTicks    \* bound: ticks of the spinner in flight

Everyone == Pushers \cup {Runner}

VARIABLES
    run, server,             \* which run; "up", "down" or "coming"
    work,                    \* jobs in flight
    bus,                     \* by run: events the UI has yet to take
    ready,                   \* the runner is sending actionsReadyMsg
    results,                 \* own makes whose runFinishedMsg is being sent
    active, restarting,      \* the fields of Model
    spinning, ticks,         \*   with the spinTickMsgs that are scheduled
    errs, push, got, errors, \* ErrorState; who pushes it, with what; the bar's
    events,                  \* jobs started and changes made so far
    lost, late, early, twin, \* history, see TellsTheTruth
    overlap                  \* history, see ErrorsShown

serverVars == <<run, server, work, results, twin>>
barVars    == <<active, restarting, spinning, ticks>>
errVars    == <<errs, push, got, errors, overlap>>
vars == <<run, server, work, bus, ready, results, active, restarting, spinning, ticks, errs, push,
          got, errors, events, lost, late, early, twin, overlap>>

Event == [kind : {"start", "end", "restarting"}, job : Jobs]

TypeOK ==
    /\ run \in 1 .. MaxRuns /\ server \in {"up", "down", "coming"} /\ work \subseteq Jobs
    /\ \A r \in 1 .. MaxRuns : Len(bus[r]) <= Cap /\ Range(bus[r]) \subseteq Event
    /\ ready \in BOOLEAN /\ results \subseteq Own
    /\ Range(active) \subseteq Range(Label) /\ IsInjective(active)
    /\ restarting \in BOOLEAN /\ spinning \in BOOLEAN /\ ticks \in 0 .. MaxTicks
    /\ errs \in BOOLEAN /\ errors \in BOOLEAN /\ got \in [Everyone -> BOOLEAN]
    /\ push \in [Everyone -> {"idle", "look", "send"}]

Init ==
    /\ run = 1 /\ server = "up" /\ work = {} /\ bus = [r \in 1 .. MaxRuns |-> <<>>]
    /\ ready = FALSE /\ results = {} /\ active = <<>> /\ restarting = FALSE
    /\ spinning = FALSE /\ ticks = 0
    /\ errs = FALSE /\ errors = FALSE
    /\ push = [p \in Everyone |-> "idle"] /\ got = [p \in Everyone |-> FALSE]
    /\ events = 0 /\ lost = {} /\ late = FALSE /\ early = {} /\ twin = {} /\ overlap = FALSE

-----------------------------------------------------------------------------
(* The dev server.                                                         *)

(* A full channel gives up its oldest event.                               *)
Broadcast(kind, j) ==
    LET full == Len(bus[run]) = Cap
        rest == IF full THEN Tail(bus[run]) ELSE bus[run]
    IN /\ bus' = [bus EXCEPT ![run] = Append(rest, [kind |-> kind, job |-> j])]
       /\ lost' = IF full THEN lost \cup {Head(bus[run])} ELSE lost

StartWork(j) ==
    /\ server = "up" /\ j \notin work \cup results /\ events < MaxEvents
    /\ work' = work \cup {j} /\ events' = events + 1 /\ twin' = twin \ {j}
    /\ early' = early \ {j}
    /\ Broadcast("start", j)
    /\ UNCHANGED <<run, server, ready, results, barVars, errVars, late>>

(* It ends, well or not; the result of an own make arrives apart.          *)
EndWork(j) ==
    /\ j \in work /\ server # "coming"
    /\ work' = work \ {j}
    /\ results' = IF j \in Own THEN results \cup {j} ELSE results
    /\ twin' = twin \cup {i \in work \ {j} : Label[i] = Label[j]}
    /\ Broadcast("end", j)
    /\ UNCHANGED <<run, server, ready, barVars, errVars, events, late, early>>

Restart ==
    /\ server = "up" /\ run < MaxRuns
    /\ server' = "down"
    /\ Broadcast("restarting", CHOOSE j \in Jobs : TRUE)
    /\ UNCHANGED <<run, work, ready, results, barVars, errVars, events, late, early, twin>>

(* onActions: what the old run was doing died with it; the subscription to *)
(* its bus is closed, but its goroutine goes on with what it holds.        *)
NewRun ==
    /\ server = "down" /\ push[Runner] = "idle"
    /\ server' = "coming" /\ run' = run + 1 /\ ready' = TRUE
    /\ results' = results \cup (work \cap Own) /\ work' = {}
    /\ errs' = FALSE
    /\ UNCHANGED <<bus, barVars, push, got, errors, events, lost, late, early, twin, overlap>>

-----------------------------------------------------------------------------
(* What the UI takes.                                                      *)

Busy(b, a) == b \/ a # <<>>

(* spinIfBusy: no second chain of ticks.                                   *)
SpinIfBusy ==
    IF Busy(restarting', active') /\ ~spinning
       THEN spinning' = TRUE /\ ticks' = ticks + 1
       ELSE UNCHANGED <<spinning, ticks>>

(* Mutant: the end of a job clears whatever is shown.                      *)
DeactivateAll(label) == <<>>

Activate(label)   == IF label \in Range(active) THEN active ELSE Append(active, label)
Deactivate(label) ==
    IF label \in Range(active) THEN RemoveAt(active, CHOOSE i \in DOMAIN active : active[i] = label) ELSE active

(* applyBrokerEvent.                                                       *)
ApplyEvent(e) ==
    CASE e.kind = "start" ->
            /\ active' = Activate(Label[e.job])
            /\ restarting' = (restarting /\ e.job \notin Builds)
      [] e.kind = "end" -> active' = Deactivate(Label[e.job]) /\ UNCHANGED restarting
      [] OTHER -> restarting' = TRUE /\ UNCHANGED active

TakeEvent(r) ==
    /\ bus[r] # <<>>
    /\ ApplyEvent(Head(bus[r])) /\ SpinIfBusy
    /\ bus' = [bus EXCEPT ![r] = Tail(@)]
    /\ late' = (late \/ (r < run /\ ~ready))
    /\ ticks' <= MaxTicks
    /\ UNCHANGED <<serverVars, ready, errVars, events, lost, early>>

(* Mutant: the bar keeps what the old run was doing.                       *)
TakeReadyKeepingWork ==
    /\ ready /\ ready' = FALSE /\ server' = "up"
    /\ restarting' = FALSE /\ spinning' = FALSE
    /\ push' = [push EXCEPT ![Runner] = "look"] /\ overlap' = (\E p \in Pushers : push[p] # "idle")
    /\ lost' = {} /\ late' = FALSE
    /\ UNCHANGED <<run, work, bus, results, active, ticks, errs, got, errors, events, early, twin>>

(* actionsReadyMsg; the runner then pushes the errors of the new run.      *)
TakeReady ==
    /\ ready /\ ready' = FALSE /\ server' = "up"
    /\ active' = <<>> /\ restarting' = FALSE /\ spinning' = FALSE
    /\ push' = [push EXCEPT ![Runner] = "look"] /\ overlap' = (\E p \in Pushers : push[p] # "idle")
    /\ lost' = {} /\ late' = FALSE
    /\ UNCHANGED <<run, work, bus, results, ticks, errs, got, errors, events, early, twin>>

OnTheBus(kind, j) == \E i \in 1 .. Len(bus[run]) : bus[run][i] = [kind |-> kind, job |-> j]

(* Mutant: the result of a make says nothing about the bar.                *)
TakeResultQuietly(j) ==
    /\ j \in results /\ results' = results \ {j}
    /\ UNCHANGED <<run, server, work, bus, ready, barVars, errVars, events, lost, late, early, twin>>

(* runFinishedMsg.                                                         *)
TakeResult(j) ==
    /\ j \in results /\ results' = results \ {j}
    /\ active' = Deactivate(Label[j])
    /\ early' = IF OnTheBus("start", j) THEN early \cup {j} ELSE early
    /\ twin' = twin \cup {i \in work : Label[i] = Label[j]}
    /\ UNCHANGED <<run, server, work, bus, ready, restarting, spinning, ticks, errVars, events, lost, late>>

(* Mutant: the chain ends and leaves spinning set.                         *)
TickLatches ==
    /\ ticks > 0 /\ ~Busy(restarting, active)
    /\ ticks' = ticks - 1
    /\ UNCHANGED <<serverVars, bus, ready, active, restarting, spinning, errVars, events, lost, late, early>>

(* spinTickMsg: while busy a tick schedules the next.                      *)
Tick ==
    /\ ticks > 0 /\ ~Busy(restarting, active)
    /\ ticks' = ticks - 1 /\ spinning' = FALSE
    /\ UNCHANGED <<serverVars, bus, ready, active, restarting, errVars, events, lost, late, early>>

-----------------------------------------------------------------------------
(* The errors: Set or Clear under the lock; then, without it, push takes a *)
(* snapshot and sends it.                                                  *)

ChangeErrors(p) ==
    /\ server = "up" /\ push[p] = "idle" /\ events < MaxEvents
    /\ errs' = ~errs /\ events' = events + 1 /\ push' = [push EXCEPT ![p] = "look"]
    /\ overlap' = (\E q \in Everyone \ {p} : push[q] # "idle")
    /\ UNCHANGED <<serverVars, bus, ready, barVars, got, errors, lost, late, early>>

(* Mutant: what is pushed is what was there before the change.             *)
LookBefore(p) ==
    /\ push[p] = "look" /\ push' = [push EXCEPT ![p] = "send"]
    /\ got' = [got EXCEPT ![p] = ~errs]
    /\ UNCHANGED <<serverVars, bus, ready, barVars, errs, errors, events, lost, late, early, overlap>>

Look(p) ==
    /\ push[p] = "look" /\ push' = [push EXCEPT ![p] = "send"]
    /\ got' = [got EXCEPT ![p] = errs]
    /\ UNCHANGED <<serverVars, bus, ready, barVars, errs, errors, events, lost, late, early, overlap>>

TakeErrors(p) ==
    /\ push[p] = "send" /\ push' = [push EXCEPT ![p] = "idle"]
    /\ errors' = got[p]
    /\ UNCHANGED <<serverVars, bus, ready, barVars, errs, got, events, lost, late, early, overlap>>

-----------------------------------------------------------------------------
Take ==
    \/ TakeReady \/ Tick
    \/ \E r \in 1 .. MaxRuns : TakeEvent(r)
    \/ \E j \in Own : TakeResult(j)
Next ==
    \/ \E j \in Jobs : StartWork(j) \/ EndWork(j)
    \/ Restart \/ NewRun \/ Take
    \/ \E p \in Pushers : ChangeErrors(p)
    \/ \E p \in Everyone : Look(p) \/ TakeErrors(p)

Spec == Init /\ [][Next]_vars

-----------------------------------------------------------------------------
(* When the UI has taken everything, it is not "restarting", what it shows *)
(* is in flight and what is in flight is shown (189, 1325-1348), unless an *)
(* event was evicted or came from an earlier run after the new one was     *)
(* announced.  The end of an own make may be evicted all the same, for its *)
(* result is sent apart (366), if it does not overtake the start.  Of two  *)
(* runs of one target the first to end takes the label with it.            *)
Settled == server = "up" /\ ~ready /\ results = {} /\ \A r \in 1 .. MaxRuns : bus[r] = <<>>
LostAn(kind, j) == [kind |-> kind, job |-> j] \in lost
TellsTheTruth ==
    Settled /\ ~late =>
        /\ ~restarting
        /\ \A l \in Range(active) : \E j \in Jobs : Label[j] = l /\
              (j \in work \/ (LostAn("end", j) /\ (j \in Own => j \in early)))
        /\ \A j \in work \ twin : LostAn("start", j) \/ Label[j] \in Range(active)

(* While the bar is busy its spinner turns, also after a restart (1776).   *)
SpinnerTurns == (Busy(restarting, active) => spinning) /\ (spinning => ticks > 0)

(* When nobody pushes, the bar shows the errors there are, unless two      *)
(* pushes overlapped: the older snapshot may then have been sent last      *)
(* (runtime.go 130-137, errorstate.go 31-50).                              *)
ErrorsShown == (\A p \in Everyone : push[p] = "idle") /\ ~overlap /\ server = "up" /\ ~ready => errors = errs

(* The invariant: types, and a bar that shows what is going on.            *)
Inv == TypeOK /\ TellsTheTruth /\ SpinnerTurns /\ ErrorsShown
=============================================================================
