------------------------------- MODULE Watcher -------------------------------
(***************************************************************************)
(* Watcher (internal/devserver/watcher.go): the loop takes what fsnotify   *)
(* reports and arms one debounce timer per rule.  A timer that fires runs  *)
(* in a goroutine of its own, which may be blocked on the events channel   *)
(* while the loop arms the next timer of the rule, or ends.                *)
(***************************************************************************)
EXTENDS Naturals, Sequences, FiniteSets

CONSTANTS
    Rules,
    Cap,       \* size of the events channel (64 in the code)
    MaxSaves   \* bound: saves that match a rule

VARIABLES
    saves,   \* saves of a rule so far
    seen,    \* those that the loop has taken from fsnotify
    timer,   \* the save a rule's armed timer reports, 0 if none is armed
    fired,   \* goroutines of timers that have fired, by rule and save:
    sending, \*   before and in the second select
    events,  \* the events channel
    told,    \* saves of a rule that the dev loop has received (history)
    ctx,     \* "on" or "done"
    done     \* w.done is closed

vars == <<saves, seen, timer, fired, sending, events, told, ctx, done>>

Events == Rules \X (1 .. MaxSaves)

TypeOK ==
    /\ saves \in [Rules -> 0 .. MaxSaves] /\ seen \in [Rules -> 0 .. MaxSaves]
    /\ timer \in [Rules -> 0 .. MaxSaves]
    /\ fired \subseteq Events /\ sending \subseteq Events
    /\ Len(events) <= Cap /\ \A i \in 1 .. Len(events) : events[i] \in Events
    /\ told \in [Rules -> SUBSET (1 .. MaxSaves)] /\ ctx \in {"on", "done"} /\ done \in BOOLEAN

Init ==
    /\ saves = [r \in Rules |-> 0] /\ seen = [r \in Rules |-> 0] /\ timer = [r \in Rules |-> 0]
    /\ fired = {} /\ sending = {} /\ events = <<>> /\ told = [r \in Rules |-> {}] /\ ctx = "on" /\ done = FALSE

(* A file that matches the rule is written, created, removed or touched.   *)
Save(r) ==
    /\ saves[r] < MaxSaves
    /\ saves' = [saves EXCEPT ![r] = @ + 1]
    /\ UNCHANGED <<seen, timer, fired, sending, events, told, ctx, done>>

(* Mutant: a rule whose timer is there is not given another.               *)
LoopEventOnce(r) ==
    /\ ~done /\ seen[r] < saves[r]
    /\ seen' = [seen EXCEPT ![r] = @ + 1]
    /\ timer' = [timer EXCEPT ![r] = IF @ = 0 THEN seen'[r] ELSE @]
    /\ UNCHANGED <<saves, fired, sending, events, told, ctx, done>>

(* t.Stop on a timer that has fired stops nothing.                         *)
LoopEvent(r) ==
    /\ ~done /\ seen[r] < saves[r]
    /\ seen' = [seen EXCEPT ![r] = @ + 1]
    /\ timer' = [timer EXCEPT ![r] = seen'[r]]
    /\ UNCHANGED <<saves, fired, sending, events, told, ctx, done>>

(* The context is done, or fsnotify's channels are closed.                 *)
LoopExit ==
    /\ ~done /\ ctx = "done"
    /\ done' = TRUE /\ timer' = [r \in Rules |-> 0]
    /\ UNCHANGED <<saves, seen, fired, sending, events, told, ctx>>

Fire(r) ==
    /\ timer[r] # 0
    /\ fired' = fired \cup {<<r, timer[r]>>} /\ timer' = [timer EXCEPT ![r] = 0]
    /\ UNCHANGED <<saves, seen, sending, events, told, ctx, done>>

LookAtDone(e) ==
    /\ e \in fired /\ fired' = fired \ {e}
    /\ sending' = IF done THEN sending ELSE sending \cup {e}
    /\ UNCHANGED <<saves, seen, timer, events, told, ctx, done>>

Send(e) ==
    /\ e \in sending /\ sending' = sending \ {e}
    /\ Len(events) < Cap /\ events' = Append(events, e)
    /\ UNCHANGED <<saves, seen, timer, fired, told, ctx, done>>

(* Mutant: a blocked goroutine is not released.                            *)
GiveUpNever(e) ==
    /\ e \in sending /\ done /\ events = <<>> /\ sending' = sending \ {e}
    /\ UNCHANGED <<saves, seen, timer, fired, events, told, ctx, done>>

GiveUp(e) ==
    /\ e \in sending /\ done /\ sending' = sending \ {e}
    /\ UNCHANGED <<saves, seen, timer, fired, events, told, ctx, done>>

(* The dev loop takes an event.  It may once more when the watcher is done,*)
(* for its select picks any case that is ready.                            *)
Receive ==
    /\ events # <<>> /\ events' = Tail(events)
    /\ LET e == Head(events) IN told' = [told EXCEPT ![e[1]] = @ \cup {e[2]}]
    /\ UNCHANGED <<saves, seen, timer, fired, sending, ctx, done>>

Cancel ==
    /\ ctx = "on" /\ ctx' = "done"
    /\ UNCHANGED <<saves, seen, timer, fired, sending, events, told, done>>

TimerStep(e) == LookAtDone(e) \/ Send(e) \/ GiveUp(e)
Next ==
    \/ \E r \in Rules : Save(r) \/ LoopEvent(r) \/ Fire(r)
    \/ \E e \in Events : TimerStep(e)
    \/ LoopExit \/ Receive \/ Cancel

(* The loop and the timers run, and the dev loop takes its events until the *)
(* watcher is done.                                                         *)
Spec ==
    /\ Init /\ [][Next]_vars
    /\ \A r \in Rules : WF_vars(LoopEvent(r)) /\ WF_vars(Fire(r))
    /\ \A e \in Events : WF_vars(TimerStep(e))
    /\ WF_vars(LoopExit) /\ WF_vars(Receive /\ ~done)

-----------------------------------------------------------------------------
(* Properties.                                                             *)

(* The saves that are still on their way to the dev loop.                  *)
OnTheirWay(r) ==
    {v \in 1 .. saves[r] :
        \/ v > seen[r] \/ v = timer[r] \* not seen yet, or debounced
        \/ <<r, v>> \in fired \cup sending \cup {events[i] : i \in 1 .. Len(events)}}

Feed == INSTANCE ChangeFeed WITH
    owed <- [r \in Rules |-> OnTheirWay(r)], stopped <- done

(* The watcher keeps the promise of ChangeFeed: whichever way the loop,    *)
(* the timers and the channel interleave, the newest save of a rule is     *)
(* never lost, and no save is told twice.                                  *)
KeepsThePromise == Feed!Spec

(* When the watcher is done no timer goroutine may be left behind, even if *)
(* the channel is full and nobody reads it.                                *)
Leaving == done /\ ~(fired = {} /\ sending = {} /\ \A r \in Rules : timer[r] = 0)
=============================================================================
