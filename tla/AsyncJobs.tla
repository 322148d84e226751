------------------------------- MODULE AsyncJobs -------------------------------
(***************************************************************************)
(* The functions that run jobs side by side and wait for them: All, Map    *)
(* and Settle (pkg/async/async.go).  A job ends with a value, an error or  *)
(* a panic, which becomes an error; one that heeds the context gives up    *)
(* when an error elsewhere canceled it, or the caller's own context ended. *)
(***************************************************************************)
EXTENDS Integers, FiniteSets

CONSTANTS
    Jobs,         \* the functions, or the items of Map
    Nil           \* no error, and no result

VARIABLES
    how,          \* "all", "map" or "settle"
    state,        \* what each job is at
    outcome,      \* what each ended with: "value", "error" or "canceled"
    firstErr,     \* the job whose error came first
    canceled,     \* the derived context, by an error
    abandoned,    \* the caller's context was canceled
    results,      \* what Map and Settle have noted per job
    answer        \* what the caller got

vars == <<how, state, outcome, firstErr, canceled, abandoned, results, answer>>

TypeOK ==
    /\ how \in {"all", "map", "settle"}
    /\ state \in [Jobs -> {"running", "ended", "done"}]
    /\ outcome \in [Jobs -> {Nil, "value", "error", "canceled"}]
    /\ firstErr \in Jobs \cup {Nil}
    /\ canceled \in BOOLEAN /\ abandoned \in BOOLEAN
    /\ results \in [Jobs -> {Nil, "value", "error", "canceled"}]

Init ==
    /\ how \in {"all", "map", "settle"}
    /\ state = [j \in Jobs |-> "running"]
    /\ outcome = [j \in Jobs |-> Nil]
    /\ firstErr = Nil /\ canceled = FALSE /\ abandoned = FALSE
    /\ results = [j \in Jobs |-> Nil]
    /\ answer = Nil

\* fn returns or panics; only a job whose context is canceled gives up. Settle
\* hands on the caller's own.
End(j, o) ==
    /\ state[j] = "running"
    /\ o = "canceled" => canceled \/ abandoned
    /\ state' = [state EXCEPT ![j] = "ended"]
    /\ outcome' = [outcome EXCEPT ![j] = o]
    /\ UNCHANGED <<how, firstErr, canceled, abandoned, results, answer>>

\* Mutant: the last error is kept, whatever came before it.
NoteLast(j) ==
    /\ state[j] = "ended"
    /\ state' = [state EXCEPT ![j] = "done"]
    /\ LET failed == outcome[j] # "value" IN
       /\ firstErr' = IF failed /\ how # "settle" THEN j ELSE firstErr
       /\ canceled' = (canceled \/ (failed /\ how # "settle"))
       /\ results' = IF how = "settle" \/ ~failed THEN [results EXCEPT ![j] = outcome[j]] ELSE results
    /\ UNCHANGED <<how, outcome, abandoned, answer>>

\* once.Do keeps the first error and cancels the others; Settle keeps them all.
Note(j) ==
    /\ state[j] = "ended"
    /\ state' = [state EXCEPT ![j] = "done"]
    /\ LET failed == outcome[j] # "value" IN
       /\ IF failed /\ how # "settle" /\ firstErr = Nil
          THEN firstErr' = j /\ canceled' = TRUE
          ELSE UNCHANGED <<firstErr, canceled>>
       /\ results' = IF how = "settle" \/ ~failed THEN [results EXCEPT ![j] = outcome[j]] ELSE results
    /\ UNCHANGED <<how, outcome, abandoned, answer>>

\* The context the caller passed ends, and the derived one with it.
Abandon ==
    /\ answer = Nil /\ ~abandoned
    /\ abandoned' = TRUE
    /\ UNCHANGED <<how, state, outcome, firstErr, canceled, results, answer>>

\* wg.Wait, and what is returned.
Return ==
    /\ answer = Nil
    /\ \A j \in Jobs : state[j] = "done"
    /\ answer' = IF firstErr # Nil THEN <<"failed", outcome[firstErr]>> ELSE <<"ok", results>>
    /\ UNCHANGED <<how, state, outcome, firstErr, canceled, abandoned, results>>

Next ==
    \/ \E j \in Jobs : Note(j) \/ \E o \in {"value", "error", "canceled"} : End(j, o)
    \/ Abandon \/ Return

\* What All and Map report is the failure that came first, never the giving up
\* it caused in the others (unless the caller gave up itself); nothing is missing from what they return without an
\* error; and Settle reports every job, each by its own outcome (All, Map,
\* Settle).
FirstErrorWins ==
    /\ TypeOK
    /\ answer # Nil =>
           /\ how # "settle" => (answer[1] = "ok" <=> \A j \in Jobs : outcome[j] = "value")
           /\ answer[1] = "failed" => answer[2] = "error" \/ (abandoned /\ answer[2] = "canceled")
           /\ answer[1] = "ok" => answer[2] = outcome
===============================================================================
