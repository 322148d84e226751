------------------------------ MODULE DBConnect ------------------------------
(***************************************************************************)
(* How a program gets its database (pkg/db/db.go): ConnectContext opens a  *)
(* pool and pings it, again and again after a pause, until a ping succeeds,*)
(* the attempts are used up or the context is canceled.                    *)
(***************************************************************************)
EXTENDS Integers

CONSTANTS MaxRetries    \* ConnectConfig.MaxRetries

VARIABLES
    pc,           \* "validate", "ping", "failed", "sleep" or "returned"
    attempt,      \* the attempt under way
    pings,        \* pings made
    late,         \* pings begun after the cancellation
    canceled,     \* the caller's context
    pool,         \* "none", "open" or "closed"
    answer        \* "none", "db", or what the error says

vars == <<pc, attempt, pings, late, canceled, pool, answer>>

TypeOK ==
    /\ pc \in {"validate", "ping", "failed", "sleep", "returned"}
    /\ attempt \in 0 .. MaxRetries /\ pings \in 0 .. MaxRetries /\ late \in 0 .. MaxRetries
    /\ canceled \in BOOLEAN
    /\ pool \in {"none", "open", "closed"}
    /\ answer \in {"none", "db", "invalid", "canceled", "connecting"}

Init ==
    /\ pc = "validate" /\ attempt = 0 /\ pings = 0 /\ late = 0
    /\ canceled = FALSE /\ pool = "none" /\ answer = "none"

Return(a, p) == pc' = "returned" /\ answer' = a /\ pool' = p

\* The URL and the options are looked at before anything is opened.
Validate ==
    /\ pc = "validate"
    /\ \/ Return("invalid", pool)
       \/ pc' = "ping" /\ pool' = "open" /\ UNCHANGED answer
    /\ UNCHANGED <<attempt, pings, late, canceled>>

\* A canceled context fails the ping; otherwise it may succeed, fail or time out.
Ping ==
    /\ pc = "ping"
    /\ pings' = pings + 1
    /\ late' = IF canceled THEN late + 1 ELSE late
    /\ \/ ~canceled /\ Return("db", pool)
       \/ pc' = "failed" /\ UNCHANGED <<pool, answer>>
    /\ UNCHANGED <<attempt, canceled>>

\* Mutant: the pool is given up, not closed, after the last attempt.
FailedOpen ==
    /\ pc = "failed"
    /\ IF attempt = MaxRetries - 1 THEN Return("connecting", pool)
       ELSE pc' = "sleep" /\ UNCHANGED <<pool, answer>>
    /\ UNCHANGED <<attempt, pings, late, canceled>>

\* The last attempt closes the pool; before that there is a pause.
Failed ==
    /\ pc = "failed"
    /\ IF attempt = MaxRetries - 1 THEN Return("connecting", "closed")
       ELSE pc' = "sleep" /\ UNCHANGED <<pool, answer>>
    /\ UNCHANGED <<attempt, pings, late, canceled>>

\* The pause ends, with the timer or with the context: both may be ready.
Sleep ==
    /\ pc = "sleep"
    /\ \/ pc' = "ping" /\ attempt' = attempt + 1 /\ UNCHANGED <<pool, answer>>
       \/ canceled /\ Return("canceled", "closed") /\ UNCHANGED attempt
    /\ UNCHANGED <<pings, late, canceled>>

Cancel ==
    /\ ~canceled /\ pc # "returned"
    /\ canceled' = TRUE
    /\ UNCHANGED <<pc, attempt, pings, late, pool, answer>>

Next == Validate \/ Ping \/ Failed \/ Sleep \/ Cancel

\* A pool is handed out or closed, never left open behind an error; no more
\* attempts are made than allowed, and the error of the last one is reported
\* after all of them (ConnectContext).
PoolIsOwned ==
    pc = "returned" =>
        /\ (pool = "open") = (answer = "db")
        /\ answer = "connecting" => pings = MaxRetries

Inv == TypeOK /\ PoolIsOwned
===============================================================================
