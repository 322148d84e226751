----------------------------- MODULE FeatureFlags -----------------------------
(***************************************************************************)
(* The in-memory rules of a flags client (pkg/flags/client.go) and what    *)
(* keeps them fresh: its own Set, the reload that every watcher and the    *)
(* safety poll call, LISTEN on Postgres (listen_postgres.go), the data     *)
(* version on SQLite (listen_sqlite.go).  A rule is its version: the       *)
(* number of the commit that wrote it last.  Other processes write the     *)
(* same table.                                                             *)
(***************************************************************************)
EXTENDS Integers, FiniteSets

CONSTANTS
    Keys,         \* flags
    Nobody,       \* nobody holds mu
    MaxCommits,   \* commits to the table
    MaxFaults     \* failed queries and lost connections

VARIABLES
    kind,         \* what watches: "postgres", or "sqlite" on a pool of one or more
    single,       \* SQLite: the pool has one connection, so its own commits are not seen
    table,        \* [Keys -> version]
    cache,        \* [Keys -> version]: Client.snap
    loading,      \* the reload that holds mu: who calls it, and what it listed
    setting,      \* the Set that holds mu: its key, and what became of its Save
    started,      \* Start has loaded, or tried to
    poll,         \* the ticker of the safety poll has fired
    watch,        \* the watcher: "down", "wait" or "reload"
    listening,    \* Postgres: the connection is up and LISTENs
    notified,     \* a notification is on its way
    dv, last,     \* PRAGMA data_version, and the one remembered
    haveLast,
    commits, faults,
    missed,       \* a change was committed that nothing but the poll will find
    ticks         \* data versions read since the last commit of another process

vars == <<kind, single, table, cache, loading, setting, started, poll, watch, listening, notified,
          dv, last, haveLast, commits, faults, missed, ticks>>


Versions == 0 .. MaxCommits
Tables   == [Keys -> Versions]
Callers  == {"start", "poll", "watch"}

TypeOK ==
    /\ kind \in {"postgres", "sqlite"}
    /\ {single, started, poll, listening, notified, haveLast, missed} \subseteq BOOLEAN
    /\ table \in Tables /\ cache \in Tables
    /\ loading \in {Nobody} \cup [by : Callers, listed : BOOLEAN, rows : Tables]
    /\ setting \in {Nobody} \cup [key : Keys, saved : Versions]
    /\ watch \in {"down", "wait", "reload"}
    /\ {dv, last} \subseteq Versions
    /\ commits \in Versions /\ faults \in 0 .. MaxFaults /\ ticks \in 0 .. 2

Init ==
    /\ kind \in {"postgres", "sqlite"} /\ single \in BOOLEAN
    /\ table = [k \in Keys |-> 0] /\ cache = table
    /\ loading = Nobody /\ setting = Nobody
    /\ started = FALSE /\ poll = FALSE
    /\ watch = IF kind = "postgres" THEN "down" ELSE "wait"
    /\ listening = FALSE /\ notified = FALSE
    /\ dv = 0 /\ last = 0 /\ haveLast = FALSE
    /\ commits = 0 /\ faults = 0 /\ missed = FALSE /\ ticks = 0

Fault == faults < MaxFaults /\ faults' = faults + 1

\* Client.mu is held across the store's Save or List.
Unlocked == loading = Nobody /\ setting = Nobody

\* A commit to the table: the trigger notifies whoever listens; the data version
\* of a connection moves when another connection commits.
Commit(k, seen) ==
    /\ commits < MaxCommits
    /\ commits' = commits + 1
    /\ table' = [table EXCEPT ![k] = commits + 1]
    /\ notified' = (notified \/ (kind = "postgres" /\ listening))
    /\ dv' = IF kind = "sqlite" /\ seen THEN dv + 1 ELSE dv

Saving == setting # Nobody /\ setting.saved = 0

\* Another process writes a rule.
OtherCommits(k) ==
    /\ Saving => commits + 1 < MaxCommits
    /\ Commit(k, TRUE)
    /\ missed' = (missed \/ (kind = "sqlite" /\ ~haveLast))
    /\ ticks' = 0
    /\ UNCHANGED <<kind, single, cache, loading, setting, started, poll, watch, listening,
                   last, haveLast, faults>>

(***************************************************************************)
(* Set                                                                     *)
(***************************************************************************)

\* Mutant: mu is taken only to swap the snapshot, not across Save.
BeginSetUnlocked(k) ==
    /\ setting = Nobody /\ commits < MaxCommits
    /\ setting' = [key |-> k, saved |-> 0]
    /\ UNCHANGED <<kind, single, table, cache, loading, started, poll, watch, listening, notified,
                   dv, last, haveLast, commits, faults, missed, ticks>>

BeginSet(k) ==
    /\ Unlocked /\ commits < MaxCommits
    /\ setting' = [key |-> k, saved |-> 0]
    /\ UNCHANGED <<kind, single, table, cache, loading, started, poll, watch, listening, notified,
                   dv, last, haveLast, commits, faults, missed, ticks>>

Save ==
    /\ Saving
    /\ Commit(setting.key, ~single)
    /\ setting' = [setting EXCEPT !.saved = commits + 1]
    /\ UNCHANGED <<kind, single, cache, loading, started, poll, watch, listening, last, haveLast,
                   faults, missed, ticks>>

\* Save reports an error: nothing was written, or it was and the answer got lost.
SaveFails ==
    /\ Saving /\ Fault
    /\ setting' = Nobody
    /\ \/ UNCHANGED <<table, notified, dv, commits, missed>>
       \/ /\ Commit(setting.key, ~single)
          /\ missed' = (missed \/ (kind = "sqlite" /\ (single \/ ~haveLast)))
    /\ UNCHANGED <<kind, single, cache, loading, started, poll, watch, listening, last, haveLast, ticks>>

StoreSet ==
    /\ setting # Nobody /\ ~Saving
    /\ cache' = [cache EXCEPT ![setting.key] = setting.saved]
    /\ setting' = Nobody
    /\ UNCHANGED <<kind, single, table, loading, started, poll, watch, listening, notified,
                   dv, last, haveLast, commits, faults, missed, ticks>>

(***************************************************************************)
(* reload                                                                  *)
(***************************************************************************)

Due(who) ==
    CASE who = "start" -> ~started
      [] who = "poll"  -> started /\ poll
      [] who = "watch" -> started /\ watch = "reload"

BeginReload(who) ==
    /\ Unlocked /\ Due(who)
    /\ loading' = [by |-> who, listed |-> FALSE, rows |-> table]
    /\ UNCHANGED <<kind, single, table, cache, setting, started, poll, watch, listening, notified,
                   dv, last, haveLast, commits, faults, missed, ticks>>

Listing == loading # Nobody /\ ~loading.listed

List ==
    /\ Listing
    /\ loading' = [loading EXCEPT !.listed = TRUE, !.rows = table]
    /\ missed' = FALSE
    /\ UNCHANGED <<kind, single, table, cache, setting, started, poll, watch, listening, notified,
                   dv, last, haveLast, commits, faults, ticks>>

\* The caller goes on, whether the rules came or not.
Continue ==
    /\ loading' = Nobody
    /\ started' = TRUE
    /\ poll' = (poll /\ loading.by # "poll")
    /\ watch' = IF loading.by = "watch" THEN "wait" ELSE watch

\* The error of a reload is logged or ignored.
ListFails ==
    /\ Listing /\ Fault
    /\ Continue
    /\ missed' = (missed \/ (cache # table /\ loading.by # "poll"))
    /\ UNCHANGED <<kind, single, table, cache, setting, listening, notified, dv, last, haveLast,
                   commits, ticks>>

StoreRules ==
    /\ loading # Nobody /\ loading.listed
    /\ cache' = loading.rows
    /\ Continue
    /\ UNCHANGED <<kind, single, table, setting, listening, notified, dv, last, haveLast,
                   commits, faults, missed, ticks>>

\* Mutant: the safety poll is not started.
NeverTicks ==
    /\ started /\ ~poll /\ FALSE
    /\ UNCHANGED vars

\* Start: the safety poll's ticker fires.
PollTicks ==
    /\ started /\ ~poll
    /\ poll' = TRUE
    /\ UNCHANGED <<kind, single, table, cache, loading, setting, started, watch, listening, notified,
                   dv, last, haveLast, commits, faults, missed, ticks>>

(***************************************************************************)
(* The watcher on Postgres                                                 *)
(***************************************************************************)

\* Mutant: what was sent while nobody listened is not looked for.
ListenOnly ==
    /\ kind = "postgres" /\ started /\ watch = "down"
    /\ listening' = TRUE /\ watch' = "wait"
    /\ UNCHANGED <<kind, single, table, cache, loading, setting, started, poll, notified,
                   dv, last, haveLast, commits, faults, missed, ticks>>

\* waitLoop: LISTEN, then a reload for what was sent before.
Listen ==
    /\ kind = "postgres" /\ started /\ watch = "down"
    /\ listening' = TRUE /\ watch' = "reload"
    /\ UNCHANGED <<kind, single, table, cache, loading, setting, started, poll, notified,
                   dv, last, haveLast, commits, faults, missed, ticks>>

WaitForNotification ==
    /\ watch = "wait" /\ notified
    /\ notified' = FALSE /\ watch' = "reload"
    /\ UNCHANGED <<kind, single, table, cache, loading, setting, started, poll, listening,
                   dv, last, haveLast, commits, faults, missed, ticks>>

ConnectionLost ==
    /\ listening /\ Fault
    /\ listening' = FALSE /\ notified' = FALSE
    /\ UNCHANGED <<kind, single, table, cache, loading, setting, started, poll, watch,
                   dv, last, haveLast, commits, missed, ticks>>

\* The wait ends with the error; watchPostgres listens again.
LossNoticed ==
    /\ kind = "postgres" /\ watch = "wait" /\ ~listening
    /\ watch' = "down"
    /\ UNCHANGED <<kind, single, table, cache, loading, setting, started, poll, listening, notified,
                   dv, last, haveLast, commits, faults, missed, ticks>>

(***************************************************************************)
(* The watcher on SQLite                                                   *)
(***************************************************************************)

\* watchSQLite, once a second: the first version read is only remembered.
Tick ==
    /\ kind = "sqlite" /\ started /\ watch = "wait"
    /\ watch' = IF haveLast /\ dv # last THEN "reload" ELSE "wait"
    /\ last' = dv /\ haveLast' = TRUE
    /\ ticks' = IF ticks < 2 THEN ticks + 1 ELSE ticks
    /\ UNCHANGED <<kind, single, table, cache, loading, setting, started, poll, listening, notified,
                   dv, commits, faults, missed>>

\* The version cannot be read: the next one starts afresh.
TickFails ==
    /\ kind = "sqlite" /\ started /\ watch = "wait" /\ Fault
    /\ haveLast' = FALSE
    /\ missed' = (missed \/ (haveLast /\ dv # last))
    /\ UNCHANGED <<kind, single, table, cache, loading, setting, started, poll, watch, listening,
                   notified, dv, last, commits, ticks>>

Next ==
    \/ \E k \in Keys : OtherCommits(k) \/ BeginSet(k)
    \/ Save \/ SaveFails \/ StoreSet
    \/ \E who \in Callers : BeginReload(who)
    \/ List \/ ListFails \/ StoreRules \/ PollTicks
    \/ Listen \/ WaitForNotification \/ ConnectionLost \/ LossNoticed
    \/ Tick \/ TickFails

Spec == Init /\ [][Next]_vars

(***************************************************************************)
(* Properties                                                              *)
(***************************************************************************)

\* What the cache will hold of a rule once the operation under way is through.
Coming(k) ==
    IF loading # Nobody /\ loading.listed THEN loading.rows[k]
    ELSE IF setting # Nobody /\ ~Saving /\ setting.key = k THEN setting.saved
    ELSE cache[k]

\* A rule the cache has wrong is one the watcher is about to look at: it is not
\* listening and will reload when it does, a notification waits, the data
\* version has moved, or a reload is owed.  Nothing else is left to the
\* five-minute poll than the changes listed at missed: those under a failed
\* query, and with SQLite those before the first data version was read
\* (watchPostgres, watchSQLite, Set, reload).
StaleIsNoticed ==
    \A k \in Keys :
        Coming(k) # table[k] =>
            \/ ~started \/ missed \/ (loading # Nobody /\ ~loading.listed)
            \/ watch = "reload"
            \/ kind = "postgres" /\ (~listening \/ notified)
            \/ kind = "sqlite" /\ haveLast /\ dv # last

Inv == TypeOK /\ StaleIsNoticed

\* No rule goes back to an older version: neither a reload that listed before a
\* Set, nor a Set that saved before another (reload and Set hold mu across the
\* store's calls).
NeverGoesBack == [][\A k \in Keys : cache'[k] >= cache[k]]_vars

\* The cache is not what the table holds: it comes to agree once nothing is
\* written any more, whatever was missed before, by the poll (Start).
Stale == cache # table

\* "Staleness is up to one second": two data versions read after the last commit
\* of another process, and nothing under way, means that the cache agrees.
UpToOneSecond ==
    (kind = "sqlite" /\ ticks = 2 /\ watch = "wait" /\ Unlocked) => cache = table
===============================================================================
