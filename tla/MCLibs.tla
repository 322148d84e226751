-------------------------------- MODULE MCLibs --------------------------------
(***************************************************************************)
(* The packages an application is built on, one at a time: which one a     *)
(* behaviour is about is chosen at its start, and the others stand still.  *)
(* The hub is the extended module, for the theorems about it.              *)
(***************************************************************************)
EXTENDS WSHub, Integers, Sequences, TLC

CONSTANTS
    Tasks, Owner, Stoppers, MaxStarts,          \* the janitor
    Calls, Within, Limits, Outside,             \* the group of jobs
    Jobs, Nil,                                  \* concurrent jobs
    Flags, MaxCommits, MaxFaults, Nobody,       \* the flags
    Keys, Rate, Window, Expiry, MaxSize, MaxTime, MaxRequests,      \* the limiter
    Requests, Ids, SubjectOf, Nothing, Duration, Threshold,         \* sessions
    MaxInFlight, MaxRetries,                    \* the server, the database
    Workers, Sizes, MaxCalls,                   \* uploads
    c1, c2, s1, s2, ann, lobby,                 \* connections, sessions, a subject, a room
    first, second, inner,                       \* calls of Go
    session, bob,                               \* a session of the store, and whose it is
    MaxEdits, QueueCap, top, nested, dir        \* static files

\* The owner of the janitor is not one of the others that call Stop.
ASSUME JanitorAssumption == MaxStarts \in Nat /\ Owner \notin Stoppers
\* There are finitely many calls of Go; a limit is a number, zero for none.
ASSUME GroupAssumption ==
    IsFiniteSet(Calls) /\ Limits \subseteq Nat /\ Within \in [Calls -> Calls \cup {Outside}]
\* No error is not an outcome.
ASSUME JobsAssumption == Nil \notin Jobs \cup {"value", "error", "canceled"}
\* Times are numbers; a window has some length and lets something through.
ASSUME LimiterAssumption ==
    /\ Rate \in Nat \ {0} /\ Window \in Nat \ {0} /\ {Expiry, MaxSize} \subseteq Nat
    /\ {MaxTime, MaxRequests} \subseteq Nat
ASSUME SessionsAssumption == {Duration, Threshold, MaxTime} \subseteq Nat
\* The file of the root, the subdirectory and the file in it are three.
ASSUME StaticAssumption ==
    {MaxEdits, QueueCap, MaxFaults} \subseteq Nat /\ top # nested /\ dir \notin {top, nested}
ASSUME ServerAssumption == MaxInFlight \in Nat
\* One attempt at least is allowed: ConnectContext refuses anything less.
ASSUME DBAssumption == MaxRetries \in Nat \ {0}
Two == {c1, c2}
TwoSessions == {s1, s2}
Ann == {ann}
OneRoom == {lobby}
Session == [c \in Conns |-> s1]
Subject == [c \in Conns |-> IF c = c1 THEN ann ELSE Anonymous]
\* The inner call is made in the job of the first.
Nested == [c \in Calls |-> IF c = inner THEN first ELSE Outside]
Bobs == session :> bob
ThreeSizes == <<"small", "medium", "large">>

VARIABLES
    part,
    cur, gens, cron, cancelled, watch, pc, got, asked, disturbed, run, running,
    limit, held, waiters, closed, wg, call, job, closer, metrics,
    how, state, outcome, firstErr, canceled, abandoned, results, answer,
    kind, single, table, cache, loading, setting, started, poll, fwatch, listening, notified,
    dv, last, haveLast, commits, faults, missed, ticks,
    store, failClosed, now, windows, lru, recent, served, forgotten, charged, refused, requests,
    toucher, time, sessions, created, people, spc, token, read, verdict, revoked, late, seenExpired,
    main, serving, failed, errCh, signaled, shut, inFlight, refresh, outcome2,
    dpc, attempt, pings, dlate, dcanceled, pool, result,
    media, remote, stored, calls, work, alone, before, residue, badThumb,
    disk, sub, bucket, watched, queue, walk, todo, open, edits, trouble, unheard

J == INSTANCE Janitor
G == INSTANCE AsyncGroup WITH Callers <- Calls
M == INSTANCE AsyncJobs
F == INSTANCE FeatureFlags WITH Keys <- Flags, watch <- fwatch
R == INSTANCE RateLimit
A == INSTANCE Sessions WITH
        Subject <- SubjectOf, now <- time, subjects <- people, pc <- spc, answer <- verdict
S == INSTANCE AppServer WITH answer <- outcome2
D == INSTANCE DBConnect WITH pc <- dpc, late <- dlate, canceled <- dcanceled, answer <- result
U == INSTANCE MediaStore WITH kind <- media
Y == INSTANCE StaticSync WITH
        Top <- top, Inner <- nested, Sub <- dir, pc <- walk, faults <- trouble

\* The objects of a video are named apart from the sizes of an image.
ASSUME MediaAssumption ==
    /\ MaxCalls \in Nat
    /\ Sizes # <<>> /\ Sizes \in Seq(U!Names \ {"video", "thumb"})
ASSUME FlagsAssumption ==
    /\ MaxCommits \in Nat /\ MaxFaults \in Nat
    /\ Nobody \notin [key : Flags, saved : F!Versions]
    /\ Nobody \notin [by : F!Callers, listed : BOOLEAN, rows : F!Tables]

hvars == <<clients, subjects, rooms, joined, subject, chan, queued, conn, reader, writer, hub,
           newest, crashed>>
jvars == <<cur, gens, cron, cancelled, watch, pc, got, asked, disturbed, run, running>>
gvars == <<limit, held, waiters, closed, wg, call, job, closer, metrics>>
mvars == <<how, state, outcome, firstErr, canceled, abandoned, results, answer>>
fvars == <<kind, single, table, cache, loading, setting, started, poll, fwatch, listening, notified,
           dv, last, haveLast, commits, faults, missed, ticks>>
rvars == <<store, failClosed, now, windows, lru, recent, served, forgotten, charged, refused,
           requests>>
avars == <<toucher, time, sessions, created, people, spc, token, read, verdict, revoked, late, seenExpired>>
svars == <<main, serving, failed, errCh, signaled, shut, inFlight, refresh, outcome2>>
dvars == <<dpc, attempt, pings, dlate, dcanceled, pool, result>>
uvars == <<media, remote, stored, calls, work, alone, before, residue, badThumb>>
yvars == <<disk, sub, bucket, watched, queue, walk, todo, open, edits, trouble, unheard>>

mcvars == <<part, hvars, jvars, gvars, mvars, fvars, rvars, avars, svars, dvars, uvars, yvars>>

\* Everything but the hub, the janitor, the group, the flags, the server.
NotHub     == <<part, jvars, gvars, mvars, fvars, rvars, avars, svars, dvars, uvars, yvars>>
NotJanitor == <<part, hvars, gvars, mvars, fvars, rvars, avars, svars, dvars, uvars, yvars>>
NotGroup   == <<part, hvars, jvars, mvars, fvars, rvars, avars, svars, dvars, uvars, yvars>>
NotFlags   == <<part, hvars, jvars, gvars, mvars, rvars, avars, svars, dvars, uvars, yvars>>
NotServer  == <<part, hvars, jvars, gvars, mvars, fvars, rvars, avars, dvars, uvars, yvars>>

Parts == {"hub", "janitor", "group", "jobs", "flags", "limiter", "sessions", "server", "db",
          "media", "static"}

MCInit ==
    /\ part \in Parts
    /\ Init /\ J!Init /\ G!Init /\ M!Init /\ F!Init /\ R!Init /\ A!Init /\ S!Init /\ D!Init
    /\ U!Init /\ Y!Init
    /\ part # "group" => limit = CHOOSE n \in Limits : TRUE
    /\ part # "jobs" => how = "all"
    /\ (part # "flags" \/ kind = "postgres") => single
    /\ part # "flags" => kind = "postgres"
    /\ (part # "limiter" \/ store = "memory") => failClosed
    /\ part # "limiter" => store = "memory"
    /\ part # "sessions" => toucher
    /\ remote /\ (part # "media" => media = "image")  \* what S3 does includes what a disk does
    /\ part # "static" => sub

MCNext ==
    \/ part = "hub" /\ Next /\ UNCHANGED NotHub
    \/ part = "janitor" /\ J!Next /\ UNCHANGED NotJanitor
    \/ part = "group" /\ G!Next /\ UNCHANGED NotGroup
    \/ part = "flags" /\ F!Next /\ UNCHANGED NotFlags
    \/ part = "server" /\ S!Next /\ UNCHANGED NotServer
    \/ /\ UNCHANGED <<part, hvars, jvars, gvars, fvars, svars>>
       /\ \/ part = "jobs" /\ M!Next /\ UNCHANGED <<rvars, avars, dvars, uvars, yvars>>
          \/ part = "limiter" /\ R!Next /\ UNCHANGED <<mvars, avars, dvars, uvars, yvars>>
          \/ part = "sessions" /\ A!Next /\ UNCHANGED <<mvars, rvars, dvars, uvars, yvars>>
          \/ part = "db" /\ D!Next /\ UNCHANGED <<mvars, rvars, avars, uvars, yvars>>
          \/ part = "media" /\ U!Next /\ UNCHANGED <<mvars, rvars, avars, dvars, yvars>>
          \/ part = "static" /\ Y!Next /\ UNCHANGED <<mvars, rvars, avars, dvars, uvars>>

\* The pumps of the hub and its Close; a callback returns.
HubFair ==
    /\ \A c \in Conns :
           /\ WF_hvars(part = "hub" /\ CallbackReturns(c))
           /\ WF_hvars(part = "hub" /\ ReadFails(c))
           /\ WF_hvars(part = "hub" /\ Unregister(c))
           /\ WF_hvars(part = "hub" /\ TakeMessage(c))
           /\ WF_hvars(part = "hub" /\ WriterEnds(c))
           /\ WF_hvars(part = "hub" /\ Written(c))
    /\ WF_hvars(part = "hub" /\ Cancel)
    /\ WF_hvars(part = "hub" /\ ClearMaps)

\* Start, Stop and the goroutine Start leaves go on; a task has a timeout.
JanitorFair ==
    /\ WF_jvars(part = "janitor" /\ J!StartGoesOn(Owner))
    /\ \A g \in J!Gens : WF_jvars(part = "janitor" /\ J!WatchStep(g))
    /\ \A p \in J!Callers : WF_jvars(part = "janitor" /\ J!StopStep(p))
    /\ \A r \in J!Runs : WF_jvars(part = "janitor" /\ J!RunStep(r))

\* Calls once made go on, and the jobs end.
GroupFair ==
    /\ \A c \in Calls : WF_gvars(part = "group" /\ G!Progress(c))
    /\ WF_gvars(part = "group" /\ G!CloseReturns)

\* The ticker ticks, queries return, and a reload gets mu.
FlagsFair ==
    /\ WF_fvars(part = "flags" /\ (F!Save \/ F!StoreSet \/ F!List \/ F!StoreRules))
    /\ WF_fvars(part = "flags" /\ F!PollTicks)
    /\ \A who \in {"start", "poll", "watch"} :
           WF_fvars(part = "flags" /\ F!BeginReload(who))

\* The goroutines of the server run; Shutdown ends, by its timeout at the latest.
ServerFair ==
    /\ WF_svars(part = "server" /\ (S!Serve \/ S!StopServing("closed") \/ S!SendError \/ S!CloseErrCh))
    /\ WF_svars(part = "server" /\ (S!Woken \/ S!ShutdownEnds \/ S!Drain))
    /\ WF_svars(part = "server" /\ S!RefreshEnds)

MCSpec == MCInit /\ [][MCNext]_mcvars /\ HubFair /\ JanitorFair /\ GroupFair /\ FlagsFair /\ ServerFair

(***************************************************************************)
(* What each of them promises; the hub's are Inv and NewestIsReached.      *)
(***************************************************************************)
\* The janitor runs no task twice at once and its Stop drains; a group keeps its
\* limit and Close waits for every job; concurrent jobs keep the first error.
WorkersInv ==
    /\ part = "janitor" => J!Inv /\ J!StopDrains
    /\ part = "group" => G!Inv
    /\ part = "jobs" => M!FirstErrorWins

\* What makes the cache of flags older than the table is still to be noticed.
FlagsInv == part = "flags" => F!Inv

\* The limiter serves no key beyond its rate; a session is as its owner left it;
\* an error of the server or of the database is reported; what is uploaded is whole,
\* and the bucket follows the directory of static files.
ServeInv ==
    /\ part = "limiter" => R!Inv
    /\ part = "sessions" => A!Inv
    /\ part = "server" => S!Inv
    /\ part = "db" => D!Inv
    /\ part = "media" => U!Inv
    /\ part = "static" => Y!Inv

\* The cache of flags never goes back to an older version of a rule.
FlagsNeverGoBack == F!NeverGoesBack

\* What waits comes back: Close of the hub and its pumps, Stop of the janitor, Go
\* and Close of a group, Start of the server; and a stale cache of flags is
\* brought up to date.
Waiting ==
    \/ part = "hub" /\ Ending
    \/ part = "janitor" /\ J!Stopping
    \/ part = "group" /\ G!Waiting
    \/ part = "server" /\ S!Ending
    \/ part = "flags" /\ F!Stale
CallsReturn == Waiting ~> ~Waiting
===============================================================================
