------------------------------ MODULE RateLimit ------------------------------
(***************************************************************************)
(* The rate limiter of pkg/middleware/ratelimit.go: the middleware and its *)
(* two stores, in memory (a window per key, the least recently active key  *)
(* evicted at the limit, expired windows cleaned up) and in Postgres (one  *)
(* upsert).  Time is in half seconds.                                      *)
(***************************************************************************)
EXTENDS Integers, Sequences, FiniteSets, SequencesExt

CONSTANTS
    Keys,
    Rate,         \* requests a window, the burst included
    Window,       \* the window of Allow
    Expiry,       \* the age at which the clean-up of the memory store takes a window
    MaxSize,      \* WithMaxSize; 0 is no limit
    MaxTime,
    MaxRequests

VARIABLES
    store,        \* "memory" or "pg"
    failClosed,   \* RateLimitConfig.FailClosed
    now,
    windows,      \* [a set of keys -> [count, start]]: the windows, or the table
    lru,          \* the keys, the least recently active first
    recent,       \* the same of every key the memory store was ever asked for
    served,       \* the times at which the requests of a key went through
    forgotten,    \* keys whose window was dropped before it ended, or let through blindly
    charged,      \* keys whose window counts a request turned away unanswered
    refused,      \* the last answer was 429, to this key
    requests

vars == <<store, failClosed, now, windows, lru, recent, served, forgotten, charged, refused,
          requests>>

NoKey == {}
TypeOK ==
    /\ store \in {"memory", "pg"} /\ failClosed \in BOOLEAN
    /\ now \in 0 .. MaxTime /\ requests \in 0 .. MaxRequests
    /\ DOMAIN windows \subseteq Keys
    /\ \A k \in DOMAIN windows : windows[k].count > 0 /\ windows[k].start \in 0 .. now
    /\ lru \in Seq(Keys)
    /\ forgotten \subseteq Keys /\ charged \subseteq Keys

Init ==
    /\ store \in {"memory", "pg"} /\ failClosed \in BOOLEAN
    /\ now = 0 /\ requests = 0
    /\ windows = [k \in {} |-> 0]
    /\ lru = << >> /\ recent = << >>
    /\ served = [k \in Keys |-> << >>]
    /\ forgotten = {} /\ charged = {} /\ refused = NoKey

\* An order of keys, each there once, less a key.
Without(q, k) ==
    IF k \in ToSet(q) THEN RemoveAt(q, CHOOSE i \in DOMAIN q : q[i] = k) ELSE q

\* The members of s in the order of q.
Before(q, x, y) == \E i, j \in DOMAIN q : i < j /\ q[i] = x /\ q[j] = y
InOrderOf(q, s) ==
    {p \in [1 .. Cardinality(s) -> s] :
        ToSet(p) = s /\ \A i, j \in DOMAIN p : i < j => Before(q, p[i], p[j])}

\* The window a request counts in, the request included.
Counted(k) ==
    IF k \in DOMAIN windows /\ now - windows[k].start < Window
    THEN [windows[k] EXCEPT !.count = @ + 1]
    ELSE [count |-> 1, start |-> now]

\* Mutant: a key is moved to the back only when its window starts.
TouchedNew(k) ==
    IF MaxSize = 0 \/ k \in ToSet(lru) THEN lru ELSE Append(lru, k)

\* Every request makes its key the most recently active one.
Touched(k) == IF MaxSize = 0 THEN lru ELSE Append(Without(lru, k), k)

\* MemoryStore.Allow: over the limit the least recently active key is evicted.
MemoryAllow(k) ==
    LET order == Touched(k)
        kept  == IF MaxSize > 0 /\ Len(order) > MaxSize THEN Tail(order) ELSE order
        gone  == ToSet(order) \ ToSet(kept)
    IN  /\ lru' = kept
        /\ windows' = [x \in (DOMAIN windows \cup {k}) \ gone |->
                          IF x = k THEN Counted(k) ELSE windows[x]]
        /\ forgotten' = forgotten \cup {x \in gone : now - windows[x].start < Window}

\* PGStore.Allow: the upsert.
Upserted(k) == [x \in DOMAIN windows \cup {k} |-> IF x = k THEN Counted(k) ELSE windows[x]]
PGAllow(k) ==
    /\ windows' = Upserted(k)
    /\ UNCHANGED <<lru, forgotten>>

Pass(k) == served' = [served EXCEPT ![k] = Append(@, now)] /\ refused' = NoKey

\* A request through the middleware.
Request(k) ==
    /\ requests < MaxRequests
    /\ requests' = requests + 1
    /\ recent' = IF store = "memory" THEN Append(Without(recent, k), k) ELSE recent
    /\ IF store = "memory" THEN MemoryAllow(k) ELSE PGAllow(k)
    /\ IF Counted(k).count <= Rate THEN Pass(k) ELSE refused' = {k} /\ UNCHANGED served
    /\ charged' = IF Counted(k).count = 1 THEN charged \ {k} ELSE charged
    /\ UNCHANGED <<store, failClosed, now>>

\* The database does not answer, the upsert may be committed all the same: the
\* request goes through unless FailClosed.
RequestUnanswered(k) ==
    /\ store = "pg"
    /\ requests < MaxRequests
    /\ requests' = requests + 1
    /\ windows' \in {windows, Upserted(k)}
    /\ IF failClosed
       THEN /\ refused' = NoKey /\ UNCHANGED <<served, forgotten>>
            /\ charged' = IF windows' = windows THEN charged ELSE charged \cup {k}
       ELSE Pass(k) /\ forgotten' = forgotten \cup {k} /\ UNCHANGED charged
    /\ UNCHANGED <<store, failClosed, now, lru, recent>>

\* The expired windows go, from the map and from the order.
Drop(gone) ==
    /\ gone # {}
    /\ windows' = [k \in DOMAIN windows \ gone |-> windows[k]]
    /\ lru' \in InOrderOf(lru, ToSet(lru) \ gone)
    /\ forgotten' = forgotten \cup {k \in gone : now - windows[k].start < Window}
    /\ refused' = NoKey
    /\ UNCHANGED <<store, failClosed, now, recent, served, charged, requests>>

\* CleanupExpired, called with the window of WithWindow or else the interval.
CleanupExpired ==
    /\ store = "memory"
    /\ Drop({k \in DOMAIN windows : now - windows[k].start >= Expiry})

\* PGStore.Cleanup: the age is cut to whole seconds.
Cleanup ==
    /\ store = "pg"
    /\ Drop({k \in DOMAIN windows : now - windows[k].start > 2 * (Window \div 2)})

TimePasses ==
    /\ now < MaxTime
    /\ now' = now + 1 /\ refused' = NoKey
    /\ UNCHANGED <<store, failClosed, windows, lru, recent, served, forgotten, charged, requests>>

Next ==
    \/ \E k \in Keys : Request(k) \/ RequestUnanswered(k)
    \/ CleanupExpired \/ Cleanup \/ TimePasses

(***************************************************************************)
(* Properties                                                              *)
(***************************************************************************)

\* The requests of a key that went through in the window's length before t.
Lately(k, t) == Cardinality({i \in DOMAIN served[k] : t - served[k][i] < Window /\ served[k][i] <= t})

\* No stretch of the window's length lets more than twice the rate through (a
\* window starts with a request, so two of them may meet in it), unless the
\* limiter lost a window that had not ended: evicted, cleaned up too early (an
\* interval shorter than the window, a window with half a second cut off), or
\* not asked for at all (Allow, CleanupExpired, Cleanup, RateLimit).
TwiceAtMost ==
    \A k \in Keys \ forgotten : \A t \in 0 .. now : Lately(k, t) <= 2 * Rate

\* Whoever is refused did use the rate up, in less than the window's length: of
\* what the limiter counts nothing was turned away, unless the database counted
\* in that window a request whose answer was lost (Allow, RateLimit).
RefusedRightly ==
    \A k \in refused \ charged : Lately(k, now) >= Rate

\* The memory store never holds more keys than WithMaxSize; its order and its
\* windows are of the same keys; and the keys evicted are the ones longest idle:
\* a busy key is not flushed by a burst of fresh ones (Allow, CleanupExpired).
BusyKeysKept ==
    (store = "memory" /\ MaxSize > 0) =>
        /\ ToSet(lru) = DOMAIN windows /\ Len(lru) <= MaxSize
        /\ lru \in InOrderOf(recent, DOMAIN windows)

Inv == TypeOK /\ TwiceAtMost /\ RefusedRightly /\ BusyKeysKept
===============================================================================
