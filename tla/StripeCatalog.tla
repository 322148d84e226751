----------------------------- MODULE StripeCatalog -----------------------------
(***************************************************************************)
(* The Stripe mock's catalogue (stripemock_price.go), the payout settings  *)
(* of its accounts (stripemock_balance.go) and the paging its lists share  *)
(* (stripemock.go): the updates that are refused half way, the state file, *)
(* and a client that reads a list page by page while it changes.           *)
(***************************************************************************)
EXTENDS Integers, Sequences, FiniteSets, SequencesExt

CONSTANTS
    Ids,        \* ids a price may be given, at random: integers, as they sort
    Keys,       \* lookup keys
    NoKey,      \* "" for a lookup key
    Days,       \* days a payout schedule is asked for, the impossible too
    PageLimit,  \* limit of a list request
    MaxTime,    \* bound: ticks of the mock clock
    MaxSettings \* bound: requests for the settings

VARIABLES
    prices,     \* id -> price, in memory
    settings,   \* the settings of an account, in memory
    disk,       \* [prices, settings] as last stored
    now,        \* the mock clock
    walk,       \* the client that pages through the active prices
    constantly, \* history: ids the list held from the walk's start on
    asked,      \* requests for the settings so far
    behind      \* history: the last write of the file failed

vars == <<prices, settings, disk, now, walk, constantly, asked, behind>>

PriceType == [active : BOOLEAN, key : Keys \cup {NoKey}, created : 0..MaxTime]
Intervals == {"manual", "daily", "weekly", "monthly"}

TypeOK ==
    /\ DOMAIN prices \subseteq Ids /\ \A i \in DOMAIN prices : prices[i] \in PriceType
    /\ settings.interval \in Intervals
    /\ walk.state \in {"idle", "reading", "done"} /\ walk.cursor \in Ids \cup {0}
    /\ behind \in BOOLEAN

DefaultSettings == [interval |-> "daily", delay |-> 2, days |-> << >>]

Init ==
    /\ prices = << >> /\ settings = DefaultSettings
    /\ disk = [prices |-> << >>, settings |-> DefaultSettings]
    /\ now = 0 /\ asked = 0
    /\ walk = [state |-> "idle", cursor |-> 0, seen |-> << >>, lost |-> FALSE]
    /\ constantly = {} /\ behind = FALSE

----------------------------------------------------------------------------
(* Lookup keys: one price holds a key; another takes it over or is refused.*)

Holders(i, key) == {j \in DOMAIN prices \ {i} : key # NoKey /\ prices[j].key = key}

Claimable(i, key, transfer) == transfer \/ Holders(i, key) = {}

Claimed(ps, i, key) ==
    [j \in DOMAIN ps |->
        IF j = i THEN [ps[j] EXCEPT !.key = key]
        ELSE IF j \in Holders(i, key) THEN [ps[j] EXCEPT !.key = NoKey] ELSE ps[j]]

\* persist: the whole state, atomically; a write that fails is a warning and
\* the request goes on.
Persist ==
    \/ disk' = [prices |-> prices', settings |-> settings'] /\ behind' = FALSE
    \/ behind' = TRUE /\ UNCHANGED disk

\* The prices a list request with active=true returns.
ListedIn(ps) == {i \in DOMAIN ps : ps[i].active}
NoteList == constantly' = constantly \cap ListedIn(prices')

\* createPrice: everything is validated before anything is stored.
CreatePrice(i, key, transfer) ==
    /\ i \notin DOMAIN prices
    /\ Claimable(i, key, transfer)
    /\ LET made == [active |-> TRUE, key |-> NoKey, created |-> now]
       IN  prices' = Claimed([j \in DOMAIN prices \cup {i} |-> IF j = i THEN made ELSE prices[j]], i, key)
    /\ UNCHANGED settings /\ Persist /\ NoteList
    /\ UNCHANGED <<now, walk, asked>>

\* handlePriceByID: active is set before the lookup key is found to be taken;
\* a refused update stays in memory and is not stored.
UpdatePrice(i, active, sets, key, transfer) ==
    LET flagged == [prices EXCEPT ![i].active = active]
        refused == sets /\ ~Claimable(i, key, transfer)
    IN  /\ i \in DOMAIN prices
        /\ prices' = IF refused \/ ~sets THEN flagged ELSE Claimed(flagged, i, key)
        /\ UNCHANGED settings
        /\ IF refused THEN UNCHANGED <<disk, behind>> ELSE Persist
        /\ NoteList
        /\ UNCHANGED <<now, walk, asked>>

----------------------------------------------------------------------------
(* applyBalanceSettings: field by field, up to the first that is refused.  *)

\* The days before the first impossible one.
GoodDays(days) ==
    IF \A n \in DOMAIN days : days[n] \in 1..31 THEN days
    ELSE SubSeq(days, 1, -1 + CHOOSE n \in DOMAIN days :
                    days[n] \notin 1..31 /\ \A m \in 1..(n - 1) : days[m] \in 1..31)

ApplySettings(delay, interval, days) ==
    LET delayed == [settings EXCEPT !.delay = delay]
        timed   == [delayed EXCEPT !.interval = interval]
    IN  IF interval \notin Intervals THEN delayed ELSE [timed EXCEPT !.days = GoodDays(days)]

UpdateSettings(delay, interval, days) ==
    /\ asked < MaxSettings /\ asked' = asked + 1
    /\ settings' = ApplySettings(delay, interval, days)
    /\ UNCHANGED prices
    /\ IF interval \in Intervals /\ GoodDays(days) = days THEN Persist ELSE UNCHANGED <<disk, behind>>
    /\ UNCHANGED <<now, walk, constantly>>

\* The clock moves; hamr dev restarts with what is stored.
Tick ==
    /\ now < MaxTime /\ now' = now + 1
    /\ UNCHANGED <<prices, settings, disk, walk, constantly, asked, behind>>

Reload ==
    /\ prices' = disk.prices /\ settings' = disk.settings
    /\ NoteList /\ behind' = FALSE
    /\ UNCHANGED <<disk, now, walk, asked>>

----------------------------------------------------------------------------
(* sortNewestFirst and pageAfter.                                          *)

\* By the time of creation, then by id, which decides between objects of one
\* second.
Newer(i, j) ==
    \/ prices[i].created > prices[j].created
    \/ prices[i].created = prices[j].created /\ i > j

Sorted == SetToSortSeq(ListedIn(prices), Newer)

\* What follows the cursor; a cursor that left the list starts over.
\* Mutant: a page starts with the cursor.
AfterWith(cursor) ==
    LET at == {n \in DOMAIN Sorted : Sorted[n] = cursor}
    IN  {n \in DOMAIN Sorted : \A m \in at : n >= m}
After(cursor) ==
    LET at == {n \in DOMAIN Sorted : Sorted[n] = cursor}
    IN  {n \in DOMAIN Sorted : \A m \in at : n > m}

StartWalk ==
    /\ walk.state = "idle"
    /\ walk' = [walk EXCEPT !.state = "reading"]
    /\ constantly' = ListedIn(prices)
    /\ UNCHANGED <<prices, settings, disk, now, asked, behind>>

\* One GET with starting_after the last id of the page before; has_more says
\* whether there is another.
ReadPage ==
    LET left == After(walk.cursor)
        page == {n \in left : Cardinality({m \in left : m <= n}) <= PageLimit}
        ids  == [n \in 1..Cardinality(page) |-> Sorted[n + Len(Sorted) - Cardinality(left)]]
    IN  /\ walk.state = "reading"
        /\ Len(walk.seen) < Cardinality(Ids)
        /\ walk' = [walk EXCEPT
                        !.state = IF page = left THEN "done" ELSE "reading",
                        !.cursor = IF ids = << >> THEN @ ELSE Last(ids),
                        !.seen = @ \o ids,
                        !.lost = @ \/ (walk.cursor # 0 /\ walk.cursor \notin ListedIn(prices))]
        /\ UNCHANGED <<prices, settings, disk, now, constantly, asked, behind>>

PriceNext ==
    \/ \E i \in Ids, key \in Keys \cup {NoKey}, transfer \in BOOLEAN :
           CreatePrice(i, key, transfer)
    \/ \E i \in Ids, active, sets, transfer \in BOOLEAN, key \in Keys \cup {NoKey} :
           UpdatePrice(i, active, sets, key, transfer)

SettingsNext ==
    \E delay \in {0, 2}, interval \in {"monthly", "hourly"}, days \in Days :
        UpdateSettings(delay, interval, days)

WalkNext == StartWalk \/ ReadPage

Next == PriceNext \/ SettingsNext \/ WalkNext \/ Tick \/ Reload

Spec == Init /\ [][Next]_vars

----------------------------------------------------------------------------

\* A lookup key finds at most one price, whatever transfers and refusals came
\* before (claimLookupKeyLocked).
KeysFindOne ==
    \A i, j \in DOMAIN prices : prices[i].key = prices[j].key /\ prices[i].key # NoKey => i = j

\* A refused update leaves no trace in what a lookup key finds after a restart,
\* though it leaves its other fields in memory, and the next write that succeeds
\* makes up for those that failed (handlePriceByID, persist).
KeysAreStored ==
    ~behind =>
    /\ DOMAIN disk.prices = DOMAIN prices
    /\ \A i \in DOMAIN prices : disk.prices[i].key = prices[i].key

\* A schedule has possible days only, though a refused request is kept up to
\* the field that was refused (applyBalanceSettings).
DaysArePossible == \A n \in DOMAIN settings.days : settings.days[n] \in 1..31

\* A client that reads to the last page has seen every price that was listed
\* all along, while prices came, went and tied for a second; and it saw none
\* twice unless its cursor left the list (pageAfter).
WalkIsComplete ==
    /\ walk.state = "done" => constantly \subseteq ToSet(walk.seen)
    /\ ~walk.lost => Cardinality(ToSet(walk.seen)) = Len(walk.seen)

\* The parts of the catalogue's invariant.
Inv == TypeOK /\ KeysFindOne /\ KeysAreStored /\ DaysArePossible /\ WalkIsComplete
================================================================================
