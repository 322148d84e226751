---------------------------- MODULE StripeDelivery -----------------------------
(***************************************************************************)
(* How the Stripe mock takes requests and tells the app what they did:     *)
(* idempotency keys (stripemock_events.go), the state file that every      *)
(* change rewrites (stripemock_persist.go), the goroutine that fires one   *)
(* change's events in order, the event log and resends                     *)
(* (stripemock.go, stripemock_webhook.go), and a restart of hamr dev,      *)
(* which keeps the file and nothing else.                                  *)
(***************************************************************************)
EXTENDS Integers, Sequences, FiniteSets, SequencesExt

CONSTANTS
    Requests,       \* POST requests, the retries too
    KeyOf,          \* request -> its Idempotency-Key, scoped by account and path
    EventsPer,      \* events fired by one change
    EventLimit,     \* stripeEventLimit
    IdemLimit,      \* idemLimit
    MaxFaults       \* bound: panics, failed writes, resends, switches of the mode and restarts

Keys == {KeyOf[r] : r \in Requests}

VARIABLES
    pc,         \* request -> "idle", "running", "handled", "waiting", "done" or "lost"
    entry,      \* request -> the idempotency entry it made or found
    idem,       \* key -> its entry in the cache, 0 for none
    entries,    \* "open", "recorded" or "dropped", by entry
    made,       \* history: the keys the changes were made under, in order
    mem, disk,  \* the changes in memory and in the state file, by number in made
    unstored,   \* history: changes whose write failed and that no write has stored since
    batches,    \* deliveries under way
    events,     \* the event log
    inbox,      \* ids of the events the app has handled
    listening,  \* stripe is in listen mode
    forgotten,  \* history: key -> entries of it that were dropped
    faults,     \* how many there were
    restarted   \* history: hamr dev has been restarted

requests == <<pc, entry, idem, entries, forgotten>>
store    == <<made, mem, disk, unstored>>
delivery == <<batches, events, inbox>>
vars     == <<requests, store, delivery, listening, faults, restarted>>

Ids == Seq(Nat)
BatchType == [id : Ids, step : {"record", "post", "mark"}, ok : BOOLEAN,
              resend : BOOLEAN]

TypeOK ==
    /\ pc \in [Requests -> {"idle", "running", "handled", "waiting", "done", "lost"}]
    /\ entry \in [Requests -> Nat] /\ idem \in [Keys -> Nat]
    /\ entries \in Seq({"open", "recorded", "dropped"})
    /\ made \in Seq(Keys)
    /\ mem \subseteq DOMAIN made /\ disk \subseteq mem /\ unstored \subseteq DOMAIN made \ disk
    /\ \A b \in batches : b \in BatchType
    /\ \A i \in DOMAIN events : events[i].id \in Ids /\ events[i].delivered \in BOOLEAN
    /\ forgotten \in [Keys -> Nat]

Init ==
    /\ pc = [r \in Requests |-> "idle"] /\ entry = [r \in Requests |-> 0]
    /\ idem = [k \in Keys |-> 0] /\ entries = << >>
    /\ made = << >> /\ mem = {} /\ disk = {} /\ unstored = {}
    /\ batches = {} /\ events = << >> /\ inbox = {}
    /\ listening = FALSE
    /\ forgotten = [k \in Keys |-> 0]
    /\ faults = 0 /\ restarted = FALSE

Fault == faults < MaxFaults /\ faults' = faults + 1

----------------------------------------------------------------------------
(* idempotent: the first request of a key runs the handler, the others     *)
(* wait for its entry and replay what it recorded.                         *)

Cached == {k \in Keys : idem[k] # 0}
Forget(keys) == forgotten' = [k \in Keys |-> forgotten[k] + (IF k \in keys THEN 1 ELSE 0)]

\* A full cache is dropped whole, with the entries still open.
Arrive(r) ==
    LET k    == KeyOf[r]
        full == Cardinality(Cached) >= IdemLimit
    IN  /\ pc[r] = "idle"
        /\ \/ /\ idem[k] # 0
              /\ pc' = [pc EXCEPT ![r] = "waiting"]
              /\ entry' = [entry EXCEPT ![r] = idem[k]]
              /\ UNCHANGED <<idem, entries, forgotten>>
           \/ /\ idem[k] = 0
              /\ pc' = [pc EXCEPT ![r] = "running"]
              /\ entry' = [entry EXCEPT ![r] = Len(entries) + 1]
              /\ entries' = Append(entries, "open")
              /\ idem' = [[j \in Keys |-> IF full THEN 0 ELSE idem[j]] EXCEPT ![k] = Len(entries) + 1]
              /\ Forget(IF full THEN Cached ELSE {})
        /\ UNCHANGED <<store, delivery, listening, faults, restarted>>

NewBatch(n) == [id |-> <<n, 1>>, step |-> "record", ok |-> FALSE, resend |-> FALSE]

\* persist: all that is in memory, atomically, or nothing and a warning.
\* Mutant: the state is written later.
PersistedLater == disk
Persisted == mem'

Persist(n) ==
    \/ disk' = Persisted /\ unstored' = unstored \ mem' /\ UNCHANGED faults
    \/ Fault /\ unstored' = unstored \cup {n} /\ UNCHANGED disk

\* The handler under m.mu: the change, its persist(), and whether that was
\* stored or not, the goroutine that tells of it.
Handle(r) ==
    LET n == Len(made) + 1
    IN  /\ pc[r] = "running"
        /\ pc' = [pc EXCEPT ![r] = "handled"]
        /\ made' = Append(made, KeyOf[r])
        /\ mem' = mem \cup {n}
        /\ Persist(n)
        /\ batches' = batches \cup {NewBatch(n)}
        /\ UNCHANGED <<entry, idem, entries, forgotten, events, inbox, listening, restarted>>

\* The response is recorded and the waiting retries are let go.
Answer(r) ==
    /\ pc[r] = "handled"
    /\ pc' = [pc EXCEPT ![r] = "done"]
    /\ entries' = [entries EXCEPT ![entry[r]] = "recorded"]
    /\ UNCHANGED <<entry, idem, forgotten, store, delivery, listening, faults, restarted>>

\* A panic, before the change or after it, drops the entry if it is still the
\* key's own, and lets the waiting retries go with a 500.
Panic(r) ==
    /\ pc[r] \in {"running", "handled"} /\ Fault
    /\ pc' = [pc EXCEPT ![r] = "lost"]
    /\ entries' = [entries EXCEPT ![entry[r]] = "dropped"]
    /\ LET own == {k \in {KeyOf[r]} : idem[k] = entry[r]}
       IN  /\ idem' = [k \in Keys |-> IF k \in own THEN 0 ELSE idem[k]]
           /\ Forget(own)
    /\ UNCHANGED <<entry, store, delivery, listening, restarted>>

\* Mutant: only a handler that completes closes the entry.
ClosedCompleted(r) == entries[entry[r]] = "recorded"
Closed(r) == entries[entry[r]] # "open"
Replay(r) ==
    /\ pc[r] = "waiting" /\ Closed(r)
    /\ pc' = [pc EXCEPT ![r] = IF entries[entry[r]] = "recorded" THEN "done" ELSE "lost"]
    /\ UNCHANGED <<entry, idem, entries, forgotten, store, delivery, listening, faults, restarted>>

----------------------------------------------------------------------------
(* fireEventsAsync and deliverEvent.                                       *)

Moved(b, to) == batches' = (batches \ {b}) \cup {to}
Trimmed(log) == SubSeq(log, Len(log) - (IF Len(log) < EventLimit THEN Len(log) ELSE EventLimit) + 1,
                       Len(log))

\* recordEvent: the oldest drop off past the cap.
Record(b) ==
    /\ b.step = "record"
    /\ Moved(b, [b EXCEPT !.step = "post"])
    /\ events' = Trimmed(Append(events, [id |-> b.id, delivered |-> FALSE, attempts |-> 0]))
    /\ UNCHANGED <<requests, store, inbox, listening, faults, restarted>>

\* Not delivered in listen mode, where the app checks another secret.
Delivered(handled, ok) == ~listening /\ handled /\ ok

\* The app handles the event or not; its answer is not 2xx, or comes too late,
\* for one it may have handled.
Post(b, handled, ok) ==
    /\ b.step = "post"
    /\ inbox' = IF handled /\ ~listening THEN inbox \cup {b.id} ELSE inbox
    /\ Moved(b, [b EXCEPT !.step = "mark", !.ok = Delivered(handled, ok)])
    /\ UNCHANGED <<requests, store, events, listening, faults, restarted>>

\* The next event of the change follows whatever became of this one.
Followed(b) == ~b.resend /\ b.id[2] < EventsPer

\* markEventDelivery, if the log still has it.
Mark(b) ==
    /\ b.step = "mark"
    /\ events' = [i \in DOMAIN events |->
                    IF events[i].id # b.id THEN events[i]
                    ELSE [events[i] EXCEPT !.attempts = @ + 1, !.delivered = b.ok]]
    /\ batches' = (batches \ {b}) \cup
                  (IF Followed(b) THEN {[b EXCEPT !.id[2] = @ + 1, !.step = "record", !.ok = FALSE]}
                                  ELSE {})
    /\ UNCHANGED <<requests, store, inbox, listening, faults, restarted>>

\* resendEvent: a logged event again, under its id.
Resend(i) ==
    /\ Fault
    /\ batches' = batches \cup {[id |-> events[i].id, step |-> "post", ok |-> FALSE, resend |-> TRUE]}
    /\ UNCHANGED <<requests, store, events, inbox, listening, restarted>>

SwitchMode ==
    /\ Fault
    /\ listening' = ~listening
    /\ UNCHANGED <<requests, store, delivery, restarted>>

\* hamr dev dies and starts again: loadFromDisk.
Restart ==
    /\ Fault
    /\ pc' = [r \in Requests |-> IF pc[r] \in {"idle", "done"} THEN pc[r] ELSE "lost"]
    /\ idem' = [k \in Keys |-> 0] /\ Forget(Cached)
    /\ entries' = [e \in DOMAIN entries |-> IF entries[e] = "open" THEN "dropped" ELSE entries[e]]
    /\ restarted' = TRUE
    /\ mem' = disk /\ batches' = {} /\ events' = << >>
    /\ UNCHANGED <<entry, made, disk, unstored, inbox, listening>>

Deliver(b) ==
    \/ Record(b) \/ Mark(b)
    \/ \E handled, ok \in BOOLEAN : Post(b, handled, ok)

RequestNext ==
    \E r \in Requests : Arrive(r) \/ Handle(r) \/ Answer(r) \/ Panic(r) \/ Replay(r)

Next ==
    \/ RequestNext
    \/ \E b \in batches : Deliver(b)
    \/ \E i \in DOMAIN events : Resend(i)
    \/ SwitchMode \/ Restart

\* Handlers return and goroutines run.
Goes(r) == Handle(r) \/ Answer(r) \/ Replay(r)
Fairness == WF_vars(\E r \in Requests : Goes(r)) /\ WF_vars(\E b \in batches : Deliver(b))

Spec == Init /\ [][Next]_vars /\ Fairness

----------------------------------------------------------------------------

Made(k) == Cardinality({n \in DOMAIN made : made[n] = k})

\* A retry never makes a change again unless the key's entry was dropped: by a
\* panic, a restart, or the cache being full (idempotent).
RetriesReplay == \A k \in Keys : Made(k) <= 1 + forgotten[k]

\* The event log says delivered only of an event the app has handled, through
\* resends that race the first delivery and switches of the mode.
DeliveredIsHandled == \A i \in DOMAIN events : events[i].delivered => events[i].id \in inbox

\* Whatever the app is told of survives a crash at any moment, unless its write
\* failed and none that succeeded has followed: the file was written before the
\* first event was sent, and with all that was in memory, what earlier writes
\* failed to store too (persist before fireEventsAsync).
ToldIsStored == \A id \in inbox : id[1] \in disk \cup unstored

\* Until a restart, an event of a change that is neither logged nor trimmed is
\* still to come: no failed delivery silences the rest of its batch.
RestIsComing ==
    ~restarted =>
        \A n \in mem :
            \/ \E b \in batches : ~b.resend /\ b.id[1] = n
            \/ \E i \in DOMAIN events : events[i].id = <<n, EventsPer>>
            \/ Len(events) = EventLimit

\* The parts of the delivery's invariant.
Inv == TypeOK /\ RetriesReplay /\ DeliveredIsHandled /\ ToldIsStored /\ RestIsComing

\* What must not last: a request without an answer or an error, one that waits
\* for another request's answer too, whatever becomes of that request.
Hanging == \E r \in Requests : pc[r] \in {"running", "handled", "waiting"}
================================================================================
