------------------------------ MODULE SSEBroker ------------------------------
(***************************************************************************)
(* SSEBroker (internal/devserver/sse.go): Broadcast delivers an event to   *)
(* every client without ever blocking.  A full buffer drops an output      *)
(* line, but a state event evicts the oldest queued event.  And the dark   *)
(* filter, whose state lives on the broker (actions.go handleDark).        *)
(***************************************************************************)
EXTENDS Naturals, Sequences, FiniteSets

CONSTANTS
    Clients,   \* browser tabs and in-process consumers
    Builders,  \* goroutines that broadcast state events
    Loggers,   \* goroutines that broadcast output lines
    Togglers,  \* goroutines in handleDark
    Nobody,    \* a client's send mutex is free
    Cap,       \* buffer size of a client (16 in the code)
    MaxEvents  \* bound: events ever broadcast

Senders == Builders \cup Loggers \cup Togglers

VARIABLES
    client,      \* "out", "new" (subscribed), "on" (config and filter sent) or "gone"
    buf,         \* the client's channel
    open,        \* clients whose channel is open
    send,        \* who holds a client's send mutex
    shown,       \* the dark filter as the client shows it
    last,        \* the last state event delivered to the client that it has not
                 \*   received, 0 for none (history)
    pc, evt,     \* where a sender is, and its event
    left, to,    \* clients its Broadcast has yet to serve; the one it serves
    dark,        \* broker.darkFilter
    events,      \* events broadcast so far; they are numbered
    noise,       \* one of them was not about the dark filter (history)
    raced,       \* the last handleDark to begin found another one running (history)
    crashed      \* a send on a closed channel has panicked

clientVars == <<client, open, shown>>
queueVars  == <<buf, send, last>>
sendVars   == <<pc, evt, left, to>>
vars == <<clientVars, queueVars, sendVars, dark, events, noise, raced, crashed>>

(* An event is its number, its type and, for dark_filter, what it says.    *)
Event == [id : 1 .. MaxEvents, type : {"state", "output", "dark"}, on : BOOLEAN]
NoEvent == [id |-> 0, type |-> "none", on |-> FALSE]
Evictable(e) == e.type # "output"

TypeOK ==
    /\ client \in [Clients -> {"out", "new", "on", "gone"}] /\ open \subseteq Clients
    /\ \A c \in Clients : Len(buf[c]) <= Cap /\ \A i \in 1 .. Len(buf[c]) : buf[c][i] \in Event
    /\ send \in [Clients -> Senders \cup {Nobody}]
    /\ shown \in [Clients -> BOOLEAN] /\ last \in [Clients -> 0 .. MaxEvents]
    /\ pc \in [Senders -> {"idle", "store", "announce", "next", "evict", "retry"}]
    /\ \A s \in Senders : evt[s] \in Event \cup {[NoEvent EXCEPT !.on = b] : b \in BOOLEAN}
    /\ left \in [Senders -> SUBSET Clients] /\ to \in [Senders -> Clients]
    /\ dark \in BOOLEAN /\ events \in 0 .. MaxEvents /\ noise \in BOOLEAN
    /\ raced \in BOOLEAN /\ crashed \in BOOLEAN

Init ==
    /\ client = [c \in Clients |-> "out"] /\ open = {} /\ buf = [c \in Clients |-> <<>>]
    /\ send = [c \in Clients |-> Nobody] /\ shown = [c \in Clients |-> FALSE]
    /\ last = [c \in Clients |-> 0]
    /\ pc = [s \in Senders |-> "idle"] /\ evt = [s \in Senders |-> NoEvent]
    /\ left = [s \in Senders |-> {}] /\ to \in [Senders -> {CHOOSE c \in Clients : TRUE}]
    /\ dark \in BOOLEAN /\ events = 0 /\ noise = FALSE
    /\ raced = FALSE /\ crashed = FALSE

Registered == {c \in Clients : client[c] \in {"new", "on"}}

(* A sender in Broadcast holds the broker's read lock.                     *)
ReadLocked == \E s \in Senders : pc[s] \in {"next", "evict", "retry"}

-----------------------------------------------------------------------------
(* Clients.                                                                *)

(* Mutant: the filter is read before the client is subscribed.             *)
SubscribeAfterGreeting(c) ==
    /\ client[c] = "out"
    /\ \/ shown[c] # dark /\ shown' = [shown EXCEPT ![c] = dark] /\ UNCHANGED <<client, open>>
       \/ ~ReadLocked /\ client' = [client EXCEPT ![c] = "on"] /\ open' = open \cup {c} /\ UNCHANGED shown
    /\ UNCHANGED <<queueVars, sendVars, dark, events, noise, raced, crashed>>

Subscribe(c) ==
    /\ client[c] = "out" /\ ~ReadLocked
    /\ client' = [client EXCEPT ![c] = "new"] /\ open' = open \cup {c}
    /\ UNCHANGED <<shown, queueVars, sendVars, dark, events, noise, raced, crashed>>

(* Handler sends the config, and the filter if it is on; a page starts off.*)
Greet(c) ==
    /\ client[c] = "new"
    /\ client' = [client EXCEPT ![c] = "on"] /\ shown' = [shown EXCEPT ![c] = dark]
    /\ UNCHANGED <<open, queueVars, sendVars, dark, events, noise, raced, crashed>>

Receive(c) ==
    /\ client[c] = "on" /\ buf[c] # <<>>
    /\ LET e == Head(buf[c]) IN
          /\ last' = [last EXCEPT ![c] = IF e.id = @ THEN 0 ELSE @]
          /\ shown' = [shown EXCEPT ![c] = IF e.type = "dark" THEN e.on ELSE @]
    /\ buf' = [buf EXCEPT ![c] = Tail(@)]
    /\ UNCHANGED <<client, open, send, sendVars, dark, events, noise, raced, crashed>>

(* Mutant: the channel is closed under no lock.                            *)
UnsubscribeAnytime(c) ==
    /\ client[c] \in {"new", "on"}
    /\ client' = [client EXCEPT ![c] = "gone"] /\ open' = open \ {c}
    /\ UNCHANGED <<shown, queueVars, sendVars, dark, events, noise, raced, crashed>>

(* The cancel func: delete and close under the write lock.                 *)
Unsubscribe(c) ==
    /\ client[c] \in {"new", "on"} /\ ~ReadLocked
    /\ client' = [client EXCEPT ![c] = "gone"] /\ open' = open \ {c}
    /\ UNCHANGED <<shown, queueVars, sendVars, dark, events, noise, raced, crashed>>

-----------------------------------------------------------------------------
(* Senders.                                                                *)

(* Broadcast takes the read lock and goes through the clients.             *)
Broadcast(s, type, on) ==
    /\ events < MaxEvents
    /\ events' = events + 1
    /\ evt' = [evt EXCEPT ![s] = [id |-> events', type |-> type, on |-> on]]
    /\ left' = [left EXCEPT ![s] = Registered]
    /\ pc' = [pc EXCEPT ![s] = "next"]

Announce(s) ==
    /\ pc[s] = "idle" /\ s \in Builders \cup Loggers
    /\ Broadcast(s, IF s \in Builders THEN "state" ELSE "output", FALSE)
    /\ noise' = TRUE
    /\ UNCHANGED <<clientVars, queueVars, to, dark, raced, crashed>>

(* handleDark: Load, Store and Broadcast are three steps.                  *)
LoadDark(s) ==
    /\ pc[s] = "idle" /\ s \in Togglers
    /\ evt' = [evt EXCEPT ![s] = [NoEvent EXCEPT !.on = ~dark]]
    /\ pc' = [pc EXCEPT ![s] = "store"]
    /\ raced' = \E t \in Togglers \ {s} : pc[t] # "idle"
    /\ UNCHANGED <<clientVars, queueVars, left, to, dark, events, noise, crashed>>

StoreDark(s) ==
    /\ pc[s] = "store"
    /\ dark' = evt[s].on /\ pc' = [pc EXCEPT ![s] = "announce"]
    /\ UNCHANGED <<clientVars, queueVars, evt, left, to, events, noise, raced, crashed>>

AnnounceDark(s) ==
    /\ pc[s] = "announce"
    /\ Broadcast(s, "dark", evt[s].on)
    /\ UNCHANGED <<clientVars, queueVars, to, dark, noise, raced, crashed>>

(* What has been put into the queue of c by a sender of e.                 *)
Put(s, c) ==
    /\ buf' = [buf EXCEPT ![c] = Append(@, evt[s])]
    /\ crashed' = (crashed \/ c \notin open)
Served(s, c) ==
    /\ send' = [send EXCEPT ![c] = Nobody]
    /\ last' = [last EXCEPT ![c] = IF Evictable(evt[s]) THEN evt[s].id ELSE @]
    /\ pc' = [pc EXCEPT ![s] = "next"]

(* Mutant: deliver does not take the client's send mutex.                  *)
TrySendUnlocked(s, c) ==
    /\ pc[s] = "next" /\ c \in left[s]
    /\ left' = [left EXCEPT ![s] = @ \ {c}] /\ to' = [to EXCEPT ![s] = c]
    /\ CASE Len(buf[c]) < Cap   -> Put(s, c) /\ Served(s, c)
         [] Len(buf[c]) >= Cap /\ ~Evictable(evt[s]) -> Served(s, c) /\ UNCHANGED <<buf, crashed>>
         [] OTHER -> pc' = [pc EXCEPT ![s] = "evict"] /\ UNCHANGED <<buf, send, last, crashed>>
    /\ UNCHANGED <<clientVars, evt, dark, events, noise, raced>>

(* Mutant: one event more than the buffer holds.                           *)
TrySendOneMore(s, c) ==
    /\ pc[s] = "next" /\ c \in left[s] /\ send[c] = Nobody
    /\ left' = [left EXCEPT ![s] = @ \ {c}] /\ to' = [to EXCEPT ![s] = c]
    /\ IF Len(buf[c]) <= Cap THEN Put(s, c) ELSE UNCHANGED <<buf, crashed>>
    /\ Served(s, c)
    /\ UNCHANGED <<clientVars, evt, dark, events, noise, raced>>

(* Mutant: a sender waits for room.                                        *)
TrySendBlocks(s, c) ==
    /\ pc[s] = "next" /\ c \in left[s] /\ send[c] = Nobody
    /\ Len(buf[c]) < Cap
    /\ left' = [left EXCEPT ![s] = @ \ {c}] /\ to' = [to EXCEPT ![s] = c]
    /\ Put(s, c) /\ Served(s, c)
    /\ UNCHANGED <<clientVars, evt, dark, events, noise, raced>>

(* deliver, under the client's send mutex: it fits, or it is dropped, or   *)
(* room has to be made.                                                    *)
TrySend(s, c) ==
    /\ pc[s] = "next" /\ c \in left[s] /\ send[c] = Nobody
    /\ left' = [left EXCEPT ![s] = @ \ {c}] /\ to' = [to EXCEPT ![s] = c]
    /\ CASE Len(buf[c]) < Cap   -> Put(s, c) /\ Served(s, c)
         [] Len(buf[c]) >= Cap /\ ~Evictable(evt[s]) -> Served(s, c) /\ UNCHANGED <<buf, crashed>>
         [] OTHER -> /\ pc' = [pc EXCEPT ![s] = "evict"] /\ send' = [send EXCEPT ![c] = s]
                     /\ UNCHANGED <<buf, last, crashed>>
    /\ UNCHANGED <<clientVars, evt, dark, events, noise, raced>>

(* Take the oldest event out, if the client has not drained meanwhile.     *)
Evict(s) ==
    /\ pc[s] = "evict"
    /\ buf' = [buf EXCEPT ![to[s]] = IF @ = <<>> THEN @ ELSE Tail(@)]
    /\ pc' = [pc EXCEPT ![s] = "retry"]
    /\ UNCHANGED <<clientVars, send, last, evt, left, to, dark, events, noise, raced, crashed>>

Retry(s) ==
    /\ pc[s] = "retry"
    /\ IF Len(buf[to[s]]) < Cap THEN Put(s, to[s]) ELSE UNCHANGED <<buf, crashed>>
    /\ Served(s, to[s])
    /\ UNCHANGED <<clientVars, evt, left, to, dark, events, noise, raced>>

Return(s) ==
    /\ pc[s] = "next" /\ left[s] = {}
    /\ pc' = [pc EXCEPT ![s] = "idle"] /\ evt' = [evt EXCEPT ![s] = NoEvent]
    /\ UNCHANGED <<clientVars, queueVars, left, to, dark, events, noise, raced, crashed>>

SendStep(s) == (\E c \in Clients : TrySend(s, c)) \/ Evict(s) \/ Retry(s) \/ Return(s)

Next ==
    \/ \E c \in Clients : Subscribe(c) \/ Greet(c) \/ Receive(c) \/ Unsubscribe(c)
    \/ \E s \in Senders : Announce(s) \/ LoadDark(s) \/ StoreDark(s) \/ AnnounceDark(s) \/ SendStep(s)

(* Senders run; a client may stall for ever.                               *)
Spec == Init /\ [][Next]_vars /\ \A s \in Senders : WF_vars(SendStep(s))

-----------------------------------------------------------------------------
(* The last state event delivered to a client has been received or is on   *)
(* its way, however slow the client is: its sender evicts, and nobody else *)
(* takes the slot it frees (97-103, 309-335).  A newer one may be about to *)
(* take its place.                                                         *)
Replacing(c) == \E s \in Senders : pc[s] \in {"evict", "retry"} /\ to[s] = c
LastStateKept ==
    \A c \in Registered :
        last[c] = 0 \/ Replacing(c) \/ \E i \in 1 .. Len(buf[c]) : buf[c][i].id = last[c]

(* Nobody sends on a closed channel (267-268).                             *)
NoSendOnClosed == ~crashed

(* The invariant: types, and no send on a closed channel.                  *)
Inv == TypeOK /\ NoSendOnClosed

(* A stalled client must never wedge a sender (253-255, 289-290).          *)
Sending == \E s \in Senders : pc[s] \in {"next", "evict", "retry"}

(* When nobody toggles and a client has received everything, it shows the  *)
(* dark filter as the broker holds it, whatever the toggles before the     *)
(* last one did, if that one began alone (actions.go 123-140).  One that   *)
(* began while another ran may have read what that one had not stored yet, *)
(* stored before it and broadcast after it.  (Other state events may evict *)
(* a dark_filter event, so this is about their absence.)                   *)
BrowserShowsFilter ==
    ~noise /\ ~raced /\ (\A s \in Senders : pc[s] = "idle") =>
        \A c \in Clients : client[c] = "on" /\ buf[c] = <<>> => shown[c] = dark
=============================================================================
