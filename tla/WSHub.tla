-------------------------------- MODULE WSHub --------------------------------
(***************************************************************************)
(* WSHub (pkg/websocket): the hub that routes messages to WebSocket        *)
(* clients by session, subject and room.  Every operation runs under h.mu, *)
(* so it is one action; what interleaves are the operations, the two pumps *)
(* of each connection, and Close.                                          *)
(***************************************************************************)
EXTENDS Naturals, FiniteSets

CONSTANTS
    Conns,       \* connections; each makes one *Client
    Sessions, Subjects, Rooms,
    SessionOf,   \* what sessionIDFunc says of a connection's request
    SubjectAt,   \* what subjectIDFunc says of it
    NoClient,    \* no client under a key
    Anonymous,   \* the subject ""
    Cap          \* size of a send buffer (256 in the code)

ASSUME HubAssumption ==
    /\ SessionOf \in [Conns -> Sessions] /\ SubjectAt \in [Conns -> Subjects \cup {Anonymous}]
    /\ NoClient \notin Conns /\ Anonymous \notin Subjects /\ Cap \in Nat \ {0}

VARIABLES
    clients,   \* session -> its client
    subjects,  \* subject -> clients
    rooms,     \* room -> clients
    joined,    \* c.Rooms
    subject,   \* c.SubjectID
    chan,      \* c.send: "none" (not made), "open" or "closed"
    queued,    \* messages in it
    conn,      \* the connection is "up" or "down"
    reader,    \* where Handler and readPump are
    writer,    \* where writePump is
    hub,       \* where Close is: "open", "closed" (flag set), "waiting", "done"
    newest,    \* the last connection of a session to register (history)
    crashed    \* a send on, or a close of, a closed channel has panicked

mapVars  == <<clients, subjects, rooms>>
chanVars == <<chan, queued, crashed>>
connVars == <<conn, reader, writer>>
vars == <<mapVars, joined, subject, chanVars, connVars, hub, newest>>

TypeOK ==
    /\ clients \in [Sessions -> Conns \cup {NoClient}]
    /\ subjects \in [Subjects -> SUBSET Conns] /\ rooms \in [Rooms -> SUBSET Conns]
    /\ joined \in [Conns -> SUBSET Rooms] /\ subject \in [Conns -> Subjects \cup {Anonymous}]
    /\ chan \in [Conns -> {"none", "open", "closed"}] /\ queued \in [Conns -> 0 .. Cap]
    /\ conn \in [Conns -> {"none", "up", "down"}]
    /\ reader \in [Conns -> {"none", "accepted", "reading", "callback", "leaving", "done"}]
    /\ writer \in [Conns -> {"none", "select", "writing", "done"}]
    /\ hub \in {"open", "closed", "waiting", "done"}
    /\ newest \in [Sessions -> Conns \cup {NoClient}] /\ crashed \in BOOLEAN

Init ==
    /\ clients = [s \in Sessions |-> NoClient]
    /\ subjects = [u \in Subjects |-> {}] /\ rooms = [r \in Rooms |-> {}]
    /\ joined = [c \in Conns |-> {}] /\ subject = SubjectAt
    /\ chan = [c \in Conns |-> "none"] /\ queued = [c \in Conns |-> 0]
    /\ conn = [c \in Conns |-> "none"]
    /\ reader = [c \in Conns |-> "none"] /\ writer = [c \in Conns |-> "none"]
    /\ hub = "open" /\ newest = [s \in Sessions |-> NoClient] /\ crashed = FALSE

Current(c) == clients[SessionOf[c]] = c

(* h.ctx is done.                                                          *)
Cancelled == hub \in {"waiting", "done"}

-----------------------------------------------------------------------------
(* Handler.                                                                *)

Accept(c) ==
    /\ reader[c] = "none"
    /\ reader' = [reader EXCEPT ![c] = "accepted"] /\ conn' = [conn EXCEPT ![c] = "up"]
    /\ chan' = [chan EXCEPT ![c] = "open"]
    /\ UNCHANGED <<mapVars, joined, subject, queued, crashed, writer, hub, newest>>

Reject(c) ==
    /\ reader[c] = "accepted" /\ hub # "open"
    /\ reader' = [reader EXCEPT ![c] = "done"] /\ conn' = [conn EXCEPT ![c] = "down"]
    /\ UNCHANGED <<mapVars, joined, subject, chanVars, writer, hub, newest>>

(* A client leaves its subject and its rooms; c.Rooms is left as it is.    *)
Without(c, f, keys) == [k \in DOMAIN f |-> IF k \in keys THEN f[k] \ {c} ELSE f[k]]

(* close(c.send); closing it twice panics.                                 *)
CloseSend(c) ==
    /\ chan' = [chan EXCEPT ![c] = "closed"]
    /\ crashed' = (crashed \/ chan[c] = "closed")
    /\ UNCHANGED queued

Start(c) ==
    /\ clients' = [clients EXCEPT ![SessionOf[c]] = c]
    /\ newest' = [newest EXCEPT ![SessionOf[c]] = c]
    /\ reader' = [reader EXCEPT ![c] = "reading"] /\ writer' = [writer EXCEPT ![c] = "select"]
    /\ UNCHANGED <<joined, subject, conn, hub>>

Enrolled(c, f) == [u \in DOMAIN f |-> IF u = subject[c] THEN f[u] \cup {c} ELSE f[u]]

(* Mutant: the closed flag is not looked at under the lock.                *)
RegisterLate(c) ==
    /\ reader[c] = "accepted"
    /\ clients[SessionOf[c]] = NoClient
    /\ subjects' = Enrolled(c, subjects)
    /\ UNCHANGED <<rooms, chanVars>>
    /\ Start(c)

Register(c) ==
    /\ reader[c] = "accepted" /\ hub = "open"
    /\ LET old == clients[SessionOf[c]] IN
       IF old = NoClient
       THEN /\ subjects' = Enrolled(c, subjects)
            /\ UNCHANGED <<rooms, chanVars>>
       ELSE /\ subjects' = Enrolled(c, Without(old, subjects, {subject[old]}))
            /\ rooms' = Without(old, rooms, joined[old])
            /\ CloseSend(old)
    /\ Start(c)

-----------------------------------------------------------------------------
(* The pumps.  Read fails once the connection is down or h.ctx is done.    *)

ReadMessage(c) ==
    /\ reader[c] = "reading" /\ conn[c] = "up"
    /\ reader' = [reader EXCEPT ![c] = "callback"]
    /\ UNCHANGED <<mapVars, joined, subject, chanVars, conn, writer, hub, newest>>

(* onMessage, the application's callback, returns.                         *)
CallbackReturns(c) ==
    /\ reader[c] = "callback"
    /\ reader' = [reader EXCEPT ![c] = "reading"]
    /\ UNCHANGED <<mapVars, joined, subject, chanVars, conn, writer, hub, newest>>

ReadFails(c) ==
    /\ reader[c] = "reading" /\ (conn[c] = "down" \/ Cancelled)
    /\ reader' = [reader EXCEPT ![c] = "leaving"] /\ conn' = [conn EXCEPT ![c] = "down"]
    /\ UNCHANGED <<mapVars, joined, subject, chanVars, writer, hub, newest>>

(* The browser goes away, or the network does.                             *)
Disconnect(c) ==
    /\ conn[c] = "up"
    /\ conn' = [conn EXCEPT ![c] = "down"]
    /\ UNCHANGED <<mapVars, joined, subject, chanVars, reader, writer, hub, newest>>

Left(c) == reader' = [reader EXCEPT ![c] = "done"]

(* Mutant: whoever holds the session is removed.                           *)
UnregisterAny(c) ==
    /\ reader[c] = "leaving" /\ Left(c)
    /\ LET cur == clients[SessionOf[c]] IN
       IF cur # NoClient
       THEN /\ clients' = [clients EXCEPT ![SessionOf[c]] = NoClient]
            /\ subjects' = Without(cur, subjects, {subject[cur]})
            /\ rooms' = Without(cur, rooms, joined[cur])
            /\ CloseSend(cur)
       ELSE UNCHANGED <<mapVars, chanVars>>
    /\ UNCHANGED <<joined, subject, conn, writer, hub, newest>>

(* readPump's deferred unregister does nothing for a replaced client.      *)
Unregister(c) ==
    /\ reader[c] = "leaving" /\ Left(c)
    /\ IF Current(c)
       THEN /\ clients' = [clients EXCEPT ![SessionOf[c]] = NoClient]
            /\ subjects' = Without(c, subjects, {subject[c]})
            /\ rooms' = Without(c, rooms, joined[c])
            /\ CloseSend(c)
       ELSE UNCHANGED <<mapVars, chanVars>>
    /\ UNCHANGED <<joined, subject, conn, writer, hub, newest>>

TakeMessage(c) ==
    /\ writer[c] = "select" /\ queued[c] > 0
    /\ writer' = [writer EXCEPT ![c] = "writing"] /\ queued' = [queued EXCEPT ![c] = @ - 1]
    /\ UNCHANGED <<mapVars, joined, subject, chan, crashed, conn, reader, hub, newest>>

Written(c) ==
    /\ writer[c] = "writing" /\ conn[c] = "up" /\ ~Cancelled
    /\ writer' = [writer EXCEPT ![c] = "select"]
    /\ UNCHANGED <<mapVars, joined, subject, chanVars, conn, reader, hub, newest>>

(* Mutant: the connection is left open.                                    *)
WriterEndsQuietly(c) ==
    /\ \/ writer[c] = "writing"
       \/ writer[c] = "select" /\ (Cancelled \/ (chan[c] = "closed" /\ queued[c] = 0))
    /\ writer' = [writer EXCEPT ![c] = "done"]
    /\ UNCHANGED <<mapVars, joined, subject, chanVars, conn, reader, hub, newest>>

(* A write fails, or times out; h.ctx ends; the closed channel is drained. *)
(* writePump then closes the connection.                                   *)
WriterEnds(c) ==
    /\ \/ writer[c] = "writing"
       \/ writer[c] = "select" /\ (Cancelled \/ (chan[c] = "closed" /\ queued[c] = 0))
    /\ writer' = [writer EXCEPT ![c] = "done"] /\ conn' = [conn EXCEPT ![c] = "down"]
    /\ UNCHANGED <<mapVars, joined, subject, chanVars, reader, hub, newest>>

-----------------------------------------------------------------------------
(* What the application calls, from a callback or any other goroutine.     *)

(* Mutant: a stale client may join.                                        *)
JoinRoomStale(c, r) ==
    /\ reader[c] \notin {"none", "accepted"} /\ newest[SessionOf[c]] # NoClient
    /\ rooms' = [rooms EXCEPT ![r] = @ \cup {c}] /\ joined' = [joined EXCEPT ![c] = @ \cup {r}]
    /\ UNCHANGED <<clients, subjects, subject, chanVars, connVars, hub, newest>>

JoinRoom(c, r) ==
    /\ Current(c)
    /\ rooms' = [rooms EXCEPT ![r] = @ \cup {c}] /\ joined' = [joined EXCEPT ![c] = @ \cup {r}]
    /\ UNCHANGED <<clients, subjects, subject, chanVars, connVars, hub, newest>>

LeaveRoom(c, r) ==
    /\ writer[c] # "none"
    /\ rooms' = [rooms EXCEPT ![r] = @ \ {c}] /\ joined' = [joined EXCEPT ![c] = @ \ {r}]
    /\ UNCHANGED <<clients, subjects, subject, chanVars, connVars, hub, newest>>

AssociateSubject(s, u) ==
    /\ clients[s] # NoClient
    /\ LET c == clients[s] IN
          /\ subject' = [subject EXCEPT ![c] = u]
          /\ subjects' = [k \in Subjects |-> IF k = u THEN subjects[k] \cup {c} ELSE subjects[k] \ {c}]
    /\ UNCHANGED <<clients, rooms, joined, chanVars, connVars, hub, newest>>

(* safeSend to each of cs: a full buffer drops the message.                *)
SendTo(cs) ==
    /\ cs # {}
    /\ queued' = [c \in Conns |-> IF c \in cs /\ chan[c] = "open" /\ queued[c] < Cap
                                  THEN queued[c] + 1 ELSE queued[c]]
    /\ crashed' = (crashed \/ \E c \in cs : chan[c] = "closed")
    /\ UNCHANGED <<mapVars, joined, subject, chan, connVars, hub, newest>>

Registered == {clients[s] : s \in Sessions} \ {NoClient}

(* SendToSession, SendToSubject, SendToRoom, SendToRoomExcept, Broadcast.  *)
Send ==
    \/ \E s \in Sessions : SendTo({clients[s]} \ {NoClient})
    \/ \E u \in Subjects : SendTo(subjects[u])
    \/ \E r \in Rooms : SendTo(rooms[r])
    \/ \E r \in Rooms, s \in Sessions : SendTo({c \in rooms[r] : SessionOf[c] # s})
    \/ SendTo(Registered)

-----------------------------------------------------------------------------
(* Close.                                                                  *)

MarkClosed ==
    /\ hub = "open" /\ hub' = "closed"
    /\ UNCHANGED <<mapVars, joined, subject, chanVars, connVars, newest>>

Cancel ==
    /\ hub = "closed" /\ hub' = "waiting"
    /\ UNCHANGED <<mapVars, joined, subject, chanVars, connVars, newest>>

(* wg counts the write pumps.                                              *)
WritersDone == \A c \in Conns : writer[c] \in {"none", "done"}

ClearMaps ==
    /\ hub = "waiting" /\ WritersDone
    /\ hub' = "done"
    /\ clients' = [s \in Sessions |-> NoClient]
    /\ subjects' = [u \in Subjects |-> {}] /\ rooms' = [r \in Rooms |-> {}]
    /\ UNCHANGED <<joined, subject, chanVars, connVars, newest>>

Handler(c) == Accept(c) \/ Reject(c) \/ Register(c)
ReadPump(c) == ReadMessage(c) \/ CallbackReturns(c) \/ ReadFails(c) \/ Unregister(c)
WritePump(c) == TakeMessage(c) \/ Written(c) \/ WriterEnds(c)
Close == MarkClosed \/ Cancel \/ ClearMaps
Call ==
    \/ \E c \in Conns, r \in Rooms : JoinRoom(c, r) \/ LeaveRoom(c, r)
    \/ \E s \in Sessions, u \in Subjects \cup {Anonymous} : AssociateSubject(s, u)
    \/ Send

Next ==
    \/ \E c \in Conns : Handler(c) \/ ReadPump(c) \/ WritePump(c) \/ Disconnect(c)
    \/ Call \/ Close

Spec == Init /\ [][Next]_vars

(* The pumps run; Read and Write return once the connection is down or the *)
(* context is done; a callback returns; a Close that has begun goes on.    *)
FairSpec ==
    /\ Spec
    /\ \A c \in Conns :
          /\ WF_vars(CallbackReturns(c)) /\ WF_vars(ReadFails(c)) /\ WF_vars(Unregister(c))
          /\ WF_vars(TakeMessage(c)) /\ WF_vars(WriterEnds(c)) /\ WF_vars(Written(c))
    /\ WF_vars(Cancel) /\ WF_vars(ClearMaps)

-----------------------------------------------------------------------------
(* Properties.                                                             *)

(* No message is sent on a closed channel and none is closed twice: the    *)
(* panic the comment on JoinRoom warns of takes the whole server down.     *)
NeverPanics == ~crashed

(* The maps agree with each other: only registered clients can be reached  *)
(* through a room or a subject, and exactly through those they are in.     *)
MapsAgree ==
    \A c \in Conns :
       /\ \A r \in Rooms : c \in rooms[r] <=> Current(c) /\ r \in joined[c]
       /\ \A u \in Subjects : c \in subjects[u] <=> Current(c) /\ u = subject[c]

(* A reconnect wins: while the newest connection of a session is being     *)
(* read, that session's messages go to it, whatever its predecessors do.   *)
NewestIsReached ==
    hub # "done" =>
       \A s \in Sessions :
          LET c == newest[s] IN
          c # NoClient => (reader[c] \in {"reading", "callback", "leaving"} => clients[s] = c)

(* Once Close has returned the hub is empty and stays so, and no write     *)
(* pump is running.                                                        *)
ClosedIsEmpty == hub = "done" => Registered = {} /\ WritersDone

(* The invariant: types, no panic, maps that agree, an empty closed hub.   *)
Inv == TypeOK /\ NeverPanics /\ MapsAgree /\ ClosedIsEmpty

(* What has to end: Close, whatever is queued and whoever reads slowly; and *)
(* a client that has been replaced, or whose writes fail, of which neither *)
(* the pumps nor the place in the maps may leak.                           *)
Leaving(c) ==
    /\ chan[c] = "closed" \/ writer[c] = "done"
    /\ ~(reader[c] = "done" /\ writer[c] = "done" /\ ~Current(c))
Ending == hub \in {"closed", "waiting"} \/ \E c \in Conns : Leaving(c)

(* Each connection leaves once and the hub closes once, so this says that  *)
(* each of them does get there.                                            *)
HubEnds == Ending ~> ~Ending
=============================================================================
