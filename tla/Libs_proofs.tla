------------------------------ MODULE Libs_proofs ------------------------------
(***************************************************************************)
(* Proofs about the hub, and about the janitor, the group of jobs,         *)
(* concurrent jobs and the cache of flags as MCLibs composes them, for any *)
(* connections, sessions, subjects, rooms, tasks, calls, limits, jobs,     *)
(* flags, commits and faults.                                              *)
(***************************************************************************)
EXTENDS MCLibs, FiniteSetTheorems, TLAPS

-----------------------------------------------------------------------------
(* The hub, by itself.                                                     *)

(* A connection that has not registered is in no room and has no write     *)
(* pump; once accepted it has a channel.                                   *)
Unregistered ==
    \A c \in Conns :
       /\ reader[c] \in {"none", "accepted"} => joined[c] = {} /\ writer[c] = "none"
       /\ reader[c] = "accepted" => chan[c] = "open"

(* A client is registered under its own session, is the newest of it, its  *)
(* channel is open, and its read pump has yet to unregister it.            *)
CurrentIsLive ==
    \A s \in Sessions : clients[s] # NoClient =>
       /\ SessionOf[clients[s]] = s /\ newest[s] = clients[s]
       /\ chan[clients[s]] = "open"
       /\ reader[clients[s]] \in {"reading", "callback", "leaving"}

(* What is remembered as the newest of a session is a connection of that   *)
(* session that has registered.                                            *)
NewestOfOwn ==
    \A s \in Sessions : newest[s] # NoClient =>
       SessionOf[newest[s]] = s /\ reader[newest[s]] \notin {"none", "accepted"}

(* The inductive invariant.                                                *)
IInv ==
    /\ TypeOK /\ Unregistered /\ CurrentIsLive /\ NewestOfOwn
    /\ MapsAgree /\ NewestIsReached /\ ClosedIsEmpty /\ NeverPanics

(* Who holds a session is the only current client of that session.         *)
LEMMA CurrentIsUnique ==
    ASSUME IInv, NEW c \in Conns, NEW d \in Conns, Current(c), Current(d), SessionOf[c] = SessionOf[d]
    PROVE  c = d
BY DEF Current

(* Whoever is reached through a session, a subject or a room is current.   *)
LEMMA ReachedIsCurrent ==
    ASSUME IInv
    PROVE  /\ \A s \in Sessions : clients[s] # NoClient => clients[s] \in Conns /\ Current(clients[s])
           /\ \A u \in Subjects : \A c \in subjects[u] : c \in Conns /\ Current(c)
           /\ \A r \in Rooms : \A c \in rooms[r] : c \in Conns /\ Current(c)
           /\ \A c \in Conns : Current(c) => chan[c] = "open"
BY HubAssumption DEF IInv, TypeOK, CurrentIsLive, MapsAgree, Current

(* The initial state satisfies the invariant.                              *)
LEMMA InitOK == Init => IInv
<1> SUFFICES ASSUME Init PROVE IInv  OBVIOUS
<1>1. TypeOK
  <2>1. SubjectAt \in [Conns -> Subjects \cup {Anonymous}] /\ 0 \in 0 .. Cap
    BY HubAssumption
  <2>2. /\ clients \in [Sessions -> Conns \cup {NoClient}] /\ newest \in [Sessions -> Conns \cup {NoClient}]
        /\ subjects \in [Subjects -> SUBSET Conns] /\ rooms \in [Rooms -> SUBSET Conns]
        /\ joined \in [Conns -> SUBSET Rooms] /\ queued \in [Conns -> 0 .. Cap]
    BY <2>1 DEF Init
  <2> QED  BY <2>1, <2>2 DEF Init, TypeOK
<1>2. Unregistered /\ CurrentIsLive /\ NewestOfOwn /\ NewestIsReached
  BY HubAssumption DEF Init, Unregistered, CurrentIsLive, NewestOfOwn, NewestIsReached
<1>3. MapsAgree
  BY HubAssumption DEF Init, MapsAgree, Current
<1>4. ClosedIsEmpty /\ NeverPanics
  BY DEF Init, ClosedIsEmpty, NeverPanics
<1> QED  BY <1>1, <1>2, <1>3, <1>4 DEF IInv

(* What only moves the pumps, the connection or the queue keeps it.        *)
LEMMA PumpsOK ==
    ASSUME IInv, NEW c \in Conns,
           \/ Accept(c) \/ Reject(c) \/ ReadMessage(c) \/ CallbackReturns(c) \/ ReadFails(c)
           \/ Disconnect(c) \/ WritePump(c)
    PROVE  IInv'
<1> USE DEF mapVars, connVars, chanVars
<1>1. TypeOK'
  BY HubAssumption DEF IInv, TypeOK, Accept, Reject, ReadMessage, CallbackReturns, ReadFails,
     Disconnect, WritePump, TakeMessage, Written, WriterEnds
<1>2. UNCHANGED <<mapVars, joined, subject, hub, newest, crashed>>
  BY DEF Accept, Reject, ReadMessage, CallbackReturns, ReadFails, Disconnect, WritePump,
     TakeMessage, Written, WriterEnds
<1>3. \A d \in Conns : /\ reader[d] \in {"reading", "callback", "leaving"} <=>
                             reader'[d] \in {"reading", "callback", "leaving"}
                       /\ reader'[d] \in {"none", "accepted"} => reader[d] \in {"none", "accepted"}
                       /\ writer[d] \in {"none", "done"} => writer'[d] = writer[d]
                       /\ writer[d] # "none" \/ writer'[d] = "none"
                       /\ chan[d] = "open" => chan'[d] = "open"
                       /\ reader'[d] = "accepted" => reader[d] = "accepted" \/ chan'[d] = "open"
  BY DEF IInv, TypeOK, Accept, Reject, ReadMessage, CallbackReturns, ReadFails,
     Disconnect, WritePump, TakeMessage, Written, WriterEnds
<1>4. Unregistered' /\ NewestIsReached' /\ NewestOfOwn'
  BY <1>2, <1>3, HubAssumption DEF IInv, TypeOK, Unregistered, NewestIsReached, NewestOfOwn
<1>5. CurrentIsLive'
  <2>1. \A s \in Sessions : clients[s] \in Conns \cup {NoClient}
    BY DEF IInv, TypeOK
  <2> QED  BY <1>2, <1>3, <2>1, HubAssumption DEF IInv, CurrentIsLive
<1>6. MapsAgree' /\ ClosedIsEmpty' /\ NeverPanics'
  BY <1>2, <1>3 DEF IInv, MapsAgree, Current, ClosedIsEmpty, Registered, WritersDone, NeverPanics
<1> QED  BY <1>1, <1>4, <1>5, <1>6 DEF IInv

(* Registering replaces the session's client, and closes its channel once. *)
LEMMA RegisterOK ==
    ASSUME IInv, NEW c \in Conns, Register(c)
    PROVE  IInv'
<1> DEFINE old == clients[SessionOf[c]]
<1> USE DEF mapVars, connVars, chanVars
<1>0. /\ SessionOf[c] \in Sessions /\ reader[c] = "accepted" /\ hub = "open" /\ ~Current(c)
      /\ joined[c] = {} /\ writer[c] = "none" /\ chan[c] = "open"
  BY HubAssumption DEF IInv, TypeOK, Register, Unregistered, CurrentIsLive, Current
<1>1. /\ clients' = [clients EXCEPT ![SessionOf[c]] = c]
      /\ newest' = [newest EXCEPT ![SessionOf[c]] = c]
      /\ reader' = [reader EXCEPT ![c] = "reading"] /\ writer' = [writer EXCEPT ![c] = "select"]
      /\ joined' = joined /\ subject' = subject /\ conn' = conn /\ hub' = hub /\ queued' = queued
  BY DEF Register, Start, CloseSend
<1>2. old # NoClient => old \in Conns /\ old # c /\ chan[old] = "open" /\ SessionOf[old] = SessionOf[c]
  BY <1>0, HubAssumption DEF IInv, TypeOK, CurrentIsLive, Current
<1>3. /\ crashed' = crashed
      /\ \A d \in Conns : d # old => chan'[d] = chan[d]
      /\ chan' \in [Conns -> {"none", "open", "closed"}]
  BY <1>2 DEF IInv, TypeOK, Register, CloseSend
<1>4. /\ subjects' \in [Subjects -> SUBSET Conns] /\ rooms' \in [Rooms -> SUBSET Conns]
      /\ \A r \in Rooms : rooms'[r] = rooms[r] \ {old}
      /\ \A u \in Subjects : subjects'[u] = (subjects[u] \ {old}) \cup (IF u = subject[c] THEN {c} ELSE {})
  <2>1. CASE old = NoClient
    BY <2>1, HubAssumption DEF IInv, TypeOK, Register, Enrolled
  <2>2. CASE old # NoClient
    <3>1. /\ subjects' = Enrolled(c, Without(old, subjects, {subject[old]}))
          /\ rooms' = Without(old, rooms, joined[old])
      BY <2>2 DEF Register
    <3>2. /\ \A r \in Rooms : old \in rooms[r] => r \in joined[old]
          /\ \A u \in Subjects : old \in subjects[u] => u = subject[old]
      BY <1>2, <2>2 DEF IInv, MapsAgree
    <3>3. DOMAIN rooms = Rooms /\ DOMAIN subjects = Subjects
      BY DEF IInv, TypeOK
    <3> QED  BY <3>1, <3>2, <3>3 DEF IInv, TypeOK, Without, Enrolled
  <2> QED  BY <2>1, <2>2
<1>5. TypeOK'
  BY <1>0, <1>1, <1>3, <1>4 DEF IInv, TypeOK
<1>6. Unregistered'
  <2>1. \A d \in Conns : reader'[d] = "accepted" => d # old
    BY <1>0, <1>1, <1>2, HubAssumption DEF IInv, TypeOK, CurrentIsLive
  <2> QED  BY <1>0, <1>1, <1>3, <2>1 DEF IInv, TypeOK, Unregistered
<1>7. \A d \in Conns : Current(d)' <=> d = c \/ (Current(d) /\ d # old)
  BY <1>0, <1>1, <1>2, HubAssumption DEF IInv, TypeOK, Current
<1>8. CurrentIsLive'
  <2> SUFFICES ASSUME NEW s \in Sessions, clients'[s] # NoClient
               PROVE  /\ SessionOf[clients'[s]] = s /\ newest'[s] = clients'[s]
                      /\ chan'[clients'[s]] = "open"
                      /\ reader'[clients'[s]] \in {"reading", "callback", "leaving"}
    BY DEF CurrentIsLive
  <2>1. CASE s = SessionOf[c]
    <3>1. clients'[s] = c /\ newest'[s] = c /\ reader'[c] = "reading"
      BY <1>0, <1>1, <2>1 DEF IInv, TypeOK
    <3>2. chan'[c] = "open"
      BY <1>0, <1>2, <1>3, HubAssumption
    <3> QED  BY <2>1, <3>1, <3>2
  <2>2. CASE s # SessionOf[c]
    <3>1. clients'[s] = clients[s] /\ newest'[s] = newest[s] /\ clients[s] \in Conns
      BY <1>1, <2>2 DEF IInv, TypeOK
    <3>2. clients[s] # old /\ clients[s] # c
      BY <1>0, <1>2, <2>2, <3>1, HubAssumption DEF IInv, CurrentIsLive
    <3> QED  BY <1>1, <1>3, <3>1, <3>2 DEF IInv, TypeOK, CurrentIsLive
  <2> QED  BY <2>1, <2>2
<1>9. MapsAgree'
  <2> SUFFICES ASSUME NEW d \in Conns
               PROVE  /\ \A r \in Rooms : d \in rooms'[r] <=> Current(d)' /\ r \in joined[d]
                      /\ \A u \in Subjects : d \in subjects'[u] <=> Current(d)' /\ u = subject[d]
    BY <1>1 DEF MapsAgree
  <2>1. /\ \A r \in Rooms : d \in rooms[r] <=> Current(d) /\ r \in joined[d]
        /\ \A u \in Subjects : d \in subjects[u] <=> Current(d) /\ u = subject[d]
    BY DEF IInv, MapsAgree
  <2>2. c # old
    BY <1>2, HubAssumption
  <2>3. CASE d = c
    BY <1>0, <1>4, <1>7, <2>1, <2>2, <2>3
  <2>4. CASE d # c
    BY <1>4, <1>7, <2>1, <2>4
  <2> QED  BY <2>3, <2>4
<1>10. NewestIsReached'
  <2> SUFFICES ASSUME NEW s \in Sessions, newest'[s] # NoClient,
                      reader'[newest'[s]] \in {"reading", "callback", "leaving"}
               PROVE  clients'[s] = newest'[s]
    BY DEF NewestIsReached
  <2>1. CASE s = SessionOf[c]
    BY <1>0, <1>1, <2>1 DEF IInv, TypeOK
  <2>2. CASE s # SessionOf[c]
    <3>1. newest'[s] = newest[s] /\ clients'[s] = clients[s] /\ newest[s] \in Conns
      BY <1>1, <2>2 DEF IInv, TypeOK
    <3>2. newest[s] # c
      BY <1>0, <3>1, <2>2 DEF IInv, NewestOfOwn
    <3> QED  BY <1>0, <1>1, <3>1, <3>2 DEF IInv, TypeOK, NewestIsReached
  <2> QED  BY <2>1, <2>2
<1>11. NewestOfOwn'
  BY <1>0, <1>1 DEF IInv, TypeOK, NewestOfOwn
<1>12. ClosedIsEmpty' /\ NeverPanics'
  BY <1>0, <1>1, <1>3 DEF IInv, ClosedIsEmpty, NeverPanics
<1> QED  BY <1>5, <1>6, <1>8, <1>9, <1>10, <1>11, <1>12 DEF IInv

(* Unregistering empties the session only if it is still this client's.    *)
LEMMA UnregisterOK ==
    ASSUME IInv, NEW c \in Conns, Unregister(c)
    PROVE  IInv'
<1> USE DEF mapVars, connVars, chanVars
<1>0. /\ SessionOf[c] \in Sessions /\ reader[c] = "leaving" /\ reader' = [reader EXCEPT ![c] = "done"]
      /\ UNCHANGED <<joined, subject, conn, writer, hub, newest, queued>>
      /\ Current(c) => chan[c] = "open"
  <2>1. SessionOf[c] \in Sessions /\ (Current(c) => chan[c] = "open")
    BY HubAssumption, ReachedIsCurrent
  <2>2. UNCHANGED queued
    BY DEF Unregister, CloseSend
  <2> QED  BY <2>1, <2>2 DEF Unregister, Left
<1>1. /\ Unregistered' /\ NewestOfOwn'
      /\ crashed' = crashed
      /\ \A d \in Conns : d # c => chan'[d] = chan[d]
  BY <1>0, HubAssumption DEF IInv, TypeOK, Unregister, CloseSend, Unregistered, NewestOfOwn
<1>2. /\ subjects' \in [Subjects -> SUBSET Conns] /\ rooms' \in [Rooms -> SUBSET Conns]
      /\ \A r \in Rooms : rooms'[r] = rooms[r] \ {c}
      /\ \A u \in Subjects : subjects'[u] = subjects[u] \ {c}
  <2>1. CASE Current(c)
    <3>1. subjects' = Without(c, subjects, {subject[c]}) /\ rooms' = Without(c, rooms, joined[c])
      BY <2>1 DEF Unregister
    <3>2. /\ \A r \in Rooms : c \in rooms[r] => r \in joined[c]
          /\ \A u \in Subjects : c \in subjects[u] => u = subject[c]
      BY DEF IInv, MapsAgree
    <3>3. DOMAIN rooms = Rooms /\ DOMAIN subjects = Subjects
      BY DEF IInv, TypeOK
    <3> QED  BY <3>1, <3>2, <3>3 DEF IInv, TypeOK, Without
  <2>2. CASE ~Current(c)
    BY <2>2 DEF IInv, TypeOK, MapsAgree, Unregister
  <2> QED  BY <2>1, <2>2
<1>3. /\ \A d \in Conns : Current(d)' <=> Current(d) /\ d # c
      /\ \A s \in Sessions : clients'[s] = IF clients[s] = c THEN NoClient ELSE clients[s]
      /\ clients' \in [Sessions -> Conns \cup {NoClient}]
  <2>1. \A s \in Sessions : clients[s] = c => s = SessionOf[c]
    BY HubAssumption DEF IInv, CurrentIsLive
  <2>2. clients \in [Sessions -> Conns \cup {NoClient}] /\ NoClient \notin Conns
    BY HubAssumption DEF IInv, TypeOK
  <2>3. clients' = [s \in Sessions |-> IF clients[s] = c THEN NoClient ELSE clients[s]]
    <3>1. CASE Current(c)
      BY <1>0, <2>1, <2>2, <3>1 DEF Unregister, Current
    <3>2. CASE ~Current(c)
      BY <1>0, <2>1, <2>2, <3>2 DEF Unregister, Current
    <3> QED  BY <3>1, <3>2
  <2>4. \A d \in Conns : SessionOf[d] \in Sessions
    BY HubAssumption
  <2> QED  BY <2>2, <2>3, <2>4 DEF Current
<1>4. TypeOK'
  BY <1>0, <1>1, <1>2, <1>3 DEF IInv, TypeOK, Unregister, CloseSend
<1>5. CurrentIsLive'
  BY <1>0, <1>1, <1>3, HubAssumption DEF IInv, TypeOK, CurrentIsLive
<1>6. MapsAgree'
  BY <1>0, <1>2, <1>3 DEF IInv, MapsAgree
<1>7. NewestIsReached'
  BY <1>0, <1>3, HubAssumption DEF IInv, TypeOK, NewestIsReached
<1>8. ClosedIsEmpty' /\ NeverPanics'
  <2>1. hub = "done" => \A s \in Sessions : clients[s] = NoClient
    BY DEF IInv, ClosedIsEmpty, Registered
  <2> QED  BY <1>0, <1>1, <1>3, <2>1 DEF IInv, ClosedIsEmpty, Registered, WritersDone, NeverPanics
<1> QED  BY <1>1, <1>4, <1>5, <1>6, <1>7, <1>8 DEF IInv

(* The calls of the application reach current clients only.                *)
LEMMA CallOK ==
    ASSUME IInv, Call
    PROVE  IInv'
<1> USE DEF mapVars, connVars, chanVars
<1>1. ASSUME NEW c \in Conns, NEW r \in Rooms, JoinRoom(c, r) PROVE IInv'
  <2>1. reader[c] \notin {"none", "accepted"}
    BY <1>1, HubAssumption DEF IInv, JoinRoom, Current, CurrentIsLive
  <2>2. TypeOK'
    BY <1>1 DEF IInv, TypeOK, JoinRoom
  <2>3. Unregistered'
    BY <1>1, <2>1 DEF IInv, TypeOK, JoinRoom, Unregistered
  <2>4. MapsAgree'
    BY <1>1 DEF IInv, TypeOK, JoinRoom, MapsAgree, Current
  <2>5. CurrentIsLive' /\ NewestOfOwn' /\ NewestIsReached' /\ ClosedIsEmpty' /\ NeverPanics'
    BY <1>1 DEF IInv, JoinRoom, CurrentIsLive, NewestOfOwn, NewestIsReached, ClosedIsEmpty,
       Registered, WritersDone, NeverPanics
  <2> QED  BY <2>2, <2>3, <2>4, <2>5 DEF IInv
<1>2. ASSUME NEW c \in Conns, NEW r \in Rooms, LeaveRoom(c, r) PROVE IInv'
  <2>1. TypeOK' /\ Unregistered'
    BY <1>2 DEF IInv, TypeOK, LeaveRoom, Unregistered
  <2>2. MapsAgree'
    BY <1>2 DEF IInv, TypeOK, LeaveRoom, MapsAgree, Current
  <2>3. CurrentIsLive' /\ NewestOfOwn' /\ NewestIsReached' /\ ClosedIsEmpty' /\ NeverPanics'
    BY <1>2 DEF IInv, LeaveRoom, CurrentIsLive, NewestOfOwn, NewestIsReached, ClosedIsEmpty,
       Registered, WritersDone, NeverPanics
  <2> QED  BY <2>1, <2>2, <2>3 DEF IInv
<1>3. ASSUME NEW s \in Sessions, NEW u \in Subjects \cup {Anonymous}, AssociateSubject(s, u) PROVE IInv'
  <2>1. clients[s] \in Conns /\ Current(clients[s])
    BY <1>3, HubAssumption DEF IInv, TypeOK, AssociateSubject, CurrentIsLive, Current
  <2>2. TypeOK'
    BY <1>3, <2>1 DEF IInv, TypeOK, AssociateSubject
  <2>3. MapsAgree'
    BY <1>3, <2>1 DEF IInv, TypeOK, AssociateSubject, MapsAgree, Current
  <2>4. Unregistered' /\ CurrentIsLive' /\ NewestOfOwn' /\ NewestIsReached' /\ ClosedIsEmpty' /\ NeverPanics'
    BY <1>3 DEF IInv, AssociateSubject, Unregistered, CurrentIsLive, NewestOfOwn, NewestIsReached,
       ClosedIsEmpty, Registered, WritersDone, NeverPanics
  <2> QED  BY <2>2, <2>3, <2>4 DEF IInv
<1>4. ASSUME Send PROVE IInv'
  <2>1. PICK cs : SendTo(cs) /\ \A c \in cs : c \in Conns /\ chan[c] = "open"
    <3>1. CASE \E s \in Sessions : SendTo({clients[s]} \ {NoClient})
      BY <3>1, ReachedIsCurrent
    <3>2. CASE \E u \in Subjects : SendTo(subjects[u])
      BY <3>2, ReachedIsCurrent
    <3>3. CASE \E r \in Rooms : SendTo(rooms[r])
      BY <3>3, ReachedIsCurrent
    <3>4. CASE \E r \in Rooms, s \in Sessions : SendTo({c \in rooms[r] : SessionOf[c] # s})
      BY <3>4, ReachedIsCurrent
    <3>5. CASE SendTo(Registered)
      <4>1. \A c \in Registered : c \in Conns /\ chan[c] = "open"
        BY ReachedIsCurrent DEF Registered
      <4> QED  BY <3>5, <4>1
    <3> QED  BY <1>4, <3>1, <3>2, <3>3, <3>4, <3>5 DEF Send
  <2>2. crashed' = crashed
    BY <2>1 DEF SendTo, IInv, TypeOK
  <2>3. queued' \in [Conns -> 0 .. Cap]
    BY <2>1, HubAssumption DEF SendTo, IInv, TypeOK
  <2>4. UNCHANGED <<mapVars, joined, subject, chan, connVars, hub, newest>>
    BY <2>1 DEF SendTo
  <2>5. TypeOK'
    BY <2>2, <2>3, <2>4 DEF IInv, TypeOK
  <2> QED  BY <2>2, <2>4, <2>5 DEF IInv, Unregistered, CurrentIsLive, NewestOfOwn, MapsAgree,
              Current, NewestIsReached, ClosedIsEmpty, Registered, WritersDone, NeverPanics
<1> QED  BY <1>1, <1>2, <1>3, <1>4 DEF Call

(* Close empties the maps once the write pumps have ended.                 *)
LEMMA CloseOK ==
    ASSUME IInv, Close
    PROVE  IInv'
<1> USE DEF mapVars, connVars, chanVars
<1>1. CASE MarkClosed \/ Cancel
  BY <1>1 DEF MarkClosed, Cancel, IInv, TypeOK, Unregistered, CurrentIsLive, NewestOfOwn, MapsAgree,
     Current, NewestIsReached, ClosedIsEmpty, Registered, WritersDone, NeverPanics
<1>2. CASE ClearMaps
  <2>1. \A c \in Conns : ~Current(c)'
    BY <1>2, HubAssumption DEF ClearMaps, Current
  <2>2. TypeOK' /\ Unregistered' /\ NewestOfOwn' /\ NeverPanics'
    BY <1>2, HubAssumption DEF ClearMaps, IInv, TypeOK, Unregistered, NewestOfOwn, NeverPanics
  <2>3. CurrentIsLive' /\ NewestIsReached'
    BY <1>2 DEF ClearMaps, CurrentIsLive, NewestIsReached
  <2>4. MapsAgree'
    BY <1>2, <2>1 DEF ClearMaps, MapsAgree
  <2>5. ClosedIsEmpty'
    BY <1>2 DEF ClearMaps, ClosedIsEmpty, Registered, WritersDone
  <2> QED  BY <2>2, <2>3, <2>4, <2>5 DEF IInv
<1> QED  BY <1>1, <1>2 DEF Close

(* The invariant holds in every behaviour.                                 *)
THEOREM Invariance == Spec => []IInv
<1>1. IInv /\ [Next]_vars => IInv'
  <2> SUFFICES ASSUME IInv, [Next]_vars PROVE IInv'  OBVIOUS
  <2>1. ASSUME NEW c \in Conns, Handler(c) \/ ReadPump(c) \/ WritePump(c) \/ Disconnect(c) PROVE IInv'
    BY <2>1, PumpsOK, RegisterOK, UnregisterOK DEF Handler, ReadPump
  <2>2. CASE UNCHANGED vars
    <3> USE <2>2 DEF vars, mapVars, connVars, chanVars, IInv
    <3>1. TypeOK'
      BY DEF TypeOK
    <3>2. Unregistered'
      BY DEF Unregistered
    <3>3. CurrentIsLive' /\ NewestOfOwn'
      BY DEF CurrentIsLive, NewestOfOwn
    <3>4. MapsAgree'
      BY DEF MapsAgree, Current
    <3>5. NewestIsReached'
      BY DEF NewestIsReached
    <3>6. ClosedIsEmpty'
      BY DEF ClosedIsEmpty, Registered, WritersDone
    <3>7. NeverPanics'
      BY DEF NeverPanics
    <3> QED  BY <3>1, <3>2, <3>3, <3>4, <3>5, <3>6, <3>7
  <2> QED  BY <2>1, <2>2, CallOK, CloseOK DEF Next
<1> QED  BY InitOK, <1>1, PTL DEF Spec

(* Every variable keeps its type.                                          *)
THEOREM TypeCorrect == Spec => []TypeOK
BY Invariance, PTL DEF IInv

(* Nothing is sent on, or closes, a closed channel: hub.go's JoinRoom and  *)
(* unregister check that the client is the current one.                    *)
THEOREM HubNeverPanics == Spec => []NeverPanics
BY Invariance, PTL DEF IInv

(* The three maps always agree.                                            *)
THEOREM HubMapsAgree == Spec => []MapsAgree
BY Invariance, PTL DEF IInv

(* A reconnect wins over what it replaces.                                 *)
THEOREM ReconnectWins == Spec => []NewestIsReached
BY Invariance, PTL DEF IInv

(* A closed hub is empty for good.                                         *)
THEOREM ClosedHubIsEmpty == Spec => []ClosedIsEmpty
BY Invariance, PTL DEF IInv

(* The invariant the run checks: its four parts.                           *)
THEOREM HubIsSafe == Spec => []Inv
BY TypeCorrect, HubNeverPanics, HubMapsAgree, ClosedHubIsEmpty, PTL DEF Inv

-----------------------------------------------------------------------------
(* The janitor.                                                            *)

(* A run holds the marker of its task.                                     *)
Holds(r) == run[r] \in {"hooks", "running", "post", "releasing"}

(* Two runs of one task do not hold its marker; the marker is there for    *)
(* each that does, and only for those.                                     *)
OneHolder(q, r) == q # r /\ q[3] = r[3] => ~ (Holds(q) /\ Holds(r))
HolderMarks(r)  == Holds(r) => r[3] \in running
MarkHeld(t)     == t \in running => \E r \in J!Runs : r[3] = t /\ Holds(r)

(* What there is of a generation there is of one that was started; who is  *)
(* not the owner has disturbed the generation it stops.                    *)
Orderly ==
    /\ pc[Owner] = "idle" => gens = 0
    /\ pc[Owner] \in {"adding", "starting", "now"} => gens # 0
    /\ \A g \in cancelled : g <= gens
    /\ \A p \in J!Callers : got[p] <= gens /\ asked[p] <= gens
    /\ \A p \in J!Callers : p # Owner /\ got[p] # 0 => got[p] \in disturbed
    /\ \A g \in J!Gens : watch[g] = "clearing" => g \in cancelled

(* A generation nobody disturbed is the owner's: current until its Stop,   *)
(* then in its hands, its cron stopped, and its runs drained one kind      *)
(* after the other before the next Start.                                  *)
OwnersOwn(g) ==
    g <= gens /\ g \notin disturbed =>
        /\ g < gens \/ pc[Owner] \in {"drain", "wait", "stopped"} => cron[g] # "ticking"
        /\ g < gens \/ pc[Owner] \in {"wait", "stopped"} =>
               \A t \in Tasks : run[<<"cron", g, t>>] = "none"
        /\ g < gens \/ pc[Owner] = "stopped" =>
               \A t \in Tasks : run[<<"now", g, t>>] \in {"none", "over"}
        /\ g = gens /\ pc[Owner] \in {"adding", "starting", "now", "started"} =>
               cur = g /\ g \notin cancelled
        /\ g = gens /\ pc[Owner] \in {"cancel", "cron", "drain", "wait"} => got[Owner] = g

(* The inductive invariant. *)
JanitorIInv ==
    /\ J!TypeOK /\ Orderly
    /\ \A q, r \in J!Runs : OneHolder(q, r)
    /\ \A r \in J!Runs : HolderMarks(r)
    /\ \A t \in Tasks : MarkHeld(t)
    /\ \A g \in J!Gens : OwnersOwn(g)

(* A run is a kind, a generation and a task.                               *)
LEMMA RunOfTask ==
    ASSUME NEW k \in {"cron", "now"}, NEW g \in J!Gens, NEW t \in Tasks
    PROVE  <<k, g, t>> \in J!Runs
BY DEF J!Runs, J!Kinds

LEMMA RunIsOne ==
    ASSUME NEW r \in J!Runs
    PROVE  /\ r[1] \in {"cron", "now"} /\ r[2] \in J!Gens /\ r[3] \in Tasks
           /\ r = <<r[1], r[2], r[3]>>
BY DEF J!Runs, J!Kinds

(* The initial state satisfies the invariant.                              *)
LEMMA JanitorInitOK == J!Init => JanitorIInv
<1> SUFFICES ASSUME J!Init PROVE JanitorIInv  OBVIOUS
<1> USE JanitorAssumption DEF J!Init, JanitorAssumption
<1>1. J!TypeOK
  BY DEF J!TypeOK
<1>2. Orderly
  BY DEF Orderly, J!Gens, J!Callers
<1>3. \A q, r \in J!Runs : OneHolder(q, r) /\ HolderMarks(r)
  BY DEF OneHolder, HolderMarks, Holds
<1>4. \A t \in Tasks : MarkHeld(t)
  BY DEF MarkHeld
<1>5. \A g \in J!Gens : OwnersOwn(g)
  BY DEF OwnersOwn, J!Gens
<1> QED BY <1>1, <1>2, <1>3, <1>4, <1>5 DEF JanitorIInv

(* Every step keeps every variable in its type.                            *)
LEMMA TypeStep ==
    ASSUME JanitorIInv, [J!Next]_(J!vars)
    PROVE  J!TypeOK'
<1> USE JanitorAssumption DEF JanitorAssumption, J!Gens
<1>g. J!TypeOK /\ Orderly
  BY DEF JanitorIInv
<1>o. Owner \in J!Callers
  BY DEF J!Callers
<1>gens. gens \in 0 .. MaxStarts
  BY <1>g DEF J!TypeOK
<1>cur. cur \in 0 .. gens
  BY <1>g DEF J!TypeOK
<1>cron. cron \in [J!Gens -> {"new", "ticking", "stopped"}]
  BY <1>g DEF J!TypeOK
<1>cancelled. cancelled \in SUBSET J!Gens
  BY <1>g DEF J!TypeOK
<1>watch. watch \in [J!Gens -> {"none", "waiting", "clearing", "done"}]
  BY <1>g DEF J!TypeOK
<1>pc. pc \in [J!Callers -> {"idle", "adding", "starting", "now", "started", "cancel", "cron",
       "drain", "wait", "stopped"}]
  BY <1>g DEF J!TypeOK
<1>got. got \in [J!Callers -> 0 .. MaxStarts]
  BY <1>g DEF J!TypeOK
<1>asked. asked \in [J!Callers -> 0 .. MaxStarts]
  BY <1>g DEF J!TypeOK
<1>disturbed. disturbed \in SUBSET J!Gens
  BY <1>g DEF J!TypeOK
<1>run. run \in [J!Runs -> {"none", "begun", "hooks", "running", "post", "releasing", "over"}]
  BY <1>g DEF J!TypeOK
<1>running. running \in SUBSET Tasks
  BY <1>g DEF J!TypeOK
<1>1. CASE J!Start(Owner)
  <2>1. gens' \in 0 .. MaxStarts
    BY <1>o, <1>1, <1>gens DEF J!Start
  <2>2. cur' \in 0 .. gens'
    BY <1>o, <1>1, <1>cur, <1>gens DEF J!Start
  <2>3. pc' \in [J!Callers -> {"idle", "adding", "starting", "now", "started", "cancel", "cron",
         "drain", "wait", "stopped"}]
    BY <1>o, <1>1, <1>pc DEF J!Start
  <2> QED BY <1>g, <1>1, <2>1, <2>2, <2>3 DEF J!TypeOK, J!Start, J!vars, J!startVars, J!callVars
<1>2. CASE J!AddTasks(Owner)
  <2>1. pc' \in [J!Callers -> {"idle", "adding", "starting", "now", "started", "cancel", "cron",
         "drain", "wait", "stopped"}]
    BY <1>o, <1>2, <1>pc DEF J!AddTasks, J!Go
  <2>2. got' \in [J!Callers -> 0 .. MaxStarts]
    BY <1>o, <1>2, <1>got, <1>cur, <1>gens DEF J!AddTasks, J!Go
  <2>3. asked' \in [J!Callers -> 0 .. MaxStarts]
    BY <1>o, <1>2, <1>asked, <1>gens DEF J!AddTasks, J!Go
  <2>4. cur' \in 0 .. gens'
    BY <1>o, <1>2, <1>cur, <1>gens DEF J!AddTasks, J!Go
  <2> QED BY <1>g, <1>2, <2>1, <2>2, <2>3, <2>4 DEF J!TypeOK, J!AddTasks, J!Go, J!vars, J!startVars, J!callVars
<1>3. CASE J!CronStart(Owner)
  <2>1. pc' \in [J!Callers -> {"idle", "adding", "starting", "now", "started", "cancel", "cron",
         "drain", "wait", "stopped"}]
    BY <1>o, <1>3, <1>pc DEF J!CronStart, J!Go
  <2>2. cron' \in [J!Gens -> {"new", "ticking", "stopped"}]
    BY <1>o, <1>3, <1>cron DEF J!CronStart, J!Go
  <2> QED BY <1>g, <1>3, <2>1, <2>2 DEF J!TypeOK, J!CronStart, J!Go, J!vars, J!startVars, J!callVars
<1>4. ASSUME NEW t \in Tasks, J!RunNow(Owner, t) PROVE J!TypeOK'
  <2>1. run' \in [J!Runs -> {"none", "begun", "hooks", "running", "post", "releasing", "over"}]
    BY <1>o, <1>4, <1>run, <1>gens, RunOfTask DEF J!RunNow, J!StepRun
  <2> QED BY <1>g, <1>4, <2>1 DEF J!TypeOK, J!RunNow, J!StepRun, J!vars, J!startVars, J!callVars
<1>5. CASE J!Started(Owner)
  <2>1. pc' \in [J!Callers -> {"idle", "adding", "starting", "now", "started", "cancel", "cron",
         "drain", "wait", "stopped"}]
    BY <1>o, <1>5, <1>pc DEF J!Started, J!Go
  <2>2. watch' \in [J!Gens -> {"none", "waiting", "clearing", "done"}]
    BY <1>o, <1>5, <1>watch DEF J!Started, J!Go
  <2> QED BY <1>g, <1>5, <2>1, <2>2 DEF J!TypeOK, J!Started, J!Go, J!vars, J!startVars, J!callVars
<1>6. ASSUME NEW p \in J!Callers, J!StopTake(p) PROVE J!TypeOK'
  <2>1. pc' \in [J!Callers -> {"idle", "adding", "starting", "now", "started", "cancel", "cron",
         "drain", "wait", "stopped"}]
    BY <1>o, <1>6, <1>pc DEF J!StopTake
  <2>2. got' \in [J!Callers -> 0 .. MaxStarts]
    BY <1>o, <1>6, <1>got, <1>cur, <1>gens DEF J!StopTake
  <2>3. asked' \in [J!Callers -> 0 .. MaxStarts]
    BY <1>o, <1>6, <1>asked, <1>gens DEF J!StopTake
  <2>4. cur' \in 0 .. gens'
    BY <1>o, <1>6, <1>cur, <1>gens DEF J!StopTake
  <2>5. disturbed' \in SUBSET J!Gens
    BY <1>o, <1>6, <1>disturbed, <1>cur, <1>gens DEF J!StopTake
  <2> QED BY <1>g, <1>6, <2>1, <2>2, <2>3, <2>4, <2>5 DEF J!TypeOK, J!StopTake, J!vars, J!startVars,
         J!callVars
<1>7. ASSUME NEW p \in J!Callers, J!StopCancel(p) PROVE J!TypeOK'
  <2>1. pc' \in [J!Callers -> {"idle", "adding", "starting", "now", "started", "cancel", "cron",
         "drain", "wait", "stopped"}]
    BY <1>o, <1>7, <1>pc DEF J!StopCancel, J!Go
  <2>2. cancelled' \in SUBSET J!Gens
    <3>1. got[p] \in 0 .. MaxStarts /\ cancelled' = cancelled \cup ({got[p]} \ {0})
      BY <1>7, <1>got DEF J!StopCancel
    <3>2. got[p] = 0 \/ got[p] \in J!Gens
      BY <3>1
    <3>3. CASE got[p] = 0
      <4>1. cancelled' = cancelled
        BY <3>1, <3>3, Zenon
      <4> QED BY <4>1, <1>cancelled
    <3>4. CASE got[p] \in J!Gens
      <4>1. \A x \in cancelled' : x \in cancelled \/ x = got[p]
        BY <3>1, Zenon
      <4> QED BY <4>1, <3>4, <1>cancelled, Zenon
    <3> QED BY <3>2, <3>3, <3>4
  <2> QED BY <1>g, <1>7, <2>1, <2>2 DEF J!TypeOK, J!StopCancel, J!Go, J!vars, J!startVars, J!callVars
<1>8. ASSUME NEW p \in J!Callers, J!StopCron(p) PROVE J!TypeOK'
  <2>1. pc' \in [J!Callers -> {"idle", "adding", "starting", "now", "started", "cancel", "cron",
         "drain", "wait", "stopped"}]
    BY <1>o, <1>8, <1>pc DEF J!StopCron, J!Go, J!CronStopped
  <2>2. cron' \in [J!Gens -> {"new", "ticking", "stopped"}]
    BY <1>o, <1>8, <1>cron DEF J!StopCron, J!Go, J!CronStopped
  <2> QED BY <1>g, <1>8, <2>1, <2>2 DEF J!TypeOK, J!StopCron, J!Go, J!CronStopped, J!vars, J!startVars, J!callVars
<1>9. ASSUME NEW p \in J!Callers, J!StopDrain(p) PROVE J!TypeOK'
  <2>1. pc' \in [J!Callers -> {"idle", "adding", "starting", "now", "started", "cancel", "cron",
         "drain", "wait", "stopped"}]
    BY <1>o, <1>9, <1>pc DEF J!StopDrain, J!Go
  <2> QED BY <1>g, <1>9, <2>1 DEF J!TypeOK, J!StopDrain, J!Go, J!vars, J!startVars, J!callVars
<1>10. ASSUME NEW p \in J!Callers, J!StopWait(p) PROVE J!TypeOK'
  <2>1. pc' \in [J!Callers -> {"idle", "adding", "starting", "now", "started", "cancel", "cron",
         "drain", "wait", "stopped"}]
    BY <1>o, <1>10, <1>pc DEF J!StopWait, J!Go
  <2> QED BY <1>g, <1>10, <2>1 DEF J!TypeOK, J!StopWait, J!Go, J!vars, J!startVars, J!callVars
<1>11. ASSUME NEW h \in J!Gens, J!WatchStop(h) PROVE J!TypeOK'
  <2>1. watch' \in [J!Gens -> {"none", "waiting", "clearing", "done"}]
    BY <1>o, <1>11, <1>watch DEF J!WatchStop, J!CronStopped
  <2>2. cron' \in [J!Gens -> {"new", "ticking", "stopped"}]
    BY <1>o, <1>11, <1>cron DEF J!WatchStop, J!CronStopped
  <2> QED BY <1>g, <1>11, <2>1, <2>2 DEF J!TypeOK, J!WatchStop, J!CronStopped, J!vars, J!startVars, J!callVars
<1>12. ASSUME NEW h \in J!Gens, J!WatchClear(h) PROVE J!TypeOK'
  <2>1. watch' \in [J!Gens -> {"none", "waiting", "clearing", "done"}]
    BY <1>o, <1>12, <1>watch DEF J!WatchClear
  <2>2. cur' \in 0 .. gens'
    BY <1>o, <1>12, <1>cur, <1>gens DEF J!WatchClear
  <2> QED BY <1>g, <1>12, <2>1, <2>2 DEF J!TypeOK, J!WatchClear, J!vars, J!startVars, J!callVars
<1>13. ASSUME NEW h \in J!Gens, J!ParentCancel(h) PROVE J!TypeOK'
  <2>1. cancelled' \in SUBSET J!Gens
    BY <1>o, <1>13, <1>cancelled, <1>got, <1>gens, <1>gens DEF J!ParentCancel
  <2>2. disturbed' \in SUBSET J!Gens
    BY <1>o, <1>13, <1>disturbed, <1>cur, <1>gens, <1>gens DEF J!ParentCancel
  <2> QED BY <1>g, <1>13, <2>1, <2>2 DEF J!TypeOK, J!ParentCancel, J!vars, J!startVars, J!callVars
<1>14. ASSUME NEW h \in J!Gens, NEW t \in Tasks, J!Tick(h, t) PROVE J!TypeOK'
  <2>1. run' \in [J!Runs -> {"none", "begun", "hooks", "running", "post", "releasing", "over"}]
    BY <1>o, <1>14, <1>run, <1>gens, RunOfTask DEF J!Tick, J!StepRun
  <2> QED BY <1>g, <1>14, <2>1 DEF J!TypeOK, J!Tick, J!StepRun, J!vars, J!startVars, J!callVars
<1>15. ASSUME NEW q \in J!Runs, J!Acquire(q) PROVE J!TypeOK'
  <2>1. run' \in [J!Runs -> {"none", "begun", "hooks", "running", "post", "releasing", "over"}]
    BY <1>o, <1>15, <1>run DEF J!Acquire, J!StepRun, J!Over
  <2>2. running' \in SUBSET Tasks
    BY <1>o, <1>15, <1>running, RunIsOne DEF J!Acquire, J!StepRun, J!Over
  <2> QED BY <1>g, <1>15, <2>1, <2>2 DEF J!TypeOK, J!Acquire, J!StepRun, J!Over, J!vars, J!startVars, J!callVars
<1>16. ASSUME NEW q \in J!Runs, J!Hooks(q) PROVE J!TypeOK'
  <2>1. run' \in [J!Runs -> {"none", "begun", "hooks", "running", "post", "releasing", "over"}]
    BY <1>o, <1>16, <1>run DEF J!Hooks, J!StepRun
  <2> QED BY <1>g, <1>16, <2>1 DEF J!TypeOK, J!Hooks, J!StepRun, J!vars, J!startVars, J!callVars
<1>17. ASSUME NEW q \in J!Runs, J!Panic(q) PROVE J!TypeOK'
  <2>1. run' \in [J!Runs -> {"none", "begun", "hooks", "running", "post", "releasing", "over"}]
    BY <1>o, <1>17, <1>run DEF J!Panic, J!StepRun
  <2> QED BY <1>g, <1>17, <2>1 DEF J!TypeOK, J!Panic, J!StepRun, J!vars, J!startVars, J!callVars
<1>18. ASSUME NEW q \in J!Runs, J!Return(q) PROVE J!TypeOK'
  <2>1. run' \in [J!Runs -> {"none", "begun", "hooks", "running", "post", "releasing", "over"}]
    BY <1>o, <1>18, <1>run DEF J!Return, J!StepRun
  <2> QED BY <1>g, <1>18, <2>1 DEF J!TypeOK, J!Return, J!StepRun, J!vars, J!startVars, J!callVars
<1>19. ASSUME NEW q \in J!Runs, J!PostHooks(q) PROVE J!TypeOK'
  <2>1. run' \in [J!Runs -> {"none", "begun", "hooks", "running", "post", "releasing", "over"}]
    BY <1>o, <1>19, <1>run DEF J!PostHooks, J!StepRun
  <2> QED BY <1>g, <1>19, <2>1 DEF J!TypeOK, J!PostHooks, J!StepRun, J!vars, J!startVars, J!callVars
<1>20. ASSUME NEW q \in J!Runs, J!Release(q) PROVE J!TypeOK'
  <2>1. run' \in [J!Runs -> {"none", "begun", "hooks", "running", "post", "releasing", "over"}]
    BY <1>o, <1>20, <1>run DEF J!Release, J!StepRun, J!Over
  <2>2. running' \in SUBSET Tasks
    BY <1>o, <1>20, <1>running, RunIsOne DEF J!Release, J!StepRun, J!Over
  <2> QED BY <1>g, <1>20, <2>1, <2>2 DEF J!TypeOK, J!Release, J!StepRun, J!Over, J!vars, J!startVars, J!callVars
<1>21. CASE UNCHANGED J!vars
  BY <1>g, <1>21 DEF J!TypeOK, J!vars, J!startVars, J!callVars
<1> QED
  BY <1>1, <1>2, <1>3, <1>4, <1>5, <1>6, <1>7, <1>8, <1>9, <1>10, <1>11, <1>12, <1>13, <1>14,
     <1>15, <1>16, <1>17, <1>18, <1>19, <1>20, <1>21 DEF J!Next, J!StartGoesOn, J!StopStep, J!WatchStep,
     J!RunStep

(* What there is is of generations that were started.                      *)
LEMMA OrderlyStep ==
    ASSUME JanitorIInv, [J!Next]_(J!vars)
    PROVE  Orderly'
<1> USE JanitorAssumption DEF JanitorAssumption, J!Gens
<1>g. Orderly /\ Owner \in J!Callers
  BY DEF JanitorIInv, J!Callers
<1>gens. gens \in 0 .. MaxStarts
  BY DEF JanitorIInv, J!TypeOK
<1>cur. cur \in 0 .. gens
  BY DEF JanitorIInv, J!TypeOK
<1>cancelled. cancelled \in SUBSET J!Gens
  BY DEF JanitorIInv, J!TypeOK
<1>watch. watch \in [J!Gens -> {"none", "waiting", "clearing", "done"}]
  BY DEF JanitorIInv, J!TypeOK
<1>pc. pc \in [J!Callers -> {"idle", "adding", "starting", "now", "started", "cancel", "cron",
       "drain", "wait", "stopped"}]
  BY DEF JanitorIInv, J!TypeOK
<1>got. got \in [J!Callers -> 0 .. MaxStarts]
  BY DEF JanitorIInv, J!TypeOK
<1>asked. asked \in [J!Callers -> 0 .. MaxStarts]
  BY DEF JanitorIInv, J!TypeOK
<1>disturbed. disturbed \in SUBSET J!Gens
  BY DEF JanitorIInv, J!TypeOK
<1>1. CASE J!Start(Owner)
  BY <1>g, <1>1, <1>gens, <1>cur, <1>cancelled, <1>got, <1>asked, <1>disturbed, <1>pc
     DEF Orderly, J!Start, J!vars, J!startVars, J!callVars
<1>2. CASE J!AddTasks(Owner)
  BY <1>g, <1>2, <1>gens, <1>cur, <1>cancelled, <1>got, <1>asked, <1>disturbed, <1>pc
     DEF Orderly, J!AddTasks, J!Go, J!vars, J!startVars, J!callVars
<1>3. CASE J!CronStart(Owner)
  BY <1>g, <1>3, <1>gens, <1>cur, <1>cancelled, <1>got, <1>asked, <1>disturbed, <1>pc
     DEF Orderly, J!CronStart, J!Go, J!vars, J!startVars, J!callVars
<1>4. ASSUME NEW t \in Tasks, J!RunNow(Owner, t) PROVE Orderly'
  BY <1>g, <1>4 DEF Orderly, J!RunNow, J!StepRun, J!vars, J!startVars, J!callVars
<1>5. CASE J!Started(Owner)
  BY <1>g, <1>5, <1>gens, <1>cur, <1>cancelled, <1>got, <1>asked, <1>disturbed, <1>pc,
     <1>watch DEF Orderly, J!Started, J!Go, J!vars, J!startVars, J!callVars
<1>6. ASSUME NEW p \in J!Callers, J!StopTake(p) PROVE Orderly'
  BY <1>g, <1>6, <1>gens, <1>cur, <1>cancelled, <1>got, <1>asked, <1>disturbed, <1>pc
     DEF Orderly, J!StopTake, J!vars, J!startVars, J!callVars
<1>7. ASSUME NEW p \in J!Callers, J!StopCancel(p) PROVE Orderly'
  BY <1>g, <1>7, <1>gens, <1>cur, <1>cancelled, <1>got, <1>asked, <1>disturbed, <1>pc
     DEF Orderly, J!StopCancel, J!Go, J!vars, J!startVars, J!callVars
<1>8. ASSUME NEW p \in J!Callers, J!StopCron(p) PROVE Orderly'
  BY <1>g, <1>8, <1>gens, <1>cur, <1>cancelled, <1>got, <1>asked, <1>disturbed, <1>pc
     DEF Orderly, J!StopCron, J!Go, J!CronStopped, J!vars, J!startVars, J!callVars
<1>9. ASSUME NEW p \in J!Callers, J!StopDrain(p) PROVE Orderly'
  BY <1>g, <1>9, <1>gens, <1>cur, <1>cancelled, <1>got, <1>asked, <1>disturbed, <1>pc
     DEF Orderly, J!StopDrain, J!Go, J!vars, J!startVars, J!callVars
<1>10. ASSUME NEW p \in J!Callers, J!StopWait(p) PROVE Orderly'
  BY <1>g, <1>10, <1>gens, <1>cur, <1>cancelled, <1>got, <1>asked, <1>disturbed, <1>pc
     DEF Orderly, J!StopWait, J!Go, J!vars, J!startVars, J!callVars
<1>11. ASSUME NEW h \in J!Gens, J!WatchStop(h) PROVE Orderly'
  BY <1>g, <1>11, <1>gens, <1>cur, <1>cancelled, <1>got, <1>asked, <1>disturbed, <1>watch
     DEF Orderly, J!WatchStop, J!CronStopped, J!vars, J!startVars, J!callVars
<1>12. ASSUME NEW h \in J!Gens, J!WatchClear(h) PROVE Orderly'
  BY <1>g, <1>12, <1>gens, <1>cur, <1>cancelled, <1>got, <1>asked, <1>disturbed, <1>watch
     DEF Orderly, J!WatchClear, J!vars, J!startVars, J!callVars
<1>13. ASSUME NEW h \in J!Gens, J!ParentCancel(h) PROVE Orderly'
  BY <1>g, <1>13, <1>gens, <1>cur, <1>cancelled, <1>got, <1>asked, <1>disturbed DEF Orderly,
     J!ParentCancel, J!vars, J!startVars, J!callVars
<1>14. ASSUME NEW h \in J!Gens, NEW t \in Tasks, J!Tick(h, t) PROVE Orderly'
  BY <1>g, <1>14 DEF Orderly, J!Tick, J!StepRun, J!vars, J!startVars, J!callVars
<1>15. ASSUME NEW q \in J!Runs, J!Acquire(q) PROVE Orderly'
  BY <1>g, <1>15 DEF Orderly, J!Acquire, J!StepRun, J!Over, J!vars, J!startVars, J!callVars
<1>16. ASSUME NEW q \in J!Runs, J!Hooks(q) PROVE Orderly'
  BY <1>g, <1>16 DEF Orderly, J!Hooks, J!StepRun, J!vars, J!startVars, J!callVars
<1>17. ASSUME NEW q \in J!Runs, J!Panic(q) PROVE Orderly'
  BY <1>g, <1>17 DEF Orderly, J!Panic, J!StepRun, J!vars, J!startVars, J!callVars
<1>18. ASSUME NEW q \in J!Runs, J!Return(q) PROVE Orderly'
  BY <1>g, <1>18 DEF Orderly, J!Return, J!StepRun, J!vars, J!startVars, J!callVars
<1>19. ASSUME NEW q \in J!Runs, J!PostHooks(q) PROVE Orderly'
  BY <1>g, <1>19 DEF Orderly, J!PostHooks, J!StepRun, J!vars, J!startVars, J!callVars
<1>20. ASSUME NEW q \in J!Runs, J!Release(q) PROVE Orderly'
  BY <1>g, <1>20 DEF Orderly, J!Release, J!StepRun, J!Over, J!vars, J!startVars, J!callVars
<1>21. CASE UNCHANGED J!vars
  BY <1>g, <1>21 DEF Orderly, J!vars, J!startVars, J!callVars
<1> QED
  BY <1>1, <1>2, <1>3, <1>4, <1>5, <1>6, <1>7, <1>8, <1>9, <1>10, <1>11, <1>12, <1>13, <1>14,
     <1>15, <1>16, <1>17, <1>18, <1>19, <1>20, <1>21 DEF J!Next, J!StartGoesOn, J!StopStep, J!WatchStep,
     J!RunStep

(* No second run takes a marker that is held.                              *)
LEMMA HolderStep ==
    ASSUME JanitorIInv, [J!Next]_(J!vars), NEW a \in J!Runs, NEW r \in J!Runs
    PROVE  OneHolder(a, r)'
<1> USE JanitorAssumption DEF JanitorAssumption, J!Gens
<1>g. OneHolder(a, r) /\ Owner \in J!Callers
  BY DEF JanitorIInv, J!Callers
<1>gens. gens \in 0 .. MaxStarts
  BY DEF JanitorIInv, J!TypeOK
<1>run. run \in [J!Runs -> {"none", "begun", "hooks", "running", "post", "releasing", "over"}]
  BY DEF JanitorIInv, J!TypeOK
<1>1. CASE J!Start(Owner)
  BY <1>g, <1>1 DEF OneHolder, Holds, HolderMarks, J!Start, J!vars, J!startVars, J!callVars
<1>2. CASE J!AddTasks(Owner)
  BY <1>g, <1>2 DEF OneHolder, Holds, HolderMarks, J!AddTasks, J!Go, J!vars, J!startVars, J!callVars
<1>3. CASE J!CronStart(Owner)
  BY <1>g, <1>3 DEF OneHolder, Holds, HolderMarks, J!CronStart, J!Go, J!vars, J!startVars, J!callVars
<1>4. ASSUME NEW t \in Tasks, J!RunNow(Owner, t) PROVE OneHolder(a, r)'
  BY <1>g, <1>4, <1>gens, <1>run, RunOfTask DEF OneHolder, Holds, HolderMarks, J!RunNow, J!StepRun,
     J!vars, J!startVars, J!callVars
<1>5. CASE J!Started(Owner)
  BY <1>g, <1>5 DEF OneHolder, Holds, HolderMarks, J!Started, J!Go, J!vars, J!startVars, J!callVars
<1>6. ASSUME NEW p \in J!Callers, J!StopTake(p) PROVE OneHolder(a, r)'
  BY <1>g, <1>6 DEF OneHolder, Holds, HolderMarks, J!StopTake, J!vars, J!startVars, J!callVars
<1>7. ASSUME NEW p \in J!Callers, J!StopCancel(p) PROVE OneHolder(a, r)'
  BY <1>g, <1>7 DEF OneHolder, Holds, HolderMarks, J!StopCancel, J!Go, J!vars, J!startVars, J!callVars
<1>8. ASSUME NEW p \in J!Callers, J!StopCron(p) PROVE OneHolder(a, r)'
  BY <1>g, <1>8 DEF OneHolder, Holds, HolderMarks, J!StopCron, J!Go, J!CronStopped, J!vars, J!startVars,
     J!callVars
<1>9. ASSUME NEW p \in J!Callers, J!StopDrain(p) PROVE OneHolder(a, r)'
  BY <1>g, <1>9 DEF OneHolder, Holds, HolderMarks, J!StopDrain, J!Go, J!vars, J!startVars, J!callVars
<1>10. ASSUME NEW p \in J!Callers, J!StopWait(p) PROVE OneHolder(a, r)'
  BY <1>g, <1>10 DEF OneHolder, Holds, HolderMarks, J!StopWait, J!Go, J!vars, J!startVars, J!callVars
<1>11. ASSUME NEW h \in J!Gens, J!WatchStop(h) PROVE OneHolder(a, r)'
  BY <1>g, <1>11 DEF OneHolder, Holds, HolderMarks, J!WatchStop, J!CronStopped, J!vars, J!startVars,
     J!callVars
<1>12. ASSUME NEW h \in J!Gens, J!WatchClear(h) PROVE OneHolder(a, r)'
  BY <1>g, <1>12 DEF OneHolder, Holds, HolderMarks, J!WatchClear, J!vars, J!startVars, J!callVars
<1>13. ASSUME NEW h \in J!Gens, J!ParentCancel(h) PROVE OneHolder(a, r)'
  BY <1>g, <1>13 DEF OneHolder, Holds, HolderMarks, J!ParentCancel, J!vars, J!startVars, J!callVars
<1>14. ASSUME NEW h \in J!Gens, NEW t \in Tasks, J!Tick(h, t) PROVE OneHolder(a, r)'
  BY <1>g, <1>14, <1>gens, <1>run, RunOfTask DEF OneHolder, Holds, HolderMarks, J!Tick, J!StepRun,
     J!vars, J!startVars, J!callVars
<1>15. ASSUME NEW q \in J!Runs, J!Acquire(q) PROVE OneHolder(a, r)'
  <2>1. HolderMarks(a) /\ HolderMarks(r)
    BY <1>15, <1>gens, <1>run DEF JanitorIInv, J!Acquire
  <2> QED BY <1>g, <1>15, <2>1, <1>gens, <1>run DEF OneHolder, Holds, HolderMarks, J!Acquire,
         J!StepRun, J!Over, J!vars, J!startVars, J!callVars
<1>16. ASSUME NEW q \in J!Runs, J!Hooks(q) PROVE OneHolder(a, r)'
  BY <1>g, <1>16, <1>gens, <1>run DEF OneHolder, Holds, HolderMarks, J!Hooks, J!StepRun, J!vars,
     J!startVars, J!callVars
<1>17. ASSUME NEW q \in J!Runs, J!Panic(q) PROVE OneHolder(a, r)'
  BY <1>g, <1>17, <1>gens, <1>run DEF OneHolder, Holds, HolderMarks, J!Panic, J!StepRun, J!vars,
     J!startVars, J!callVars
<1>18. ASSUME NEW q \in J!Runs, J!Return(q) PROVE OneHolder(a, r)'
  BY <1>g, <1>18, <1>gens, <1>run DEF OneHolder, Holds, HolderMarks, J!Return, J!StepRun, J!vars,
     J!startVars, J!callVars
<1>19. ASSUME NEW q \in J!Runs, J!PostHooks(q) PROVE OneHolder(a, r)'
  BY <1>g, <1>19, <1>gens, <1>run DEF OneHolder, Holds, HolderMarks, J!PostHooks, J!StepRun, J!vars,
     J!startVars, J!callVars
<1>20. ASSUME NEW q \in J!Runs, J!Release(q) PROVE OneHolder(a, r)'
  BY <1>g, <1>20, <1>gens, <1>run DEF OneHolder, Holds, HolderMarks, J!Release, J!StepRun, J!Over,
     J!vars, J!startVars, J!callVars
<1>21. CASE UNCHANGED J!vars
  BY <1>g, <1>21 DEF OneHolder, Holds, HolderMarks, J!vars, J!startVars, J!callVars
<1> QED
  BY <1>1, <1>2, <1>3, <1>4, <1>5, <1>6, <1>7, <1>8, <1>9, <1>10, <1>11, <1>12, <1>13, <1>14,
     <1>15, <1>16, <1>17, <1>18, <1>19, <1>20, <1>21 DEF J!Next, J!StartGoesOn, J!StopStep, J!WatchStep,
     J!RunStep

(* A release takes away nobody else's marker.                              *)
LEMMA MarksStep ==
    ASSUME JanitorIInv, [J!Next]_(J!vars), NEW r \in J!Runs
    PROVE  HolderMarks(r)'
<1> USE JanitorAssumption DEF JanitorAssumption, J!Gens
<1>g. HolderMarks(r) /\ Owner \in J!Callers
  BY DEF JanitorIInv, J!Callers
<1>gens. gens \in 0 .. MaxStarts
  BY DEF JanitorIInv, J!TypeOK
<1>run. run \in [J!Runs -> {"none", "begun", "hooks", "running", "post", "releasing", "over"}]
  BY DEF JanitorIInv, J!TypeOK
<1>running. running \in SUBSET Tasks
  BY DEF JanitorIInv, J!TypeOK
<1>1. CASE J!Start(Owner)
  BY <1>g, <1>1 DEF HolderMarks, Holds, OneHolder, J!Start, J!vars, J!startVars, J!callVars
<1>2. CASE J!AddTasks(Owner)
  BY <1>g, <1>2 DEF HolderMarks, Holds, OneHolder, J!AddTasks, J!Go, J!vars, J!startVars, J!callVars
<1>3. CASE J!CronStart(Owner)
  BY <1>g, <1>3 DEF HolderMarks, Holds, OneHolder, J!CronStart, J!Go, J!vars, J!startVars, J!callVars
<1>4. ASSUME NEW t \in Tasks, J!RunNow(Owner, t) PROVE HolderMarks(r)'
  BY <1>g, <1>4, <1>gens, <1>run DEF HolderMarks, Holds, OneHolder, J!RunNow, J!StepRun, J!vars,
     J!startVars, J!callVars
<1>5. CASE J!Started(Owner)
  BY <1>g, <1>5 DEF HolderMarks, Holds, OneHolder, J!Started, J!Go, J!vars, J!startVars, J!callVars
<1>6. ASSUME NEW p \in J!Callers, J!StopTake(p) PROVE HolderMarks(r)'
  BY <1>g, <1>6 DEF HolderMarks, Holds, OneHolder, J!StopTake, J!vars, J!startVars, J!callVars
<1>7. ASSUME NEW p \in J!Callers, J!StopCancel(p) PROVE HolderMarks(r)'
  BY <1>g, <1>7 DEF HolderMarks, Holds, OneHolder, J!StopCancel, J!Go, J!vars, J!startVars, J!callVars
<1>8. ASSUME NEW p \in J!Callers, J!StopCron(p) PROVE HolderMarks(r)'
  BY <1>g, <1>8 DEF HolderMarks, Holds, OneHolder, J!StopCron, J!Go, J!CronStopped, J!vars, J!startVars,
     J!callVars
<1>9. ASSUME NEW p \in J!Callers, J!StopDrain(p) PROVE HolderMarks(r)'
  BY <1>g, <1>9 DEF HolderMarks, Holds, OneHolder, J!StopDrain, J!Go, J!vars, J!startVars, J!callVars
<1>10. ASSUME NEW p \in J!Callers, J!StopWait(p) PROVE HolderMarks(r)'
  BY <1>g, <1>10 DEF HolderMarks, Holds, OneHolder, J!StopWait, J!Go, J!vars, J!startVars, J!callVars
<1>11. ASSUME NEW h \in J!Gens, J!WatchStop(h) PROVE HolderMarks(r)'
  BY <1>g, <1>11 DEF HolderMarks, Holds, OneHolder, J!WatchStop, J!CronStopped, J!vars, J!startVars,
     J!callVars
<1>12. ASSUME NEW h \in J!Gens, J!WatchClear(h) PROVE HolderMarks(r)'
  BY <1>g, <1>12 DEF HolderMarks, Holds, OneHolder, J!WatchClear, J!vars, J!startVars, J!callVars
<1>13. ASSUME NEW h \in J!Gens, J!ParentCancel(h) PROVE HolderMarks(r)'
  BY <1>g, <1>13 DEF HolderMarks, Holds, OneHolder, J!ParentCancel, J!vars, J!startVars, J!callVars
<1>14. ASSUME NEW h \in J!Gens, NEW t \in Tasks, J!Tick(h, t) PROVE HolderMarks(r)'
  BY <1>g, <1>14, <1>gens, <1>run DEF HolderMarks, Holds, OneHolder, J!Tick, J!StepRun, J!vars,
     J!startVars, J!callVars
<1>15. ASSUME NEW q \in J!Runs, J!Acquire(q) PROVE HolderMarks(r)'
  BY <1>g, <1>15, <1>gens, <1>run, <1>running DEF HolderMarks, Holds, OneHolder, J!Acquire,
     J!StepRun, J!Over, J!vars, J!startVars, J!callVars
<1>16. ASSUME NEW q \in J!Runs, J!Hooks(q) PROVE HolderMarks(r)'
  BY <1>g, <1>16, <1>gens, <1>run DEF HolderMarks, Holds, OneHolder, J!Hooks, J!StepRun, J!vars,
     J!startVars, J!callVars
<1>17. ASSUME NEW q \in J!Runs, J!Panic(q) PROVE HolderMarks(r)'
  BY <1>g, <1>17, <1>gens, <1>run DEF HolderMarks, Holds, OneHolder, J!Panic, J!StepRun, J!vars,
     J!startVars, J!callVars
<1>18. ASSUME NEW q \in J!Runs, J!Return(q) PROVE HolderMarks(r)'
  BY <1>g, <1>18, <1>gens, <1>run DEF HolderMarks, Holds, OneHolder, J!Return, J!StepRun, J!vars,
     J!startVars, J!callVars
<1>19. ASSUME NEW q \in J!Runs, J!PostHooks(q) PROVE HolderMarks(r)'
  BY <1>g, <1>19, <1>gens, <1>run DEF HolderMarks, Holds, OneHolder, J!PostHooks, J!StepRun, J!vars,
     J!startVars, J!callVars
<1>20. ASSUME NEW q \in J!Runs, J!Release(q) PROVE HolderMarks(r)'
  <2>1. OneHolder(q, r)
    BY <1>20, <1>gens, <1>run, <1>running DEF JanitorIInv, J!Release
  <2> QED BY <1>g, <1>20, <2>1, <1>gens, <1>run, <1>running DEF HolderMarks, Holds, OneHolder,
         J!Release, J!StepRun, J!Over, J!vars, J!startVars, J!callVars
<1>21. CASE UNCHANGED J!vars
  BY <1>g, <1>21 DEF HolderMarks, Holds, OneHolder, J!vars, J!startVars, J!callVars
<1> QED
  BY <1>1, <1>2, <1>3, <1>4, <1>5, <1>6, <1>7, <1>8, <1>9, <1>10, <1>11, <1>12, <1>13, <1>14,
     <1>15, <1>16, <1>17, <1>18, <1>19, <1>20, <1>21 DEF J!Next, J!StartGoesOn, J!StopStep, J!WatchStep,
     J!RunStep

(* A marker that nobody holds is not left behind.                          *)
LEMMA MarkHeldStep ==
    ASSUME JanitorIInv, [J!Next]_(J!vars), NEW u \in Tasks
    PROVE  MarkHeld(u)'
<1> USE JanitorAssumption DEF JanitorAssumption, J!Gens
<1>g. MarkHeld(u) /\ Owner \in J!Callers
  BY DEF JanitorIInv, J!Callers
<1>gens. gens \in 0 .. MaxStarts
  BY DEF JanitorIInv, J!TypeOK
<1>run. run \in [J!Runs -> {"none", "begun", "hooks", "running", "post", "releasing", "over"}]
  BY DEF JanitorIInv, J!TypeOK
<1>running. running \in SUBSET Tasks
  BY DEF JanitorIInv, J!TypeOK
<1>1. CASE J!Start(Owner)
  BY <1>g, <1>1 DEF MarkHeld, Holds, J!Start, J!vars, J!startVars, J!callVars
<1>2. CASE J!AddTasks(Owner)
  BY <1>g, <1>2 DEF MarkHeld, Holds, J!AddTasks, J!Go, J!vars, J!startVars, J!callVars
<1>3. CASE J!CronStart(Owner)
  BY <1>g, <1>3 DEF MarkHeld, Holds, J!CronStart, J!Go, J!vars, J!startVars, J!callVars
<1>4. ASSUME NEW t \in Tasks, J!RunNow(Owner, t) PROVE MarkHeld(u)'
  BY <1>g, <1>4, <1>gens, <1>run, RunOfTask DEF MarkHeld, Holds, J!RunNow, J!StepRun, J!vars,
     J!startVars, J!callVars
<1>5. CASE J!Started(Owner)
  BY <1>g, <1>5 DEF MarkHeld, Holds, J!Started, J!Go, J!vars, J!startVars, J!callVars
<1>6. ASSUME NEW p \in J!Callers, J!StopTake(p) PROVE MarkHeld(u)'
  BY <1>g, <1>6 DEF MarkHeld, Holds, J!StopTake, J!vars, J!startVars, J!callVars
<1>7. ASSUME NEW p \in J!Callers, J!StopCancel(p) PROVE MarkHeld(u)'
  BY <1>g, <1>7 DEF MarkHeld, Holds, J!StopCancel, J!Go, J!vars, J!startVars, J!callVars
<1>8. ASSUME NEW p \in J!Callers, J!StopCron(p) PROVE MarkHeld(u)'
  BY <1>g, <1>8 DEF MarkHeld, Holds, J!StopCron, J!Go, J!CronStopped, J!vars, J!startVars, J!callVars
<1>9. ASSUME NEW p \in J!Callers, J!StopDrain(p) PROVE MarkHeld(u)'
  BY <1>g, <1>9 DEF MarkHeld, Holds, J!StopDrain, J!Go, J!vars, J!startVars, J!callVars
<1>10. ASSUME NEW p \in J!Callers, J!StopWait(p) PROVE MarkHeld(u)'
  BY <1>g, <1>10 DEF MarkHeld, Holds, J!StopWait, J!Go, J!vars, J!startVars, J!callVars
<1>11. ASSUME NEW h \in J!Gens, J!WatchStop(h) PROVE MarkHeld(u)'
  BY <1>g, <1>11 DEF MarkHeld, Holds, J!WatchStop, J!CronStopped, J!vars, J!startVars, J!callVars
<1>12. ASSUME NEW h \in J!Gens, J!WatchClear(h) PROVE MarkHeld(u)'
  BY <1>g, <1>12 DEF MarkHeld, Holds, J!WatchClear, J!vars, J!startVars, J!callVars
<1>13. ASSUME NEW h \in J!Gens, J!ParentCancel(h) PROVE MarkHeld(u)'
  BY <1>g, <1>13 DEF MarkHeld, Holds, J!ParentCancel, J!vars, J!startVars, J!callVars
<1>14. ASSUME NEW h \in J!Gens, NEW t \in Tasks, J!Tick(h, t) PROVE MarkHeld(u)'
  BY <1>g, <1>14, <1>gens, <1>run, RunOfTask DEF MarkHeld, Holds, J!Tick, J!StepRun, J!vars, J!startVars,
     J!callVars
<1>15. ASSUME NEW q \in J!Runs, J!Acquire(q) PROVE MarkHeld(u)'
  BY <1>g, <1>15, <1>gens, <1>run, <1>running DEF MarkHeld, Holds, J!Acquire, J!StepRun, J!Over, J!vars,
     J!startVars, J!callVars
<1>16. ASSUME NEW q \in J!Runs, J!Hooks(q) PROVE MarkHeld(u)'
  BY <1>g, <1>16, <1>gens, <1>run DEF MarkHeld, Holds, J!Hooks, J!StepRun, J!vars, J!startVars, J!callVars
<1>17. ASSUME NEW q \in J!Runs, J!Panic(q) PROVE MarkHeld(u)'
  BY <1>g, <1>17, <1>gens, <1>run DEF MarkHeld, Holds, J!Panic, J!StepRun, J!vars, J!startVars, J!callVars
<1>18. ASSUME NEW q \in J!Runs, J!Return(q) PROVE MarkHeld(u)'
  BY <1>g, <1>18, <1>gens, <1>run DEF MarkHeld, Holds, J!Return, J!StepRun, J!vars, J!startVars, J!callVars
<1>19. ASSUME NEW q \in J!Runs, J!PostHooks(q) PROVE MarkHeld(u)'
  BY <1>g, <1>19, <1>gens, <1>run DEF MarkHeld, Holds, J!PostHooks, J!StepRun, J!vars, J!startVars, J!callVars
<1>20. ASSUME NEW q \in J!Runs, J!Release(q) PROVE MarkHeld(u)'
  BY <1>g, <1>20, <1>gens, <1>run, <1>running DEF MarkHeld, Holds, J!Release, J!StepRun, J!Over, J!vars,
     J!startVars, J!callVars
<1>21. CASE UNCHANGED J!vars
  BY <1>g, <1>21 DEF MarkHeld, Holds, J!vars, J!startVars, J!callVars
<1> QED
  BY <1>1, <1>2, <1>3, <1>4, <1>5, <1>6, <1>7, <1>8, <1>9, <1>10, <1>11, <1>12, <1>13, <1>14,
     <1>15, <1>16, <1>17, <1>18, <1>19, <1>20, <1>21 DEF J!Next, J!StartGoesOn, J!StopStep, J!WatchStep,
     J!RunStep

(* Stop drains what nobody disturbed before the next Start.                *)
LEMMA OwnStep ==
    ASSUME JanitorIInv, [J!Next]_(J!vars), NEW g \in J!Gens
    PROVE  OwnersOwn(g)'
<1> USE JanitorAssumption DEF JanitorAssumption, J!Gens
<1>g. OwnersOwn(g) /\ Owner \in J!Callers
  BY DEF JanitorIInv, J!Callers
<1>gens. gens \in 0 .. MaxStarts
  BY DEF JanitorIInv, J!TypeOK
<1>cur. cur \in 0 .. gens
  BY DEF JanitorIInv, J!TypeOK
<1>cron. cron \in [J!Gens -> {"new", "ticking", "stopped"}]
  BY DEF JanitorIInv, J!TypeOK
<1>cancelled. cancelled \in SUBSET J!Gens
  BY DEF JanitorIInv, J!TypeOK
<1>watch. watch \in [J!Gens -> {"none", "waiting", "clearing", "done"}]
  BY DEF JanitorIInv, J!TypeOK
<1>pc. pc \in [J!Callers -> {"idle", "adding", "starting", "now", "started", "cancel", "cron",
       "drain", "wait", "stopped"}]
  BY DEF JanitorIInv, J!TypeOK
<1>got. got \in [J!Callers -> 0 .. MaxStarts]
  BY DEF JanitorIInv, J!TypeOK
<1>disturbed. disturbed \in SUBSET J!Gens
  BY DEF JanitorIInv, J!TypeOK
<1>run. run \in [J!Runs -> {"none", "begun", "hooks", "running", "post", "releasing", "over"}]
  BY DEF JanitorIInv, J!TypeOK
<1>1. CASE J!Start(Owner)
  <2>1. Orderly
    BY <1>1, <1>gens, <1>cur, <1>pc DEF JanitorIInv, J!Start
  <2> QED BY <1>g, <1>1, <2>1, <1>gens, <1>cur, <1>pc DEF OwnersOwn, Orderly, J!Start, J!vars,
         J!startVars, J!callVars
<1>2. CASE J!AddTasks(Owner)
  <2>1. Orderly
    BY <1>2, <1>gens, <1>pc, <1>got, <1>cur DEF JanitorIInv, J!AddTasks
  <2> QED BY <1>g, <1>2, <2>1, <1>gens, <1>pc, <1>got, <1>cur DEF OwnersOwn, Orderly, J!AddTasks,
         J!Go, J!vars, J!startVars, J!callVars
<1>3. CASE J!CronStart(Owner)
  <2>1. Orderly
    BY <1>3, <1>gens, <1>pc, <1>cron DEF JanitorIInv, J!CronStart
  <2> QED BY <1>g, <1>3, <2>1, <1>gens, <1>pc, <1>cron DEF OwnersOwn, Orderly, J!CronStart, J!Go,
         J!vars, J!startVars, J!callVars
<1>4. ASSUME NEW t \in Tasks, J!RunNow(Owner, t) PROVE OwnersOwn(g)'
  <2>1. Orderly
    BY <1>4, <1>gens, <1>run, RunOfTask, RunIsOne DEF JanitorIInv, J!RunNow
  <2> QED BY <1>g, <1>4, <2>1, <1>gens, <1>run, RunOfTask, RunIsOne DEF OwnersOwn, Orderly,
         J!RunNow, J!StepRun, J!vars, J!startVars, J!callVars
<1>5. CASE J!Started(Owner)
  BY <1>g, <1>5, <1>gens, <1>pc, <1>watch DEF OwnersOwn, Orderly, J!Started, J!Go, J!vars, J!startVars,
     J!callVars
<1>6. ASSUME NEW p \in J!Callers, J!StopTake(p) PROVE OwnersOwn(g)'
  <2>1. Orderly
    BY <1>6, <1>gens, <1>pc, <1>got, <1>cur, <1>disturbed DEF JanitorIInv, J!StopTake
  <2> QED BY <1>g, <1>6, <2>1, <1>gens, <1>pc, <1>got, <1>cur, <1>disturbed DEF OwnersOwn,
         Orderly, J!StopTake, J!vars, J!startVars, J!callVars
<1>7. ASSUME NEW p \in J!Callers, J!StopCancel(p) PROVE OwnersOwn(g)'
  <2>1. Orderly
    BY <1>7, <1>gens, <1>pc, <1>cancelled DEF JanitorIInv, J!StopCancel
  <2> QED BY <1>g, <1>7, <2>1, <1>gens, <1>pc, <1>cancelled DEF OwnersOwn, Orderly, J!StopCancel,
         J!Go, J!vars, J!startVars, J!callVars
<1>8. ASSUME NEW p \in J!Callers, J!StopCron(p) PROVE OwnersOwn(g)'
  BY <1>g, <1>8, <1>gens, <1>pc, <1>cron DEF OwnersOwn, Orderly, J!StopCron, J!Go, J!CronStopped, J!vars,
     J!startVars, J!callVars
<1>9. ASSUME NEW p \in J!Callers, J!StopDrain(p) PROVE OwnersOwn(g)'
  BY <1>g, <1>9, <1>gens, <1>pc DEF OwnersOwn, Orderly, J!StopDrain, J!Go, J!vars, J!startVars, J!callVars
<1>10. ASSUME NEW p \in J!Callers, J!StopWait(p) PROVE OwnersOwn(g)'
  BY <1>g, <1>10, <1>gens, <1>pc DEF OwnersOwn, Orderly, J!StopWait, J!Go, J!vars, J!startVars, J!callVars
<1>11. ASSUME NEW h \in J!Gens, J!WatchStop(h) PROVE OwnersOwn(g)'
  BY <1>g, <1>11, <1>gens, <1>watch, <1>cron DEF OwnersOwn, Orderly, J!WatchStop, J!CronStopped,
     J!vars, J!startVars, J!callVars
<1>12. ASSUME NEW h \in J!Gens, J!WatchClear(h) PROVE OwnersOwn(g)'
  <2>1. Orderly
    BY <1>12, <1>gens, <1>watch, <1>cur DEF JanitorIInv, J!WatchClear
  <2> QED BY <1>g, <1>12, <2>1, <1>gens, <1>watch, <1>cur DEF OwnersOwn, Orderly, J!WatchClear,
         J!vars, J!startVars, J!callVars
<1>13. ASSUME NEW h \in J!Gens, J!ParentCancel(h) PROVE OwnersOwn(g)'
  BY <1>g, <1>13, <1>gens, <1>cancelled, <1>disturbed DEF OwnersOwn, Orderly, J!ParentCancel, J!vars,
     J!startVars, J!callVars
<1>14. ASSUME NEW h \in J!Gens, NEW t \in Tasks, J!Tick(h, t) PROVE OwnersOwn(g)'
  BY <1>g, <1>14, <1>gens, <1>run, RunOfTask, RunIsOne DEF OwnersOwn, Orderly, J!Tick, J!StepRun,
     J!vars, J!startVars, J!callVars
<1>15. ASSUME NEW q \in J!Runs, J!Acquire(q) PROVE OwnersOwn(g)'
  BY <1>g, <1>15, <1>gens, <1>run, RunOfTask, RunIsOne DEF OwnersOwn, Orderly, J!Acquire, J!StepRun,
     J!Over, J!vars, J!startVars, J!callVars
<1>16. ASSUME NEW q \in J!Runs, J!Hooks(q) PROVE OwnersOwn(g)'
  BY <1>g, <1>16, <1>gens, <1>run, RunOfTask, RunIsOne DEF OwnersOwn, Orderly, J!Hooks, J!StepRun,
     J!vars, J!startVars, J!callVars
<1>17. ASSUME NEW q \in J!Runs, J!Panic(q) PROVE OwnersOwn(g)'
  BY <1>g, <1>17, <1>gens, <1>run, RunOfTask, RunIsOne DEF OwnersOwn, Orderly, J!Panic, J!StepRun,
     J!vars, J!startVars, J!callVars
<1>18. ASSUME NEW q \in J!Runs, J!Return(q) PROVE OwnersOwn(g)'
  BY <1>g, <1>18, <1>gens, <1>run, RunOfTask, RunIsOne DEF OwnersOwn, Orderly, J!Return, J!StepRun,
     J!vars, J!startVars, J!callVars
<1>19. ASSUME NEW q \in J!Runs, J!PostHooks(q) PROVE OwnersOwn(g)'
  BY <1>g, <1>19, <1>gens, <1>run, RunOfTask, RunIsOne DEF OwnersOwn, Orderly, J!PostHooks,
     J!StepRun, J!vars, J!startVars, J!callVars
<1>20. ASSUME NEW q \in J!Runs, J!Release(q) PROVE OwnersOwn(g)'
  BY <1>g, <1>20, <1>gens, <1>run, RunOfTask, RunIsOne DEF OwnersOwn, Orderly, J!Release, J!StepRun,
     J!Over, J!vars, J!startVars, J!callVars
<1>21. CASE UNCHANGED J!vars
  BY <1>g, <1>21 DEF OwnersOwn, Orderly, J!vars, J!startVars, J!callVars
<1> QED
  BY <1>1, <1>2, <1>3, <1>4, <1>5, <1>6, <1>7, <1>8, <1>9, <1>10, <1>11, <1>12, <1>13, <1>14,
     <1>15, <1>16, <1>17, <1>18, <1>19, <1>20, <1>21 DEF J!Next, J!StartGoesOn, J!StopStep, J!WatchStep,
     J!RunStep

-----------------------------------------------------------------------------
(* The group of jobs.                                                      *)

(* Who has a slot, whom Close waits for, and who waits for a slot.         *)
Slots   == {c \in Calls : call[c] \in {"enter", "accepted"} \/ job[c] \in {"running", "finished"}}
Counted == {c \in Calls : call[c] = "accepted" \/ job[c] \in {"running", "finished", "released"}}
Waiters == {waiters[i] : i \in 1 .. Len(waiters)}

(* Slots are counted one by one, and only up to the limit; without a limit *)
(* none is.                                                                *)
SlotsCounted ==
    /\ limit = 0 => held = 0
    /\ limit # 0 => held = Cardinality(Slots) /\ held <= limit

(* Who waits in the queue is blocked, and is there once.                   *)
QueueOfBlocked ==
    /\ \A c \in Calls : call[c] = "blocked" <=> c \in Waiters
    /\ \A i, j \in 1 .. Len(waiters) : waiters[i] = waiters[j] => i = j
    /\ limit = 0 => \A c \in Calls : call[c] \notin {"acquire", "blocked"}

(* A call has a job once it has spawned one.                               *)
SpawnedHasJob == \A c \in Calls : job[c] # "none" <=> call[c] = "spawned"

(* The wait group counts the calls that Close waits for.                   *)
WaitedFor == wg = Cardinality(Counted)

(* The metrics count the jobs spawned, and those that ended.               *)
MetricsCount ==
    /\ metrics["dispatched"] = Cardinality({c \in Calls : job[c] # "none"})
    /\ metrics["ended"] = Cardinality({c \in Calls : job[c] \in {"finished", "released", "done"}})

(* Close has closed the group, and returned when nothing was counted.      *)
ClosedFirst ==
    /\ closer # "none" => closed
    /\ closer = "returned" => wg = 0

(* The inductive invariant.                                                *)
GroupIInv ==
    /\ G!TypeOK
    /\ SlotsCounted /\ QueueOfBlocked /\ SpawnedHasJob /\ WaitedFor /\ MetricsCount /\ ClosedFirst

(* The group's Cardinality is the library's.                               *)
LEMMA SameCount == ASSUME NEW S1 PROVE G!Cardinality(S1) = Cardinality(S1)
BY DEF G!Cardinality, Cardinality

(* What is counted is a set of calls, of which there are finitely many.    *)
LEMMA Counting ==
    ASSUME NEW T \in SUBSET Calls, NEW c \in Calls
    PROVE  /\ IsFiniteSet(T) /\ Cardinality(T) \in Nat /\ Cardinality(T) \in 0 .. Cardinality(Calls)
           /\ c \notin T => Cardinality(T \cup {c}) = Cardinality(T) + 1
           /\ c \in T => Cardinality(T \ {c}) = Cardinality(T) - 1 /\ Cardinality(T) # 0
<1>1. IsFiniteSet(Calls) /\ IsFiniteSet(T) /\ Cardinality(T) <= Cardinality(Calls)
  BY GroupAssumption, FS_Subset DEF GroupAssumption
<1>2. Cardinality(T) \in Nat /\ Cardinality(Calls) \in Nat
  BY <1>1, FS_CardinalityType
<1>3. c \notin T => Cardinality(T \cup {c}) = Cardinality(T) + 1
  BY <1>1, FS_AddElement
<1>4. c \in T => Cardinality(T \ {c}) = Cardinality(T) - 1
  BY <1>1, FS_RemoveElement
<1>5. c \in T => Cardinality(T) # 0
  BY <1>1, FS_EmptySet
<1> QED  BY <1>1, <1>2, <1>3, <1>4, <1>5

(* Putting one call in the place of another changes no count.              *)
LEMMA Replacing ==
    ASSUME NEW T \in SUBSET Calls, NEW c \in T, NEW h \in Calls \ T
    PROVE  Cardinality((T \ {c}) \cup {h}) = Cardinality(T)
<1>1. T \ {c} \in SUBSET Calls /\ h \notin T \ {c}
  OBVIOUS
<1>2. Cardinality(T \ {c}) = Cardinality(T) - 1 /\ Cardinality(T) \in Nat
  BY Counting
<1>3. Cardinality((T \ {c}) \cup {h}) = Cardinality(T \ {c}) + 1
  BY <1>1, Counting
<1> QED  BY <1>2, <1>3

(* The one who waits longest is blocked, so that it has no job.            *)
LEMMA Longest ==
    ASSUME GroupIInv, waiters # <<>>
    PROVE  /\ Head(waiters) \in Calls /\ call[Head(waiters)] = "blocked" /\ job[Head(waiters)] = "none"
           /\ limit # 0 /\ 1 \in 1 .. Len(waiters) /\ Head(waiters) = waiters[1]
<1>1. waiters \in Seq(Calls)
  BY DEF GroupIInv, G!TypeOK
<1>2. Head(waiters) = waiters[1] /\ Head(waiters) \in Calls /\ 1 \in 1 .. Len(waiters)
  BY <1>1
<1>3. Head(waiters) \in Waiters
  BY <1>2 DEF Waiters
<1>4. call[Head(waiters)] = "blocked" /\ limit # 0
  BY <1>2, <1>3 DEF GroupIInv, QueueOfBlocked
<1>5. job[Head(waiters)] = "none"
  BY <1>2, <1>4 DEF GroupIInv, SpawnedHasJob
<1> QED  BY <1>2, <1>4, <1>5

(* A slot given back is nobody's, is free, or is passed on.                *)
Unlimited(after) == limit = 0 /\ waiters = <<>> /\ held' = held /\ waiters' = waiters /\ call' = after
Freed(after)     == limit # 0 /\ waiters = <<>> /\ held' = held - 1 /\ waiters' = waiters /\ call' = after
PassedOn(after)  ==
    /\ limit # 0 /\ waiters # <<>> /\ held' = held /\ waiters' = Tail(waiters)
    /\ call' = [after EXCEPT ![Head(waiters)] = "enter"]
    /\ Head(waiters) \in Calls /\ call[Head(waiters)] = "blocked" /\ job[Head(waiters)] = "none"

LEMMA GivenBack ==
    ASSUME GroupIInv, NEW after, G!ReleaseSlot(after)
    PROVE  Unlimited(after) \/ Freed(after) \/ PassedOn(after)
<1>1. CASE limit = 0
  BY <1>1, Longest DEF G!ReleaseSlot, Unlimited
<1>2. CASE limit # 0 /\ waiters = <<>>
  BY <1>2 DEF G!ReleaseSlot, Freed
<1>3. CASE limit # 0 /\ waiters # <<>>
  BY <1>3, Longest DEF G!ReleaseSlot, PassedOn
<1> QED  BY <1>1, <1>2, <1>3

(* Who joins the queue is its last, and who leaves it was its first.       *)
LEMMA QueueFacts ==
    ASSUME waiters \in Seq(Calls), NEW c \in Calls
    PROVE  /\ waiters' = Append(waiters, c) => Waiters' = Waiters \cup {c}
           /\ waiters # <<>> /\ waiters' = Tail(waiters) =>
                  Waiters = Waiters' \cup {Head(waiters)}
<1>l. Len(waiters) \in Nat
  OBVIOUS
<1>1. ASSUME waiters' = Append(waiters, c) PROVE Waiters' = Waiters \cup {c}
  <2>1. Len(waiters') = Len(waiters) + 1 /\ waiters'[Len(waiters) + 1] = c
    BY <1>1
  <2>2. \A i \in 1 .. Len(waiters) : waiters'[i] = waiters[i]
    BY <1>1
  <2>3. \A i \in 1 .. Len(waiters) + 1 : i \in 1 .. Len(waiters) \/ i = Len(waiters) + 1
    BY <1>l
  <2>4. (1 .. Len(waiters)) \subseteq 1 .. Len(waiters) + 1 /\ Len(waiters) + 1 \in 1 .. Len(waiters) + 1
    BY <1>l
  <2> QED  BY <2>1, <2>2, <2>3, <2>4 DEF Waiters
<1>2. ASSUME waiters # <<>>, waiters' = Tail(waiters) PROVE Waiters = Waiters' \cup {Head(waiters)}
  <2>1. /\ Head(waiters) = waiters[1] /\ Len(waiters') = Len(waiters) - 1 /\ Len(waiters) # 0
        /\ \A i \in 1 .. Len(waiters) - 1 : waiters'[i] = waiters[i + 1]
    BY <1>2
  <2>2. \A i \in 1 .. Len(waiters) : i = 1 \/ (i - 1 \in 1 .. Len(waiters) - 1 /\ (i - 1) + 1 = i)
    BY <1>l
  <2>3. \A i \in 1 .. Len(waiters) - 1 : i + 1 \in 1 .. Len(waiters)
    BY <1>l
  <2>4. 1 \in 1 .. Len(waiters)
    BY <1>l, <2>1
  <2>5. Waiters \subseteq Waiters' \cup {Head(waiters)}
    <3> SUFFICES ASSUME NEW i \in 1 .. Len(waiters), i # 1 PROVE waiters[i] \in Waiters'
      BY <2>1 DEF Waiters
    <3>1. i - 1 \in 1 .. Len(waiters') /\ waiters'[i - 1] = waiters[i]
      BY <2>1, <2>2
    <3> QED  BY <3>1 DEF Waiters
  <2>6. Waiters' \subseteq Waiters /\ Head(waiters) \in Waiters
    BY <2>1, <2>3, <2>4 DEF Waiters
  <2> QED  BY <2>5, <2>6
<1> QED  BY <1>1, <1>2

(* A job is there as soon as the call has spawned it.                      *)
LEMMA SpawnedHasJobStep ==
    ASSUME GroupIInv, G!Next PROVE SpawnedHasJob'
<1> USE GroupAssumption
<1>i. SpawnedHasJob
  BY DEF GroupIInv
<1>call. call \in [Calls -> {"none", "acquire", "blocked", "enter", "accepted", "dropped", "spawned"}]
  BY SameCount DEF GroupIInv, G!TypeOK
<1>job. job \in [Calls -> {"none", "running", "finished", "released", "done"}]
  BY SameCount DEF GroupIInv, G!TypeOK
<1>1. ASSUME NEW b \in Calls, G!TryAcquire(b) PROVE SpawnedHasJob'
  BY <1>i, <1>1, <1>call DEF SpawnedHasJob, G!TryAcquire, G!Running, G!SlotFree
<1>2. ASSUME NEW b \in Calls, G!Acquire(b) PROVE SpawnedHasJob'
  BY <1>i, <1>2, <1>call DEF SpawnedHasJob, G!Acquire, G!SlotFree
<1>3. ASSUME NEW b \in Calls, G!Enter(b) PROVE SpawnedHasJob'
  <2>1. CASE closed
    <3>0. Unlimited([call EXCEPT ![b] = "dropped"]) \/ Freed([call EXCEPT ![b] = "dropped"]) \/ PassedOn([call EXCEPT ![b] = "dropped"])
      BY <1>3, <2>1, GivenBack DEF G!Enter
    <3>a. call[b] = "enter" /\ job' = job
      BY <1>3, <2>1 DEF G!Enter
    <3>1. CASE Unlimited([call EXCEPT ![b] = "dropped"])
      BY <3>1, <3>a, <1>i, <1>call, <1>job DEF Unlimited, SpawnedHasJob
    <3>2. CASE Freed([call EXCEPT ![b] = "dropped"])
      BY <3>2, <3>a, <1>i, <1>call, <1>job DEF Freed, SpawnedHasJob
    <3>3. CASE PassedOn([call EXCEPT ![b] = "dropped"])
      <4>1. call' = [[call EXCEPT ![b] = "dropped"] EXCEPT ![Head(waiters)] = "enter"] /\ call[Head(waiters)] = "blocked"
        BY <3>3 DEF PassedOn
      <4> QED BY <4>1, <3>a, <1>i, <1>call, <1>job DEF SpawnedHasJob
    <3> QED BY <3>0, <3>1, <3>2, <3>3
  <2>2. CASE ~closed
    <3>1. call' = [call EXCEPT ![b] = "accepted"] /\ job' = job /\ call[b] = "enter"
      BY <1>3, <2>2 DEF G!Enter
    <3> QED BY <3>1, <1>i, <1>call, <1>job DEF SpawnedHasJob
  <2> QED BY <2>1, <2>2
<1>4. ASSUME NEW b \in Calls, G!Dispatch(b) PROVE SpawnedHasJob'
  BY <1>i, <1>4, <1>call, <1>job DEF SpawnedHasJob, G!Dispatch
<1>5. ASSUME NEW b \in Calls, G!Finish(b) PROVE SpawnedHasJob'
  BY <1>i, <1>5 DEF SpawnedHasJob, G!Finish, G!InCall
<1>6. ASSUME NEW b \in Calls, G!Release(b) PROVE SpawnedHasJob'
  <2>0. Unlimited(call) \/ Freed(call) \/ PassedOn(call)
    BY <1>6, GivenBack DEF G!Release
  <2>a. job[b] = "finished" /\ job' = [job EXCEPT ![b] = "released"]
    BY <1>6 DEF G!Release
  <2>1. CASE Unlimited(call)
    BY <2>1, <2>a, <1>i, <1>call, <1>job DEF Unlimited, SpawnedHasJob
  <2>2. CASE Freed(call)
    BY <2>2, <2>a, <1>i, <1>call, <1>job DEF Freed, SpawnedHasJob
  <2>3. CASE PassedOn(call)
    <3>1. call' = [call EXCEPT ![Head(waiters)] = "enter"] /\ call[Head(waiters)] = "blocked"
      BY <2>3 DEF PassedOn
    <3> QED BY <3>1, <2>a, <1>i, <1>call, <1>job DEF SpawnedHasJob
  <2> QED BY <2>0, <2>1, <2>2, <2>3
<1>7. ASSUME NEW b \in Calls, G!Done(b) PROVE SpawnedHasJob'
  BY <1>i, <1>7 DEF SpawnedHasJob, G!Done
<1>8. CASE G!Close
  <2>1. UNCHANGED <<call, job>>
    BY <1>8 DEF G!Close
  <2> QED BY <1>i, <2>1 DEF SpawnedHasJob
<1>9. CASE G!CloseReturns
  <2>1. UNCHANGED <<call, job>>
    BY <1>9 DEF G!CloseReturns
  <2> QED BY <1>i, <2>1 DEF SpawnedHasJob
<1> QED
  BY <1>1, <1>2, <1>3, <1>4, <1>5, <1>6, <1>7, <1>8, <1>9 DEF G!Next, G!Progress

(* A slot more for each call that takes one, and one less as it is given back. *)
LEMMA SlotsCountedStep ==
    ASSUME GroupIInv, G!Next PROVE SlotsCounted'
<1> USE GroupAssumption
<1>i. SlotsCounted
  BY DEF GroupIInv
<1>qb. QueueOfBlocked
  BY DEF GroupIInv
<1>sj. SpawnedHasJob
  BY DEF GroupIInv
<1>limit. limit \in Limits
  BY SameCount DEF GroupIInv, G!TypeOK
<1>lim. limit \in Nat
  BY <1>limit DEF GroupAssumption
<1>call. call \in [Calls -> {"none", "acquire", "blocked", "enter", "accepted", "dropped", "spawned"}]
  BY SameCount DEF GroupIInv, G!TypeOK
<1>job. job \in [Calls -> {"none", "running", "finished", "released", "done"}]
  BY SameCount DEF GroupIInv, G!TypeOK
<1>1. ASSUME NEW b \in Calls, G!TryAcquire(b) PROVE SlotsCounted'
  <2>1. CASE limit = 0
    BY <1>1, <2>1, <1>i DEF G!TryAcquire, SlotsCounted
  <2>2. CASE limit # 0 /\ G!SlotFree
    <3>1. /\ limit # 0 /\ held < limit /\ limit' = limit /\ held' = held + 1
          /\ call[b] = "none" /\ call' = [call EXCEPT ![b] = "enter"] /\ job' = job
      BY <1>1, <2>2 DEF G!TryAcquire, G!SlotFree
    <3>2. b \notin Slots /\ Slots' = Slots \cup {b}
      BY <3>1, <1>sj, <1>call, <1>job DEF Slots, SpawnedHasJob
    <3>3. Cardinality(Slots') = Cardinality(Slots) + 1 /\ Cardinality(Slots) \in Nat
      BY <3>2, Counting DEF Slots
    <3> QED BY <3>1, <3>3, <1>i, <1>lim DEF SlotsCounted
  <2>3. CASE limit # 0 /\ ~G!SlotFree
    <3>1. limit' = limit /\ held' = held /\ call[b] = "none" /\ call' = [call EXCEPT ![b] = "acquire"] /\ job' = job
      BY <1>1, <2>3 DEF G!TryAcquire
    <3>2. Slots' = Slots
      BY <3>1, <1>sj, <1>call, <1>job DEF Slots, SpawnedHasJob
    <3> QED BY <3>1, <3>2, <1>i DEF SlotsCounted
  <2> QED BY <2>1, <2>2, <2>3
<1>2. ASSUME NEW b \in Calls, G!Acquire(b) PROVE SlotsCounted'
  <2>l. limit # 0
    BY <1>2, <1>qb DEF G!Acquire, QueueOfBlocked
  <2>1. CASE G!SlotFree
    <3>1. /\ limit # 0 /\ held < limit /\ limit' = limit /\ held' = held + 1
          /\ call[b] = "acquire" /\ call' = [call EXCEPT ![b] = "enter"] /\ job' = job
      BY <1>2, <2>1, <2>l DEF G!Acquire, G!SlotFree
    <3>2. b \notin Slots /\ Slots' = Slots \cup {b}
      BY <3>1, <1>sj, <1>call, <1>job DEF Slots, SpawnedHasJob
    <3>3. Cardinality(Slots') = Cardinality(Slots) + 1 /\ Cardinality(Slots) \in Nat
      BY <3>2, Counting DEF Slots
    <3> QED BY <3>1, <3>3, <1>i, <1>lim DEF SlotsCounted
  <2>2. CASE ~G!SlotFree
    <3>1. limit' = limit /\ held' = held /\ call[b] = "acquire" /\ call' = [call EXCEPT ![b] = "blocked"] /\ job' = job
      BY <1>2, <2>2 DEF G!Acquire
    <3>2. Slots' = Slots
      BY <3>1, <1>sj, <1>call, <1>job DEF Slots, SpawnedHasJob
    <3> QED BY <3>1, <3>2, <1>i DEF SlotsCounted
  <2> QED BY <2>1, <2>2
<1>3. ASSUME NEW b \in Calls, G!Enter(b) PROVE SlotsCounted'
  <2>1. CASE closed
    <3>0. Unlimited([call EXCEPT ![b] = "dropped"]) \/ Freed([call EXCEPT ![b] = "dropped"]) \/ PassedOn([call EXCEPT ![b] = "dropped"])
      BY <1>3, <2>1, GivenBack DEF G!Enter
    <3>a. call[b] = "enter" /\ job' = job
      BY <1>3, <2>1 DEF G!Enter
    <3>1. CASE Unlimited([call EXCEPT ![b] = "dropped"])
      BY <3>1, <1>3, <2>1, <1>i DEF Unlimited, SlotsCounted, G!Enter
    <3>2. CASE Freed([call EXCEPT ![b] = "dropped"])
      <4>1. limit # 0 /\ limit' = limit /\ held' = held - 1 /\ call' = [call EXCEPT ![b] = "dropped"]
        BY <3>2, <1>3, <2>1 DEF Freed, G!Enter
      <4>2. b \in Slots /\ Slots' = Slots \ {b}
        BY <4>1, <3>a, <1>sj, <1>call, <1>job DEF Slots, SpawnedHasJob
      <4>3. Cardinality(Slots') = Cardinality(Slots) - 1 /\ Cardinality(Slots) \in Nat
        BY <4>2, Counting DEF Slots
      <4> QED BY <4>1, <4>3, <1>i, <1>lim DEF SlotsCounted
    <3>3. CASE PassedOn([call EXCEPT ![b] = "dropped"])
      <4>1. limit' = limit /\ held' = held /\ call' = [[call EXCEPT ![b] = "dropped"] EXCEPT ![Head(waiters)] = "enter"]
        BY <3>3, <1>3, <2>1 DEF PassedOn, G!Enter
      <4>2. Head(waiters) \in Calls /\ call[Head(waiters)] = "blocked" /\ job[Head(waiters)] = "none"
        BY <3>3 DEF PassedOn
      <4>3. b \in Slots /\ Head(waiters) \in Calls \ Slots /\ Slots' = (Slots \ {b}) \cup {Head(waiters)}
        BY <4>1, <4>2, <3>a, <1>sj, <1>call, <1>job DEF Slots, SpawnedHasJob
      <4>4. Cardinality(Slots') = Cardinality(Slots)
        BY <4>3, Replacing DEF Slots
      <4> QED BY <4>1, <4>4, <1>i DEF SlotsCounted
    <3> QED BY <3>0, <3>1, <3>2, <3>3
  <2>2. CASE ~closed
    <3>1. limit' = limit /\ held' = held /\ call[b] = "enter" /\ call' = [call EXCEPT ![b] = "accepted"] /\ job' = job
      BY <1>3, <2>2 DEF G!Enter
    <3>2. Slots' = Slots
      BY <3>1, <1>sj, <1>call, <1>job DEF Slots, SpawnedHasJob
    <3> QED BY <3>1, <3>2, <1>i DEF SlotsCounted
  <2> QED BY <2>1, <2>2
<1>4. ASSUME NEW b \in Calls, G!Dispatch(b) PROVE SlotsCounted'
  <2>1. limit' = limit /\ held' = held /\ call[b] = "accepted" /\ call' = [call EXCEPT ![b] = "spawned"]
        /\ job' = [job EXCEPT ![b] = "running"]
    BY <1>4 DEF G!Dispatch
  <2>2. Slots' = Slots
    BY <2>1, <1>sj, <1>call, <1>job DEF Slots, SpawnedHasJob
  <2> QED BY <2>1, <2>2, <1>i DEF SlotsCounted
<1>5. ASSUME NEW b \in Calls, G!Finish(b) PROVE SlotsCounted'
  <2>1. limit' = limit /\ held' = held /\ job[b] = "running" /\ call' = call /\ job' = [job EXCEPT ![b] = "finished"]
    BY <1>5 DEF G!Finish
  <2>2. Slots' = Slots
    BY <2>1, <1>sj, <1>call, <1>job DEF Slots, SpawnedHasJob
  <2> QED BY <2>1, <2>2, <1>i DEF SlotsCounted
<1>6. ASSUME NEW b \in Calls, G!Release(b) PROVE SlotsCounted'
  <2>0. Unlimited(call) \/ Freed(call) \/ PassedOn(call)
    BY <1>6, GivenBack DEF G!Release
  <2>a. job[b] = "finished" /\ job' = [job EXCEPT ![b] = "released"]
    BY <1>6 DEF G!Release
  <2>1. CASE Unlimited(call)
    BY <2>1, <1>6, <1>i DEF Unlimited, SlotsCounted, G!Release
  <2>2. CASE Freed(call)
    <3>1. limit # 0 /\ limit' = limit /\ held' = held - 1 /\ call' = call
      BY <2>2, <1>6 DEF Freed, G!Release
    <3>2. b \in Slots /\ Slots' = Slots \ {b}
      BY <3>1, <2>a, <1>sj, <1>call, <1>job DEF Slots, SpawnedHasJob
    <3>3. Cardinality(Slots') = Cardinality(Slots) - 1 /\ Cardinality(Slots) \in Nat
      BY <3>2, Counting DEF Slots
    <3> QED BY <3>1, <3>3, <1>i, <1>lim DEF SlotsCounted
  <2>3. CASE PassedOn(call)
    <3>1. limit' = limit /\ held' = held /\ call' = [call EXCEPT ![Head(waiters)] = "enter"]
      BY <2>3, <1>6 DEF PassedOn, G!Release
    <3>2. Head(waiters) \in Calls /\ call[Head(waiters)] = "blocked" /\ job[Head(waiters)] = "none"
      BY <2>3 DEF PassedOn
    <3>3. b \in Slots /\ Head(waiters) \in Calls \ Slots /\ Slots' = (Slots \ {b}) \cup {Head(waiters)}
      BY <3>1, <3>2, <2>a, <1>sj, <1>call, <1>job DEF Slots, SpawnedHasJob
    <3>4. Cardinality(Slots') = Cardinality(Slots)
      BY <3>3, Replacing DEF Slots
    <3> QED BY <3>1, <3>4, <1>i DEF SlotsCounted
  <2> QED BY <2>0, <2>1, <2>2, <2>3
<1>7. ASSUME NEW b \in Calls, G!Done(b) PROVE SlotsCounted'
  <2>1. limit' = limit /\ held' = held /\ job[b] = "released" /\ call' = call /\ job' = [job EXCEPT ![b] = "done"]
    BY <1>7 DEF G!Done
  <2>2. Slots' = Slots
    BY <2>1, <1>sj, <1>call, <1>job DEF Slots, SpawnedHasJob
  <2> QED BY <2>1, <2>2, <1>i DEF SlotsCounted
<1>8. CASE G!Close
  <2>1. UNCHANGED <<limit, held, call, job>>
    BY <1>8 DEF G!Close
  <2> QED BY <1>i, <2>1 DEF SlotsCounted, Slots
<1>9. CASE G!CloseReturns
  <2>1. UNCHANGED <<limit, held, call, job>>
    BY <1>9 DEF G!CloseReturns
  <2> QED BY <1>i, <2>1 DEF SlotsCounted, Slots
<1> QED
  BY <1>1, <1>2, <1>3, <1>4, <1>5, <1>6, <1>7, <1>8, <1>9 DEF G!Next, G!Progress

(* Who waits stays in the queue until the slot is passed on.               *)
LEMMA QueueStep ==
    ASSUME GroupIInv, G!Next PROVE QueueOfBlocked'
<1> USE GroupAssumption
<1>i. QueueOfBlocked
  BY DEF GroupIInv
<1>waiters. waiters \in Seq(Calls)
  BY SameCount DEF GroupIInv, G!TypeOK
<1>call. call \in [Calls -> {"none", "acquire", "blocked", "enter", "accepted", "dropped", "spawned"}]
  BY SameCount DEF GroupIInv, G!TypeOK
<1>1. ASSUME NEW b \in Calls, G!TryAcquire(b) PROVE QueueOfBlocked'
  <2>1. waiters' = waiters /\ limit' = limit /\ call[b] = "none"
    BY <1>1 DEF G!TryAcquire
  <2>2. call' = [call EXCEPT ![b] = "enter"] \/ (limit # 0 /\ call' = [call EXCEPT ![b] = "acquire"])
    BY <1>1 DEF G!TryAcquire
  <2>3. Waiters' = Waiters
    BY <2>1 DEF Waiters
  <2> QED BY <2>1, <2>2, <2>3, <1>i, <1>call DEF QueueOfBlocked
<1>2. ASSUME NEW b \in Calls, G!Acquire(b) PROVE QueueOfBlocked'
  <2>1. limit' = limit /\ call[b] = "acquire" /\ limit # 0
    BY <1>2, <1>i DEF G!Acquire, QueueOfBlocked
  <2>2. CASE G!SlotFree
    <3>1. call' = [call EXCEPT ![b] = "enter"] /\ waiters' = waiters
      BY <1>2, <2>2 DEF G!Acquire
    <3>2. Waiters' = Waiters
      BY <3>1 DEF Waiters
    <3> QED BY <2>1, <3>1, <3>2, <1>i, <1>call DEF QueueOfBlocked
  <2>3. CASE ~G!SlotFree
    <3>1. call' = [call EXCEPT ![b] = "blocked"] /\ waiters' = Append(waiters, b)
      BY <1>2, <2>3 DEF G!Acquire
    <3>2. Waiters' = Waiters \cup {b} /\ b \notin Waiters
      BY <2>1, <3>1, <1>waiters, <1>i, QueueFacts DEF QueueOfBlocked
    <3>3. \A c \in Calls : call'[c] = "blocked" <=> c \in Waiters'
      BY <3>1, <3>2, <1>i, <1>call DEF QueueOfBlocked
    <3>4. ASSUME NEW i \in 1 .. Len(waiters'), NEW j \in 1 .. Len(waiters'), waiters'[i] = waiters'[j] PROVE i = j
      <4>1. /\ Len(waiters') = Len(waiters) + 1 /\ waiters'[Len(waiters) + 1] = b /\ Len(waiters) \in Nat
            /\ \A m \in 1 .. Len(waiters) : waiters'[m] = waiters[m] /\ waiters[m] # b
        BY <3>1, <3>2, <1>waiters DEF Waiters
      <4>2. (i \in 1 .. Len(waiters) \/ i = Len(waiters) + 1) /\ (j \in 1 .. Len(waiters) \/ j = Len(waiters) + 1)
        BY <4>1
      <4> QED BY <3>4, <4>1, <4>2, <1>i DEF QueueOfBlocked
    <3>5. limit' # 0
      BY <2>1
    <3> QED BY <3>3, <3>4, <3>5 DEF QueueOfBlocked
  <2> QED BY <2>2, <2>3
<1>3. ASSUME NEW b \in Calls, G!Enter(b) PROVE QueueOfBlocked'
  <2>1. CASE closed
    <3>0. Unlimited([call EXCEPT ![b] = "dropped"]) \/ Freed([call EXCEPT ![b] = "dropped"]) \/ PassedOn([call EXCEPT ![b] = "dropped"])
      BY <1>3, <2>1, GivenBack DEF G!Enter
    <3>a. call[b] = "enter"
      BY <1>3, <2>1 DEF G!Enter
    <3>1. CASE Unlimited([call EXCEPT ![b] = "dropped"])
      <4>1. waiters' = waiters /\ call' = [call EXCEPT ![b] = "dropped"] /\ limit' = limit
        BY <3>1, <1>3, <2>1 DEF Unlimited, G!Enter
      <4>2. Waiters' = Waiters
        BY <4>1 DEF Waiters
      <4> QED BY <4>1, <4>2, <3>a, <1>i, <1>call DEF QueueOfBlocked
    <3>2. CASE Freed([call EXCEPT ![b] = "dropped"])
      <4>1. waiters' = waiters /\ call' = [call EXCEPT ![b] = "dropped"] /\ limit' = limit
        BY <3>2, <1>3, <2>1 DEF Freed, G!Enter
      <4>2. Waiters' = Waiters
        BY <4>1 DEF Waiters
      <4> QED BY <4>1, <4>2, <3>a, <1>i, <1>call DEF QueueOfBlocked
    <3>3. CASE PassedOn([call EXCEPT ![b] = "dropped"])
      <4>1. /\ waiters # <<>> /\ waiters' = Tail(waiters) /\ limit' = limit /\ limit # 0
          /\ call' = [[call EXCEPT ![b] = "dropped"] EXCEPT ![Head(waiters)] = "enter"] /\ Head(waiters) \in Calls
        BY <3>3, <1>3, <2>1 DEF PassedOn, G!Enter
      <4>2. /\ Head(waiters) = waiters[1] /\ Len(waiters) \in Nat \ {0} /\ Len(waiters') = Len(waiters) - 1
          /\ \A m \in 1 .. Len(waiters) - 1 : waiters'[m] = waiters[m + 1]
        BY <4>1, <1>waiters
      <4>3. \A m \in 1 .. Len(waiters) - 1 : m + 1 \in 1 .. Len(waiters) /\ m + 1 # 1
        BY <4>2
      <4>4. 1 \in 1 .. Len(waiters)
        BY <4>2
      <4>5. Head(waiters) \notin Waiters'
        BY <4>2, <4>3, <4>4, <1>i DEF QueueOfBlocked, Waiters
      <4>6. Waiters = Waiters' \cup {Head(waiters)}
        BY <4>1, <1>waiters, QueueFacts
      <4>7. \A c \in Calls : call'[c] = "blocked" <=> c \in Waiters'
        BY <4>1, <4>5, <4>6, <3>a, <1>i, <1>call DEF QueueOfBlocked
      <4>8. \A i, j \in 1 .. Len(waiters') : waiters'[i] = waiters'[j] => i = j
        <5> SUFFICES ASSUME NEW i \in 1 .. Len(waiters'), NEW j \in 1 .. Len(waiters'), waiters'[i] = waiters'[j] PROVE i = j
          OBVIOUS
        <5>1. /\ i + 1 \in 1 .. Len(waiters) /\ waiters'[i] = waiters[i + 1]
             /\ j + 1 \in 1 .. Len(waiters) /\ waiters'[j] = waiters[j + 1]
          BY <4>2
        <5>2. i + 1 = j + 1
          BY <5>1, <1>i DEF QueueOfBlocked
        <5> QED BY <5>2
      <4>9. limit' # 0
        BY <4>1
      <4> QED BY <4>7, <4>8, <4>9 DEF QueueOfBlocked
    <3> QED BY <3>0, <3>1, <3>2, <3>3
  <2>2. CASE ~closed
    <3>1. waiters' = waiters /\ limit' = limit /\ call[b] = "enter" /\ call' = [call EXCEPT ![b] = "accepted"]
      BY <1>3, <2>2 DEF G!Enter
    <3>2. Waiters' = Waiters
      BY <3>1 DEF Waiters
    <3> QED BY <3>1, <3>2, <1>i, <1>call DEF QueueOfBlocked
  <2> QED BY <2>1, <2>2
<1>4. ASSUME NEW b \in Calls, G!Dispatch(b) PROVE QueueOfBlocked'
  <2>1. waiters' = waiters /\ limit' = limit /\ call[b] = "accepted" /\ call' = [call EXCEPT ![b] = "spawned"]
    BY <1>4 DEF G!Dispatch
  <2>2. Waiters' = Waiters
    BY <2>1 DEF Waiters
  <2> QED BY <2>1, <2>2, <1>i, <1>call DEF QueueOfBlocked
<1>5. ASSUME NEW b \in Calls, G!Finish(b) PROVE QueueOfBlocked'
  <2>1. UNCHANGED <<limit, waiters, call>>
    BY <1>5 DEF G!Finish
  <2> QED BY <1>i, <2>1 DEF QueueOfBlocked, Waiters
<1>6. ASSUME NEW b \in Calls, G!Release(b) PROVE QueueOfBlocked'
  <2>0. Unlimited(call) \/ Freed(call) \/ PassedOn(call)
    BY <1>6, GivenBack DEF G!Release
  <2>a. job[b] = "finished"
    BY <1>6 DEF G!Release
  <2>1. CASE Unlimited(call)
    <3>1. waiters' = waiters /\ call' = call /\ limit' = limit
      BY <2>1, <1>6 DEF Unlimited, G!Release
    <3>2. Waiters' = Waiters
      BY <3>1 DEF Waiters
    <3> QED BY <3>1, <3>2, <2>a, <1>i, <1>call DEF QueueOfBlocked
  <2>2. CASE Freed(call)
    <3>1. waiters' = waiters /\ call' = call /\ limit' = limit
      BY <2>2, <1>6 DEF Freed, G!Release
    <3>2. Waiters' = Waiters
      BY <3>1 DEF Waiters
    <3> QED BY <3>1, <3>2, <2>a, <1>i, <1>call DEF QueueOfBlocked
  <2>3. CASE PassedOn(call)
    <3>1. /\ waiters # <<>> /\ waiters' = Tail(waiters) /\ limit' = limit /\ limit # 0
        /\ call' = [call EXCEPT ![Head(waiters)] = "enter"] /\ Head(waiters) \in Calls
      BY <2>3, <1>6 DEF PassedOn, G!Release
    <3>2. /\ Head(waiters) = waiters[1] /\ Len(waiters) \in Nat \ {0} /\ Len(waiters') = Len(waiters) - 1
        /\ \A m \in 1 .. Len(waiters) - 1 : waiters'[m] = waiters[m + 1]
      BY <3>1, <1>waiters
    <3>3. \A m \in 1 .. Len(waiters) - 1 : m + 1 \in 1 .. Len(waiters) /\ m + 1 # 1
      BY <3>2
    <3>4. 1 \in 1 .. Len(waiters)
      BY <3>2
    <3>5. Head(waiters) \notin Waiters'
      BY <3>2, <3>3, <3>4, <1>i DEF QueueOfBlocked, Waiters
    <3>6. Waiters = Waiters' \cup {Head(waiters)}
      BY <3>1, <1>waiters, QueueFacts
    <3>7. \A c \in Calls : call'[c] = "blocked" <=> c \in Waiters'
      BY <3>1, <3>5, <3>6, <2>a, <1>i, <1>call DEF QueueOfBlocked
    <3>8. \A i, j \in 1 .. Len(waiters') : waiters'[i] = waiters'[j] => i = j
      <4> SUFFICES ASSUME NEW i \in 1 .. Len(waiters'), NEW j \in 1 .. Len(waiters'), waiters'[i] = waiters'[j] PROVE i = j
        OBVIOUS
      <4>1. /\ i + 1 \in 1 .. Len(waiters) /\ waiters'[i] = waiters[i + 1]
           /\ j + 1 \in 1 .. Len(waiters) /\ waiters'[j] = waiters[j + 1]
        BY <3>2
      <4>2. i + 1 = j + 1
        BY <4>1, <1>i DEF QueueOfBlocked
      <4> QED BY <4>2
    <3>9. limit' # 0
      BY <3>1
    <3> QED BY <3>7, <3>8, <3>9 DEF QueueOfBlocked
  <2> QED BY <2>0, <2>1, <2>2, <2>3
<1>7. ASSUME NEW b \in Calls, G!Done(b) PROVE QueueOfBlocked'
  <2>1. UNCHANGED <<limit, waiters, call>>
    BY <1>7 DEF G!Done
  <2> QED BY <1>i, <2>1 DEF QueueOfBlocked, Waiters
<1>8. CASE G!Close
  <2>1. UNCHANGED <<limit, waiters, call>>
    BY <1>8 DEF G!Close
  <2> QED BY <1>i, <2>1 DEF QueueOfBlocked, Waiters
<1>9. CASE G!CloseReturns
  <2>1. UNCHANGED <<limit, waiters, call>>
    BY <1>9 DEF G!CloseReturns
  <2> QED BY <1>i, <2>1 DEF QueueOfBlocked, Waiters
<1> QED
  BY <1>1, <1>2, <1>3, <1>4, <1>5, <1>6, <1>7, <1>8, <1>9 DEF G!Next, G!Progress

(* The wait group counts every call accepted.                              *)
LEMMA WaitedForStep ==
    ASSUME GroupIInv, G!Next PROVE WaitedFor'
<1> USE GroupAssumption
<1>i. WaitedFor
  BY DEF GroupIInv
<1>sj. SpawnedHasJob
  BY DEF GroupIInv
<1>call. call \in [Calls -> {"none", "acquire", "blocked", "enter", "accepted", "dropped", "spawned"}]
  BY SameCount DEF GroupIInv, G!TypeOK
<1>job. job \in [Calls -> {"none", "running", "finished", "released", "done"}]
  BY SameCount DEF GroupIInv, G!TypeOK
<1>1. ASSUME NEW b \in Calls, G!TryAcquire(b) PROVE WaitedFor'
  <2>1. wg' = wg /\ call[b] = "none" /\ job' = job /\ \E v \in {"enter", "acquire"} : call' = [call EXCEPT ![b] = v]
    BY <1>1 DEF G!TryAcquire
  <2>2. Counted' = Counted
    BY <2>1, <1>sj, <1>call, <1>job DEF Counted, SpawnedHasJob
  <2> QED BY <2>1, <2>2, <1>i DEF WaitedFor
<1>2. ASSUME NEW b \in Calls, G!Acquire(b) PROVE WaitedFor'
  <2>1. wg' = wg /\ call[b] = "acquire" /\ job' = job /\ \E v \in {"enter", "blocked"} : call' = [call EXCEPT ![b] = v]
    BY <1>2 DEF G!Acquire
  <2>2. Counted' = Counted
    BY <2>1, <1>sj, <1>call, <1>job DEF Counted, SpawnedHasJob
  <2> QED BY <2>1, <2>2, <1>i DEF WaitedFor
<1>3. ASSUME NEW b \in Calls, G!Enter(b) PROVE WaitedFor'
  <2>1. CASE closed
    <3>0. Unlimited([call EXCEPT ![b] = "dropped"]) \/ Freed([call EXCEPT ![b] = "dropped"]) \/ PassedOn([call EXCEPT ![b] = "dropped"])
      BY <1>3, <2>1, GivenBack DEF G!Enter
    <3>a. call[b] = "enter" /\ job' = job
      BY <1>3, <2>1 DEF G!Enter
    <3>1. CASE Unlimited([call EXCEPT ![b] = "dropped"])
      <4>1. wg' = wg /\ call' = [call EXCEPT ![b] = "dropped"]
        BY <3>1, <1>3, <2>1 DEF Unlimited, G!Enter
      <4>2. Counted' = Counted
        BY <4>1, <3>a, <1>sj, <1>call, <1>job DEF Counted, SpawnedHasJob
      <4> QED BY <4>1, <4>2, <1>i DEF WaitedFor
    <3>2. CASE Freed([call EXCEPT ![b] = "dropped"])
      <4>1. wg' = wg /\ call' = [call EXCEPT ![b] = "dropped"]
        BY <3>2, <1>3, <2>1 DEF Freed, G!Enter
      <4>2. Counted' = Counted
        BY <4>1, <3>a, <1>sj, <1>call, <1>job DEF Counted, SpawnedHasJob
      <4> QED BY <4>1, <4>2, <1>i DEF WaitedFor
    <3>3. CASE PassedOn([call EXCEPT ![b] = "dropped"])
      <4>1. wg' = wg /\ call' = [[call EXCEPT ![b] = "dropped"] EXCEPT ![Head(waiters)] = "enter"]
        BY <3>3, <1>3, <2>1 DEF PassedOn, G!Enter
      <4>2. call[Head(waiters)] = "blocked" /\ job[Head(waiters)] = "none"
        BY <3>3 DEF PassedOn
      <4>3. Counted' = Counted
        BY <4>1, <4>2, <3>a, <1>sj, <1>call, <1>job DEF Counted, SpawnedHasJob
      <4> QED BY <4>1, <4>3, <1>i DEF WaitedFor
    <3> QED BY <3>0, <3>1, <3>2, <3>3
  <2>2. CASE ~closed
    <3>1. wg' = wg + 1 /\ call[b] = "enter" /\ call' = [call EXCEPT ![b] = "accepted"] /\ job' = job
      BY <1>3, <2>2 DEF G!Enter
    <3>2. b \notin Counted /\ Counted' = Counted \cup {b}
      BY <3>1, <1>sj, <1>call, <1>job DEF Counted, SpawnedHasJob
    <3>3. Cardinality(Counted') = Cardinality(Counted) + 1
      BY <3>2, Counting DEF Counted
    <3> QED BY <3>1, <3>3, <1>i DEF WaitedFor
  <2> QED BY <2>1, <2>2
<1>4. ASSUME NEW b \in Calls, G!Dispatch(b) PROVE WaitedFor'
  <2>1. wg' = wg /\ call[b] = "accepted" /\ call' = [call EXCEPT ![b] = "spawned"] /\ job' = [job EXCEPT ![b] = "running"]
    BY <1>4 DEF G!Dispatch
  <2>2. Counted' = Counted
    BY <2>1, <1>sj, <1>call, <1>job DEF Counted, SpawnedHasJob
  <2> QED BY <2>1, <2>2, <1>i DEF WaitedFor
<1>5. ASSUME NEW b \in Calls, G!Finish(b) PROVE WaitedFor'
  <2>1. wg' = wg /\ job[b] = "running" /\ call' = call /\ job' = [job EXCEPT ![b] = "finished"]
    BY <1>5 DEF G!Finish
  <2>2. Counted' = Counted
    BY <2>1, <1>sj, <1>call, <1>job DEF Counted, SpawnedHasJob
  <2> QED BY <2>1, <2>2, <1>i DEF WaitedFor
<1>6. ASSUME NEW b \in Calls, G!Release(b) PROVE WaitedFor'
  <2>0. Unlimited(call) \/ Freed(call) \/ PassedOn(call)
    BY <1>6, GivenBack DEF G!Release
  <2>a. job[b] = "finished" /\ job' = [job EXCEPT ![b] = "released"]
    BY <1>6 DEF G!Release
  <2>1. CASE Unlimited(call)
    <3>1. wg' = wg /\ call' = call
      BY <2>1, <1>6 DEF Unlimited, G!Release
    <3>2. Counted' = Counted
      BY <3>1, <2>a, <1>sj, <1>call, <1>job DEF Counted, SpawnedHasJob
    <3> QED BY <3>1, <3>2, <1>i DEF WaitedFor
  <2>2. CASE Freed(call)
    <3>1. wg' = wg /\ call' = call
      BY <2>2, <1>6 DEF Freed, G!Release
    <3>2. Counted' = Counted
      BY <3>1, <2>a, <1>sj, <1>call, <1>job DEF Counted, SpawnedHasJob
    <3> QED BY <3>1, <3>2, <1>i DEF WaitedFor
  <2>3. CASE PassedOn(call)
    <3>1. wg' = wg /\ call' = [call EXCEPT ![Head(waiters)] = "enter"]
      BY <2>3, <1>6 DEF PassedOn, G!Release
    <3>2. call[Head(waiters)] = "blocked" /\ job[Head(waiters)] = "none"
      BY <2>3 DEF PassedOn
    <3>3. Counted' = Counted
      BY <3>1, <3>2, <2>a, <1>sj, <1>call, <1>job DEF Counted, SpawnedHasJob
    <3> QED BY <3>1, <3>3, <1>i DEF WaitedFor
  <2> QED BY <2>0, <2>1, <2>2, <2>3
<1>7. ASSUME NEW b \in Calls, G!Done(b) PROVE WaitedFor'
  <2>1. wg' = wg - 1 /\ job[b] = "released" /\ call' = call /\ job' = [job EXCEPT ![b] = "done"]
    BY <1>7 DEF G!Done
  <2>2. b \in Counted /\ Counted' = Counted \ {b}
    BY <2>1, <1>sj, <1>call, <1>job DEF Counted, SpawnedHasJob
  <2>3. Cardinality(Counted') = Cardinality(Counted) - 1
    BY <2>2, Counting DEF Counted
  <2> QED BY <2>1, <2>3, <1>i DEF WaitedFor
<1>8. CASE G!Close
  <2>1. UNCHANGED <<wg, call, job>>
    BY <1>8 DEF G!Close
  <2> QED BY <1>i, <2>1 DEF WaitedFor, Counted
<1>9. CASE G!CloseReturns
  <2>1. UNCHANGED <<wg, call, job>>
    BY <1>9 DEF G!CloseReturns
  <2> QED BY <1>i, <2>1 DEF WaitedFor, Counted
<1> QED
  BY <1>1, <1>2, <1>3, <1>4, <1>5, <1>6, <1>7, <1>8, <1>9 DEF G!Next, G!Progress

(* The metrics count every job.                                            *)
LEMMA MetricsStep ==
    ASSUME GroupIInv, G!Next PROVE MetricsCount'
<1> USE GroupAssumption
<1>i. MetricsCount
  BY DEF GroupIInv
<1>sj. SpawnedHasJob
  BY DEF GroupIInv
<1>call. call \in [Calls -> {"none", "acquire", "blocked", "enter", "accepted", "dropped", "spawned"}]
  BY SameCount DEF GroupIInv, G!TypeOK
<1>job. job \in [Calls -> {"none", "running", "finished", "released", "done"}]
  BY SameCount DEF GroupIInv, G!TypeOK
<1>metrics. metrics \in [{"dispatched", "ended"} -> 0 .. Cardinality(Calls)]
  BY SameCount DEF GroupIInv, G!TypeOK
<1>1. ASSUME NEW b \in Calls, G!TryAcquire(b) PROVE MetricsCount'
  <2>1. UNCHANGED <<metrics, job>>
    BY <1>1 DEF G!TryAcquire
  <2> QED BY <1>i, <2>1 DEF MetricsCount
<1>2. ASSUME NEW b \in Calls, G!Acquire(b) PROVE MetricsCount'
  <2>1. UNCHANGED <<metrics, job>>
    BY <1>2 DEF G!Acquire
  <2> QED BY <1>i, <2>1 DEF MetricsCount
<1>3. ASSUME NEW b \in Calls, G!Enter(b) PROVE MetricsCount'
  <2>1. UNCHANGED <<metrics, job>>
    BY <1>3 DEF G!Enter
  <2> QED BY <1>i, <2>1 DEF MetricsCount
<1>4. ASSUME NEW b \in Calls, G!Dispatch(b) PROVE MetricsCount'
  <2> DEFINE Dispatched == {c \in Calls : job[c] # "none"}
         Ended == {c \in Calls : job[c] \in {"finished", "released", "done"}}
  <2>1. /\ call[b] = "accepted" /\ job' = [job EXCEPT ![b] = "running"]
        /\ metrics' = [metrics EXCEPT !["dispatched"] = metrics["dispatched"] + 1]
    BY <1>4 DEF G!Dispatch
  <2>2. b \notin Dispatched /\ Dispatched' = Dispatched \cup {b} /\ Ended' = Ended
    BY <2>1, <1>sj, <1>call, <1>job DEF SpawnedHasJob
  <2>3. Cardinality(Dispatched') = Cardinality(Dispatched) + 1
    BY <2>2, Counting
  <2> QED BY <2>1, <2>2, <2>3, <1>i, <1>metrics DEF MetricsCount
<1>5. ASSUME NEW b \in Calls, G!Finish(b) PROVE MetricsCount'
  <2> DEFINE Dispatched == {c \in Calls : job[c] # "none"}
         Ended == {c \in Calls : job[c] \in {"finished", "released", "done"}}
  <2>1. /\ job[b] = "running" /\ job' = [job EXCEPT ![b] = "finished"]
        /\ metrics' = [metrics EXCEPT !["ended"] = metrics["ended"] + 1]
    BY <1>5 DEF G!Finish
  <2>2. b \notin Ended /\ Ended' = Ended \cup {b} /\ Dispatched' = Dispatched
    BY <2>1, <1>call, <1>job
  <2>3. Cardinality(Ended') = Cardinality(Ended) + 1
    BY <2>2, Counting
  <2> QED BY <2>1, <2>2, <2>3, <1>i, <1>metrics DEF MetricsCount
<1>6. ASSUME NEW b \in Calls, G!Release(b) PROVE MetricsCount'
  <2> DEFINE Dispatched == {c \in Calls : job[c] # "none"}
         Ended == {c \in Calls : job[c] \in {"finished", "released", "done"}}
  <2>1. metrics' = metrics /\ job[b] = "finished" /\ job' = [job EXCEPT ![b] = "released"]
    BY <1>6 DEF G!Release
  <2>2. Dispatched' = Dispatched /\ Ended' = Ended
    BY <2>1, <1>call, <1>job
  <2> QED BY <2>1, <2>2, <1>i DEF MetricsCount
<1>7. ASSUME NEW b \in Calls, G!Done(b) PROVE MetricsCount'
  <2> DEFINE Dispatched == {c \in Calls : job[c] # "none"}
         Ended == {c \in Calls : job[c] \in {"finished", "released", "done"}}
  <2>1. metrics' = metrics /\ job[b] = "released" /\ job' = [job EXCEPT ![b] = "done"]
    BY <1>7 DEF G!Done
  <2>2. Dispatched' = Dispatched /\ Ended' = Ended
    BY <2>1, <1>call, <1>job
  <2> QED BY <2>1, <2>2, <1>i DEF MetricsCount
<1>8. CASE G!Close
  <2>1. UNCHANGED <<metrics, job>>
    BY <1>8 DEF G!Close
  <2> QED BY <1>i, <2>1 DEF MetricsCount
<1>9. CASE G!CloseReturns
  <2>1. UNCHANGED <<metrics, job>>
    BY <1>9 DEF G!CloseReturns
  <2> QED BY <1>i, <2>1 DEF MetricsCount
<1> QED
  BY <1>1, <1>2, <1>3, <1>4, <1>5, <1>6, <1>7, <1>8, <1>9 DEF G!Next, G!Progress

(* Nothing is accepted after Close, so that Close has waited for everything. *)
LEMMA ClosedFirstStep ==
    ASSUME GroupIInv, G!Next PROVE ClosedFirst'
<1> USE GroupAssumption
<1>i. ClosedFirst
  BY DEF GroupIInv
<1>wc. WaitedFor
  BY DEF GroupIInv
<1>1. ASSUME NEW b \in Calls, G!TryAcquire(b) PROVE ClosedFirst'
  <2>1. UNCHANGED <<closed, closer, wg>>
    BY <1>1 DEF G!TryAcquire
  <2> QED BY <1>i, <2>1 DEF ClosedFirst
<1>2. ASSUME NEW b \in Calls, G!Acquire(b) PROVE ClosedFirst'
  <2>1. UNCHANGED <<closed, closer, wg>>
    BY <1>2 DEF G!Acquire
  <2> QED BY <1>i, <2>1 DEF ClosedFirst
<1>3. ASSUME NEW b \in Calls, G!Enter(b) PROVE ClosedFirst'
  <2>1. closed' = closed /\ closer' = closer /\ (wg' = wg \/ ~closed)
    BY <1>3 DEF G!Enter
  <2> QED BY <2>1, <1>i DEF ClosedFirst
<1>4. ASSUME NEW b \in Calls, G!Dispatch(b) PROVE ClosedFirst'
  <2>1. UNCHANGED <<closed, closer, wg>>
    BY <1>4 DEF G!Dispatch
  <2> QED BY <1>i, <2>1 DEF ClosedFirst
<1>5. ASSUME NEW b \in Calls, G!Finish(b) PROVE ClosedFirst'
  <2>1. UNCHANGED <<closed, closer, wg>>
    BY <1>5 DEF G!Finish
  <2> QED BY <1>i, <2>1 DEF ClosedFirst
<1>6. ASSUME NEW b \in Calls, G!Release(b) PROVE ClosedFirst'
  <2>1. UNCHANGED <<closed, closer, wg>>
    BY <1>6 DEF G!Release
  <2> QED BY <1>i, <2>1 DEF ClosedFirst
<1>7. ASSUME NEW b \in Calls, G!Done(b) PROVE ClosedFirst'
  <2>1. closed' = closed /\ closer' = closer /\ job[b] = "released"
    BY <1>7 DEF G!Done
  <2>2. wg # 0
    <3>1. b \in Counted /\ Counted \in SUBSET Calls
      BY <2>1 DEF Counted
    <3> QED BY <3>1, <1>wc, Counting DEF WaitedFor
  <2> QED BY <2>1, <2>2, <1>i DEF ClosedFirst
<1>8. CASE G!Close
  BY <1>i, <1>8 DEF ClosedFirst, G!Close
<1>9. CASE G!CloseReturns
  BY <1>i, <1>9 DEF ClosedFirst, G!CloseReturns
<1> QED
  BY <1>1, <1>2, <1>3, <1>4, <1>5, <1>6, <1>7, <1>8, <1>9 DEF G!Next, G!Progress

(* Every step of the group keeps every variable in its type.               *)
LEMMA GroupTypeStep ==
    ASSUME GroupIInv, G!Next PROVE G!TypeOK'
<1> USE GroupAssumption
<1>g. G!TypeOK
  BY DEF GroupIInv
<1>waiters. waiters \in Seq(Calls)
  BY <1>g, SameCount DEF G!TypeOK
<1>closed. closed \in BOOLEAN
  BY <1>g, SameCount DEF G!TypeOK
<1>call. call \in [Calls -> {"none", "acquire", "blocked", "enter", "accepted", "dropped", "spawned"}]
  BY <1>g, SameCount DEF G!TypeOK
<1>job. job \in [Calls -> {"none", "running", "finished", "released", "done"}]
  BY <1>g, SameCount DEF G!TypeOK
<1>closer. closer \in {"none", "waiting", "returned"}
  BY <1>g, SameCount DEF G!TypeOK
<1>metrics. metrics \in [{"dispatched", "ended"} -> 0 .. Cardinality(Calls)]
  BY <1>g, SameCount DEF G!TypeOK
<1>1s. SlotsCounted'
  BY SlotsCountedStep
<1>2s. WaitedFor'
  BY WaitedForStep
<1>3s. MetricsCount'
  BY MetricsStep
<1>fin. \A S1 \in SUBSET Calls : Cardinality(S1) \in 0 .. Cardinality(Calls) /\ 0 \in 0 .. Cardinality(Calls)
  <2> SUFFICES ASSUME NEW S1 \in SUBSET Calls
               PROVE  Cardinality(S1) \in 0 .. Cardinality(Calls) /\ 0 \in 0 .. Cardinality(Calls)
    OBVIOUS
  <2>1. Cardinality(S1) <= Cardinality(Calls) /\ IsFiniteSet(S1) /\ IsFiniteSet(Calls)
    BY FS_Subset DEF GroupAssumption
  <2> QED BY <2>1, FS_CardinalityType
<1>1. ASSUME NEW b \in Calls, G!TryAcquire(b) PROVE G!TypeOK'
  <2>1. held' \in 0 .. Cardinality(Calls)
    <3>1. held' = 0 \/ held' = Cardinality(Slots')
      BY <1>1s DEF SlotsCounted
    <3>2. Cardinality(Slots') \in 0 .. Cardinality(Calls) /\ 0 \in 0 .. Cardinality(Calls)
      BY <1>fin DEF Slots
    <3> QED BY <3>1, <3>2
  <2>2. call' \in [Calls -> {"none", "acquire", "blocked", "enter", "accepted", "dropped", "spawned"}]
    BY <1>1, <1>call DEF G!TryAcquire, G!Running, G!SlotFree
  <2> QED BY <1>g, SameCount, <1>1, <2>1, <2>2 DEF G!TypeOK, G!TryAcquire, G!Running, G!SlotFree
<1>2. ASSUME NEW b \in Calls, G!Acquire(b) PROVE G!TypeOK'
  <2>1. held' \in 0 .. Cardinality(Calls)
    <3>1. held' = 0 \/ held' = Cardinality(Slots')
      BY <1>1s DEF SlotsCounted
    <3>2. Cardinality(Slots') \in 0 .. Cardinality(Calls) /\ 0 \in 0 .. Cardinality(Calls)
      BY <1>fin DEF Slots
    <3> QED BY <3>1, <3>2
  <2>2. waiters' \in Seq(Calls)
    BY <1>2, <1>waiters DEF G!Acquire, G!SlotFree
  <2>3. call' \in [Calls -> {"none", "acquire", "blocked", "enter", "accepted", "dropped", "spawned"}]
    BY <1>2, <1>call DEF G!Acquire, G!SlotFree
  <2> QED BY <1>g, SameCount, <1>2, <2>1, <2>2, <2>3 DEF G!TypeOK, G!Acquire, G!SlotFree
<1>3. ASSUME NEW b \in Calls, G!Enter(b) PROVE G!TypeOK'
  <2>1. held' \in 0 .. Cardinality(Calls)
    <3>1. held' = 0 \/ held' = Cardinality(Slots')
      BY <1>1s DEF SlotsCounted
    <3>2. Cardinality(Slots') \in 0 .. Cardinality(Calls) /\ 0 \in 0 .. Cardinality(Calls)
      BY <1>fin DEF Slots
    <3> QED BY <3>1, <3>2
  <2>2. waiters' \in Seq(Calls)
    <3>1. waiters' = waiters \/ (waiters # <<>> /\ waiters' = Tail(waiters))
      BY <1>3 DEF G!Enter, G!ReleaseSlot
    <3> QED BY <3>1, <1>waiters
  <2>3. wg' \in 0 .. Cardinality(Calls)
    <3>1. wg' = Cardinality(Counted')
      BY <1>2s DEF WaitedFor
    <3>2. Cardinality(Counted') \in 0 .. Cardinality(Calls)
      BY <1>fin DEF Counted
    <3> QED BY <3>1, <3>2
  <2>4. call' \in [Calls -> {"none", "acquire", "blocked", "enter", "accepted", "dropped", "spawned"}]
    <3>1. call' = [call EXCEPT ![b] = "dropped"] \/ call' = [[call EXCEPT ![b] = "dropped"] EXCEPT ![Head(waiters)] = "enter"] \/ call' = [call EXCEPT ![b] = "accepted"]
      BY <1>3 DEF G!Enter, G!ReleaseSlot
    <3> QED BY <3>1, <1>call
  <2> QED BY <1>g, SameCount, <1>3, <2>1, <2>2, <2>3, <2>4 DEF G!TypeOK, G!Enter, G!ReleaseSlot
<1>4. ASSUME NEW b \in Calls, G!Dispatch(b) PROVE G!TypeOK'
  <2>1. call' \in [Calls -> {"none", "acquire", "blocked", "enter", "accepted", "dropped", "spawned"}]
    BY <1>4, <1>call DEF G!Dispatch
  <2>2. job' \in [Calls -> {"none", "running", "finished", "released", "done"}]
    BY <1>4, <1>job DEF G!Dispatch
  <2>3. metrics' \in [{"dispatched", "ended"} -> 0 .. Cardinality(Calls)]
    <3>1. /\ metrics'["dispatched"] = Cardinality({c \in Calls : job'[c] # "none"})
          /\ metrics'["ended"] = Cardinality({c \in Calls : job'[c] \in {"finished", "released", "done"}})
      BY <1>3s DEF MetricsCount
    <3>2. /\ Cardinality({c \in Calls : job'[c] # "none"}) \in 0 .. Cardinality(Calls)
          /\ Cardinality({c \in Calls : job'[c] \in {"finished", "released", "done"}}) \in 0 .. Cardinality(Calls)
      BY <1>fin
    <3>3. \E m \in {"dispatched", "ended"} : metrics' = [metrics EXCEPT ![m] = metrics[m] + 1]
      BY <1>4 DEF G!Dispatch
    <3> QED BY <3>1, <3>2, <3>3, <1>metrics
  <2> QED BY <1>g, SameCount, <1>4, <2>1, <2>2, <2>3 DEF G!TypeOK, G!Dispatch
<1>5. ASSUME NEW b \in Calls, G!Finish(b) PROVE G!TypeOK'
  <2>1. job' \in [Calls -> {"none", "running", "finished", "released", "done"}]
    BY <1>5, <1>job DEF G!Finish, G!InCall
  <2>2. metrics' \in [{"dispatched", "ended"} -> 0 .. Cardinality(Calls)]
    <3>1. /\ metrics'["dispatched"] = Cardinality({c \in Calls : job'[c] # "none"})
          /\ metrics'["ended"] = Cardinality({c \in Calls : job'[c] \in {"finished", "released", "done"}})
      BY <1>3s DEF MetricsCount
    <3>2. /\ Cardinality({c \in Calls : job'[c] # "none"}) \in 0 .. Cardinality(Calls)
          /\ Cardinality({c \in Calls : job'[c] \in {"finished", "released", "done"}}) \in 0 .. Cardinality(Calls)
      BY <1>fin
    <3>3. \E m \in {"dispatched", "ended"} : metrics' = [metrics EXCEPT ![m] = metrics[m] + 1]
      BY <1>5 DEF G!Finish
    <3> QED BY <3>1, <3>2, <3>3, <1>metrics
  <2> QED BY <1>g, SameCount, <1>5, <2>1, <2>2 DEF G!TypeOK, G!Finish, G!InCall
<1>6. ASSUME NEW b \in Calls, G!Release(b) PROVE G!TypeOK'
  <2>1. held' \in 0 .. Cardinality(Calls)
    <3>1. held' = 0 \/ held' = Cardinality(Slots')
      BY <1>1s DEF SlotsCounted
    <3>2. Cardinality(Slots') \in 0 .. Cardinality(Calls) /\ 0 \in 0 .. Cardinality(Calls)
      BY <1>fin DEF Slots
    <3> QED BY <3>1, <3>2
  <2>2. waiters' \in Seq(Calls)
    <3>1. waiters' = waiters \/ (waiters # <<>> /\ waiters' = Tail(waiters))
      BY <1>6 DEF G!Release, G!ReleaseSlot
    <3> QED BY <3>1, <1>waiters
  <2>3. call' \in [Calls -> {"none", "acquire", "blocked", "enter", "accepted", "dropped", "spawned"}]
    <3>1. call' = call \/ call' = [call EXCEPT ![Head(waiters)] = "enter"]
      BY <1>6 DEF G!Release, G!ReleaseSlot
    <3> QED BY <3>1, <1>call
  <2>4. job' \in [Calls -> {"none", "running", "finished", "released", "done"}]
    BY <1>6, <1>job DEF G!Release, G!ReleaseSlot
  <2> QED BY <1>g, SameCount, <1>6, <2>1, <2>2, <2>3, <2>4 DEF G!TypeOK, G!Release, G!ReleaseSlot
<1>7. ASSUME NEW b \in Calls, G!Done(b) PROVE G!TypeOK'
  <2>1. wg' \in 0 .. Cardinality(Calls)
    <3>1. wg' = Cardinality(Counted')
      BY <1>2s DEF WaitedFor
    <3>2. Cardinality(Counted') \in 0 .. Cardinality(Calls)
      BY <1>fin DEF Counted
    <3> QED BY <3>1, <3>2
  <2>2. job' \in [Calls -> {"none", "running", "finished", "released", "done"}]
    BY <1>7, <1>job DEF G!Done
  <2> QED BY <1>g, SameCount, <1>7, <2>1, <2>2 DEF G!TypeOK, G!Done
<1>8. CASE G!Close
  <2>1. closed' \in BOOLEAN
    BY <1>8, <1>closed DEF G!Close
  <2>2. closer' \in {"none", "waiting", "returned"}
    BY <1>8, <1>closer DEF G!Close
  <2> QED BY <1>g, SameCount, <1>8, <2>1, <2>2 DEF G!TypeOK, G!Close
<1>9. CASE G!CloseReturns
  <2>1. closer' \in {"none", "waiting", "returned"}
    BY <1>9, <1>closer DEF G!CloseReturns
  <2> QED BY <1>g, SameCount, <1>9, <2>1 DEF G!TypeOK, G!CloseReturns
<1> QED
  BY <1>1, <1>2, <1>3, <1>4, <1>5, <1>6, <1>7, <1>8, <1>9 DEF G!Next, G!Progress

-----------------------------------------------------------------------------
(* Concurrent jobs.                                                        *)

(* A job gives up only because of an error that was noted or because the   *)
(* caller did, so that the first one noted is else an error.               *)
FirstIsError ==
    /\ canceled <=> firstErr # Nil
    /\ firstErr # Nil => how # "settle" /\ outcome[firstErr] \in {"error", "canceled"} /\ state[firstErr] # "running"
    /\ firstErr # Nil /\ ~abandoned => outcome[firstErr] = "error"
    /\ \A j \in Jobs : outcome[j] = "canceled" => canceled \/ abandoned

(* What a job has noted is how it ended.                                   *)
Noted ==
    \A j \in Jobs :
        /\ state[j] = "running" <=> outcome[j] = Nil
        /\ state[j] = "done" =>
               IF how = "settle" \/ outcome[j] = "value" THEN results[j] = outcome[j]
               ELSE firstErr # Nil

(* What is returned is what was noted.                                     *)
Returned ==
    answer # Nil =>
        /\ \A j \in Jobs : state[j] = "done"
        /\ answer = IF firstErr # Nil THEN <<"failed", outcome[firstErr]>> ELSE <<"ok", results>>

(* The inductive invariant.                                                *)
JobsIInv == M!TypeOK /\ FirstIsError /\ Noted /\ Returned

(* Every step of concurrent jobs keeps every variable in its type.         *)
LEMMA JobsTypeStep ==
    ASSUME JobsIInv, M!Next PROVE M!TypeOK'
<1> USE JobsAssumption
<1>g. M!TypeOK
  BY DEF JobsIInv
<1>how. how \in {"all", "map", "settle"}
  BY <1>g DEF M!TypeOK
<1>state. state \in [Jobs -> {"running", "ended", "done"}]
  BY <1>g DEF M!TypeOK
<1>outcome. outcome \in [Jobs -> {Nil, "value", "error", "canceled"}]
  BY <1>g DEF M!TypeOK
<1>firstErr. firstErr \in Jobs \cup {Nil}
  BY <1>g DEF M!TypeOK
<1>canceled. canceled \in BOOLEAN
  BY <1>g DEF M!TypeOK
<1>results. results \in [Jobs -> {Nil, "value", "error", "canceled"}]
  BY <1>g DEF M!TypeOK
<1>1. ASSUME NEW j \in Jobs, M!Note(j) PROVE M!TypeOK'
  <2>1. state' \in [Jobs -> {"running", "ended", "done"}]
    BY <1>1, <1>state DEF M!Note
  <2>2. firstErr' \in Jobs \cup {Nil}
    BY <1>1, <1>firstErr DEF M!Note
  <2>3. canceled' \in BOOLEAN
    BY <1>1, <1>canceled DEF M!Note
  <2>4. results' \in [Jobs -> {Nil, "value", "error", "canceled"}]
    BY <1>1, <1>results, <1>outcome, <1>how DEF M!Note
  <2> QED BY <1>g, <1>1, <2>1, <2>2, <2>3, <2>4 DEF M!TypeOK, M!Note
<1>2. ASSUME NEW j \in Jobs, NEW o \in {"value", "error", "canceled"}, M!End(j, o) PROVE M!TypeOK'
  <2>1. state' \in [Jobs -> {"running", "ended", "done"}]
    BY <1>2, <1>state DEF M!End
  <2>2. outcome' \in [Jobs -> {Nil, "value", "error", "canceled"}]
    BY <1>2, <1>outcome DEF M!End
  <2> QED BY <1>g, <1>2, <2>1, <2>2 DEF M!TypeOK, M!End
<1>3. CASE M!Return
  <2> QED BY <1>g, <1>3 DEF M!TypeOK, M!Return
<1>4. CASE M!Abandon
  <2> QED BY <1>g, <1>4 DEF M!TypeOK, M!Abandon
<1> QED
  BY <1>1, <1>2, <1>3, <1>4 DEF M!Next

(* The first error noted stays an error.                                   *)
LEMMA FirstErrorStep ==
    ASSUME JobsIInv, M!Next PROVE FirstIsError'
<1> USE JobsAssumption
<1>i. FirstIsError
  BY DEF JobsIInv
<1>no. Noted
  BY DEF JobsIInv
<1>how. how \in {"all", "map", "settle"}
  BY DEF JobsIInv, M!TypeOK
<1>state. state \in [Jobs -> {"running", "ended", "done"}]
  BY DEF JobsIInv, M!TypeOK
<1>outcome. outcome \in [Jobs -> {Nil, "value", "error", "canceled"}]
  BY DEF JobsIInv, M!TypeOK
<1>firstErr. firstErr \in Jobs \cup {Nil}
  BY DEF JobsIInv, M!TypeOK
<1>canceled. canceled \in BOOLEAN
  BY DEF JobsIInv, M!TypeOK
<1>results. results \in [Jobs -> {Nil, "value", "error", "canceled"}]
  BY DEF JobsIInv, M!TypeOK
<1>1. ASSUME NEW j \in Jobs, M!Note(j) PROVE FirstIsError'
  BY <1>i, <1>1, <1>how, <1>state, <1>outcome, <1>firstErr, <1>canceled, <1>results, <1>no DEF
     FirstIsError, M!Note, Noted
<1>2. ASSUME NEW j \in Jobs, NEW o \in {"value", "error", "canceled"}, M!End(j, o) PROVE FirstIsError'
  BY <1>i, <1>2 DEF FirstIsError, M!End
<1>3. CASE M!Return
  BY <1>i, <1>3 DEF FirstIsError, M!Return
<1>4. CASE M!Abandon
  BY <1>i, <1>4 DEF FirstIsError, M!Abandon
<1> QED
  BY <1>1, <1>2, <1>3, <1>4 DEF M!Next

(* What a job has noted stays how it ended.                                *)
LEMMA NotedStep ==
    ASSUME JobsIInv, M!Next PROVE Noted'
<1> USE JobsAssumption
<1>i. Noted
  BY DEF JobsIInv
<1>state. state \in [Jobs -> {"running", "ended", "done"}]
  BY DEF JobsIInv, M!TypeOK
<1>outcome. outcome \in [Jobs -> {Nil, "value", "error", "canceled"}]
  BY DEF JobsIInv, M!TypeOK
<1>firstErr. firstErr \in Jobs \cup {Nil}
  BY DEF JobsIInv, M!TypeOK
<1>results. results \in [Jobs -> {Nil, "value", "error", "canceled"}]
  BY DEF JobsIInv, M!TypeOK
<1>1. ASSUME NEW j \in Jobs, M!Note(j) PROVE Noted'
  BY <1>i, <1>1, <1>state, <1>firstErr, <1>results DEF Noted, M!Note
<1>2. ASSUME NEW j \in Jobs, NEW o \in {"value", "error", "canceled"}, M!End(j, o) PROVE Noted'
  BY <1>i, <1>2, <1>state, <1>outcome DEF Noted, M!End
<1>3. CASE M!Return
  BY <1>i, <1>3 DEF Noted, M!Return
<1>4. CASE M!Abandon
  BY <1>i, <1>4 DEF Noted, M!Abandon
<1> QED
  BY <1>1, <1>2, <1>3, <1>4 DEF M!Next

(* Once something is returned nothing changes.                             *)
LEMMA ReturnedStep ==
    ASSUME JobsIInv, M!Next PROVE Returned'
<1> USE JobsAssumption
<1>i. Returned
  BY DEF JobsIInv
<1>1. ASSUME NEW j \in Jobs, M!Note(j) PROVE Returned'
  BY <1>i, <1>1 DEF Returned, M!Note
<1>2. ASSUME NEW j \in Jobs, NEW o \in {"value", "error", "canceled"}, M!End(j, o) PROVE Returned'
  BY <1>i, <1>2 DEF Returned, M!End
<1>3. CASE M!Return
  BY <1>i, <1>3 DEF Returned, M!Return
<1>4. CASE M!Abandon
  BY <1>i, <1>4 DEF Returned, M!Abandon
<1> QED
  BY <1>1, <1>2, <1>3, <1>4 DEF M!Next

-----------------------------------------------------------------------------
(* The flags.                                                              *)

(* mu is held by a reload or by a Set, and each is where its caller is.    *)
UnderMu ==
    /\ loading = Nobody \/ setting = Nobody
    /\ loading # Nobody =>
           /\ loading.by = "start" <=> ~started
           /\ loading.by = "watch" => fwatch = "reload"

(* The cache is never ahead of the table, nor of what a reload has listed  *)
(* or a Set has saved and is about to replace it with.                     *)
CacheBehind  == \A k \in Flags : cache[k] <= table[k] /\ table[k] <= commits
ListedBehind ==
    loading # Nobody /\ loading.listed =>
        \A k \in Flags : cache[k] <= loading.rows[k] /\ loading.rows[k] <= table[k]
SavedBehind  ==
    setting # Nobody =>
        /\ setting.saved = 0 => commits < MaxCommits
        /\ setting.saved # 0 =>
               cache[setting.key] <= setting.saved /\ setting.saved <= table[setting.key]

(* The data version counts commits, and the one remembered was read once.  *)
VersionRead == last <= dv /\ dv <= commits

(* A change is on its way to the watcher, or known to be left to the poll. *)
Signalled ==
    \/ missed
    \/ kind = "postgres" /\ (~listening \/ notified)
    \/ kind = "sqlite" /\ haveLast /\ dv # last

(* A reload is owed: one that has yet to list, the one of Start, or the    *)
(* watcher's.  The poll's may fail without a trace, so it does not count.  *)
ReloadOwed ==
    \/ loading # Nobody /\ ~loading.listed /\ loading.by # "poll"
    \/ ~started /\ ~(loading # Nobody /\ loading.listed)
    \/ fwatch = "reload" /\ ~(loading # Nobody /\ loading.listed /\ loading.by = "watch")

(* A stale rule is signalled, or a reload that will find it is owed.       *)
StaleIsOwed == \A k \in Flags : F!Coming(k) # table[k] => Signalled \/ ReloadOwed

(* The inductive invariant.                                                *)
FlagsIInv ==
    /\ F!TypeOK /\ UnderMu
    /\ CacheBehind /\ ListedBehind /\ SavedBehind /\ VersionRead
    /\ StaleIsOwed

(* Every step of the flags keeps every variable in its type.               *)
LEMMA FlagsTypeStep ==
    ASSUME FlagsIInv, F!Next PROVE F!TypeOK'
<1> USE FlagsAssumption
<1>g. F!TypeOK
  BY DEF FlagsIInv
<1>kind. kind \in {"postgres", "sqlite"}
  BY <1>g DEF F!TypeOK, F!Versions, F!Tables, F!Callers
<1>single. single \in BOOLEAN
  BY <1>g DEF F!TypeOK, F!Versions, F!Tables, F!Callers
<1>table. table \in F!Tables
  BY <1>g DEF F!TypeOK, F!Versions, F!Tables, F!Callers
<1>cache. cache \in F!Tables
  BY <1>g DEF F!TypeOK, F!Versions, F!Tables, F!Callers
<1>loading. loading \in {Nobody} \cup [by : F!Callers, listed : BOOLEAN, rows : F!Tables]
  BY <1>g DEF F!TypeOK, F!Versions, F!Tables, F!Callers
<1>setting. setting \in {Nobody} \cup [key : Flags, saved : F!Versions]
  BY <1>g DEF F!TypeOK, F!Versions, F!Tables, F!Callers
<1>started. started \in BOOLEAN
  BY <1>g DEF F!TypeOK, F!Versions, F!Tables, F!Callers
<1>poll. poll \in BOOLEAN
  BY <1>g DEF F!TypeOK, F!Versions, F!Tables, F!Callers
<1>fwatch. fwatch \in {"down", "wait", "reload"}
  BY <1>g DEF F!TypeOK, F!Versions, F!Tables, F!Callers
<1>listening. listening \in BOOLEAN
  BY <1>g DEF F!TypeOK, F!Versions, F!Tables, F!Callers
<1>notified. notified \in BOOLEAN
  BY <1>g DEF F!TypeOK, F!Versions, F!Tables, F!Callers
<1>dv. dv \in F!Versions
  BY <1>g DEF F!TypeOK, F!Versions, F!Tables, F!Callers
<1>last. last \in F!Versions
  BY <1>g DEF F!TypeOK, F!Versions, F!Tables, F!Callers
<1>haveLast. haveLast \in BOOLEAN
  BY <1>g DEF F!TypeOK, F!Versions, F!Tables, F!Callers
<1>commits. commits \in F!Versions
  BY <1>g DEF F!TypeOK, F!Versions, F!Tables, F!Callers
<1>faults. faults \in 0 .. MaxFaults
  BY <1>g DEF F!TypeOK, F!Versions, F!Tables, F!Callers
<1>missed. missed \in BOOLEAN
  BY <1>g DEF F!TypeOK, F!Versions, F!Tables, F!Callers
<1>ticks. ticks \in 0 .. 2
  BY <1>g DEF F!TypeOK, F!Versions, F!Tables, F!Callers
<1>vr. VersionRead
  BY DEF FlagsIInv
<1>1. ASSUME NEW k \in Flags, F!OtherCommits(k) PROVE F!TypeOK'
  <2>1. table' \in F!Tables
    BY <1>1, <1>table, <1>commits DEF F!OtherCommits, F!Commit, F!Saving, F!Versions, F!Tables,
       F!Callers
  <2>2. notified' \in BOOLEAN
    BY <1>1, <1>notified DEF F!OtherCommits, F!Commit, F!Saving
  <2>3. dv' \in F!Versions
    <3>1. dv' = dv \/ (dv' = dv + 1 /\ commits < MaxCommits)
      BY <1>1 DEF F!OtherCommits, F!Commit
    <3> QED BY <3>1, <1>dv, <1>commits, <1>vr DEF VersionRead, F!Versions
  <2>4. commits' \in F!Versions
    BY <1>1, <1>commits DEF F!OtherCommits, F!Commit, F!Saving, F!Versions, F!Tables, F!Callers
  <2>5. missed' \in BOOLEAN
    BY <1>1, <1>missed DEF F!OtherCommits, F!Commit, F!Saving
  <2>6. ticks' \in 0 .. 2
    BY <1>1, <1>ticks DEF F!OtherCommits, F!Commit, F!Saving
  <2> QED BY <1>g, <1>1, <2>1, <2>2, <2>3, <2>4, <2>5, <2>6 DEF F!TypeOK, F!OtherCommits, F!Commit,
     F!Saving
<1>2. ASSUME NEW k \in Flags, F!BeginSet(k) PROVE F!TypeOK'
  <2>1. setting' \in {Nobody} \cup [key : Flags, saved : F!Versions]
    BY <1>2, <1>setting DEF F!BeginSet, F!Unlocked, F!Versions, F!Tables, F!Callers
  <2> QED BY <1>g, <1>2, <2>1 DEF F!TypeOK, F!BeginSet, F!Unlocked
<1>3. CASE F!Save
  <2>1. table' \in F!Tables
    BY <1>3, <1>table, <1>kind, <1>single, <1>cache, <1>loading, <1>setting, <1>started, <1>poll,
       <1>fwatch, <1>listening, <1>notified, <1>dv, <1>last, <1>haveLast, <1>commits, <1>faults,
       <1>missed, <1>ticks DEF F!Save, F!Commit, F!Saving, F!Versions, F!Tables, F!Callers
  <2>2. setting' \in {Nobody} \cup [key : Flags, saved : F!Versions]
    BY <1>3, <1>setting, <1>commits DEF F!Save, F!Commit, F!Saving, F!Versions, F!Tables, F!Callers
  <2>3. notified' \in BOOLEAN
    BY <1>3, <1>notified DEF F!Save, F!Commit, F!Saving
  <2>4. dv' \in F!Versions
    <3>1. dv' = dv \/ (dv' = dv + 1 /\ commits < MaxCommits)
      BY <1>3 DEF F!Save, F!Commit
    <3> QED BY <3>1, <1>dv, <1>commits, <1>vr DEF VersionRead, F!Versions
  <2>5. commits' \in F!Versions
    BY <1>3, <1>commits DEF F!Save, F!Commit, F!Saving, F!Versions, F!Tables, F!Callers
  <2> QED BY <1>g, <1>3, <2>1, <2>2, <2>3, <2>4, <2>5 DEF F!TypeOK, F!Save, F!Commit, F!Saving
<1>4. CASE F!SaveFails
  <2>1. table' \in F!Tables
    BY <1>4, <1>table, <1>commits DEF F!SaveFails, F!Commit, F!Fault, F!Saving, F!Versions,
       F!Tables, F!Callers
  <2>2. setting' \in {Nobody} \cup [key : Flags, saved : F!Versions]
    BY <1>4, <1>setting DEF F!SaveFails, F!Commit, F!Fault, F!Saving
  <2>3. notified' \in BOOLEAN
    BY <1>4, <1>notified DEF F!SaveFails, F!Commit, F!Fault, F!Saving
  <2>4. dv' \in F!Versions
    <3>1. dv' = dv \/ (dv' = dv + 1 /\ commits < MaxCommits)
      BY <1>4 DEF F!SaveFails, F!Commit
    <3> QED BY <3>1, <1>dv, <1>commits, <1>vr DEF VersionRead, F!Versions
  <2>5. commits' \in F!Versions
    BY <1>4, <1>commits DEF F!SaveFails, F!Commit, F!Fault, F!Saving, F!Versions, F!Tables,
       F!Callers
  <2>6. faults' \in 0 .. MaxFaults
    BY <1>4, <1>faults DEF F!SaveFails, F!Commit, F!Fault, F!Saving
  <2>7. missed' \in BOOLEAN
    BY <1>4, <1>missed DEF F!SaveFails, F!Commit, F!Fault, F!Saving
  <2> QED BY <1>g, <1>4, <2>1, <2>2, <2>3, <2>4, <2>5, <2>6, <2>7 DEF F!TypeOK, F!SaveFails,
     F!Commit, F!Fault, F!Saving
<1>5. CASE F!StoreSet
  <2>1. cache' \in F!Tables
    BY <1>5, <1>cache, <1>setting, <1>loading DEF F!StoreSet, F!Saving, F!Versions, F!Tables,
       F!Callers
  <2>2. setting' \in {Nobody} \cup [key : Flags, saved : F!Versions]
    BY <1>5, <1>setting DEF F!StoreSet, F!Saving
  <2> QED BY <1>g, <1>5, <2>1, <2>2 DEF F!TypeOK, F!StoreSet, F!Saving
<1>6. ASSUME NEW w \in F!Callers, F!BeginReload(w) PROVE F!TypeOK'
  <2>1. loading' \in {Nobody} \cup [by : F!Callers, listed : BOOLEAN, rows : F!Tables]
    BY <1>6, <1>loading, <1>table DEF F!BeginReload, F!Due, F!Unlocked, F!Versions, F!Tables,
       F!Callers
  <2> QED BY <1>g, <1>6, <2>1 DEF F!TypeOK, F!BeginReload, F!Due, F!Unlocked
<1>7. CASE F!List
  <2>1. loading' \in {Nobody} \cup [by : F!Callers, listed : BOOLEAN, rows : F!Tables]
    BY <1>7, <1>loading, <1>table DEF F!List, F!Listing, F!Versions, F!Tables, F!Callers
  <2>2. missed' \in BOOLEAN
    BY <1>7, <1>missed DEF F!List, F!Listing
  <2> QED BY <1>g, <1>7, <2>1, <2>2 DEF F!TypeOK, F!List, F!Listing
<1>8. CASE F!ListFails
  <2>1. loading' \in {Nobody} \cup [by : F!Callers, listed : BOOLEAN, rows : F!Tables]
    BY <1>8, <1>loading DEF F!ListFails, F!Continue, F!Fault, F!Listing
  <2>2. started' \in BOOLEAN
    BY <1>8, <1>started DEF F!ListFails, F!Continue, F!Fault, F!Listing
  <2>3. poll' \in BOOLEAN
    BY <1>8, <1>poll DEF F!ListFails, F!Continue, F!Fault, F!Listing
  <2>4. fwatch' \in {"down", "wait", "reload"}
    BY <1>8, <1>fwatch DEF F!ListFails, F!Continue, F!Fault, F!Listing
  <2>5. faults' \in 0 .. MaxFaults
    BY <1>8, <1>faults DEF F!ListFails, F!Continue, F!Fault, F!Listing
  <2>6. missed' \in BOOLEAN
    BY <1>8, <1>missed DEF F!ListFails, F!Continue, F!Fault, F!Listing
  <2> QED BY <1>g, <1>8, <2>1, <2>2, <2>3, <2>4, <2>5, <2>6 DEF F!TypeOK, F!ListFails, F!Continue,
     F!Fault, F!Listing
<1>9. CASE F!StoreRules
  <2>1. cache' \in F!Tables
    BY <1>9, <1>cache, <1>setting, <1>loading DEF F!StoreRules, F!Continue, F!Versions, F!Tables,
       F!Callers
  <2>2. loading' \in {Nobody} \cup [by : F!Callers, listed : BOOLEAN, rows : F!Tables]
    BY <1>9, <1>loading DEF F!StoreRules, F!Continue
  <2>3. started' \in BOOLEAN
    BY <1>9, <1>started DEF F!StoreRules, F!Continue
  <2>4. poll' \in BOOLEAN
    BY <1>9, <1>poll DEF F!StoreRules, F!Continue
  <2>5. fwatch' \in {"down", "wait", "reload"}
    BY <1>9, <1>fwatch DEF F!StoreRules, F!Continue
  <2> QED BY <1>g, <1>9, <2>1, <2>2, <2>3, <2>4, <2>5 DEF F!TypeOK, F!StoreRules, F!Continue
<1>10. CASE F!PollTicks
  <2>1. poll' \in BOOLEAN
    BY <1>10, <1>poll DEF F!PollTicks
  <2> QED BY <1>g, <1>10, <2>1 DEF F!TypeOK, F!PollTicks
<1>11. CASE F!Listen
  <2>1. fwatch' \in {"down", "wait", "reload"}
    BY <1>11, <1>fwatch DEF F!Listen
  <2>2. listening' \in BOOLEAN
    BY <1>11, <1>listening DEF F!Listen
  <2> QED BY <1>g, <1>11, <2>1, <2>2 DEF F!TypeOK, F!Listen
<1>12. CASE F!WaitForNotification
  <2>1. fwatch' \in {"down", "wait", "reload"}
    BY <1>12, <1>fwatch DEF F!WaitForNotification
  <2>2. notified' \in BOOLEAN
    BY <1>12, <1>notified DEF F!WaitForNotification
  <2> QED BY <1>g, <1>12, <2>1, <2>2 DEF F!TypeOK, F!WaitForNotification
<1>13. CASE F!ConnectionLost
  <2>1. listening' \in BOOLEAN
    BY <1>13, <1>listening DEF F!ConnectionLost, F!Fault
  <2>2. notified' \in BOOLEAN
    BY <1>13, <1>notified DEF F!ConnectionLost, F!Fault
  <2>3. faults' \in 0 .. MaxFaults
    BY <1>13, <1>faults DEF F!ConnectionLost, F!Fault
  <2> QED BY <1>g, <1>13, <2>1, <2>2, <2>3 DEF F!TypeOK, F!ConnectionLost, F!Fault
<1>14. CASE F!LossNoticed
  <2>1. fwatch' \in {"down", "wait", "reload"}
    BY <1>14, <1>fwatch DEF F!LossNoticed
  <2> QED BY <1>g, <1>14, <2>1 DEF F!TypeOK, F!LossNoticed
<1>15. CASE F!Tick
  <2>1. fwatch' \in {"down", "wait", "reload"}
    BY <1>15, <1>fwatch DEF F!Tick
  <2>2. last' \in F!Versions
    BY <1>15, <1>last, <1>dv DEF F!Tick, F!Versions, F!Tables, F!Callers
  <2>3. haveLast' \in BOOLEAN
    BY <1>15, <1>haveLast DEF F!Tick
  <2>4. ticks' \in 0 .. 2
    BY <1>15, <1>ticks DEF F!Tick
  <2> QED BY <1>g, <1>15, <2>1, <2>2, <2>3, <2>4 DEF F!TypeOK, F!Tick
<1>16. CASE F!TickFails
  <2>1. haveLast' \in BOOLEAN
    BY <1>16, <1>haveLast DEF F!TickFails, F!Fault
  <2>2. faults' \in 0 .. MaxFaults
    BY <1>16, <1>faults DEF F!TickFails, F!Fault
  <2>3. missed' \in BOOLEAN
    BY <1>16, <1>missed DEF F!TickFails, F!Fault
  <2> QED BY <1>g, <1>16, <2>1, <2>2, <2>3 DEF F!TypeOK, F!TickFails, F!Fault
<1> QED
  BY <1>1, <1>2, <1>3, <1>4, <1>5, <1>6, <1>7, <1>8, <1>9, <1>10, <1>11, <1>12, <1>13, <1>14, <1>15,
     <1>16 DEF F!Next

(* mu is held by one, and its caller stays where it is.                    *)
LEMMA UnderMuStep ==
    ASSUME FlagsIInv, F!Next PROVE UnderMu'
<1> USE FlagsAssumption
<1>i. UnderMu
  BY DEF FlagsIInv
<1>loading. loading \in {Nobody} \cup [by : F!Callers, listed : BOOLEAN, rows : F!Tables]
  BY DEF FlagsIInv, F!TypeOK, F!Versions, F!Tables, F!Callers
<1>1. ASSUME NEW k \in Flags, F!OtherCommits(k) PROVE UnderMu'
  <2>1. UNCHANGED <<loading, setting, started, fwatch>>
    BY <1>1 DEF F!OtherCommits
  <2> QED BY <1>i, <2>1 DEF UnderMu
<1>2. ASSUME NEW k \in Flags, F!BeginSet(k) PROVE UnderMu'
  BY <1>i, <1>2 DEF UnderMu, F!BeginSet, F!Unlocked
<1>3. CASE F!Save
  BY <1>i, <1>3 DEF UnderMu, F!Save, F!Commit, F!Saving
<1>4. CASE F!SaveFails
  BY <1>i, <1>4 DEF UnderMu, F!SaveFails, F!Commit, F!Fault, F!Saving
<1>5. CASE F!StoreSet
  BY <1>i, <1>5 DEF UnderMu, F!StoreSet, F!Saving
<1>6. ASSUME NEW w \in F!Callers, F!BeginReload(w) PROVE UnderMu'
  BY <1>i, <1>6, <1>loading DEF UnderMu, F!BeginReload, F!Due, F!Unlocked, F!Versions, F!Tables,
     F!Callers
<1>7. CASE F!List
  BY <1>i, <1>7 DEF UnderMu, F!List, F!Listing
<1>8. CASE F!ListFails
  BY <1>i, <1>8 DEF UnderMu, F!ListFails, F!Continue, F!Fault, F!Listing
<1>9. CASE F!StoreRules
  BY <1>i, <1>9 DEF UnderMu, F!StoreRules, F!Continue
<1>10. CASE F!PollTicks
  <2>1. UNCHANGED <<loading, setting, started, fwatch>>
    BY <1>10 DEF F!PollTicks
  <2> QED BY <1>i, <2>1 DEF UnderMu
<1>11. CASE F!Listen
  BY <1>i, <1>11 DEF UnderMu, F!Listen
<1>12. CASE F!WaitForNotification
  BY <1>i, <1>12 DEF UnderMu, F!WaitForNotification
<1>13. CASE F!ConnectionLost
  <2>1. UNCHANGED <<loading, setting, started, fwatch>>
    BY <1>13 DEF F!ConnectionLost
  <2> QED BY <1>i, <2>1 DEF UnderMu
<1>14. CASE F!LossNoticed
  BY <1>i, <1>14 DEF UnderMu, F!LossNoticed
<1>15. CASE F!Tick
  BY <1>i, <1>15 DEF UnderMu, F!Tick
<1>16. CASE F!TickFails
  <2>1. UNCHANGED <<loading, setting, started, fwatch>>
    BY <1>16 DEF F!TickFails
  <2> QED BY <1>i, <2>1 DEF UnderMu
<1> QED
  BY <1>1, <1>2, <1>3, <1>4, <1>5, <1>6, <1>7, <1>8, <1>9, <1>10, <1>11, <1>12, <1>13, <1>14, <1>15,
     <1>16 DEF F!Next

(* The cache never gets ahead of the table.                                *)
LEMMA CacheBehindStep ==
    ASSUME FlagsIInv, F!Next PROVE CacheBehind'
<1> USE FlagsAssumption
<1>i. CacheBehind
  BY DEF FlagsIInv
<1>lb. ListedBehind
  BY DEF FlagsIInv
<1>sb. SavedBehind
  BY DEF FlagsIInv
<1>table. table \in F!Tables
  BY DEF FlagsIInv, F!TypeOK, F!Versions, F!Tables, F!Callers
<1>cache. cache \in F!Tables
  BY DEF FlagsIInv, F!TypeOK, F!Versions, F!Tables, F!Callers
<1>loading. loading \in {Nobody} \cup [by : F!Callers, listed : BOOLEAN, rows : F!Tables]
  BY DEF FlagsIInv, F!TypeOK, F!Versions, F!Tables, F!Callers
<1>setting. setting \in {Nobody} \cup [key : Flags, saved : F!Versions]
  BY DEF FlagsIInv, F!TypeOK, F!Versions, F!Tables, F!Callers
<1>commits. commits \in F!Versions
  BY DEF FlagsIInv, F!TypeOK, F!Versions, F!Tables, F!Callers
<1>1. ASSUME NEW k \in Flags, F!OtherCommits(k) PROVE CacheBehind'
  <2>1. cache' = cache /\ commits' = commits + 1 /\ table' = [table EXCEPT ![k] = commits + 1]
    BY <1>1 DEF F!OtherCommits, F!Commit
  <2> QED BY <2>1, <1>i, <1>cache, <1>table, <1>commits DEF CacheBehind, F!Tables, F!Versions
<1>2. ASSUME NEW k \in Flags, F!BeginSet(k) PROVE CacheBehind'
  <2>1. UNCHANGED <<cache, table, commits>>
    BY <1>2 DEF F!BeginSet
  <2> QED BY <1>i, <2>1 DEF CacheBehind
<1>3. CASE F!Save
  <2>1. commits' = commits + 1 /\ table' = [table EXCEPT ![setting.key] = commits + 1] /\ cache' = cache
    BY <1>3 DEF F!Save, F!Commit
  <2>2. setting # Nobody /\ setting' = [setting EXCEPT !.saved = commits + 1]
    BY <1>3 DEF F!Save, F!Saving
  <2> QED BY <2>1, <2>2, <1>i, <1>cache, <1>table, <1>commits, <1>setting DEF CacheBehind, F!Tables,
     F!Versions
<1>4. CASE F!SaveFails
  <2>1. \/ UNCHANGED <<table, commits, dv, cache, last>>
        \/ /\ commits' = commits + 1 /\ table' = [table EXCEPT ![setting.key] = commits + 1]
           /\ cache' = cache /\ last' = last /\ (dv' = dv \/ dv' = dv + 1)
    BY <1>4 DEF F!SaveFails, F!Commit
  <2>2. setting # Nobody /\ setting' = Nobody /\ loading' = loading
    BY <1>4 DEF F!SaveFails, F!Saving
  <2> QED BY <2>1, <2>2, <1>i, <1>cache, <1>table, <1>commits, <1>setting DEF CacheBehind, F!Tables,
     F!Versions
<1>5. CASE F!StoreSet
  <2>1. setting # Nobody /\ setting.saved # 0 /\ setting' = Nobody /\ loading' = loading
    BY <1>5 DEF F!StoreSet, F!Saving
  <2>2. cache' = [cache EXCEPT ![setting.key] = setting.saved] /\ table' = table /\ commits' = commits
    BY <1>5 DEF F!StoreSet
  <2> QED BY <2>1, <2>2, <1>i, <1>sb, <1>cache, <1>table, <1>setting DEF CacheBehind, SavedBehind,
     F!Tables
<1>6. ASSUME NEW w \in F!Callers, F!BeginReload(w) PROVE CacheBehind'
  <2>1. UNCHANGED <<cache, table, commits>>
    BY <1>6 DEF F!BeginReload
  <2> QED BY <1>i, <2>1 DEF CacheBehind
<1>7. CASE F!List
  <2>1. UNCHANGED <<cache, table, commits>>
    BY <1>7 DEF F!List
  <2> QED BY <1>i, <2>1 DEF CacheBehind
<1>8. CASE F!ListFails
  <2>1. UNCHANGED <<cache, table, commits>>
    BY <1>8 DEF F!ListFails
  <2> QED BY <1>i, <2>1 DEF CacheBehind
<1>9. CASE F!StoreRules
  <2>1. /\ loading # Nobody /\ loading.listed /\ loading' = Nobody /\ cache' = loading.rows
        /\ table' = table /\ commits' = commits /\ setting' = setting
    BY <1>9 DEF F!StoreRules, F!Continue
  <2>2. loading.rows \in F!Tables
    BY <2>1, <1>loading
  <2> QED BY <2>1, <2>2, <1>i, <1>lb, <1>cache, <1>table, <1>commits DEF CacheBehind, ListedBehind,
     F!Tables, F!Versions
<1>10. CASE F!PollTicks
  <2>1. UNCHANGED <<cache, table, commits>>
    BY <1>10 DEF F!PollTicks
  <2> QED BY <1>i, <2>1 DEF CacheBehind
<1>11. CASE F!Listen
  <2>1. UNCHANGED <<cache, table, commits>>
    BY <1>11 DEF F!Listen
  <2> QED BY <1>i, <2>1 DEF CacheBehind
<1>12. CASE F!WaitForNotification
  <2>1. UNCHANGED <<cache, table, commits>>
    BY <1>12 DEF F!WaitForNotification
  <2> QED BY <1>i, <2>1 DEF CacheBehind
<1>13. CASE F!ConnectionLost
  <2>1. UNCHANGED <<cache, table, commits>>
    BY <1>13 DEF F!ConnectionLost
  <2> QED BY <1>i, <2>1 DEF CacheBehind
<1>14. CASE F!LossNoticed
  <2>1. UNCHANGED <<cache, table, commits>>
    BY <1>14 DEF F!LossNoticed
  <2> QED BY <1>i, <2>1 DEF CacheBehind
<1>15. CASE F!Tick
  <2>1. UNCHANGED <<cache, table, commits>>
    BY <1>15 DEF F!Tick
  <2> QED BY <1>i, <2>1 DEF CacheBehind
<1>16. CASE F!TickFails
  <2>1. UNCHANGED <<cache, table, commits>>
    BY <1>16 DEF F!TickFails
  <2> QED BY <1>i, <2>1 DEF CacheBehind
<1> QED
  BY <1>1, <1>2, <1>3, <1>4, <1>5, <1>6, <1>7, <1>8, <1>9, <1>10, <1>11, <1>12, <1>13, <1>14, <1>15,
     <1>16 DEF F!Next

(* What is listed lies between the cache and the table.                    *)
LEMMA ListedBehindStep ==
    ASSUME FlagsIInv, F!Next PROVE ListedBehind'
<1> USE FlagsAssumption
<1>i. ListedBehind
  BY DEF FlagsIInv
<1>um. UnderMu
  BY DEF FlagsIInv
<1>cb. CacheBehind
  BY DEF FlagsIInv
<1>table. table \in F!Tables
  BY DEF FlagsIInv, F!TypeOK, F!Versions, F!Tables, F!Callers
<1>cache. cache \in F!Tables
  BY DEF FlagsIInv, F!TypeOK, F!Versions, F!Tables, F!Callers
<1>loading. loading \in {Nobody} \cup [by : F!Callers, listed : BOOLEAN, rows : F!Tables]
  BY DEF FlagsIInv, F!TypeOK, F!Versions, F!Tables, F!Callers
<1>commits. commits \in F!Versions
  BY DEF FlagsIInv, F!TypeOK, F!Versions, F!Tables, F!Callers
<1>1. ASSUME NEW k \in Flags, F!OtherCommits(k) PROVE ListedBehind'
  <2>1. cache' = cache /\ loading' = loading /\ table' = [table EXCEPT ![k] = commits + 1]
    BY <1>1 DEF F!OtherCommits, F!Commit
  <2> QED BY <2>1, <1>i, <1>cb, <1>table, <1>loading, <1>commits DEF ListedBehind, CacheBehind,
     F!Tables, F!Versions
<1>2. ASSUME NEW k \in Flags, F!BeginSet(k) PROVE ListedBehind'
  <2>1. UNCHANGED <<cache, table, loading>>
    BY <1>2 DEF F!BeginSet
  <2> QED BY <1>i, <2>1 DEF ListedBehind
<1>3. CASE F!Save
  <2>1. setting # Nobody /\ loading' = loading
    BY <1>3 DEF F!Save, F!Saving
  <2> QED BY <2>1, <1>um DEF UnderMu, ListedBehind
<1>4. CASE F!SaveFails
  <2>1. \/ UNCHANGED <<table, commits, dv, cache, last>>
        \/ /\ commits' = commits + 1 /\ table' = [table EXCEPT ![setting.key] = commits + 1]
           /\ cache' = cache /\ last' = last /\ (dv' = dv \/ dv' = dv + 1)
    BY <1>4 DEF F!SaveFails, F!Commit
  <2>2. setting # Nobody /\ setting' = Nobody /\ loading' = loading
    BY <1>4 DEF F!SaveFails, F!Saving
  <2> QED BY <2>2, <1>um DEF UnderMu, ListedBehind
<1>5. CASE F!StoreSet
  <2>1. setting # Nobody /\ setting.saved # 0 /\ setting' = Nobody /\ loading' = loading
    BY <1>5 DEF F!StoreSet, F!Saving
  <2>2. cache' = [cache EXCEPT ![setting.key] = setting.saved] /\ table' = table /\ commits' = commits
    BY <1>5 DEF F!StoreSet
  <2> QED BY <2>1, <1>um DEF UnderMu, ListedBehind
<1>6. ASSUME NEW w \in F!Callers, F!BeginReload(w) PROVE ListedBehind'
  <2>1. loading'.listed = FALSE
    BY <1>6 DEF F!BeginReload
  <2> QED BY <2>1 DEF ListedBehind
<1>7. CASE F!List
  <2>1. cache' = cache /\ table' = table /\ loading # Nobody /\ setting' = setting
    BY <1>7 DEF F!List, F!Listing
  <2>2. loading' = [loading EXCEPT !.listed = TRUE, !.rows = table]
    BY <1>7 DEF F!List
  <2>3. loading'.rows = table
    BY <2>1, <2>2, <1>loading
  <2> QED BY <2>1, <2>3, <1>cb, <1>cache, <1>table DEF ListedBehind, CacheBehind, F!Tables,
     F!Versions
<1>8. CASE F!ListFails
  <2>1. loading' = Nobody
    BY <1>8 DEF F!ListFails, F!Continue
  <2> QED BY <2>1 DEF ListedBehind
<1>9. CASE F!StoreRules
  <2>1. loading' = Nobody
    BY <1>9 DEF F!StoreRules, F!Continue
  <2> QED BY <2>1 DEF ListedBehind
<1>10. CASE F!PollTicks
  <2>1. UNCHANGED <<cache, table, loading>>
    BY <1>10 DEF F!PollTicks
  <2> QED BY <1>i, <2>1 DEF ListedBehind
<1>11. CASE F!Listen
  <2>1. UNCHANGED <<cache, table, loading>>
    BY <1>11 DEF F!Listen
  <2> QED BY <1>i, <2>1 DEF ListedBehind
<1>12. CASE F!WaitForNotification
  <2>1. UNCHANGED <<cache, table, loading>>
    BY <1>12 DEF F!WaitForNotification
  <2> QED BY <1>i, <2>1 DEF ListedBehind
<1>13. CASE F!ConnectionLost
  <2>1. UNCHANGED <<cache, table, loading>>
    BY <1>13 DEF F!ConnectionLost
  <2> QED BY <1>i, <2>1 DEF ListedBehind
<1>14. CASE F!LossNoticed
  <2>1. UNCHANGED <<cache, table, loading>>
    BY <1>14 DEF F!LossNoticed
  <2> QED BY <1>i, <2>1 DEF ListedBehind
<1>15. CASE F!Tick
  <2>1. UNCHANGED <<cache, table, loading>>
    BY <1>15 DEF F!Tick
  <2> QED BY <1>i, <2>1 DEF ListedBehind
<1>16. CASE F!TickFails
  <2>1. UNCHANGED <<cache, table, loading>>
    BY <1>16 DEF F!TickFails
  <2> QED BY <1>i, <2>1 DEF ListedBehind
<1> QED
  BY <1>1, <1>2, <1>3, <1>4, <1>5, <1>6, <1>7, <1>8, <1>9, <1>10, <1>11, <1>12, <1>13, <1>14, <1>15,
     <1>16 DEF F!Next

(* What is saved lies between the cache and the table.                     *)
LEMMA SavedBehindStep ==
    ASSUME FlagsIInv, F!Next PROVE SavedBehind'
<1> USE FlagsAssumption
<1>i. SavedBehind
  BY DEF FlagsIInv
<1>um. UnderMu
  BY DEF FlagsIInv
<1>cb. CacheBehind
  BY DEF FlagsIInv
<1>table. table \in F!Tables
  BY DEF FlagsIInv, F!TypeOK, F!Versions, F!Tables, F!Callers
<1>cache. cache \in F!Tables
  BY DEF FlagsIInv, F!TypeOK, F!Versions, F!Tables, F!Callers
<1>setting. setting \in {Nobody} \cup [key : Flags, saved : F!Versions]
  BY DEF FlagsIInv, F!TypeOK, F!Versions, F!Tables, F!Callers
<1>commits. commits \in F!Versions
  BY DEF FlagsIInv, F!TypeOK, F!Versions, F!Tables, F!Callers
<1>1. ASSUME NEW k \in Flags, F!OtherCommits(k) PROVE SavedBehind'
  <2>1. /\ cache' = cache /\ setting' = setting /\ commits' = commits + 1
        /\ table' = [table EXCEPT ![k] = commits + 1]
    BY <1>1 DEF F!OtherCommits, F!Commit
  <2>2. setting # Nobody /\ setting.saved = 0 => commits + 1 < MaxCommits
    BY <1>1 DEF F!OtherCommits, F!Saving
  <2> QED
    BY <2>1, <2>2, <1>i, <1>cb, <1>table, <1>setting, <1>commits DEF SavedBehind, CacheBehind,
       F!Tables, F!Versions
<1>2. ASSUME NEW k \in Flags, F!BeginSet(k) PROVE SavedBehind'
  <2>1. setting' = [key |-> k, saved |-> 0] /\ commits' = commits /\ commits < MaxCommits
    BY <1>2 DEF F!BeginSet
  <2> QED BY <2>1 DEF SavedBehind
<1>3. CASE F!Save
  <2>1. commits' = commits + 1 /\ table' = [table EXCEPT ![setting.key] = commits + 1] /\ cache' = cache
    BY <1>3 DEF F!Save, F!Commit
  <2>2. setting # Nobody /\ setting' = [setting EXCEPT !.saved = commits + 1]
    BY <1>3 DEF F!Save, F!Saving
  <2> QED
    BY <2>1, <2>2, <1>cb, <1>cache, <1>table, <1>commits, <1>setting DEF SavedBehind, CacheBehind,
       F!Tables, F!Versions
<1>4. CASE F!SaveFails
  <2>1. \/ UNCHANGED <<table, commits, dv, cache, last>>
        \/ /\ commits' = commits + 1 /\ table' = [table EXCEPT ![setting.key] = commits + 1]
           /\ cache' = cache /\ last' = last /\ (dv' = dv \/ dv' = dv + 1)
    BY <1>4 DEF F!SaveFails, F!Commit
  <2>2. setting # Nobody /\ setting' = Nobody /\ loading' = loading
    BY <1>4 DEF F!SaveFails, F!Saving
  <2> QED BY <2>2 DEF SavedBehind
<1>5. CASE F!StoreSet
  <2>1. setting # Nobody /\ setting.saved # 0 /\ setting' = Nobody /\ loading' = loading
    BY <1>5 DEF F!StoreSet, F!Saving
  <2>2. cache' = [cache EXCEPT ![setting.key] = setting.saved] /\ table' = table /\ commits' = commits
    BY <1>5 DEF F!StoreSet
  <2> QED BY <2>1 DEF SavedBehind
<1>6. ASSUME NEW w \in F!Callers, F!BeginReload(w) PROVE SavedBehind'
  <2>1. UNCHANGED <<cache, table, setting, commits>>
    BY <1>6 DEF F!BeginReload
  <2> QED BY <1>i, <2>1 DEF SavedBehind
<1>7. CASE F!List
  <2>1. UNCHANGED <<cache, table, setting, commits>>
    BY <1>7 DEF F!List
  <2> QED BY <1>i, <2>1 DEF SavedBehind
<1>8. CASE F!ListFails
  <2>1. UNCHANGED <<cache, table, setting, commits>>
    BY <1>8 DEF F!ListFails
  <2> QED BY <1>i, <2>1 DEF SavedBehind
<1>9. CASE F!StoreRules
  <2>1. /\ loading # Nobody /\ loading.listed /\ loading' = Nobody /\ cache' = loading.rows
        /\ table' = table /\ commits' = commits /\ setting' = setting
    BY <1>9 DEF F!StoreRules, F!Continue
  <2> QED BY <2>1, <1>um DEF UnderMu, SavedBehind
<1>10. CASE F!PollTicks
  <2>1. UNCHANGED <<cache, table, setting, commits>>
    BY <1>10 DEF F!PollTicks
  <2> QED BY <1>i, <2>1 DEF SavedBehind
<1>11. CASE F!Listen
  <2>1. UNCHANGED <<cache, table, setting, commits>>
    BY <1>11 DEF F!Listen
  <2> QED BY <1>i, <2>1 DEF SavedBehind
<1>12. CASE F!WaitForNotification
  <2>1. UNCHANGED <<cache, table, setting, commits>>
    BY <1>12 DEF F!WaitForNotification
  <2> QED BY <1>i, <2>1 DEF SavedBehind
<1>13. CASE F!ConnectionLost
  <2>1. UNCHANGED <<cache, table, setting, commits>>
    BY <1>13 DEF F!ConnectionLost
  <2> QED BY <1>i, <2>1 DEF SavedBehind
<1>14. CASE F!LossNoticed
  <2>1. UNCHANGED <<cache, table, setting, commits>>
    BY <1>14 DEF F!LossNoticed
  <2> QED BY <1>i, <2>1 DEF SavedBehind
<1>15. CASE F!Tick
  <2>1. UNCHANGED <<cache, table, setting, commits>>
    BY <1>15 DEF F!Tick
  <2> QED BY <1>i, <2>1 DEF SavedBehind
<1>16. CASE F!TickFails
  <2>1. UNCHANGED <<cache, table, setting, commits>>
    BY <1>16 DEF F!TickFails
  <2> QED BY <1>i, <2>1 DEF SavedBehind
<1> QED
  BY <1>1, <1>2, <1>3, <1>4, <1>5, <1>6, <1>7, <1>8, <1>9, <1>10, <1>11, <1>12, <1>13, <1>14, <1>15,
     <1>16 DEF F!Next

(* The data version never gets ahead of the commits.                       *)
LEMMA VersionReadStep ==
    ASSUME FlagsIInv, F!Next PROVE VersionRead'
<1> USE FlagsAssumption
<1>i. VersionRead
  BY DEF FlagsIInv
<1>dv. dv \in F!Versions
  BY DEF FlagsIInv, F!TypeOK, F!Versions, F!Tables, F!Callers
<1>last. last \in F!Versions
  BY DEF FlagsIInv, F!TypeOK, F!Versions, F!Tables, F!Callers
<1>commits. commits \in F!Versions
  BY DEF FlagsIInv, F!TypeOK, F!Versions, F!Tables, F!Callers
<1>1. ASSUME NEW k \in Flags, F!OtherCommits(k) PROVE VersionRead'
  <2>1. last' = last /\ ((dv' = dv /\ commits' = commits) \/ ((dv' = dv \/ dv' = dv + 1) /\ commits' = commits + 1))
    BY <1>1 DEF F!OtherCommits, F!Commit
  <2> QED BY <2>1, <1>i, <1>dv, <1>last, <1>commits DEF VersionRead, F!Versions
<1>2. ASSUME NEW k \in Flags, F!BeginSet(k) PROVE VersionRead'
  <2>1. UNCHANGED <<last, dv, commits>>
    BY <1>2 DEF F!BeginSet
  <2> QED BY <1>i, <2>1 DEF VersionRead
<1>3. CASE F!Save
  <2>1. last' = last /\ ((dv' = dv /\ commits' = commits) \/ ((dv' = dv \/ dv' = dv + 1) /\ commits' = commits + 1))
    BY <1>3 DEF F!Save, F!Commit
  <2> QED BY <2>1, <1>i, <1>dv, <1>last, <1>commits DEF VersionRead, F!Versions
<1>4. CASE F!SaveFails
  <2>1. last' = last /\ ((dv' = dv /\ commits' = commits) \/ ((dv' = dv \/ dv' = dv + 1) /\ commits' = commits + 1))
    BY <1>4 DEF F!SaveFails, F!Commit
  <2> QED BY <2>1, <1>i, <1>dv, <1>last, <1>commits DEF VersionRead, F!Versions
<1>5. CASE F!StoreSet
  <2>1. UNCHANGED <<last, dv, commits>>
    BY <1>5 DEF F!StoreSet
  <2> QED BY <1>i, <2>1 DEF VersionRead
<1>6. ASSUME NEW w \in F!Callers, F!BeginReload(w) PROVE VersionRead'
  <2>1. UNCHANGED <<last, dv, commits>>
    BY <1>6 DEF F!BeginReload
  <2> QED BY <1>i, <2>1 DEF VersionRead
<1>7. CASE F!List
  <2>1. UNCHANGED <<last, dv, commits>>
    BY <1>7 DEF F!List
  <2> QED BY <1>i, <2>1 DEF VersionRead
<1>8. CASE F!ListFails
  <2>1. UNCHANGED <<last, dv, commits>>
    BY <1>8 DEF F!ListFails
  <2> QED BY <1>i, <2>1 DEF VersionRead
<1>9. CASE F!StoreRules
  <2>1. UNCHANGED <<last, dv, commits>>
    BY <1>9 DEF F!StoreRules
  <2> QED BY <1>i, <2>1 DEF VersionRead
<1>10. CASE F!PollTicks
  <2>1. UNCHANGED <<last, dv, commits>>
    BY <1>10 DEF F!PollTicks
  <2> QED BY <1>i, <2>1 DEF VersionRead
<1>11. CASE F!Listen
  <2>1. UNCHANGED <<last, dv, commits>>
    BY <1>11 DEF F!Listen
  <2> QED BY <1>i, <2>1 DEF VersionRead
<1>12. CASE F!WaitForNotification
  <2>1. UNCHANGED <<last, dv, commits>>
    BY <1>12 DEF F!WaitForNotification
  <2> QED BY <1>i, <2>1 DEF VersionRead
<1>13. CASE F!ConnectionLost
  <2>1. UNCHANGED <<last, dv, commits>>
    BY <1>13 DEF F!ConnectionLost
  <2> QED BY <1>i, <2>1 DEF VersionRead
<1>14. CASE F!LossNoticed
  <2>1. UNCHANGED <<last, dv, commits>>
    BY <1>14 DEF F!LossNoticed
  <2> QED BY <1>i, <2>1 DEF VersionRead
<1>15. CASE F!Tick
  <2>1. dv' = dv /\ last' = dv /\ commits' = commits
    BY <1>15 DEF F!Tick
  <2> QED BY <2>1, <1>i, <1>dv DEF VersionRead, F!Versions
<1>16. CASE F!TickFails
  <2>1. UNCHANGED <<last, dv, commits>>
    BY <1>16 DEF F!TickFails
  <2> QED BY <1>i, <2>1 DEF VersionRead
<1> QED
  BY <1>1, <1>2, <1>3, <1>4, <1>5, <1>6, <1>7, <1>8, <1>9, <1>10, <1>11, <1>12, <1>13, <1>14, <1>15,
     <1>16 DEF F!Next

(* A stale rule stays signalled or owed.                                   *)
LEMMA StaleStep ==
    ASSUME FlagsIInv, F!Next PROVE StaleIsOwed'
<1> USE FlagsAssumption
<1>i. StaleIsOwed
  BY DEF FlagsIInv
<1>um. UnderMu
  BY DEF FlagsIInv
<1>sb. SavedBehind
  BY DEF FlagsIInv
<1>vr. VersionRead
  BY DEF FlagsIInv
<1>kind. kind \in {"postgres", "sqlite"}
  BY DEF FlagsIInv, F!TypeOK, F!Versions, F!Tables, F!Callers
<1>table. table \in F!Tables
  BY DEF FlagsIInv, F!TypeOK, F!Versions, F!Tables, F!Callers
<1>cache. cache \in F!Tables
  BY DEF FlagsIInv, F!TypeOK, F!Versions, F!Tables, F!Callers
<1>loading. loading \in {Nobody} \cup [by : F!Callers, listed : BOOLEAN, rows : F!Tables]
  BY DEF FlagsIInv, F!TypeOK, F!Versions, F!Tables, F!Callers
<1>setting. setting \in {Nobody} \cup [key : Flags, saved : F!Versions]
  BY DEF FlagsIInv, F!TypeOK, F!Versions, F!Tables, F!Callers
<1>started. started \in BOOLEAN
  BY DEF FlagsIInv, F!TypeOK, F!Versions, F!Tables, F!Callers
<1>dv. dv \in F!Versions
  BY DEF FlagsIInv, F!TypeOK, F!Versions, F!Tables, F!Callers
<1>last. last \in F!Versions
  BY DEF FlagsIInv, F!TypeOK, F!Versions, F!Tables, F!Callers
<1>commits. commits \in F!Versions
  BY DEF FlagsIInv, F!TypeOK, F!Versions, F!Tables, F!Callers
<1>1. ASSUME NEW k \in Flags, F!OtherCommits(k) PROVE StaleIsOwed'
  <2>1. Signalled'
    <3>1. /\ kind' = kind /\ listening' = listening /\ haveLast' = haveLast /\ last' = last
          /\ notified' = (notified \/ (kind = "postgres" /\ listening))
          /\ missed' = (missed \/ (kind = "sqlite" /\ ~haveLast))
      BY <1>1 DEF F!OtherCommits, F!Commit
    <3>2. kind = "sqlite" => dv' # last
      <4>1. kind = "sqlite" => dv' = dv + 1
        BY <1>1 DEF F!OtherCommits, F!Commit
      <4> QED BY <4>1, <1>vr, <1>dv, <1>last DEF VersionRead, F!Versions
    <3> QED BY <3>1, <3>2, <1>kind DEF Signalled
  <2> QED BY <2>1 DEF StaleIsOwed
<1>2. ASSUME NEW k \in Flags, F!BeginSet(k) PROVE StaleIsOwed'
  <2>1. loading = Nobody /\ loading' = Nobody /\ setting = Nobody /\ setting' = [key |-> k, saved |-> 0]
    BY <1>2 DEF F!BeginSet, F!Unlocked
  <2>2. UNCHANGED <<kind, table, cache, listening, notified, missed, haveLast, dv, last, started, fwatch>>
    BY <1>2 DEF F!BeginSet
  <2>3. setting'.saved = 0
    BY <2>1
  <2>4. \A f \in Flags : F!Coming(f)' = F!Coming(f)
    BY <2>1, <2>2, <2>3 DEF F!Coming, F!Saving
  <2>5. (Signalled => Signalled') /\ (ReloadOwed => ReloadOwed')
    BY <2>1, <2>2 DEF Signalled, ReloadOwed
  <2> QED BY <2>2, <2>4, <2>5, <1>i DEF StaleIsOwed
<1>3. CASE F!Save
  <2>1. /\ setting # Nobody /\ setting.saved = 0 /\ setting' = [setting EXCEPT !.saved = commits + 1]
        /\ table' = [table EXCEPT ![setting.key] = commits + 1] /\ cache' = cache
    BY <1>3 DEF F!Save, F!Commit, F!Saving
  <2>2. loading = Nobody /\ loading' = Nobody
    BY <2>1, <1>3, <1>um DEF UnderMu, F!Save
  <2>3. /\ setting' # Nobody /\ setting'.key = setting.key /\ setting'.saved = commits + 1
        /\ commits + 1 # 0 /\ setting.key \in Flags
    <3>1. setting \in [key : Flags, saved : F!Versions]
      BY <2>1, <1>setting
    <3>2. setting' \in [key : Flags, saved : F!Versions]
      <4>1. commits + 1 \in F!Versions
        BY <2>1, <1>sb, <1>commits DEF SavedBehind, F!Versions
      <4> QED BY <2>1, <3>1, <4>1
    <3> QED BY <2>1, <3>1, <3>2, <1>commits DEF F!Versions
  <2>4. \A f \in Flags : F!Coming(f)' # table'[f] => F!Coming(f) # table[f]
    BY <2>1, <2>2, <2>3, <1>table DEF F!Coming, F!Saving, F!Tables
  <2>5. Signalled => Signalled'
    <3>1. /\ UNCHANGED <<kind, listening, missed, haveLast, last>>
          /\ notified' = (notified \/ (kind = "postgres" /\ listening))
      BY <1>3 DEF F!Save, F!Commit
    <3>2. dv # last => dv' # last
      <4>1. dv' = dv \/ dv' = dv + 1
        BY <1>3 DEF F!Save, F!Commit
      <4> QED BY <4>1, <1>vr, <1>dv, <1>last DEF VersionRead, F!Versions
    <3> QED BY <3>1, <3>2 DEF Signalled
  <2>6. ReloadOwed => ReloadOwed'
    BY <1>3, <2>2 DEF F!Save, ReloadOwed
  <2> QED BY <2>4, <2>5, <2>6, <1>i DEF StaleIsOwed
<1>4. CASE F!SaveFails
  <2>1. CASE UNCHANGED <<table, notified, dv, commits, missed>>
    <3>1. setting # Nobody /\ setting.saved = 0 /\ setting' = Nobody
      BY <1>4 DEF F!SaveFails, F!Saving
    <3>2. UNCHANGED <<kind, cache, loading, started, fwatch, listening, last, haveLast>>
      BY <1>4 DEF F!SaveFails
    <3>3. \A f \in Flags : F!Coming(f)' = F!Coming(f)
      BY <3>1, <3>2 DEF F!Coming, F!Saving
    <3>4. (Signalled => Signalled') /\ (ReloadOwed => ReloadOwed')
      BY <2>1, <3>2 DEF Signalled, ReloadOwed
    <3> QED BY <2>1, <3>3, <3>4, <1>i DEF StaleIsOwed
  <2>2. CASE F!Commit(setting.key, ~single) /\ missed' = (missed \/ (kind = "sqlite" /\ (single \/ ~haveLast)))
    <3>1. /\ UNCHANGED <<kind, listening, last, haveLast>>
          /\ notified' = (notified \/ (kind = "postgres" /\ listening))
      BY <1>4, <2>2 DEF F!SaveFails, F!Commit
    <3>2. kind = "sqlite" /\ ~single => dv' # last
      <4>1. kind = "sqlite" /\ ~single => dv' = dv + 1
        BY <2>2 DEF F!Commit
      <4> QED BY <4>1, <1>vr, <1>dv, <1>last DEF VersionRead, F!Versions
    <3>3. Signalled'
      BY <2>2, <3>1, <3>2, <1>kind DEF Signalled
    <3> QED BY <3>3 DEF StaleIsOwed
  <2> QED BY <1>4, <2>1, <2>2 DEF F!SaveFails
<1>5. CASE F!StoreSet
  <2>1. setting # Nobody /\ setting.saved # 0 /\ setting' = Nobody /\ loading' = loading
    BY <1>5 DEF F!StoreSet, F!Saving
  <2>2. cache' = [cache EXCEPT ![setting.key] = setting.saved] /\ table' = table /\ commits' = commits
    BY <1>5 DEF F!StoreSet
  <2>3. loading = Nobody
    BY <2>1, <1>um DEF UnderMu
  <2>4. \A f \in Flags : F!Coming(f)' = F!Coming(f)
    BY <2>1, <2>2, <2>3, <1>cache, <1>setting DEF F!Coming, F!Saving, F!Tables
  <2>5. (Signalled => Signalled') /\ (ReloadOwed => ReloadOwed')
    BY <1>5 DEF F!StoreSet, Signalled, ReloadOwed
  <2> QED BY <2>2, <2>4, <2>5, <1>i DEF StaleIsOwed
<1>6. ASSUME NEW w \in F!Callers, F!BeginReload(w) PROVE StaleIsOwed'
  <2>1. loading = Nobody /\ setting = Nobody /\ loading' = [by |-> w, listed |-> FALSE, rows |-> table]
    BY <1>6 DEF F!BeginReload, F!Unlocked
  <2>2. UNCHANGED <<kind, table, cache, setting, listening, notified, missed, haveLast, dv, last, started, fwatch>>
    BY <1>6 DEF F!BeginReload
  <2>3. loading'.listed = FALSE
    BY <2>1
  <2>4. \A f \in Flags : F!Coming(f)' = F!Coming(f)
    BY <2>1, <2>2, <2>3 DEF F!Coming, F!Saving
  <2>5. (Signalled => Signalled') /\ (ReloadOwed => ReloadOwed')
    BY <2>1, <2>2, <2>3 DEF Signalled, ReloadOwed
  <2> QED BY <2>2, <2>4, <2>5, <1>i DEF StaleIsOwed
<1>7. CASE F!List
  <2>1. cache' = cache /\ table' = table /\ loading # Nobody /\ setting' = setting
    BY <1>7 DEF F!List, F!Listing
  <2>2. loading' = [loading EXCEPT !.listed = TRUE, !.rows = table]
    BY <1>7 DEF F!List
  <2>3. loading' # Nobody /\ loading'.listed /\ loading'.rows = table
    <3>1. loading \in [by : F!Callers, listed : BOOLEAN, rows : F!Tables]
      BY <2>1, <1>loading
    <3>2. loading' \in [by : F!Callers, listed : BOOLEAN, rows : F!Tables]
      BY <2>2, <3>1, <1>table
    <3> QED BY <2>2, <3>1, <3>2
  <2> QED BY <2>1, <2>3 DEF StaleIsOwed, F!Coming
<1>8. CASE F!ListFails
  <2>1. /\ loading # Nobody /\ ~loading.listed /\ loading' = Nobody /\ cache' = cache /\ table' = table
        /\ setting' = setting /\ started' = TRUE
    BY <1>8 DEF F!ListFails, F!Listing, F!Continue
  <2>2. setting = Nobody
    BY <2>1, <1>um DEF UnderMu
  <2>3. \A f \in Flags : F!Coming(f)' = cache[f] /\ F!Coming(f) = cache[f]
    BY <2>1, <2>2 DEF F!Coming, F!Saving
  <2>4. missed' = (missed \/ (cache # table /\ loading.by # "poll"))
    BY <1>8 DEF F!ListFails
  <2>5. CASE loading.by = "poll"
    <3>1. started /\ UNCHANGED <<kind, listening, notified, haveLast, dv, last>>
      BY <2>1, <2>5, <1>8, <1>um, <1>started DEF UnderMu, F!ListFails
    <3>2. fwatch' = fwatch
      BY <2>5, <1>8 DEF F!ListFails, F!Continue
    <3>3. (Signalled => Signalled') /\ (ReloadOwed => ReloadOwed')
      BY <2>1, <2>4, <2>5, <3>1, <3>2 DEF Signalled, ReloadOwed
    <3> QED BY <2>1, <2>3, <3>3, <1>i DEF StaleIsOwed
  <2>6. CASE loading.by # "poll"
    BY <2>1, <2>3, <2>4, <2>6 DEF StaleIsOwed, Signalled
  <2> QED BY <2>5, <2>6
<1>9. CASE F!StoreRules
  <2>1. /\ loading # Nobody /\ loading.listed /\ loading' = Nobody /\ cache' = loading.rows
        /\ table' = table /\ commits' = commits /\ setting' = setting
    BY <1>9 DEF F!StoreRules, F!Continue
  <2>2. setting = Nobody
    BY <2>1, <1>um DEF UnderMu
  <2>3. \A f \in Flags : F!Coming(f)' = F!Coming(f)
    BY <2>1, <2>2 DEF F!Coming, F!Saving
  <2>4. UNCHANGED <<kind, listening, notified, missed, haveLast, dv, last>>
    BY <1>9 DEF F!StoreRules
  <2>5. loading.by # "watch" => fwatch' = fwatch
    BY <1>9 DEF F!StoreRules, F!Continue
  <2>6. (Signalled => Signalled') /\ (ReloadOwed => ReloadOwed')
    BY <2>1, <2>4, <2>5 DEF Signalled, ReloadOwed
  <2> QED BY <2>1, <2>3, <2>6, <1>i DEF StaleIsOwed
<1>10. CASE F!PollTicks
  <2>1. UNCHANGED <<table, cache, loading, setting>>
    BY <1>10 DEF F!PollTicks
  <2>2. \A f \in Flags : F!Coming(f)' = F!Coming(f)
    BY <2>1 DEF F!Coming, F!Saving
  <2>3. Signalled \/ ReloadOwed => Signalled' \/ ReloadOwed'
    BY <1>10 DEF F!PollTicks, Signalled, ReloadOwed
  <2> QED BY <2>1, <2>2, <2>3, <1>i DEF StaleIsOwed
<1>11. CASE F!Listen
  <2>1. UNCHANGED <<table, cache, loading, setting>>
    BY <1>11 DEF F!Listen
  <2>2. \A f \in Flags : F!Coming(f)' = F!Coming(f)
    BY <2>1 DEF F!Coming, F!Saving
  <2>3. Signalled \/ ReloadOwed => Signalled' \/ ReloadOwed'
    BY <1>11, <1>um DEF F!Listen, UnderMu, ReloadOwed
  <2> QED BY <2>1, <2>2, <2>3, <1>i DEF StaleIsOwed
<1>12. CASE F!WaitForNotification
  <2>1. UNCHANGED <<table, cache, loading, setting>>
    BY <1>12 DEF F!WaitForNotification
  <2>2. \A f \in Flags : F!Coming(f)' = F!Coming(f)
    BY <2>1 DEF F!Coming, F!Saving
  <2>3. Signalled \/ ReloadOwed => Signalled' \/ ReloadOwed'
    BY <1>12, <1>um DEF F!WaitForNotification, UnderMu, ReloadOwed
  <2> QED BY <2>1, <2>2, <2>3, <1>i DEF StaleIsOwed
<1>13. CASE F!ConnectionLost
  <2>1. UNCHANGED <<table, cache, loading, setting>>
    BY <1>13 DEF F!ConnectionLost
  <2>2. \A f \in Flags : F!Coming(f)' = F!Coming(f)
    BY <2>1 DEF F!Coming, F!Saving
  <2>3. Signalled \/ ReloadOwed => Signalled' \/ ReloadOwed'
    <3>1. UNCHANGED <<kind, started, fwatch, loading, dv, last, haveLast, missed>> /\ listening' = FALSE
      BY <1>13 DEF F!ConnectionLost
    <3> QED BY <3>1 DEF Signalled, ReloadOwed
  <2> QED BY <2>1, <2>2, <2>3, <1>i DEF StaleIsOwed
<1>14. CASE F!LossNoticed
  <2>1. UNCHANGED <<table, cache, loading, setting>>
    BY <1>14 DEF F!LossNoticed
  <2>2. \A f \in Flags : F!Coming(f)' = F!Coming(f)
    BY <2>1 DEF F!Coming, F!Saving
  <2>3. Signalled \/ ReloadOwed => Signalled' \/ ReloadOwed'
    BY <1>14 DEF F!LossNoticed, Signalled, ReloadOwed
  <2> QED BY <2>1, <2>2, <2>3, <1>i DEF StaleIsOwed
<1>15. CASE F!Tick
  <2>1. UNCHANGED <<table, cache, loading, setting>>
    BY <1>15 DEF F!Tick
  <2>2. \A f \in Flags : F!Coming(f)' = F!Coming(f)
    BY <2>1 DEF F!Coming, F!Saving
  <2>3. Signalled \/ ReloadOwed => Signalled' \/ ReloadOwed'
    <3>1. kind = "sqlite" /\ fwatch = "wait" /\ UNCHANGED <<kind, loading, started, missed>>
      BY <1>15 DEF F!Tick
    <3>2. loading # Nobody => loading.by # "watch"
      BY <3>1, <1>um DEF UnderMu
    <3>3. haveLast /\ dv # last => fwatch' = "reload"
      BY <1>15 DEF F!Tick
    <3> QED BY <3>1, <3>2, <3>3 DEF Signalled, ReloadOwed
  <2> QED BY <2>1, <2>2, <2>3, <1>i DEF StaleIsOwed
<1>16. CASE F!TickFails
  <2>1. UNCHANGED <<table, cache, loading, setting>>
    BY <1>16 DEF F!TickFails
  <2>2. \A f \in Flags : F!Coming(f)' = F!Coming(f)
    BY <2>1 DEF F!Coming, F!Saving
  <2>3. Signalled \/ ReloadOwed => Signalled' \/ ReloadOwed'
    <3>1. UNCHANGED <<kind, loading, started, fwatch>> /\ kind = "sqlite"
      BY <1>16 DEF F!TickFails
    <3>2. missed' = (missed \/ (haveLast /\ dv # last))
      BY <1>16 DEF F!TickFails
    <3> QED BY <3>1, <3>2 DEF Signalled, ReloadOwed
  <2> QED BY <2>1, <2>2, <2>3, <1>i DEF StaleIsOwed
<1> QED
  BY <1>1, <1>2, <1>3, <1>4, <1>5, <1>6, <1>7, <1>8, <1>9, <1>10, <1>11, <1>12, <1>13, <1>14, <1>15,
     <1>16 DEF F!Next

-----------------------------------------------------------------------------
(* Each of them in the composition: it starts as its module says, a step   *)
(* is one of its own or leaves it alone, and so its invariant holds.       *)

(* No call has been made of a group.                                       *)
LEMMA GroupInitOK == G!Init => GroupIInv
<1> SUFFICES ASSUME G!Init PROVE GroupIInv  OBVIOUS
<1> USE GroupAssumption DEF G!Init
<1>1. Slots = {} /\ Counted = {} /\ Waiters = {} /\ waiters \in Seq(Calls)
  BY DEF Slots, Counted, Waiters
<1>2. Cardinality({}) = 0 /\ IsFiniteSet({})
  BY FS_EmptySet
<1>3. Cardinality(Calls) \in Nat
  BY FS_CardinalityType
<1>4. G!TypeOK
  <2>1. G!Cardinality(Calls) = Cardinality(Calls) /\ 0 \in 0 .. Cardinality(Calls)
    BY <1>3, SameCount
  <2>2. metrics \in [{"dispatched", "ended"} -> 0 .. Cardinality(Calls)]
    BY <2>1
  <2>3. /\ call \in [Calls -> {"none", "acquire", "blocked", "enter", "accepted", "dropped", "spawned"}]
        /\ job \in [Calls -> {"none", "running", "finished", "released", "done"}]
    OBVIOUS
  <2> QED  BY <1>1, <2>1, <2>2, <2>3 DEF G!TypeOK
<1>5. SlotsCounted /\ WaitedFor
  BY <1>1, <1>2 DEF SlotsCounted, WaitedFor
<1>6. QueueOfBlocked /\ SpawnedHasJob /\ ClosedFirst
  BY <1>1 DEF QueueOfBlocked, SpawnedHasJob, ClosedFirst
<1>7. /\ {c \in Calls : job[c] # "none"} = {}
      /\ {c \in Calls : job[c] \in {"finished", "released", "done"}} = {}
  OBVIOUS
<1>8. MetricsCount
  BY <1>2, <1>7 DEF MetricsCount
<1> QED  BY <1>4, <1>5, <1>6, <1>8 DEF GroupIInv

(* All jobs run, and none has noted anything.                              *)
LEMMA JobsInitOK == M!Init => JobsIInv
<1> SUFFICES ASSUME M!Init PROVE JobsIInv  OBVIOUS
<1> USE JobsAssumption DEF M!Init
<1>1. M!TypeOK
  BY DEF M!TypeOK
<1>2. FirstIsError /\ Noted /\ Returned
  BY DEF FirstIsError, Noted, Returned
<1> QED  BY <1>1, <1>2 DEF JobsIInv

(* The cache is the table, and Start has yet to load it.                   *)
LEMMA FlagsInitOK == F!Init => FlagsIInv
<1> SUFFICES ASSUME F!Init PROVE FlagsIInv  OBVIOUS
<1> USE FlagsAssumption DEF F!Init
<1>1. 0 \in F!Versions /\ 0 \in 0 .. MaxFaults /\ 0 \in 0 .. 2
  BY DEF F!Versions
<1>2. table = [k \in Flags |-> 0] /\ cache = table /\ commits = 0 /\ last = 0 /\ dv = 0
  OBVIOUS
<1>3. table \in F!Tables /\ cache \in F!Tables
  BY <1>1, <1>2 DEF F!Tables
<1>4. F!TypeOK
  BY <1>1, <1>3 DEF F!TypeOK
<1>5. UnderMu /\ ListedBehind /\ SavedBehind
  BY DEF UnderMu, ListedBehind, SavedBehind
<1>6. CacheBehind /\ VersionRead
  BY <1>2 DEF CacheBehind, VersionRead
<1>7. StaleIsOwed
  BY <1>2 DEF StaleIsOwed, F!Coming
<1> QED  BY <1>4, <1>5, <1>6, <1>7 DEF FlagsIInv

(* A step of the composition is one of the part chosen.                    *)
LEMMA JanitorMoves == [MCNext]_mcvars => J!Next \/ UNCHANGED jvars
BY DEF MCNext, mcvars, NotHub, NotGroup, NotFlags, NotServer

LEMMA GroupMoves == [MCNext]_mcvars => G!Next \/ UNCHANGED gvars
BY DEF MCNext, mcvars, NotHub, NotJanitor, NotFlags, NotServer

LEMMA JobsMoves == [MCNext]_mcvars => M!Next \/ UNCHANGED mvars
BY DEF MCNext, mcvars, NotHub, NotJanitor, NotGroup, NotFlags, NotServer

LEMMA FlagsMoves == [MCNext]_mcvars => F!Next \/ UNCHANGED fvars
BY DEF MCNext, mcvars, NotHub, NotJanitor, NotGroup, NotServer

(* The janitor.                                                            *)
LEMMA JanitorInvariance == MCSpec => []JanitorIInv
<1>1. JanitorIInv /\ [MCNext]_mcvars => JanitorIInv'
  <2> SUFFICES ASSUME JanitorIInv, [MCNext]_mcvars PROVE JanitorIInv'
    OBVIOUS
  <2>0. [J!Next]_(J!vars)
    BY JanitorMoves DEF jvars, J!vars, J!startVars, J!callVars
  <2>1. J!TypeOK' /\ Orderly'
    BY <2>0, TypeStep, OrderlyStep
  <2>2. \A q, r \in J!Runs : OneHolder(q, r)'
    BY <2>0, HolderStep
  <2>3. \A r \in J!Runs : HolderMarks(r)'
    BY <2>0, MarksStep
  <2>4. \A t \in Tasks : MarkHeld(t)'
    BY <2>0, MarkHeldStep
  <2>5. \A g \in J!Gens : OwnersOwn(g)'
    BY <2>0, OwnStep
  <2> QED  BY <2>1, <2>2, <2>3, <2>4, <2>5 DEF JanitorIInv, J!Runs, J!Kinds, J!Gens
<1>2. MCInit => JanitorIInv
  BY JanitorInitOK DEF MCInit
<1> QED  BY <1>1, <1>2, PTL DEF MCSpec

(* A task never runs twice at once, not in two generations either.         *)
THEOREM TasksNeverOverlap == MCSpec => []J!NoOverlap
<1>1. JanitorIInv => J!NoOverlap
  BY DEF JanitorIInv, OneHolder, Holds, J!NoOverlap, J!InFlight
<1> QED  BY <1>1, JanitorInvariance, PTL

(* The marker of a task is there exactly while a run holds it.             *)
THEOREM MarkersAreHeld == MCSpec => []J!MarkerIsHeld
<1>1. ASSUME JanitorIInv PROVE J!MarkerIsHeld
  <2>1. running \subseteq Tasks
    BY <1>1 DEF JanitorIInv, J!TypeOK
  <2>2. \A r \in J!Runs : J!InFlight(r) \/ run[r] = "releasing" <=> Holds(r)
    BY DEF J!InFlight, Holds
  <2>3. \A t \in running : \E r \in J!Runs : r[3] = t /\ Holds(r)
    BY <1>1, <2>1 DEF JanitorIInv, MarkHeld
  <2>4. \A r \in J!Runs : Holds(r) => r[3] \in running
    BY <1>1 DEF JanitorIInv, HolderMarks
  <2> QED  BY <2>1, <2>2, <2>3, <2>4 DEF J!MarkerIsHeld
<1> QED  BY <1>1, JanitorInvariance, PTL

(* Once the owner's Stop has returned, what nobody disturbed is drained.   *)
THEOREM OwnersStopDrains == MCSpec => []J!StopDrains
<1>1. ASSUME JanitorIInv, pc[Owner] = "stopped",
             NEW r \in J!Runs, r[2] <= asked[Owner], r[2] \notin disturbed
      PROVE  ~ J!InFlight(r)
  <2>1. r[2] \in J!Gens /\ r[2] \in Nat /\ gens \in Nat /\ asked[Owner] \in Nat
    BY <1>1, RunIsOne, JanitorAssumption
       DEF JanitorIInv, J!TypeOK, J!Gens, J!Callers, JanitorAssumption
  <2>2. asked[Owner] <= gens
    BY <1>1 DEF JanitorIInv, Orderly, J!Callers
  <2>3. OwnersOwn(r[2]) /\ r[2] <= gens
    BY <1>1, <2>1, <2>2 DEF JanitorIInv
  <2>4. run[<<"cron", r[2], r[3]>>] = "none" /\ run[<<"now", r[2], r[3]>>] \in {"none", "over"}
    BY <1>1, <2>3, RunIsOne DEF OwnersOwn
  <2> QED  BY <2>4, RunIsOne DEF J!InFlight
<1>2. ASSUME JanitorIInv PROVE J!StopDrains
  BY <1>1, <1>2 DEF J!StopDrains
<1> QED  BY <1>2, JanitorInvariance, PTL

(* The group.                                                              *)
LEMMA GroupInvariance == MCSpec => []GroupIInv
<1>1. GroupIInv /\ [MCNext]_mcvars => GroupIInv'
  <2> SUFFICES ASSUME GroupIInv, [MCNext]_mcvars PROVE GroupIInv'
    OBVIOUS
  <2>1. CASE G!Next
    BY <2>1, GroupTypeStep, SlotsCountedStep, QueueStep, SpawnedHasJobStep, WaitedForStep,
       MetricsStep, ClosedFirstStep DEF GroupIInv
  <2>2. CASE UNCHANGED gvars
    BY <2>2 DEF gvars, GroupIInv, G!TypeOK, SlotsCounted, QueueOfBlocked, SpawnedHasJob, WaitedFor,
       MetricsCount, ClosedFirst, Slots, Counted, Waiters
  <2> QED  BY <2>1, <2>2, GroupMoves
<1>2. MCInit => GroupIInv
  BY GroupInitOK DEF MCInit
<1> QED  BY <1>1, <1>2, PTL DEF MCSpec

(* Never more jobs run than the limit, and when Close has returned nothing *)
(* runs, nothing will, and every dispatch was followed by an end           *)
(* (group.go 113-163, 167-182).                                            *)
THEOREM GroupIsSafe == MCSpec => []G!Inv
<1>1. ASSUME GroupIInv PROVE G!WithinLimit
  <2> SUFFICES ASSUME limit > 0
               PROVE  Cardinality({c \in Calls : job[c] = "running"}) <= limit
    BY SameCount DEF G!WithinLimit
  <2>1. limit \in Nat /\ limit # 0
    BY <1>1, GroupAssumption DEF GroupAssumption, GroupIInv, G!TypeOK
  <2>2. Cardinality(Slots) <= limit /\ Slots \in SUBSET Calls
    BY <1>1, <2>1 DEF GroupIInv, SlotsCounted, Slots
  <2>3. {c \in Calls : job[c] = "running"} \in SUBSET Slots
    BY DEF Slots
  <2>4. IsFiniteSet(Slots)
    BY <2>2, GroupAssumption, FS_Subset DEF GroupAssumption
  <2>5. /\ IsFiniteSet({c \in Calls : job[c] = "running"})
        /\ Cardinality({c \in Calls : job[c] = "running"}) <= Cardinality(Slots)
    BY <2>3, <2>4, FS_Subset
  <2>6. Cardinality({c \in Calls : job[c] = "running"}) \in Nat /\ Cardinality(Slots) \in Nat
    BY <2>4, <2>5, FS_CardinalityType
  <2> QED  BY <2>1, <2>2, <2>5, <2>6
<1>2. ASSUME GroupIInv PROVE G!ClosedIsQuiet
  <2> SUFFICES ASSUME closer = "returned"
               PROVE  /\ \A c \in Calls : call[c] # "accepted" /\ job[c] \in {"none", "done"}
                      /\ metrics["dispatched"] = metrics["ended"]
    BY DEF G!ClosedIsQuiet
  <2>1. Cardinality(Counted) = 0 /\ IsFiniteSet(Counted)
    <3>1. Counted \in SUBSET Calls
      BY DEF Counted
    <3> QED  BY <1>2, <3>1, GroupAssumption, FS_Subset
             DEF GroupAssumption, GroupIInv, ClosedFirst, WaitedFor
  <2>2. Counted = {}
    BY <2>1, FS_EmptySet
  <2>3. \A c \in Calls : call[c] # "accepted" /\ job[c] \in {"none", "done"}
    BY <1>2, <2>2 DEF Counted, GroupIInv, G!TypeOK
  <2>4. {c \in Calls : job[c] # "none"} = {c \in Calls : job[c] \in {"finished", "released", "done"}}
    BY <2>3
  <2> QED  BY <1>2, <2>3, <2>4 DEF GroupIInv, MetricsCount
<1>3. GroupIInv => G!Inv
  BY <1>1, <1>2 DEF G!Inv, GroupIInv
<1> QED  BY <1>3, GroupInvariance, PTL

(* Concurrent jobs.                                                        *)
LEMMA JobsInvariance == MCSpec => []JobsIInv
<1>1. JobsIInv /\ [MCNext]_mcvars => JobsIInv'
  <2> SUFFICES ASSUME JobsIInv, [MCNext]_mcvars PROVE JobsIInv'
    OBVIOUS
  <2>1. CASE M!Next
    BY <2>1, JobsTypeStep, FirstErrorStep, NotedStep, ReturnedStep DEF JobsIInv
  <2>2. CASE UNCHANGED mvars
    BY <2>2 DEF mvars, JobsIInv, M!TypeOK, FirstIsError, Noted, Returned
  <2> QED  BY <2>1, <2>2, JobsMoves
<1>2. MCInit => JobsIInv
  BY JobsInitOK DEF MCInit
<1> QED  BY <1>1, <1>2, PTL DEF MCSpec

(* All and Map report the failure that came first, never the giving up it  *)
(* caused, unless the caller gave up; nothing is missing without an error  *)
(* (async.go 10-118).                                                      *)
THEOREM FirstFailureIsReported == MCSpec => []M!FirstErrorWins
<1>1. ASSUME JobsIInv PROVE M!FirstErrorWins
  <2> USE JobsAssumption
  <2>t. M!TypeOK
    BY <1>1 DEF JobsIInv
  <2> SUFFICES ASSUME answer # Nil
               PROVE  /\ how # "settle" => (answer[1] = "ok" <=> \A j \in Jobs : outcome[j] = "value")
                      /\ answer[1] = "failed" => answer[2] = "error" \/ (abandoned /\ answer[2] = "canceled")
                      /\ answer[1] = "ok" => answer[2] = outcome
    BY <2>t DEF M!FirstErrorWins
  <2>1. \A j \in Jobs : state[j] = "done"
    BY <1>1 DEF JobsIInv, Returned
  <2>2. CASE firstErr # Nil
    <3>1. answer = <<"failed", outcome[firstErr]>> /\ firstErr \in Jobs
      BY <1>1, <2>2, <2>t DEF JobsIInv, Returned, M!TypeOK
    <3>2. outcome[firstErr] = "error" \/ (abandoned /\ outcome[firstErr] = "canceled")
      BY <1>1, <2>2 DEF JobsIInv, FirstIsError
    <3> QED  BY <3>1, <3>2
  <2>3. CASE firstErr = Nil
    <3>1. answer = <<"ok", results>>
      BY <1>1, <2>3 DEF JobsIInv, Returned
    <3>2. \A j \in Jobs : (how = "settle" \/ outcome[j] = "value") /\ results[j] = outcome[j]
      BY <1>1, <2>1, <2>3 DEF JobsIInv, Noted
    <3>3. results = outcome
      BY <3>2, <2>t DEF M!TypeOK
    <3> QED  BY <3>1, <3>2, <3>3
  <2> QED  BY <2>2, <2>3
<1> QED  BY <1>1, JobsInvariance, PTL

(* What the run checks of the janitor, the group and the jobs.             *)
THEOREM WorkersAreSafe == MCSpec => []WorkersInv
<1>1. JanitorIInv => J!TypeOK
  BY DEF JanitorIInv
<1>2. J!TypeOK /\ J!NoOverlap /\ J!MarkerIsHeld => J!Inv
  BY DEF J!Inv
<1>3. J!Inv /\ J!StopDrains /\ G!Inv /\ M!FirstErrorWins => WorkersInv
  BY DEF WorkersInv
<1> QED  BY <1>1, <1>2, <1>3, JanitorInvariance, TasksNeverOverlap, MarkersAreHeld, OwnersStopDrains,
            GroupIsSafe, FirstFailureIsReported, PTL

(* The flags.                                                              *)
LEMMA FlagsInvariance == MCSpec => []FlagsIInv
<1>1. FlagsIInv /\ [MCNext]_mcvars => FlagsIInv'
  <2> SUFFICES ASSUME FlagsIInv, [MCNext]_mcvars PROVE FlagsIInv'
    OBVIOUS
  <2>1. CASE F!Next
    BY <2>1, FlagsTypeStep, UnderMuStep, CacheBehindStep, ListedBehindStep, SavedBehindStep,
       VersionReadStep, StaleStep DEF FlagsIInv
  <2>2. CASE UNCHANGED fvars
    <3>1. F!TypeOK' /\ UnderMu'
      BY <2>2 DEF fvars, FlagsIInv, F!TypeOK, UnderMu
    <3>2. CacheBehind' /\ ListedBehind' /\ SavedBehind' /\ VersionRead'
      BY <2>2 DEF fvars, FlagsIInv, CacheBehind, ListedBehind, SavedBehind, VersionRead
    <3>3. StaleIsOwed'
      BY <2>2 DEF fvars, FlagsIInv, StaleIsOwed, Signalled, ReloadOwed, F!Coming, F!Saving
    <3> QED  BY <3>1, <3>2, <3>3 DEF FlagsIInv
  <2> QED  BY <2>1, <2>2, FlagsMoves
<1>2. MCInit => FlagsIInv
  BY FlagsInitOK DEF MCInit
<1> QED  BY <1>1, <1>2, PTL DEF MCSpec

(* A rule the cache has wrong is one the watcher is about to look at, but  *)
(* for the changes known to be left to the poll (listen_postgres.go        *)
(* 55-122, listen_sqlite.go 28-58).                                        *)
THEOREM StaleFlagsAreNoticed == MCSpec => []FlagsInv
<1>1. ASSUME FlagsIInv PROVE FlagsInv
  <2>1. Signalled \/ ReloadOwed =>
            \/ ~started \/ missed \/ (loading # Nobody /\ ~loading.listed)
            \/ fwatch = "reload"
            \/ kind = "postgres" /\ (~listening \/ notified)
            \/ kind = "sqlite" /\ haveLast /\ dv # last
    BY DEF Signalled, ReloadOwed
  <2>2. F!StaleIsNoticed
    BY <1>1, <2>1 DEF FlagsIInv, StaleIsOwed, F!StaleIsNoticed
  <2> QED  BY <1>1, <2>2 DEF FlagsInv, F!Inv, FlagsIInv
<1> QED  BY <1>1, FlagsInvariance, PTL

(* No rule in the cache goes back to an older version: reload and Set hold *)
(* mu across the store's calls (client.go 164-240).                        *)
THEOREM FlagsOnlyGoForward == MCSpec => FlagsNeverGoBack
<1> DEFINE Forward == \A k \in Flags : cache'[k] >= cache[k]
<1>1. ASSUME FlagsIInv, [MCNext]_mcvars PROVE [Forward]_(F!vars)
  <2> USE FlagsAssumption
  <2>t. /\ cache \in F!Tables /\ table \in F!Tables
        /\ loading \in {Nobody} \cup [by : F!Callers, listed : BOOLEAN, rows : F!Tables]
        /\ setting \in {Nobody} \cup [key : Flags, saved : F!Versions]
    BY <1>1 DEF FlagsIInv, F!TypeOK
  <2>0. ASSUME cache' = cache PROVE Forward
    BY <2>0, <2>t DEF F!Tables, F!Versions
  <2>1. CASE F!StoreSet
    <3>1. cache' = [cache EXCEPT ![setting.key] = setting.saved] /\ setting # Nobody /\ setting.saved # 0
      BY <2>1 DEF F!StoreSet, F!Saving
    <3>2. cache[setting.key] <= setting.saved /\ setting.key \in Flags /\ setting.saved \in F!Versions
      BY <1>1, <2>t, <3>1 DEF FlagsIInv, SavedBehind
    <3> QED  BY <2>t, <3>1, <3>2 DEF F!Tables, F!Versions
  <2>2. CASE F!StoreRules
    <3>1. cache' = loading.rows /\ loading # Nobody /\ loading.listed
      BY <2>2 DEF F!StoreRules
    <3>2. (\A k \in Flags : cache[k] <= loading.rows[k]) /\ loading.rows \in F!Tables
      BY <1>1, <2>t, <3>1 DEF FlagsIInv, ListedBehind
    <3> QED  BY <2>t, <3>1, <3>2 DEF F!Tables, F!Versions
  <2>3. CASE F!Next /\ ~F!StoreSet /\ ~F!StoreRules
    <3>1. cache' = cache
      BY <2>3 DEF F!Next, F!OtherCommits, F!BeginSet, F!Save, F!SaveFails, F!BeginReload, F!List,
         F!ListFails, F!PollTicks, F!Listen, F!WaitForNotification, F!ConnectionLost,
         F!LossNoticed, F!Tick, F!TickFails
    <3> QED  BY <2>0, <3>1
  <2>4. CASE UNCHANGED fvars
    BY <2>4 DEF fvars, F!vars
  <2> QED  BY <1>1, <2>1, <2>2, <2>3, <2>4, FlagsMoves
<1>2. ASSUME FlagsIInv /\ [MCNext]_mcvars PROVE [Forward]_(F!vars)
  BY <1>1, <1>2
<1> QED  BY <1>2, FlagsInvariance, PTL DEF MCSpec, FlagsNeverGoBack, F!NeverGoesBack
=============================================================================
