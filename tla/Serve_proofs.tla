----------------------------- MODULE Serve_proofs -----------------------------
(***************************************************************************)
(* Proofs about ConnectContext, the server, sessions, uploads, the rate    *)
(* limiter and hamr sync --watch as MCLibs composes them, for any number   *)
(* of attempts, requests, sessions, times, workers, sizes, keys and edits. *)
(***************************************************************************)
EXTENDS MCLibs, FiniteSetTheorems, TLAPS

-----------------------------------------------------------------------------
(* The database.                                                           *)

(* An attempt is one ping, and the pool is open until it is handed out or  *)
(* closed.                                                                 *)
PingsCounted ==
    /\ dlate <= pings
    /\ dpc = "validate" => attempt = 0 /\ pings = 0 /\ pool = "none"
    /\ dpc = "ping" => attempt < MaxRetries /\ pings = attempt /\ pool = "open"
    /\ dpc \in {"failed", "sleep"} => attempt < MaxRetries /\ pings = attempt + 1 /\ pool = "open"
    /\ dpc = "sleep" => attempt + 1 < MaxRetries

(* The inductive invariant.                                                *)
DBIInv == D!TypeOK /\ PingsCounted /\ D!PoolIsOwned

(* Every step of ConnectContext keeps every variable in its type.          *)
LEMMA DBTypeStep ==
    ASSUME DBIInv, D!Next PROVE D!TypeOK'
<1> USE DBAssumption
<1>g. D!TypeOK
  BY DEF DBIInv
<1>dpc. dpc \in {"validate", "ping", "failed", "sleep", "returned"}
  BY <1>g DEF D!TypeOK
<1>attempt. attempt \in 0 .. MaxRetries
  BY <1>g DEF D!TypeOK
<1>pings. pings \in 0 .. MaxRetries
  BY <1>g DEF D!TypeOK
<1>dlate. dlate \in 0 .. MaxRetries
  BY <1>g DEF D!TypeOK
<1>dcanceled. dcanceled \in BOOLEAN
  BY <1>g DEF D!TypeOK
<1>pool. pool \in {"none", "open", "closed"}
  BY <1>g DEF D!TypeOK
<1>result. result \in {"none", "db", "invalid", "canceled", "connecting"}
  BY <1>g DEF D!TypeOK
<1>pc. PingsCounted
  BY DEF DBIInv
<1>1. CASE D!Validate
  <2>1. dpc' \in {"validate", "ping", "failed", "sleep", "returned"}
    BY <1>1, <1>dpc DEF D!Validate, D!Return
  <2>2. pool' \in {"none", "open", "closed"}
    BY <1>1, <1>pool DEF D!Validate, D!Return
  <2>3. result' \in {"none", "db", "invalid", "canceled", "connecting"}
    BY <1>1, <1>result DEF D!Validate, D!Return
  <2> QED BY <1>g, <1>1, <2>1, <2>2, <2>3 DEF D!TypeOK, D!Validate, D!Return
<1>2. CASE D!Ping
  <2>1. dpc' \in {"validate", "ping", "failed", "sleep", "returned"}
    BY <1>2, <1>dpc DEF D!Ping, D!Return
  <2>2. pings' \in 0 .. MaxRetries
    BY <1>pc, <1>2, <1>pings, <1>dpc, <1>attempt, <1>dlate, <1>dcanceled, <1>pool, <1>result DEF
       PingsCounted, D!Ping, D!Return
  <2>3. dlate' \in 0 .. MaxRetries
    BY <1>pc, <1>2, <1>dlate, <1>dpc, <1>attempt, <1>pings, <1>dcanceled, <1>pool, <1>result DEF
       PingsCounted, D!Ping, D!Return
  <2>4. pool' \in {"none", "open", "closed"}
    BY <1>2, <1>pool DEF D!Ping, D!Return
  <2>5. result' \in {"none", "db", "invalid", "canceled", "connecting"}
    BY <1>2, <1>result DEF D!Ping, D!Return
  <2> QED BY <1>g, <1>2, <2>1, <2>2, <2>3, <2>4, <2>5 DEF D!TypeOK, D!Ping, D!Return
<1>3. CASE D!Failed
  <2>1. dpc' \in {"validate", "ping", "failed", "sleep", "returned"}
    BY <1>3, <1>dpc DEF D!Failed, D!Return
  <2>2. pool' \in {"none", "open", "closed"}
    BY <1>3, <1>pool DEF D!Failed, D!Return
  <2>3. result' \in {"none", "db", "invalid", "canceled", "connecting"}
    BY <1>3, <1>result DEF D!Failed, D!Return
  <2> QED BY <1>g, <1>3, <2>1, <2>2, <2>3 DEF D!TypeOK, D!Failed, D!Return
<1>4. CASE D!Sleep
  <2>1. dpc' \in {"validate", "ping", "failed", "sleep", "returned"}
    BY <1>4, <1>dpc DEF D!Sleep, D!Return
  <2>2. attempt' \in 0 .. MaxRetries
    BY <1>pc, <1>4, <1>attempt, <1>dpc, <1>pings, <1>dlate, <1>dcanceled, <1>pool, <1>result DEF
       PingsCounted, D!Sleep, D!Return
  <2>3. pool' \in {"none", "open", "closed"}
    BY <1>4, <1>pool DEF D!Sleep, D!Return
  <2>4. result' \in {"none", "db", "invalid", "canceled", "connecting"}
    BY <1>4, <1>result DEF D!Sleep, D!Return
  <2> QED BY <1>g, <1>4, <2>1, <2>2, <2>3, <2>4 DEF D!TypeOK, D!Sleep, D!Return
<1>5. CASE D!Cancel
  <2>1. dcanceled' \in BOOLEAN
    BY <1>5, <1>dcanceled DEF D!Cancel
  <2> QED BY <1>g, <1>5, <2>1 DEF D!TypeOK, D!Cancel
<1> QED
  BY <1>1, <1>2, <1>3, <1>4, <1>5 DEF D!Next

(* An attempt is one ping.                                                 *)
LEMMA PingsCountedStep ==
    ASSUME DBIInv, D!Next PROVE PingsCounted'
<1> USE DBAssumption
<1>i. PingsCounted
  BY DEF DBIInv
<1>dpc. dpc \in {"validate", "ping", "failed", "sleep", "returned"}
  BY DEF DBIInv, D!TypeOK
<1>attempt. attempt \in 0 .. MaxRetries
  BY DEF DBIInv, D!TypeOK
<1>pings. pings \in 0 .. MaxRetries
  BY DEF DBIInv, D!TypeOK
<1>dlate. dlate \in 0 .. MaxRetries
  BY DEF DBIInv, D!TypeOK
<1>dcanceled. dcanceled \in BOOLEAN
  BY DEF DBIInv, D!TypeOK
<1>pool. pool \in {"none", "open", "closed"}
  BY DEF DBIInv, D!TypeOK
<1>result. result \in {"none", "db", "invalid", "canceled", "connecting"}
  BY DEF DBIInv, D!TypeOK
<1>1. CASE D!Validate
  BY <1>i, <1>1 DEF PingsCounted, D!Validate, D!Return
<1>2. CASE D!Ping
  BY <1>i, <1>2, <1>dpc, <1>pings, <1>dlate, <1>pool DEF PingsCounted, D!Ping, D!Return
<1>3. CASE D!Failed
  BY <1>i, <1>3, <1>dpc, <1>attempt, <1>pings, <1>dlate, <1>dcanceled, <1>pool, <1>result DEF
     PingsCounted, D!Failed, D!Return
<1>4. CASE D!Sleep
  BY <1>i, <1>4 DEF PingsCounted, D!Sleep, D!Return
<1>5. CASE D!Cancel
  BY <1>i, <1>5 DEF PingsCounted, D!Cancel
<1> QED
  BY <1>1, <1>2, <1>3, <1>4, <1>5 DEF D!Next

(* The pool is handed out or closed.                                       *)
LEMMA PoolStep ==
    ASSUME DBIInv, D!Next PROVE D!PoolIsOwned'
<1> USE DBAssumption
<1>i. D!PoolIsOwned
  BY DEF DBIInv
<1>pc. PingsCounted
  BY DEF DBIInv
<1>dpc. dpc \in {"validate", "ping", "failed", "sleep", "returned"}
  BY DEF DBIInv, D!TypeOK
<1>attempt. attempt \in 0 .. MaxRetries
  BY DEF DBIInv, D!TypeOK
<1>pings. pings \in 0 .. MaxRetries
  BY DEF DBIInv, D!TypeOK
<1>dlate. dlate \in 0 .. MaxRetries
  BY DEF DBIInv, D!TypeOK
<1>pool. pool \in {"none", "open", "closed"}
  BY DEF DBIInv, D!TypeOK
<1>result. result \in {"none", "db", "invalid", "canceled", "connecting"}
  BY DEF DBIInv, D!TypeOK
<1>1. CASE D!Validate
  BY <1>i, <1>1, <1>dpc, <1>attempt, <1>pings, <1>pool, <1>result, <1>pc DEF D!PoolIsOwned,
     D!Validate, D!Return, PingsCounted
<1>2. CASE D!Ping
  BY <1>i, <1>2, <1>dpc, <1>attempt, <1>pings, <1>dlate, <1>pool, <1>result, <1>pc DEF
     D!PoolIsOwned, D!Ping, D!Return, PingsCounted
<1>3. CASE D!Failed
  BY <1>i, <1>3, <1>dpc, <1>attempt, <1>pings, <1>pool, <1>result, <1>pc DEF D!PoolIsOwned,
     D!Failed, D!Return, PingsCounted
<1>4. CASE D!Sleep
  BY <1>i, <1>4 DEF D!PoolIsOwned, D!Sleep, D!Return
<1>5. CASE D!Cancel
  BY <1>i, <1>5 DEF D!PoolIsOwned, D!Cancel
<1> QED
  BY <1>1, <1>2, <1>3, <1>4, <1>5 DEF D!Next

-----------------------------------------------------------------------------
(* The server.                                                             *)

(* Until Start has returned the channel holds all the listener has said.   *)
ErrorIsKept ==
    main # "returned" =>
        /\ serving = "closing" => errCh = IF failed THEN "error" ELSE "empty"
        /\ serving = "ended" => errCh = IF failed THEN "error then closed" ELSE "closed"
        /\ serving \notin {"closing", "ended"} => errCh = "empty"

(* Nothing fails before it is served; who drains has shut down, and cleanly *)
(* if no request was left.                                                 *)
ShutFirst ==
    /\ main = "bind" => serving = "none"
    /\ serving \in {"none", "starting", "accepting"} => ~failed
    /\ main \in {"shutdown", "drain", "drainErr"} => shut
    /\ main = "drain" => inFlight = 0
    /\ outcome2 # "none" => main = "returned"
    /\ outcome2 = "nil" => shut /\ ~failed /\ inFlight = 0 /\ serving = "ended"

(* The inductive invariant.                                                *)
ServerIInv == S!TypeOK /\ ErrorIsKept /\ ShutFirst

(* Every step of the server keeps every variable in its type.              *)
LEMMA ServerTypeStep ==
    ASSUME ServerIInv, S!Next PROVE S!TypeOK'
<1> USE ServerAssumption
<1>g. S!TypeOK
  BY DEF ServerIInv
<1>main. main \in {"bind", "wait", "shutdown", "drain", "drainErr", "returned"}
  BY <1>g DEF S!TypeOK
<1>serving. serving \in {"none", "starting", "accepting", "stopping", "closing", "ended"}
  BY <1>g DEF S!TypeOK
<1>failed. failed \in BOOLEAN
  BY <1>g DEF S!TypeOK
<1>errCh. errCh \in {"empty", "error", "closed", "error then closed"}
  BY <1>g DEF S!TypeOK
<1>signaled. signaled \in BOOLEAN
  BY <1>g DEF S!TypeOK
<1>shut. shut \in BOOLEAN
  BY <1>g DEF S!TypeOK
<1>inFlight. inFlight \in 0 .. MaxInFlight
  BY <1>g DEF S!TypeOK
<1>refresh. refresh \in {"none", "running", "stopping", "ended"}
  BY <1>g DEF S!TypeOK
<1>outcome2. outcome2 \in {"none", "nil", "listen", "listener", "shutdown"}
  BY <1>g DEF S!TypeOK
<1>1. CASE S!Bind
  <2>1. main' \in {"bind", "wait", "shutdown", "drain", "drainErr", "returned"}
    BY <1>1, <1>main DEF S!Bind, S!Return
  <2>2. serving' \in {"none", "starting", "accepting", "stopping", "closing", "ended"}
    BY <1>1, <1>serving DEF S!Bind, S!Return
  <2>3. refresh' \in {"none", "running", "stopping", "ended"}
    BY <1>1, <1>refresh DEF S!Bind, S!Return
  <2>4. outcome2' \in {"none", "nil", "listen", "listener", "shutdown"}
    BY <1>1, <1>outcome2 DEF S!Bind, S!Return
  <2> QED BY <1>g, <1>1, <2>1, <2>2, <2>3, <2>4 DEF S!TypeOK, S!Bind, S!Return
<1>2. CASE S!Serve
  <2>1. serving' \in {"none", "starting", "accepting", "stopping", "closing", "ended"}
    BY <1>2, <1>serving DEF S!Serve
  <2> QED BY <1>g, <1>2, <2>1 DEF S!TypeOK, S!Serve
<1>3. CASE S!Accept
  <2>1. inFlight' \in 0 .. MaxInFlight
    BY <1>3, <1>inFlight DEF S!Accept
  <2> QED BY <1>g, <1>3, <2>1 DEF S!TypeOK, S!Accept
<1>4. CASE S!RequestEnds
  <2>1. inFlight' \in 0 .. MaxInFlight
    BY <1>4, <1>inFlight DEF S!RequestEnds
  <2> QED BY <1>g, <1>4, <2>1 DEF S!TypeOK, S!RequestEnds
<1>5. CASE S!SendError
  <2>1. serving' \in {"none", "starting", "accepting", "stopping", "closing", "ended"}
    BY <1>5, <1>serving DEF S!SendError
  <2>2. errCh' \in {"empty", "error", "closed", "error then closed"}
    BY <1>5, <1>errCh DEF S!SendError
  <2> QED BY <1>g, <1>5, <2>1, <2>2 DEF S!TypeOK, S!SendError
<1>6. CASE S!CloseErrCh
  <2>1. serving' \in {"none", "starting", "accepting", "stopping", "closing", "ended"}
    BY <1>6, <1>serving DEF S!CloseErrCh
  <2>2. errCh' \in {"empty", "error", "closed", "error then closed"}
    BY <1>6, <1>errCh DEF S!CloseErrCh
  <2> QED BY <1>g, <1>6, <2>1, <2>2 DEF S!TypeOK, S!CloseErrCh
<1>7. ASSUME NEW why \in {"closed", "error"}, S!StopServing(why) PROVE S!TypeOK'
  <2>1. serving' \in {"none", "starting", "accepting", "stopping", "closing", "ended"}
    BY <1>7, <1>serving DEF S!StopServing
  <2>2. failed' \in BOOLEAN
    BY <1>7, <1>failed DEF S!StopServing
  <2> QED BY <1>g, <1>7, <2>1, <2>2 DEF S!TypeOK, S!StopServing
<1>8. CASE S!Signal
  <2>1. signaled' \in BOOLEAN
    BY <1>8, <1>signaled DEF S!Signal
  <2> QED BY <1>g, <1>8, <2>1 DEF S!TypeOK, S!Signal
<1>9. CASE S!ShutdownElsewhere
  <2>1. shut' \in BOOLEAN
    BY <1>9, <1>shut DEF S!ShutdownElsewhere
  <2> QED BY <1>g, <1>9, <2>1 DEF S!TypeOK, S!ShutdownElsewhere
<1>10. CASE S!Woken
  <2>1. main' \in {"bind", "wait", "shutdown", "drain", "drainErr", "returned"}
    BY <1>10, <1>main DEF S!Woken, S!Return, S!Take
  <2>2. errCh' \in {"empty", "error", "closed", "error then closed"}
    BY <1>10, <1>errCh DEF S!Woken, S!Return, S!Take
  <2>3. signaled' \in BOOLEAN
    BY <1>10, <1>signaled DEF S!Woken, S!Return, S!Take
  <2>4. shut' \in BOOLEAN
    BY <1>10, <1>shut DEF S!Woken, S!Return, S!Take
  <2>5. refresh' \in {"none", "running", "stopping", "ended"}
    BY <1>10, <1>refresh DEF S!Woken, S!Return, S!Take
  <2>6. outcome2' \in {"none", "nil", "listen", "listener", "shutdown"}
    BY <1>10, <1>outcome2 DEF S!Woken, S!Return, S!Take
  <2> QED BY <1>g, <1>10, <2>1, <2>2, <2>3, <2>4, <2>5, <2>6 DEF S!TypeOK, S!Woken, S!Return,
     S!Take
<1>11. CASE S!ShutdownEnds
  <2>1. main' \in {"bind", "wait", "shutdown", "drain", "drainErr", "returned"}
    BY <1>11, <1>main DEF S!ShutdownEnds
  <2> QED BY <1>g, <1>11, <2>1 DEF S!TypeOK, S!ShutdownEnds
<1>12. CASE S!Drain
  <2>1. main' \in {"bind", "wait", "shutdown", "drain", "drainErr", "returned"}
    BY <1>12, <1>main DEF S!Drain, S!Return, S!Take
  <2>2. errCh' \in {"empty", "error", "closed", "error then closed"}
    BY <1>12, <1>errCh DEF S!Drain, S!Return, S!Take
  <2>3. refresh' \in {"none", "running", "stopping", "ended"}
    BY <1>12, <1>refresh DEF S!Drain, S!Return, S!Take
  <2>4. outcome2' \in {"none", "nil", "listen", "listener", "shutdown"}
    BY <1>12, <1>outcome2 DEF S!Drain, S!Return, S!Take
  <2> QED BY <1>g, <1>12, <2>1, <2>2, <2>3, <2>4 DEF S!TypeOK, S!Drain, S!Return, S!Take
<1>13. CASE S!RefreshEnds
  <2>1. refresh' \in {"none", "running", "stopping", "ended"}
    BY <1>13, <1>refresh DEF S!RefreshEnds
  <2> QED BY <1>g, <1>13, <2>1 DEF S!TypeOK, S!RefreshEnds
<1> QED
  BY <1>1, <1>2, <1>3, <1>4, <1>5, <1>6, <1>7, <1>8, <1>9, <1>10, <1>11, <1>12, <1>13 DEF S!Next

(* Until Start returns the channel keeps what the listener said.           *)
LEMMA ErrorIsKeptStep ==
    ASSUME ServerIInv, S!Next PROVE ErrorIsKept'
<1> USE ServerAssumption
<1>i. ErrorIsKept
  BY DEF ServerIInv
<1>sf. ShutFirst
  BY DEF ServerIInv
<1>main. main \in {"bind", "wait", "shutdown", "drain", "drainErr", "returned"}
  BY DEF ServerIInv, S!TypeOK
<1>serving. serving \in {"none", "starting", "accepting", "stopping", "closing", "ended"}
  BY DEF ServerIInv, S!TypeOK
<1>failed. failed \in BOOLEAN
  BY DEF ServerIInv, S!TypeOK
<1>errCh. errCh \in {"empty", "error", "closed", "error then closed"}
  BY DEF ServerIInv, S!TypeOK
<1>refresh. refresh \in {"none", "running", "stopping", "ended"}
  BY DEF ServerIInv, S!TypeOK
<1>outcome2. outcome2 \in {"none", "nil", "listen", "listener", "shutdown"}
  BY DEF ServerIInv, S!TypeOK
<1>1. CASE S!Bind
  BY <1>i, <1>1, <1>main, <1>serving, <1>failed, <1>errCh, <1>refresh, <1>outcome2, <1>sf DEF
     ErrorIsKept, S!Bind, S!Return, ShutFirst
<1>2. CASE S!Serve
  BY <1>i, <1>2 DEF ErrorIsKept, S!Serve
<1>3. CASE S!Accept
  <2>1. UNCHANGED <<main, serving, errCh, failed>>
    BY <1>3 DEF S!Accept
  <2> QED BY <1>i, <2>1 DEF ErrorIsKept
<1>4. CASE S!RequestEnds
  <2>1. UNCHANGED <<main, serving, errCh, failed>>
    BY <1>4 DEF S!RequestEnds
  <2> QED BY <1>i, <2>1 DEF ErrorIsKept
<1>5. CASE S!SendError
  BY <1>i, <1>5 DEF ErrorIsKept, S!SendError
<1>6. CASE S!CloseErrCh
  BY <1>i, <1>6 DEF ErrorIsKept, S!CloseErrCh
<1>7. ASSUME NEW why \in {"closed", "error"}, S!StopServing(why) PROVE ErrorIsKept'
  BY <1>i, <1>7 DEF ErrorIsKept, S!StopServing
<1>8. CASE S!Signal
  <2>1. UNCHANGED <<main, serving, errCh, failed>>
    BY <1>8 DEF S!Signal
  <2> QED BY <1>i, <2>1 DEF ErrorIsKept
<1>9. CASE S!ShutdownElsewhere
  <2>1. UNCHANGED <<main, serving, errCh, failed>>
    BY <1>9 DEF S!ShutdownElsewhere
  <2> QED BY <1>i, <2>1 DEF ErrorIsKept
<1>10. CASE S!Woken
  BY <1>i, <1>10 DEF ErrorIsKept, S!Woken, S!Return, S!Take
<1>11. CASE S!ShutdownEnds
  BY <1>i, <1>11 DEF ErrorIsKept, S!ShutdownEnds
<1>12. CASE S!Drain
  BY <1>i, <1>12 DEF ErrorIsKept, S!Drain, S!Return, S!Take
<1>13. CASE S!RefreshEnds
  <2>1. UNCHANGED <<main, serving, errCh, failed>>
    BY <1>13 DEF S!RefreshEnds
  <2> QED BY <1>i, <2>1 DEF ErrorIsKept
<1> QED
  BY <1>1, <1>2, <1>3, <1>4, <1>5, <1>6, <1>7, <1>8, <1>9, <1>10, <1>11, <1>12, <1>13 DEF S!Next

(* Nil is still returned only after a clean end.                           *)
LEMMA ShutFirstStep ==
    ASSUME ServerIInv, S!Next PROVE ShutFirst'
<1> USE ServerAssumption
<1>i. ShutFirst
  BY DEF ServerIInv
<1>ek. ErrorIsKept
  BY DEF ServerIInv
<1>main. main \in {"bind", "wait", "shutdown", "drain", "drainErr", "returned"}
  BY DEF ServerIInv, S!TypeOK
<1>serving. serving \in {"none", "starting", "accepting", "stopping", "closing", "ended"}
  BY DEF ServerIInv, S!TypeOK
<1>failed. failed \in BOOLEAN
  BY DEF ServerIInv, S!TypeOK
<1>errCh. errCh \in {"empty", "error", "closed", "error then closed"}
  BY DEF ServerIInv, S!TypeOK
<1>shut. shut \in BOOLEAN
  BY DEF ServerIInv, S!TypeOK
<1>inFlight. inFlight \in 0 .. MaxInFlight
  BY DEF ServerIInv, S!TypeOK
<1>refresh. refresh \in {"none", "running", "stopping", "ended"}
  BY DEF ServerIInv, S!TypeOK
<1>outcome2. outcome2 \in {"none", "nil", "listen", "listener", "shutdown"}
  BY DEF ServerIInv, S!TypeOK
<1>1. CASE S!Bind
  BY <1>i, <1>1 DEF ShutFirst, S!Bind, S!Return
<1>2. CASE S!Serve
  BY <1>i, <1>2 DEF ShutFirst, S!Serve
<1>3. CASE S!Accept
  BY <1>i, <1>3 DEF ShutFirst, S!Accept
<1>4. CASE S!RequestEnds
  BY <1>i, <1>4 DEF ShutFirst, S!RequestEnds
<1>5. CASE S!SendError
  BY <1>i, <1>5 DEF ShutFirst, S!SendError
<1>6. CASE S!CloseErrCh
  BY <1>i, <1>6 DEF ShutFirst, S!CloseErrCh
<1>7. ASSUME NEW why \in {"closed", "error"}, S!StopServing(why) PROVE ShutFirst'
  BY <1>i, <1>7 DEF ShutFirst, S!StopServing
<1>8. CASE S!Signal
  <2>1. UNCHANGED <<main, serving, failed, shut, inFlight, outcome2>>
    BY <1>8 DEF S!Signal
  <2> QED BY <1>i, <2>1 DEF ShutFirst
<1>9. CASE S!ShutdownElsewhere
  BY <1>i, <1>9 DEF ShutFirst, S!ShutdownElsewhere
<1>10. CASE S!Woken
  BY <1>i, <1>10 DEF ShutFirst, S!Woken, S!Return, S!Take
<1>11. CASE S!ShutdownEnds
  BY <1>i, <1>11 DEF ShutFirst, S!ShutdownEnds
<1>12. CASE S!Drain
  BY <1>i, <1>12, <1>main, <1>serving, <1>failed, <1>errCh, <1>shut, <1>inFlight, <1>refresh,
     <1>outcome2, <1>ek DEF ShutFirst, S!Drain, S!Return, S!Take, ErrorIsKept
<1>13. CASE S!RefreshEnds
  <2>1. UNCHANGED <<main, serving, failed, shut, inFlight, outcome2>>
    BY <1>13 DEF S!RefreshEnds
  <2> QED BY <1>i, <2>1 DEF ShutFirst
<1> QED
  BY <1>1, <1>2, <1>3, <1>4, <1>5, <1>6, <1>7, <1>8, <1>9, <1>10, <1>11, <1>12, <1>13 DEF S!Next

-----------------------------------------------------------------------------
(* Sessions.                                                               *)

(* The store is a function from ids; what it lacks was revoked, or was     *)
(* seen to have expired.                                                   *)
StoreIsKnown ==
    /\ sessions \in [DOMAIN sessions -> A!Records]
    /\ created \subseteq DOMAIN sessions \cup revoked \cup seenExpired
    /\ revoked \subseteq created \ DOMAIN sessions

(* A request that has begun carries a cookie that was given out; one that  *)
(* deletes has seen the session expired; one that came late finds nothing. *)
RequestsAreFair ==
    \A r \in Requests :
        /\ spc[r] # "none" => token[r] \in created
        /\ verdict[r] # "none" => spc[r] = "done"
        /\ spc[r] = "delete" => token[r] \in seenExpired
        /\ r \in late => /\ token[r] \in revoked /\ spc[r] \in {"get", "done"}
                         /\ verdict[r] # "subject"

(* The inductive invariant.                                                *)
SessionsIInv == A!TypeOK /\ StoreIsKnown /\ RequestsAreFair /\ A!NotBeforeItsTime

(* Every step of sessions keeps every variable in its type.                *)
LEMMA SessionsTypeStep ==
    ASSUME SessionsIInv, A!Next PROVE A!TypeOK'
<1> USE SessionsAssumption
<1>g. A!TypeOK
  BY DEF SessionsIInv
<1>toucher. toucher \in BOOLEAN
  BY <1>g DEF A!TypeOK
<1>time. time \in 0 .. MaxTime
  BY <1>g DEF A!TypeOK
<1>sessions. sessions \in [DOMAIN sessions -> A!Records]
  BY DEF SessionsIInv, StoreIsKnown
<1>created. created \in SUBSET Ids
  BY <1>g DEF A!TypeOK
<1>people. people \in SUBSET A!KnownSubjects
  BY <1>g DEF A!TypeOK
<1>spc. spc \in [Requests -> {"none", "get", "check", "delete", "touch", "load", "done"}]
  BY <1>g DEF A!TypeOK
<1>token. token \in [Requests -> Ids]
  BY <1>g DEF A!TypeOK
<1>read. read \in [Requests -> A!Records \cup {Nothing}]
  BY <1>g DEF A!TypeOK
<1>verdict. verdict \in [Requests -> {"none", "anonymous", "subject", "error"}]
  BY <1>g DEF A!TypeOK
<1>revoked. revoked \in SUBSET Ids
  BY <1>g DEF A!TypeOK
<1>late. late \in SUBSET Requests
  BY <1>g DEF A!TypeOK
<1>seenExpired. seenExpired \in SUBSET Ids
  BY <1>g DEF A!TypeOK
<1>1. ASSUME NEW i \in Ids, A!CreateSession(i) PROVE A!TypeOK'
  <2>1. sessions' \in [DOMAIN sessions' -> A!Records]
    <3>1. sessions' = [j \in DOMAIN sessions \cup {i} |->
                          IF j = i THEN [created |-> time, expires |-> time + Duration] ELSE sessions[j]]
      BY <1>1 DEF A!CreateSession
    <3>2. [created |-> time, expires |-> time + Duration] \in A!Records
      BY <1>time DEF A!Records, A!Times
    <3> QED BY <3>1, <3>2, <1>sessions
  <2>2. created' \in SUBSET Ids
    BY <1>1, <1>created DEF A!CreateSession
  <2> QED BY <1>g, <1>1, <2>1, <2>2 DEF A!TypeOK, A!CreateSession
<1>2. ASSUME NEW ids \in SUBSET Ids, A!Logout(ids) PROVE A!TypeOK'
  <2>1. sessions' \in [DOMAIN sessions' -> A!Records]
    BY <1>2, <1>sessions DEF A!Logout, A!Without
  <2>2. revoked' \in SUBSET Ids
    BY <1>2, <1>revoked DEF A!Logout, A!Without
  <2> QED BY <1>g, <1>2, <2>1, <2>2 DEF A!TypeOK, A!Logout, A!Without
<1>3. ASSUME NEW s \in A!KnownSubjects, A!RemoveSubject(s) PROVE A!TypeOK'
  <2>1. people' \in SUBSET A!KnownSubjects
    BY <1>3, <1>people DEF A!RemoveSubject
  <2> QED BY <1>g, <1>3, <2>1 DEF A!TypeOK, A!RemoveSubject
<1>4. ASSUME NEW r \in Requests, A!Begin(r) PROVE A!TypeOK'
  <2>1. spc' \in [Requests -> {"none", "get", "check", "delete", "touch", "load", "done"}]
    BY <1>4, <1>spc DEF A!Begin, A!To, A!Untouched
  <2>2. late' \in SUBSET Requests
    BY <1>4, <1>late DEF A!Begin, A!To, A!Untouched
  <2> QED BY <1>g, <1>4, <2>1, <2>2 DEF A!TypeOK, A!Begin, A!To, A!Untouched
<1>5. ASSUME NEW r \in Requests, A!Get(r) PROVE A!TypeOK'
  <2>1. spc' \in [Requests -> {"none", "get", "check", "delete", "touch", "load", "done"}]
    BY <1>5, <1>spc DEF A!Get, A!Answer, A!To, A!Untouched
  <2>2. read' \in [Requests -> A!Records \cup {Nothing}]
    BY <1>5, <1>read, <1>toucher, <1>time, <1>sessions, <1>created, <1>people, <1>spc, <1>token,
       <1>verdict, <1>revoked, <1>late, <1>seenExpired DEF A!Get, A!Answer, A!To, A!Untouched
  <2>3. verdict' \in [Requests -> {"none", "anonymous", "subject", "error"}]
    BY <1>5, <1>verdict DEF A!Get, A!Answer, A!To, A!Untouched
  <2> QED BY <1>g, <1>5, <2>1, <2>2, <2>3 DEF A!TypeOK, A!Get, A!Answer, A!To, A!Untouched
<1>6. ASSUME NEW r \in Requests, A!Check(r) PROVE A!TypeOK'
  <2>1. spc' \in [Requests -> {"none", "get", "check", "delete", "touch", "load", "done"}]
    BY <1>6, <1>spc DEF A!Check, A!To, A!Untouched
  <2>2. seenExpired' \in SUBSET Ids
    BY <1>6, <1>seenExpired, <1>toucher, <1>time, <1>sessions, <1>created, <1>people, <1>spc,
       <1>token, <1>read, <1>verdict, <1>revoked, <1>late DEF A!Check, A!To, A!Untouched
  <2> QED BY <1>g, <1>6, <2>1, <2>2 DEF A!TypeOK, A!Check, A!To, A!Untouched
<1>7. ASSUME NEW r \in Requests, A!DeleteExpired(r) PROVE A!TypeOK'
  <2>1. sessions' \in [DOMAIN sessions' -> A!Records]
    BY <1>7, <1>sessions DEF A!DeleteExpired, A!Without
  <2>2. spc' \in [Requests -> {"none", "get", "check", "delete", "touch", "load", "done"}]
    BY <1>7, <1>spc DEF A!DeleteExpired, A!Answer, A!To, A!Untouched, A!Without
  <2>3. verdict' \in [Requests -> {"none", "anonymous", "subject", "error"}]
    BY <1>7, <1>verdict DEF A!DeleteExpired, A!Answer, A!To, A!Untouched, A!Without
  <2> QED BY <1>g, <1>7, <2>1, <2>2, <2>3 DEF A!TypeOK, A!DeleteExpired, A!Answer, A!To,
     A!Untouched, A!Without
<1>8. ASSUME NEW r \in Requests, A!Touch(r) PROVE A!TypeOK'
  <2>1. sessions' \in [DOMAIN sessions' -> A!Records]
    <3>1. CASE sessions' = sessions
      BY <3>1, <1>sessions
    <3>2. CASE token[r] \in DOMAIN sessions /\ sessions' = [sessions EXCEPT ![token[r]].expires = time + Duration]
      <4>1. time + Duration \in A!Times
        BY <1>time DEF A!Times
      <4>2. [sessions[token[r]] EXCEPT !.expires = time + Duration] \in A!Records
        BY <4>1, <3>2, <1>sessions DEF A!Records
      <4> QED BY <4>2, <3>2, <1>sessions
    <3> QED BY <3>1, <3>2, <1>8 DEF A!Touch
  <2>2. spc' \in [Requests -> {"none", "get", "check", "delete", "touch", "load", "done"}]
    BY <1>8, <1>spc DEF A!Touch, A!To, A!Untouched
  <2> QED BY <1>g, <1>8, <2>1, <2>2 DEF A!TypeOK, A!Touch, A!To, A!Untouched
<1>9. ASSUME NEW r \in Requests, A!LoadSubject(r) PROVE A!TypeOK'
  <2>1. spc' \in [Requests -> {"none", "get", "check", "delete", "touch", "load", "done"}]
    BY <1>9, <1>spc DEF A!LoadSubject, A!Answer, A!To, A!Untouched
  <2>2. verdict' \in [Requests -> {"none", "anonymous", "subject", "error"}]
    BY <1>9, <1>verdict DEF A!LoadSubject, A!Answer, A!To, A!Untouched
  <2> QED BY <1>g, <1>9, <2>1, <2>2 DEF A!TypeOK, A!LoadSubject, A!Answer, A!To, A!Untouched
<1>10. CASE A!TimePasses
  <2>1. time' \in 0 .. MaxTime
    BY <1>10, <1>time DEF A!TimePasses
  <2> QED BY <1>g, <1>10, <2>1 DEF A!TypeOK, A!TimePasses
<1>q. \A s \in A!KnownSubjects : {i \in created : SubjectOf[i] = s} \in SUBSET Ids
  BY <1>created
<1> QED
  BY <1>q, <1>1, <1>2, <1>3, <1>4, <1>5, <1>6, <1>7, <1>8, <1>9, <1>10 DEF A!Next, A!Validate

(* What the store lacks was revoked or had expired.                        *)
LEMMA StoreIsKnownStep ==
    ASSUME SessionsIInv, A!Next PROVE StoreIsKnown'
<1> USE SessionsAssumption
<1>i. StoreIsKnown
  BY DEF SessionsIInv
<1>rf. RequestsAreFair
  BY DEF SessionsIInv
<1>time. time \in 0 .. MaxTime
  BY DEF SessionsIInv, A!TypeOK
<1>sessions. sessions \in [DOMAIN sessions -> A!Records]
  BY DEF SessionsIInv, StoreIsKnown
<1>created. created \in SUBSET Ids
  BY DEF SessionsIInv, A!TypeOK
<1>spc. spc \in [Requests -> {"none", "get", "check", "delete", "touch", "load", "done"}]
  BY DEF SessionsIInv, A!TypeOK
<1>verdict. verdict \in [Requests -> {"none", "anonymous", "subject", "error"}]
  BY DEF SessionsIInv, A!TypeOK
<1>revoked. revoked \in SUBSET Ids
  BY DEF SessionsIInv, A!TypeOK
<1>seenExpired. seenExpired \in SUBSET Ids
  BY DEF SessionsIInv, A!TypeOK
<1>1. ASSUME NEW i \in Ids, A!CreateSession(i) PROVE StoreIsKnown'
  <2>1. /\ DOMAIN sessions' = DOMAIN sessions \cup {i}
        /\ created' = created \cup {i} /\ i \notin created
        /\ UNCHANGED <<revoked, seenExpired>>
    BY <1>1 DEF A!CreateSession
  <2>2. sessions' \in [DOMAIN sessions' -> A!Records]
    <3>1. sessions' = [j \in DOMAIN sessions \cup {i} |->
                          IF j = i THEN [created |-> time, expires |-> time + Duration] ELSE sessions[j]]
      BY <1>1 DEF A!CreateSession
    <3>2. [created |-> time, expires |-> time + Duration] \in A!Records
      BY <1>time DEF A!Records, A!Times
    <3> QED BY <3>1, <3>2, <1>sessions
  <2> QED BY <2>1, <2>2, <1>i DEF StoreIsKnown
<1>2. ASSUME NEW ids \in SUBSET Ids, A!Logout(ids) PROVE StoreIsKnown'
  BY <1>i, <1>2 DEF StoreIsKnown, A!Logout, A!Without
<1>3. ASSUME NEW s \in A!KnownSubjects, A!RemoveSubject(s) PROVE StoreIsKnown'
  <2>1. UNCHANGED <<sessions, created, revoked, seenExpired>>
    BY <1>3 DEF A!RemoveSubject
  <2> QED BY <1>i, <2>1 DEF StoreIsKnown
<1>4. ASSUME NEW r \in Requests, A!Begin(r) PROVE StoreIsKnown'
  <2>1. UNCHANGED <<sessions, created, revoked, seenExpired>>
    BY <1>4 DEF A!Begin, A!To, A!Untouched
  <2> QED BY <1>i, <2>1 DEF StoreIsKnown
<1>5. ASSUME NEW r \in Requests, A!Get(r) PROVE StoreIsKnown'
  <2>1. UNCHANGED <<sessions, created, revoked, seenExpired>>
    BY <1>5 DEF A!Get, A!Answer, A!To, A!Untouched
  <2> QED BY <1>i, <2>1 DEF StoreIsKnown
<1>6. ASSUME NEW r \in Requests, A!Check(r) PROVE StoreIsKnown'
  BY <1>i, <1>6 DEF StoreIsKnown, A!Check, A!To, A!Untouched
<1>7. ASSUME NEW r \in Requests, A!DeleteExpired(r) PROVE StoreIsKnown'
  BY <1>i, <1>7, <1>sessions, <1>created, <1>spc, <1>verdict, <1>revoked, <1>seenExpired, <1>rf
     DEF StoreIsKnown, A!DeleteExpired, A!Answer, A!To, A!Untouched, A!Without, RequestsAreFair
<1>8. ASSUME NEW r \in Requests, A!Touch(r) PROVE StoreIsKnown'
  <2>1. DOMAIN sessions' = DOMAIN sessions /\ UNCHANGED <<created, revoked, seenExpired>>
    BY <1>8, <1>sessions DEF A!Touch, A!Untouched
  <2>2. sessions' \in [DOMAIN sessions -> A!Records]
    <3>1. CASE sessions' = sessions
      BY <3>1, <1>sessions
    <3>2. CASE token[r] \in DOMAIN sessions /\ sessions' = [sessions EXCEPT ![token[r]].expires = time + Duration]
      <4>1. time + Duration \in A!Times
        BY <1>time DEF A!Times
      <4>2. [sessions[token[r]] EXCEPT !.expires = time + Duration] \in A!Records
        BY <4>1, <3>2, <1>sessions DEF A!Records
      <4> QED BY <4>2, <3>2, <1>sessions
    <3> QED BY <3>1, <3>2, <1>8 DEF A!Touch
  <2> QED BY <2>1, <2>2, <1>i DEF StoreIsKnown
<1>9. ASSUME NEW r \in Requests, A!LoadSubject(r) PROVE StoreIsKnown'
  <2>1. UNCHANGED <<sessions, created, revoked, seenExpired>>
    BY <1>9 DEF A!LoadSubject, A!Answer, A!To, A!Untouched
  <2> QED BY <1>i, <2>1 DEF StoreIsKnown
<1>10. CASE A!TimePasses
  <2>1. UNCHANGED <<sessions, created, revoked, seenExpired>>
    BY <1>10 DEF A!TimePasses
  <2> QED BY <1>i, <2>1 DEF StoreIsKnown
<1>q. \A s \in A!KnownSubjects : {i \in created : SubjectOf[i] = s} \in SUBSET Ids
  BY <1>created
<1> QED
  BY <1>q, <1>1, <1>2, <1>3, <1>4, <1>5, <1>6, <1>7, <1>8, <1>9, <1>10 DEF A!Next, A!Validate

(* Requests carry a cookie that was given out, and late ones find nothing. *)
LEMMA RequestsAreFairStep ==
    ASSUME SessionsIInv, A!Next PROVE RequestsAreFair'
<1> USE SessionsAssumption
<1>i. RequestsAreFair
  BY DEF SessionsIInv
<1>sk. StoreIsKnown
  BY DEF SessionsIInv
<1>created. created \in SUBSET Ids
  BY DEF SessionsIInv, A!TypeOK
<1>spc. spc \in [Requests -> {"none", "get", "check", "delete", "touch", "load", "done"}]
  BY DEF SessionsIInv, A!TypeOK
<1>token. token \in [Requests -> Ids]
  BY DEF SessionsIInv, A!TypeOK
<1>read. read \in [Requests -> A!Records \cup {Nothing}]
  BY DEF SessionsIInv, A!TypeOK
<1>verdict. verdict \in [Requests -> {"none", "anonymous", "subject", "error"}]
  BY DEF SessionsIInv, A!TypeOK
<1>revoked. revoked \in SUBSET Ids
  BY DEF SessionsIInv, A!TypeOK
<1>late. late \in SUBSET Requests
  BY DEF SessionsIInv, A!TypeOK
<1>seenExpired. seenExpired \in SUBSET Ids
  BY DEF SessionsIInv, A!TypeOK
<1>1. ASSUME NEW i \in Ids, A!CreateSession(i) PROVE RequestsAreFair'
  BY <1>i, <1>1 DEF RequestsAreFair, A!CreateSession
<1>2. ASSUME NEW ids \in SUBSET Ids, A!Logout(ids) PROVE RequestsAreFair'
  BY <1>i, <1>2 DEF RequestsAreFair, A!Logout, A!Without
<1>3. ASSUME NEW s \in A!KnownSubjects, A!RemoveSubject(s) PROVE RequestsAreFair'
  <2>1. UNCHANGED <<spc, token, created, seenExpired, late, revoked, verdict>>
    BY <1>3 DEF A!RemoveSubject
  <2> QED BY <1>i, <2>1 DEF RequestsAreFair
<1>4. ASSUME NEW r \in Requests, A!Begin(r) PROVE RequestsAreFair'
  <2>1. /\ spc[r] = "none" /\ token[r] \in created /\ spc' = [spc EXCEPT ![r] = "get"]
        /\ late' = IF token[r] \in revoked THEN late \cup {r} ELSE late
        /\ UNCHANGED <<token, created, seenExpired, revoked, verdict>>
    BY <1>4 DEF A!Begin, A!To, A!Untouched
  <2>2. verdict[r] # "subject"
    BY <2>1, <1>i DEF RequestsAreFair
  <2> QED BY <2>1, <2>2, <1>i, <1>spc, <1>late DEF RequestsAreFair
<1>5. ASSUME NEW r \in Requests, A!Get(r) PROVE RequestsAreFair'
  BY <1>i, <1>5, <1>created, <1>spc, <1>token, <1>read, <1>verdict, <1>revoked, <1>late,
     <1>seenExpired, <1>sk DEF RequestsAreFair, A!Get, A!Answer, A!To, A!Untouched, StoreIsKnown
<1>6. ASSUME NEW r \in Requests, A!Check(r) PROVE RequestsAreFair'
  BY <1>i, <1>6 DEF RequestsAreFair, A!Check, A!To, A!Untouched
<1>7. ASSUME NEW r \in Requests, A!DeleteExpired(r) PROVE RequestsAreFair'
  BY <1>i, <1>7, <1>spc, <1>verdict DEF RequestsAreFair, A!DeleteExpired, A!Answer, A!To,
     A!Untouched, A!Without
<1>8. ASSUME NEW r \in Requests, A!Touch(r) PROVE RequestsAreFair'
  BY <1>i, <1>8 DEF RequestsAreFair, A!Touch, A!To, A!Untouched
<1>9. ASSUME NEW r \in Requests, A!LoadSubject(r) PROVE RequestsAreFair'
  BY <1>i, <1>9, <1>spc, <1>verdict DEF RequestsAreFair, A!LoadSubject, A!Answer, A!To,
     A!Untouched
<1>10. CASE A!TimePasses
  <2>1. UNCHANGED <<spc, token, created, seenExpired, late, revoked, verdict>>
    BY <1>10 DEF A!TimePasses
  <2> QED BY <1>i, <2>1 DEF RequestsAreFair
<1>q. \A s \in A!KnownSubjects : {i \in created : SubjectOf[i] = s} \in SUBSET Ids
  BY <1>created
<1> QED
  BY <1>q, <1>1, <1>2, <1>3, <1>4, <1>5, <1>6, <1>7, <1>8, <1>9, <1>10 DEF A!Next, A!Validate

(* Nobody is logged out before their time.                                 *)
LEMMA NotBeforeItsTimeStep ==
    ASSUME SessionsIInv, A!Next PROVE A!NotBeforeItsTime'
<1> USE SessionsAssumption
<1>i. A!NotBeforeItsTime
  BY DEF SessionsIInv
<1>sk. StoreIsKnown
  BY DEF SessionsIInv
<1>rf. RequestsAreFair
  BY DEF SessionsIInv
<1>toucher. toucher \in BOOLEAN
  BY DEF SessionsIInv, A!TypeOK
<1>time. time \in 0 .. MaxTime
  BY DEF SessionsIInv, A!TypeOK
<1>sessions. sessions \in [DOMAIN sessions -> A!Records]
  BY DEF SessionsIInv, StoreIsKnown
<1>created. created \in SUBSET Ids
  BY DEF SessionsIInv, A!TypeOK
<1>people. people \in SUBSET A!KnownSubjects
  BY DEF SessionsIInv, A!TypeOK
<1>spc. spc \in [Requests -> {"none", "get", "check", "delete", "touch", "load", "done"}]
  BY DEF SessionsIInv, A!TypeOK
<1>token. token \in [Requests -> Ids]
  BY DEF SessionsIInv, A!TypeOK
<1>read. read \in [Requests -> A!Records \cup {Nothing}]
  BY DEF SessionsIInv, A!TypeOK
<1>verdict. verdict \in [Requests -> {"none", "anonymous", "subject", "error"}]
  BY DEF SessionsIInv, A!TypeOK
<1>revoked. revoked \in SUBSET Ids
  BY DEF SessionsIInv, A!TypeOK
<1>late. late \in SUBSET Requests
  BY DEF SessionsIInv, A!TypeOK
<1>seenExpired. seenExpired \in SUBSET Ids
  BY DEF SessionsIInv, A!TypeOK
<1>1. ASSUME NEW i \in Ids, A!CreateSession(i) PROVE A!NotBeforeItsTime'
  <2>1. UNCHANGED <<token, revoked, seenExpired, people, verdict>>
    BY <1>1 DEF A!CreateSession
  <2> QED BY <1>i, <2>1 DEF A!NotBeforeItsTime
<1>2. ASSUME NEW ids \in SUBSET Ids, A!Logout(ids) PROVE A!NotBeforeItsTime'
  BY <1>i, <1>2 DEF A!NotBeforeItsTime, A!Logout, A!Without
<1>3. ASSUME NEW s \in A!KnownSubjects, A!RemoveSubject(s) PROVE A!NotBeforeItsTime'
  BY <1>i, <1>3 DEF A!NotBeforeItsTime, A!RemoveSubject
<1>4. ASSUME NEW r \in Requests, A!Begin(r) PROVE A!NotBeforeItsTime'
  <2>1. UNCHANGED <<token, revoked, seenExpired, people, verdict>>
    BY <1>4 DEF A!Begin, A!To, A!Untouched
  <2> QED BY <1>i, <2>1 DEF A!NotBeforeItsTime
<1>5. ASSUME NEW r \in Requests, A!Get(r) PROVE A!NotBeforeItsTime'
  BY <1>i, <1>5, <1>toucher, <1>time, <1>sessions, <1>created, <1>people, <1>spc, <1>token,
     <1>read, <1>verdict, <1>revoked, <1>late, <1>seenExpired, <1>sk, <1>rf DEF A!NotBeforeItsTime,
     A!Get, A!Answer, A!To, A!Untouched, StoreIsKnown, RequestsAreFair, A!Records, A!Times,
     A!KnownSubjects
<1>6. ASSUME NEW r \in Requests, A!Check(r) PROVE A!NotBeforeItsTime'
  BY <1>i, <1>6 DEF A!NotBeforeItsTime, A!Check, A!To, A!Untouched
<1>7. ASSUME NEW r \in Requests, A!DeleteExpired(r) PROVE A!NotBeforeItsTime'
  BY <1>i, <1>7, <1>sessions, <1>people, <1>spc, <1>token, <1>verdict, <1>revoked, <1>seenExpired,
     <1>rf DEF A!NotBeforeItsTime, A!DeleteExpired, A!Answer, A!To, A!Untouched, A!Without,
     RequestsAreFair
<1>8. ASSUME NEW r \in Requests, A!Touch(r) PROVE A!NotBeforeItsTime'
  <2>1. UNCHANGED <<token, revoked, seenExpired, people, verdict>>
    BY <1>8 DEF A!Touch, A!To, A!Untouched
  <2> QED BY <1>i, <2>1 DEF A!NotBeforeItsTime
<1>9. ASSUME NEW r \in Requests, A!LoadSubject(r) PROVE A!NotBeforeItsTime'
  BY <1>i, <1>9, <1>verdict DEF A!NotBeforeItsTime, A!LoadSubject, A!Answer, A!To, A!Untouched
<1>10. CASE A!TimePasses
  <2>1. UNCHANGED <<token, revoked, seenExpired, people, verdict>>
    BY <1>10 DEF A!TimePasses
  <2> QED BY <1>i, <2>1 DEF A!NotBeforeItsTime
<1>q. \A s \in A!KnownSubjects : {i \in created : SubjectOf[i] = s} \in SUBSET Ids
  BY <1>created
<1> QED
  BY <1>q, <1>1, <1>2, <1>3, <1>4, <1>5, <1>6, <1>7, <1>8, <1>9, <1>10 DEF A!Next, A!Validate

-----------------------------------------------------------------------------
(* Uploads.                                                                *)

(* Calls are numbered, and go through the objects in order.                *)
InOrder ==
    \A w \in Workers :
        /\ work[w].number <= calls
        /\ work[w].pc \in {"save", "delete"} => work[w].at <= Len(U!Objects)
        /\ work[w].pc = "clean" =>
               media = "image" /\ work[w].at <= work[w].written /\ work[w].written < Len(Sizes)

(* A worker is alone while it works and until the next call is made; while *)
(* there is no residue, all who work are.                                  *)
AloneIsAlone ==
    /\ \A w \in alone : U!Busy(w) \/ U!Latest(w) => \A v \in Workers \ {w} : ~U!Busy(v)
    /\ ~residue => \A w \in Workers : U!Busy(w) => w \in alone

(* What a worker that is alone has done so far.                            *)
SoFar(w) ==
    /\ work[w].pc = "probe" => stored = before[w]
    /\ work[w].pc = "save" => \A i \in 1 .. work[w].at - 1 : stored[U!Objects[i]] = work[w].number
    /\ work[w].pc = "delete" => \A i \in 1 .. work[w].at - 1 : stored[U!Objects[i]] = 0
    /\ work[w].pc = "clean" => residue \/ \A i \in 1 .. work[w].at - 1 : stored[U!Objects[i]] = 0

(* A new id holds only what its upload has saved and not cleaned up.       *)
OnlyItsOwn(w) ==
    before[w] = U!Empty /\ ~residue =>
        /\ work[w].pc \in {"probe", "prepare", "delete"} => stored = U!Empty
        /\ work[w].pc = "save" =>
               \A n \in U!Names : stored[n] # 0 => \E i \in 1 .. work[w].at - 1 : n = U!Objects[i]
        /\ work[w].pc = "clean" =>
               \A n \in U!Names : stored[n] # 0 =>
                   \E i \in work[w].at .. work[w].written : n = U!Objects[i]

(* What the latest call has left, by how it ended.                         *)
LeftBehind(w) ==
    U!Latest(w) =>
        /\ work[w].pc = "done" =>
               /\ stored[U!Objects[1]] = work[w].number
               /\ \A n \in U!InUse \ {"thumb"} : stored[n] = work[w].number
               /\ media = "image" \/ stored["thumb"] = work[w].number \/ badThumb
        /\ work[w].pc = "failed" /\ before[w] = U!Empty => residue \/ stored = U!Empty
        /\ work[w].pc = "exists" => stored = before[w] /\ stored[U!Objects[1]] # 0
        /\ work[w].pc = "removed" => \A n \in U!InUse : stored[n] = 0 \/ (n = "thumb" /\ badThumb)

(* Where no call has stored or removed anything yet, the first object      *)
(* speaks for all.                                                         *)
Untouched(w) ==
    ~U!Busy(w) \/ work[w].pc \in {"probe", "prepare"} \/ (work[w].pc \in {"save", "delete"} /\ work[w].at = 1)
FirstSpeaks ==
    ~residue /\ (\A w \in Workers : Untouched(w)) /\ stored[U!Objects[1]] # 0 =>
        \A n \in U!InUse : stored[n] = stored[U!Objects[1]] \/ (media = "video" /\ badThumb)

(* The inductive invariant.                                                *)
MediaIInv ==
    /\ U!TypeOK /\ InOrder /\ AloneIsAlone /\ FirstSpeaks
    /\ \A w \in alone : SoFar(w) /\ OnlyItsOwn(w) /\ LeftBehind(w)

(* What a worker's record may be.                                          *)
Works == [pc : U!Pcs, number : 0 .. MaxCalls, at : 1 .. Len(Sizes) + 2, written : 0 .. Len(Sizes)]

(* There is an object, and each has a name.                                *)
LEMMA ObjectsAreNamed ==
    ASSUME media \in {"image", "video"}
    PROVE  /\ U!Objects \in Seq(U!Names) /\ Len(U!Objects) \in 1 .. Len(Sizes) + 2
           /\ \A i \in 1 .. Len(U!Objects) : U!Objects[i] \in U!Names
           /\ U!InUse = {U!Objects[i] : i \in 1 .. Len(U!Objects)}
           /\ media = "image" => Len(U!Objects) = Len(Sizes) /\ "thumb" \notin U!InUse
           /\ media = "video" => /\ Len(U!Objects) = 2 /\ U!Objects[1] = "video"
                                 /\ U!Objects[2] = "thumb" /\ U!InUse = {"video", "thumb"}
           /\ {"video", "thumb"} \subseteq U!Names
<1> USE MediaAssumption
<1>0. Len(Sizes) \in Nat /\ Len(Sizes) >= 1 /\ Sizes \in Seq(U!Names)
  OBVIOUS
<1>1. {"video", "thumb"} \subseteq U!Names
  BY DEF U!Names
<1>2. CASE media = "image"
  <2>1. U!Objects = Sizes
    BY <1>2 DEF U!Objects
  <2>2. \A i \in 1 .. Len(Sizes) : Sizes[i] \in U!Names \ {"video", "thumb"}
    OBVIOUS
  <2>3. U!InUse = {U!Objects[i] : i \in 1 .. Len(U!Objects)}
    BY DEF U!InUse, U!ToSet
  <2>4. "thumb" \notin U!InUse
    BY <2>1, <2>2, <2>3
  <2> QED BY <1>0, <1>1, <1>2, <2>1, <2>2, <2>3, <2>4
<1>3. CASE media = "video"
  <2>1. U!Objects = <<"video", "thumb">>
    BY <1>3 DEF U!Objects
  <2>2. U!Objects \in Seq(U!Names) /\ Len(U!Objects) = 2 /\ U!Objects[1] = "video" /\ U!Objects[2] = "thumb"
    BY <2>1, <1>1
  <2>3. U!InUse = {U!Objects[i] : i \in 1 .. Len(U!Objects)}
    BY DEF U!InUse, U!ToSet
  <2>4. U!InUse = {"video", "thumb"}
    BY <2>2, <2>3
  <2> QED BY <1>0, <1>1, <1>3, <2>2, <2>3, <2>4
<1> QED BY <1>2, <1>3

(* What a step of a worker does to the workers.                            *)
StepOf(w) ==
    /\ U!Busy(w) /\ UNCHANGED <<media, remote, calls, alone, before>>
    /\ work' \in [Workers -> Works] /\ \A v \in Workers \ {w} : work'[v] = work[v]
    /\ work'[w].number = work[w].number
    /\ U!Objects' = U!Objects /\ U!InUse' = U!InUse
    /\ ~residue' => ~residue \/ w \in alone

(* The others that were alone have ended, and are not the latest.          *)
LEMMA OthersAreOver ==
    ASSUME MediaIInv, NEW w \in Workers, U!Busy(w), NEW v \in alone \ {w}
    PROVE  v \in Workers /\ ~U!Busy(v) /\ ~U!Latest(v)
  BY DEF MediaIInv, AloneIsAlone, U!TypeOK

(* A step of a worker disturbs nobody who is alone but itself.             *)
LEMMA StepKeepsAlone ==
    ASSUME MediaIInv, NEW w \in Workers, StepOf(w) PROVE AloneIsAlone'
<1>1. AloneIsAlone /\ U!Busy(w) /\ alone \subseteq Workers
  BY DEF MediaIInv, StepOf, U!TypeOK
<1>2. \A v \in Workers : (U!Busy(v)' => U!Busy(v)) /\ (U!Latest(v)' <=> U!Latest(v))
  BY <1>1 DEF StepOf, U!Busy, U!Latest
<1>3. \A v \in alone : U!Busy(v)' \/ U!Latest(v)' => \A u \in Workers \ {v} : ~U!Busy(u)'
  BY <1>1, <1>2 DEF AloneIsAlone
<1>4. ~residue' => \A u \in Workers : U!Busy(u) => u \in alone
  BY <1>1 DEF AloneIsAlone, StepOf
<1> QED BY <1>2, <1>3, <1>4 DEF AloneIsAlone, StepOf

LEMMA StepKeepsOthers ==
    ASSUME MediaIInv, NEW w \in Workers, StepOf(w), NEW v \in alone \ {w}
    PROVE  SoFar(v)' /\ OnlyItsOwn(v)' /\ LeftBehind(v)'
<1>1. v \in Workers /\ ~U!Busy(v) /\ ~U!Latest(v)
  BY OthersAreOver DEF StepOf
<1>2. work'[v] = work[v] /\ calls' = calls
  BY <1>1 DEF StepOf
<1>3. ~U!Latest(v)'
  BY <1>1, <1>2 DEF U!Latest
<1>4. work'[v].pc \notin {"probe", "prepare", "save", "clean", "delete"}
  BY <1>1, <1>2 DEF U!Busy, U!AtRest, MediaIInv, U!TypeOK
<1> QED BY <1>3, <1>4 DEF SoFar, OnlyItsOwn, LeftBehind

(* Nothing stored is the empty store.                                      *)
LEMMA EmptyMeans ==
    ASSUME NEW t \in [U!Names -> 0 .. MaxCalls]
    PROVE  t = U!Empty <=> \A n \in U!Names : t[n] = 0
  BY DEF U!Empty

(* A record with three of its fields replaced.                             *)
LEMMA FieldsAre ==
    ASSUME NEW r \in Works, NEW a, NEW n, NEW b
    PROVE  [r EXCEPT !.pc = a, !.at = n, !.written = b]
             = [pc |-> a, number |-> r.number, at |-> n, written |-> b]
<1> DEFINE r1 == [r EXCEPT !.pc = a]
           r2 == [r1 EXCEPT !.at = n]
<1>1. r1 = [pc |-> a, number |-> r.number, at |-> r.at, written |-> r.written]
  BY DEF Works
<1>2. r1 \in [pc : {a}, number : {r.number}, at : {r.at}, written : {r.written}]
  BY <1>1
<1> HIDE DEF r1
<1>3. r2 = [pc |-> r1.pc, number |-> r1.number, at |-> n, written |-> r1.written]
  BY <1>2
<1>4. r2 \in [pc : {a}, number : {r.number}, at : {n}, written : {r.written}]
  BY <1>2, <1>3
<1> HIDE DEF r2
<1>5. [r2 EXCEPT !.written = b] = [pc |-> r2.pc, number |-> r2.number, at |-> r2.at, written |-> b]
  BY <1>4
<1>6. [r2 EXCEPT !.written = b] = [pc |-> a, number |-> r.number, at |-> n, written |-> b]
  BY <1>4, <1>5
<1> QED BY <1>6 DEF r1, r2

(* What Goto, a failed save and the next object do to a record.            *)
LEMMA GotoIs ==
    ASSUME work \in [Workers -> Works], NEW w \in Workers, NEW p
    PROVE  U!Goto(w, p) =>
             work' = [work EXCEPT ![w] = [pc |-> p, number |-> work[w].number, at |-> 1, written |-> 0]]
<1>0. work[w] \in Works
  OBVIOUS
<1>1. [work[w] EXCEPT !.pc = p, !.at = 1, !.written = 0]
        = [pc |-> p, number |-> work[w].number, at |-> 1, written |-> 0]
  <2>1. \A n, b : [work[w] EXCEPT !.pc = p, !.at = n, !.written = b]
                    = [pc |-> p, number |-> work[w].number, at |-> n, written |-> b]
    BY <1>0, FieldsAre
  <2> QED BY <2>1
<1>2. U!Goto(w, p) => work' = [work EXCEPT ![w] = [work[w] EXCEPT !.pc = p, !.at = 1, !.written = 0]]
  BY DEF U!Goto
<1> QED BY <1>1, <1>2

LEMMA FailsIs ==
    ASSUME work \in [Workers -> Works], NEW w \in Workers, NEW a, NEW b
    PROVE  [work EXCEPT ![w].pc = a, ![w].at = 1, ![w].written = b]
             = [work EXCEPT ![w] = [pc |-> a, number |-> work[w].number, at |-> 1, written |-> b]]
<1>0. work[w] \in Works
  OBVIOUS
<1>1. [work[w] EXCEPT !.pc = a, !.at = 1, !.written = b]
        = [pc |-> a, number |-> work[w].number, at |-> 1, written |-> b]
  <2>1. \A x, n, y : [work[w] EXCEPT !.pc = x, !.at = n, !.written = y]
                       = [pc |-> x, number |-> work[w].number, at |-> n, written |-> y]
    BY <1>0, FieldsAre
  <2> QED BY <2>1
<1>2. [work EXCEPT ![w].pc = a, ![w].at = 1, ![w].written = b]
        = [work EXCEPT ![w] = [work[w] EXCEPT !.pc = a, !.at = 1, !.written = b]]
  OBVIOUS
<1> QED BY <1>1, <1>2

LEMMA NextIs ==
    ASSUME work \in [Workers -> Works], NEW w \in Workers, NEW n
    PROVE  [work EXCEPT ![w].at = n]
             = [work EXCEPT ![w] = [pc |-> work[w].pc, number |-> work[w].number, at |-> n,
                                    written |-> work[w].written]]
<1>1. [work[w] EXCEPT !.at = n]
        = [pc |-> work[w].pc, number |-> work[w].number, at |-> n, written |-> work[w].written]
  BY DEF Works
<1> QED BY <1>1

(* Looking for the first object.                                           *)
LEMMA ProbeStep ==
    ASSUME MediaIInv, NEW w \in Workers, U!Probe(w) PROVE MediaIInv'
<1> USE MediaAssumption
<1>g. /\ media \in {"image", "video"} /\ remote \in BOOLEAN
      /\ stored \in [U!Names -> 0 .. MaxCalls] /\ calls \in 0 .. MaxCalls /\ work \in [Workers -> Works]
      /\ alone \subseteq Workers /\ before \in [Workers -> [U!Names -> 0 .. MaxCalls]]
      /\ residue \in BOOLEAN /\ badThumb \in BOOLEAN
  BY DEF MediaIInv, U!TypeOK, Works
<1>i. InOrder /\ AloneIsAlone /\ FirstSpeaks
  BY DEF MediaIInv
<1>a. w \in alone => SoFar(w) /\ OnlyItsOwn(w) /\ LeftBehind(w)
  BY DEF MediaIInv
<1>o. Len(U!Objects) \in 1 .. Len(Sizes) + 2 /\ \A i \in 1 .. Len(U!Objects) : U!Objects[i] \in U!Names
  BY <1>g, ObjectsAreNamed
<1>u. U!InUse = {U!Objects[i] : i \in 1 .. Len(U!Objects)}
  BY <1>g, ObjectsAreNamed
<1>b. work[w].pc = "probe"
  BY DEF U!Probe
<1>m. media \in {"image", "video"}
  BY <1>g
<1>v. Len(U!Objects) >= 1
  BY <1>o
<1>z. Len(Sizes) \in Nat /\ Len(Sizes) >= 1 /\ 0 \in 0 .. MaxCalls
  OBVIOUS
<1>n. work[w] \in Works
  BY <1>g
<1>q. /\ work[w].number \in 0 .. MaxCalls /\ work[w].at \in 1 .. Len(Sizes) + 2
      /\ work[w].written \in 0 .. Len(Sizes) /\ work[w].number <= calls
  BY <1>n, <1>i DEF Works, InOrder
<1>r. /\ work[w].pc \in {"save", "delete"} => work[w].at <= Len(U!Objects)
      /\ work[w].pc = "clean" =>
             media = "image" /\ work[w].at <= work[w].written /\ work[w].written < Len(Sizes)
  BY <1>i DEF InOrder
<1>c. UNCHANGED <<media, remote, calls, alone, before>>
  BY DEF U!Probe, U!Same
<1>0. \/ /\ work' = [work EXCEPT ![w] = [pc |-> "failed", number |-> work[w].number, at |-> 1, written |-> 0]]
         /\ stored' = stored
         /\ residue' = residue /\ badThumb' = badThumb
      \/ /\ stored[U!Objects[1]] # 0
         /\ work' = [work EXCEPT ![w] = [pc |-> "exists", number |-> work[w].number, at |-> 1, written |-> 0]]
         /\ stored' = stored
         /\ residue' = residue /\ badThumb' = badThumb
      \/ /\ stored[U!Objects[1]] = 0
         /\ work' = [work EXCEPT ![w] = [pc |-> "prepare", number |-> work[w].number, at |-> 1, written |-> 0]]
         /\ stored' = stored
         /\ residue' = residue /\ badThumb' = badThumb
  BY <1>b, <1>n, <1>g, GotoIs, NextIs, FailsIs DEF U!Probe, U!Returns, U!Same
<1>1. work' \in [Workers -> Works] /\ stored' \in [U!Names -> 0 .. MaxCalls] /\ residue' \in BOOLEAN /\ badThumb' \in BOOLEAN
  <2>1. work' \in [Workers -> Works]
    <3>1. CASE work' = [work EXCEPT ![w] = [pc |-> "failed", number |-> work[w].number, at |-> 1, written |-> 0]]
      <4>1. [pc |-> "failed", number |-> work[w].number, at |-> 1, written |-> 0] \in Works
        BY <3>1, <1>b, <1>m, <1>q, <1>r, <1>o, <1>v, <1>z DEF Works, U!Pcs
      <4> QED BY <4>1, <3>1, <1>g
    <3>2. CASE /\ stored[U!Objects[1]] # 0
               /\ work' = [work EXCEPT ![w] = [pc |-> "exists", number |-> work[w].number, at |-> 1, written |-> 0]]
      <4>1. [pc |-> "exists", number |-> work[w].number, at |-> 1, written |-> 0] \in Works
        BY <3>2, <1>b, <1>m, <1>q, <1>r, <1>o, <1>v, <1>z DEF Works, U!Pcs
      <4> QED BY <4>1, <3>2, <1>g
    <3>3. CASE /\ stored[U!Objects[1]] = 0
               /\ work' = [work EXCEPT ![w] = [pc |-> "prepare", number |-> work[w].number, at |-> 1, written |-> 0]]
      <4>1. [pc |-> "prepare", number |-> work[w].number, at |-> 1, written |-> 0] \in Works
        BY <3>3, <1>b, <1>m, <1>q, <1>r, <1>o, <1>v, <1>z DEF Works, U!Pcs
      <4> QED BY <4>1, <3>3, <1>g
    <3> QED BY <1>0, <3>1, <3>2, <3>3
  <2>2. stored' \in [U!Names -> 0 .. MaxCalls]
    BY <1>0, <1>b, <1>m, <1>q, <1>r, <1>g, <1>o, <1>v, <1>z
  <2> QED BY <2>1, <2>2, <1>0, <1>g
<1>2. U!TypeOK'
  BY <1>1, <1>c, <1>g DEF U!TypeOK, Works
<1>3. StepOf(w)
  <2>1. U!Busy(w)
    BY <1>b DEF U!Busy, U!AtRest
  <2>2. (\A v \in Workers \ {w} : work'[v] = work[v]) /\ work'[w].number = work[w].number
    BY <1>0, <1>g
  <2>3. U!Objects' = U!Objects /\ U!InUse' = U!InUse
    BY <1>c DEF U!Objects, U!InUse
  <2>4. ~residue' => ~residue \/ w \in alone
    BY <1>0, <1>g
  <2> QED BY <1>1, <1>c, <2>1, <2>2, <2>3, <2>4 DEF StepOf
<1>4. InOrder'
  <2>1. \A v \in Workers \ {w} : work'[v] = work[v]
    BY <1>3 DEF StepOf
  <2>2. /\ work'[w].number <= calls
        /\ work'[w].pc \in {"save", "delete"} => work'[w].at <= Len(U!Objects)
        /\ work'[w].pc = "clean" =>
               media = "image" /\ work'[w].at <= work'[w].written /\ work'[w].written < Len(Sizes)
    <3>1. CASE work' = [work EXCEPT ![w] = [pc |-> "failed", number |-> work[w].number, at |-> 1, written |-> 0]]
      <4>1. work'[w].pc = "failed" /\ work'[w].number = work[w].number /\ work'[w].at = 1 /\ work'[w].written = 0
        BY <3>1, <1>g
      <4> QED BY <4>1, <3>1, <1>b, <1>m, <1>q, <1>r, <1>o, <1>v, <1>z
    <3>2. CASE /\ stored[U!Objects[1]] # 0
               /\ work' = [work EXCEPT ![w] = [pc |-> "exists", number |-> work[w].number, at |-> 1, written |-> 0]]
      <4>1. work'[w].pc = "exists" /\ work'[w].number = work[w].number /\ work'[w].at = 1 /\ work'[w].written = 0
        BY <3>2, <1>g
      <4> QED BY <4>1, <3>2, <1>b, <1>m, <1>q, <1>r, <1>o, <1>v, <1>z
    <3>3. CASE /\ stored[U!Objects[1]] = 0
               /\ work' = [work EXCEPT ![w] = [pc |-> "prepare", number |-> work[w].number, at |-> 1, written |-> 0]]
      <4>1. work'[w].pc = "prepare" /\ work'[w].number = work[w].number /\ work'[w].at = 1 /\ work'[w].written = 0
        BY <3>3, <1>g
      <4> QED BY <4>1, <3>3, <1>b, <1>m, <1>q, <1>r, <1>o, <1>v, <1>z
    <3> QED BY <1>0, <3>1, <3>2, <3>3
  <2> QED BY <2>1, <2>2, <1>i, <1>c, <1>3 DEF InOrder, StepOf
<1>5. AloneIsAlone'
  BY <1>3, StepKeepsAlone
<1>6. ASSUME w \in alone PROVE SoFar(w)' /\ OnlyItsOwn(w)' /\ LeftBehind(w)'
  <2>a. SoFar(w) /\ OnlyItsOwn(w) /\ LeftBehind(w)
    BY <1>6, <1>a
  <2>o. U!Objects' = U!Objects /\ U!InUse' = U!InUse
    BY <1>3 DEF StepOf
  <2>1. CASE /\ work' = [work EXCEPT ![w] = [pc |-> "failed", number |-> work[w].number, at |-> 1, written |-> 0]]
             /\ stored' = stored
             /\ residue' = residue /\ badThumb' = badThumb
    <3>1. /\ work'[w].pc = "failed" /\ work'[w].at = 1 /\ work'[w].written = 0
          /\ work'[w].number = work[w].number
          /\ stored' = stored
          /\ residue' = residue /\ badThumb' = badThumb
      BY <2>1, <1>g
    <3>2. SoFar(w)'
      BY <3>1, <1>b, <1>c DEF SoFar
    <3>3. OnlyItsOwn(w)'
      BY <3>1, <1>b, <1>c DEF OnlyItsOwn
    <3>4. LeftBehind(w)'
      BY <3>1, <1>b, <1>c, <2>a, <2>o, <1>n, <1>g DEF SoFar, OnlyItsOwn, LeftBehind
    <3> QED BY <3>2, <3>3, <3>4
  <2>2. CASE /\ stored[U!Objects[1]] # 0
             /\ work' = [work EXCEPT ![w] = [pc |-> "exists", number |-> work[w].number, at |-> 1, written |-> 0]]
             /\ stored' = stored
             /\ residue' = residue /\ badThumb' = badThumb
    <3>1. /\ work'[w].pc = "exists" /\ work'[w].at = 1 /\ work'[w].written = 0
          /\ work'[w].number = work[w].number
          /\ stored' = stored
          /\ residue' = residue /\ badThumb' = badThumb
          /\ stored[U!Objects[1]] # 0
      BY <2>2, <1>g
    <3>2. SoFar(w)'
      BY <3>1, <1>b, <1>c DEF SoFar
    <3>3. OnlyItsOwn(w)'
      BY <3>1, <1>b, <1>c DEF OnlyItsOwn
    <3>4. LeftBehind(w)'
      BY <3>1, <1>b, <1>c, <2>a, <2>o, <1>n, <1>g DEF SoFar, OnlyItsOwn, LeftBehind
    <3> QED BY <3>2, <3>3, <3>4
  <2>3. CASE /\ stored[U!Objects[1]] = 0
             /\ work' = [work EXCEPT ![w] = [pc |-> "prepare", number |-> work[w].number, at |-> 1, written |-> 0]]
             /\ stored' = stored
             /\ residue' = residue /\ badThumb' = badThumb
    <3>1. /\ work'[w].pc = "prepare" /\ work'[w].at = 1 /\ work'[w].written = 0
          /\ work'[w].number = work[w].number
          /\ stored' = stored
          /\ residue' = residue /\ badThumb' = badThumb
          /\ stored[U!Objects[1]] = 0
      BY <2>3, <1>g
    <3>2. SoFar(w)'
      BY <3>1, <1>b, <1>c DEF SoFar
    <3>3. OnlyItsOwn(w)'
      BY <3>1, <1>b, <1>c, <2>a, <2>o, <1>n DEF OnlyItsOwn
    <3>4. LeftBehind(w)'
      BY <3>1, <1>b, <1>c DEF LeftBehind
    <3> QED BY <3>2, <3>3, <3>4
  <2> QED BY <1>0, <2>1, <2>2, <2>3
<1>7. FirstSpeaks'
  <2> SUFFICES ASSUME ~residue', \A v \in Workers : Untouched(v)', stored'[U!Objects'[1]] # 0
             PROVE  \A n \in U!InUse' : stored'[n] = stored'[U!Objects'[1]] \/ (media' = "video" /\ badThumb')
    BY DEF FirstSpeaks
  <2>o. U!Objects' = U!Objects /\ U!InUse' = U!InUse
    BY <1>3 DEF StepOf
  <2>w. w \in alone
    BY <1>3, <1>i DEF StepOf, AloneIsAlone
  <2>a. SoFar(w) /\ OnlyItsOwn(w)
    BY <2>w, <1>a
  <2>b. SoFar(w)' /\ OnlyItsOwn(w)' /\ LeftBehind(w)'
    BY <2>w, <1>6
  <2>t. Untouched(w)'
    OBVIOUS
  <2>p. \A v \in Workers \ {w} : Untouched(v)
    BY <1>3 DEF StepOf, Untouched, U!Busy
  <2>1. CASE /\ work' = [work EXCEPT ![w] = [pc |-> "failed", number |-> work[w].number, at |-> 1, written |-> 0]]
             /\ stored' = stored
             /\ residue' = residue /\ badThumb' = badThumb
    <3>1. /\ work'[w].pc = "failed" /\ work'[w].at = 1 /\ work'[w].written = 0
          /\ work'[w].number = work[w].number
          /\ stored' = stored
          /\ residue' = residue /\ badThumb' = badThumb
      BY <2>1, <1>g
    <3> QED
      BY <3>1, <1>b, <1>c, <2>o, <1>n, <1>o, <1>g, <1>z, <1>u, <1>v, <2>p, <1>i DEF FirstSpeaks,
         Untouched
  <2>2. CASE /\ stored[U!Objects[1]] # 0
             /\ work' = [work EXCEPT ![w] = [pc |-> "exists", number |-> work[w].number, at |-> 1, written |-> 0]]
             /\ stored' = stored
             /\ residue' = residue /\ badThumb' = badThumb
    <3>1. /\ work'[w].pc = "exists" /\ work'[w].at = 1 /\ work'[w].written = 0
          /\ work'[w].number = work[w].number
          /\ stored' = stored
          /\ residue' = residue /\ badThumb' = badThumb
          /\ stored[U!Objects[1]] # 0
      BY <2>2, <1>g
    <3> QED
      BY <3>1, <1>b, <1>c, <2>o, <1>n, <1>o, <1>g, <1>z, <1>u, <1>v, <2>p, <1>i DEF FirstSpeaks,
         Untouched
  <2>3. CASE /\ stored[U!Objects[1]] = 0
             /\ work' = [work EXCEPT ![w] = [pc |-> "prepare", number |-> work[w].number, at |-> 1, written |-> 0]]
             /\ stored' = stored
             /\ residue' = residue /\ badThumb' = badThumb
    <3>1. /\ work'[w].pc = "prepare" /\ work'[w].at = 1 /\ work'[w].written = 0
          /\ work'[w].number = work[w].number
          /\ stored' = stored
          /\ residue' = residue /\ badThumb' = badThumb
          /\ stored[U!Objects[1]] = 0
      BY <2>3, <1>g
    <3> QED
      BY <3>1, <1>b, <1>c, <2>o, <1>n, <1>o, <1>g, <1>z, <1>u, <1>v, <2>p, <1>i DEF FirstSpeaks,
         Untouched
  <2> QED BY <1>0, <2>1, <2>2, <2>3
<1>8. \A v \in alone' : SoFar(v)' /\ OnlyItsOwn(v)' /\ LeftBehind(v)'
  BY <1>3, <1>6, <1>c, StepKeepsOthers
<1> QED BY <1>2, <1>4, <1>5, <1>7, <1>8 DEF MediaIInv

(* Reading and converting the payload.                                     *)
LEMMA PrepareStep ==
    ASSUME MediaIInv, NEW w \in Workers, U!Prepare(w) PROVE MediaIInv'
<1> USE MediaAssumption
<1>g. /\ media \in {"image", "video"} /\ remote \in BOOLEAN
      /\ stored \in [U!Names -> 0 .. MaxCalls] /\ calls \in 0 .. MaxCalls /\ work \in [Workers -> Works]
      /\ alone \subseteq Workers /\ before \in [Workers -> [U!Names -> 0 .. MaxCalls]]
      /\ residue \in BOOLEAN /\ badThumb \in BOOLEAN
  BY DEF MediaIInv, U!TypeOK, Works
<1>i. InOrder /\ AloneIsAlone /\ FirstSpeaks
  BY DEF MediaIInv
<1>a. w \in alone => SoFar(w) /\ OnlyItsOwn(w) /\ LeftBehind(w)
  BY DEF MediaIInv
<1>o. Len(U!Objects) \in 1 .. Len(Sizes) + 2 /\ \A i \in 1 .. Len(U!Objects) : U!Objects[i] \in U!Names
  BY <1>g, ObjectsAreNamed
<1>u. U!InUse = {U!Objects[i] : i \in 1 .. Len(U!Objects)}
  BY <1>g, ObjectsAreNamed
<1>b. work[w].pc = "prepare"
  BY DEF U!Prepare
<1>m. media \in {"image", "video"}
  BY <1>g
<1>v. Len(U!Objects) >= 1
  BY <1>o
<1>z. Len(Sizes) \in Nat /\ Len(Sizes) >= 1 /\ 0 \in 0 .. MaxCalls
  OBVIOUS
<1>n. work[w] \in Works
  BY <1>g
<1>q. /\ work[w].number \in 0 .. MaxCalls /\ work[w].at \in 1 .. Len(Sizes) + 2
      /\ work[w].written \in 0 .. Len(Sizes) /\ work[w].number <= calls
  BY <1>n, <1>i DEF Works, InOrder
<1>r. /\ work[w].pc \in {"save", "delete"} => work[w].at <= Len(U!Objects)
      /\ work[w].pc = "clean" =>
             media = "image" /\ work[w].at <= work[w].written /\ work[w].written < Len(Sizes)
  BY <1>i DEF InOrder
<1>c. UNCHANGED <<media, remote, calls, alone, before>>
  BY DEF U!Prepare, U!Same
<1>0. \/ /\ work' = [work EXCEPT ![w] = [pc |-> "save", number |-> work[w].number, at |-> 1, written |-> 0]]
         /\ stored' = stored
         /\ residue' = residue /\ badThumb' = badThumb
      \/ /\ work' = [work EXCEPT ![w] = [pc |-> "failed", number |-> work[w].number, at |-> 1, written |-> 0]]
         /\ stored' = stored
         /\ residue' = residue /\ badThumb' = badThumb
  <2>1. U!Goto(w, "save") => work' = [work EXCEPT ![w] = [pc |-> "save", number |-> work[w].number, at |-> 1, written |-> 0]]
    BY <1>g, GotoIs
  <2>2. U!Goto(w, "failed") => work' = [work EXCEPT ![w] = [pc |-> "failed", number |-> work[w].number, at |-> 1, written |-> 0]]
    BY <1>g, GotoIs
  <2> QED BY <2>1, <2>2 DEF U!Prepare, U!Returns
<1>1. work' \in [Workers -> Works] /\ stored' \in [U!Names -> 0 .. MaxCalls] /\ residue' \in BOOLEAN /\ badThumb' \in BOOLEAN
  <2>1. work' \in [Workers -> Works]
    <3>1. CASE work' = [work EXCEPT ![w] = [pc |-> "save", number |-> work[w].number, at |-> 1, written |-> 0]]
      <4>1. [pc |-> "save", number |-> work[w].number, at |-> 1, written |-> 0] \in Works
        BY <3>1, <1>b, <1>m, <1>q, <1>r, <1>o, <1>v, <1>z DEF Works, U!Pcs
      <4> QED BY <4>1, <3>1, <1>g
    <3>2. CASE work' = [work EXCEPT ![w] = [pc |-> "failed", number |-> work[w].number, at |-> 1, written |-> 0]]
      <4>1. [pc |-> "failed", number |-> work[w].number, at |-> 1, written |-> 0] \in Works
        BY <3>2, <1>b, <1>m, <1>q, <1>r, <1>o, <1>v, <1>z DEF Works, U!Pcs
      <4> QED BY <4>1, <3>2, <1>g
    <3> QED BY <1>0, <3>1, <3>2
  <2>2. stored' \in [U!Names -> 0 .. MaxCalls]
    BY <1>0, <1>b, <1>m, <1>q, <1>r, <1>g, <1>o, <1>v, <1>z
  <2> QED BY <2>1, <2>2, <1>0, <1>g
<1>2. U!TypeOK'
  BY <1>1, <1>c, <1>g DEF U!TypeOK, Works
<1>3. StepOf(w)
  <2>1. U!Busy(w)
    BY <1>b DEF U!Busy, U!AtRest
  <2>2. (\A v \in Workers \ {w} : work'[v] = work[v]) /\ work'[w].number = work[w].number
    BY <1>0, <1>g
  <2>3. U!Objects' = U!Objects /\ U!InUse' = U!InUse
    BY <1>c DEF U!Objects, U!InUse
  <2>4. ~residue' => ~residue \/ w \in alone
    BY <1>0, <1>g
  <2> QED BY <1>1, <1>c, <2>1, <2>2, <2>3, <2>4 DEF StepOf
<1>4. InOrder'
  <2>1. \A v \in Workers \ {w} : work'[v] = work[v]
    BY <1>3 DEF StepOf
  <2>2. /\ work'[w].number <= calls
        /\ work'[w].pc \in {"save", "delete"} => work'[w].at <= Len(U!Objects)
        /\ work'[w].pc = "clean" =>
               media = "image" /\ work'[w].at <= work'[w].written /\ work'[w].written < Len(Sizes)
    <3>1. CASE work' = [work EXCEPT ![w] = [pc |-> "save", number |-> work[w].number, at |-> 1, written |-> 0]]
      <4>1. work'[w].pc = "save" /\ work'[w].number = work[w].number /\ work'[w].at = 1 /\ work'[w].written = 0
        BY <3>1, <1>g
      <4> QED BY <4>1, <3>1, <1>b, <1>m, <1>q, <1>r, <1>o, <1>v, <1>z
    <3>2. CASE work' = [work EXCEPT ![w] = [pc |-> "failed", number |-> work[w].number, at |-> 1, written |-> 0]]
      <4>1. work'[w].pc = "failed" /\ work'[w].number = work[w].number /\ work'[w].at = 1 /\ work'[w].written = 0
        BY <3>2, <1>g
      <4> QED BY <4>1, <3>2, <1>b, <1>m, <1>q, <1>r, <1>o, <1>v, <1>z
    <3> QED BY <1>0, <3>1, <3>2
  <2> QED BY <2>1, <2>2, <1>i, <1>c, <1>3 DEF InOrder, StepOf
<1>5. AloneIsAlone'
  BY <1>3, StepKeepsAlone
<1>6. ASSUME w \in alone PROVE SoFar(w)' /\ OnlyItsOwn(w)' /\ LeftBehind(w)'
  <2>a. SoFar(w) /\ OnlyItsOwn(w) /\ LeftBehind(w)
    BY <1>6, <1>a
  <2>o. U!Objects' = U!Objects /\ U!InUse' = U!InUse
    BY <1>3 DEF StepOf
  <2>1. CASE /\ work' = [work EXCEPT ![w] = [pc |-> "save", number |-> work[w].number, at |-> 1, written |-> 0]]
             /\ stored' = stored
             /\ residue' = residue /\ badThumb' = badThumb
    <3>1. /\ work'[w].pc = "save" /\ work'[w].at = 1 /\ work'[w].written = 0
          /\ work'[w].number = work[w].number
          /\ stored' = stored
          /\ residue' = residue /\ badThumb' = badThumb
      BY <2>1, <1>g
    <3>2. SoFar(w)'
      BY <3>1, <1>b, <1>c DEF SoFar
    <3>3. OnlyItsOwn(w)'
      BY <3>1, <1>b, <1>c, <2>a, <2>o, <1>n, <1>g, <1>o, <1>u, <1>v, <1>z, <1>i, <1>1, EmptyMeans
         DEF SoFar, OnlyItsOwn, LeftBehind, InOrder, Works
    <3>4. LeftBehind(w)'
      BY <3>1, <1>b, <1>c DEF LeftBehind
    <3> QED BY <3>2, <3>3, <3>4
  <2>2. CASE /\ work' = [work EXCEPT ![w] = [pc |-> "failed", number |-> work[w].number, at |-> 1, written |-> 0]]
             /\ stored' = stored
             /\ residue' = residue /\ badThumb' = badThumb
    <3>1. /\ work'[w].pc = "failed" /\ work'[w].at = 1 /\ work'[w].written = 0
          /\ work'[w].number = work[w].number
          /\ stored' = stored
          /\ residue' = residue /\ badThumb' = badThumb
      BY <2>2, <1>g
    <3>2. SoFar(w)'
      BY <3>1, <1>b, <1>c DEF SoFar
    <3>3. OnlyItsOwn(w)'
      BY <3>1, <1>b, <1>c DEF OnlyItsOwn
    <3>4. LeftBehind(w)'
      BY <3>1, <1>b, <1>c, <2>a, <2>o, <1>n, <1>g DEF SoFar, OnlyItsOwn, LeftBehind
    <3> QED BY <3>2, <3>3, <3>4
  <2> QED BY <1>0, <2>1, <2>2
<1>7. FirstSpeaks'
  <2> SUFFICES ASSUME ~residue', \A v \in Workers : Untouched(v)', stored'[U!Objects'[1]] # 0
             PROVE  \A n \in U!InUse' : stored'[n] = stored'[U!Objects'[1]] \/ (media' = "video" /\ badThumb')
    BY DEF FirstSpeaks
  <2>o. U!Objects' = U!Objects /\ U!InUse' = U!InUse
    BY <1>3 DEF StepOf
  <2>w. w \in alone
    BY <1>3, <1>i DEF StepOf, AloneIsAlone
  <2>a. SoFar(w) /\ OnlyItsOwn(w)
    BY <2>w, <1>a
  <2>b. SoFar(w)' /\ OnlyItsOwn(w)' /\ LeftBehind(w)'
    BY <2>w, <1>6
  <2>t. Untouched(w)'
    OBVIOUS
  <2>p. \A v \in Workers \ {w} : Untouched(v)
    BY <1>3 DEF StepOf, Untouched, U!Busy
  <2>1. CASE /\ work' = [work EXCEPT ![w] = [pc |-> "save", number |-> work[w].number, at |-> 1, written |-> 0]]
             /\ stored' = stored
             /\ residue' = residue /\ badThumb' = badThumb
    <3>1. /\ work'[w].pc = "save" /\ work'[w].at = 1 /\ work'[w].written = 0
          /\ work'[w].number = work[w].number
          /\ stored' = stored
          /\ residue' = residue /\ badThumb' = badThumb
      BY <2>1, <1>g
    <3> QED
      BY <3>1, <1>b, <1>c, <2>o, <1>n, <1>o, <1>g, <1>z, <1>u, <1>v, <2>p, <1>i DEF FirstSpeaks,
         Untouched
  <2>2. CASE /\ work' = [work EXCEPT ![w] = [pc |-> "failed", number |-> work[w].number, at |-> 1, written |-> 0]]
             /\ stored' = stored
             /\ residue' = residue /\ badThumb' = badThumb
    <3>1. /\ work'[w].pc = "failed" /\ work'[w].at = 1 /\ work'[w].written = 0
          /\ work'[w].number = work[w].number
          /\ stored' = stored
          /\ residue' = residue /\ badThumb' = badThumb
      BY <2>2, <1>g
    <3> QED
      BY <3>1, <1>b, <1>c, <2>o, <1>n, <1>o, <1>g, <1>z, <1>u, <1>v, <2>p, <1>i DEF FirstSpeaks,
         Untouched
  <2> QED BY <1>0, <2>1, <2>2
<1>8. \A v \in alone' : SoFar(v)' /\ OnlyItsOwn(v)' /\ LeftBehind(v)'
  BY <1>3, <1>6, <1>c, StepKeepsOthers
<1> QED BY <1>2, <1>4, <1>5, <1>7, <1>8 DEF MediaIInv

(* An object of an image is saved.                                         *)
LEMMA SaveImageStep ==
    ASSUME MediaIInv, NEW w \in Workers, U!SaveImage(w) PROVE MediaIInv'
<1> USE MediaAssumption
<1>g. /\ media \in {"image", "video"} /\ remote \in BOOLEAN
      /\ stored \in [U!Names -> 0 .. MaxCalls] /\ calls \in 0 .. MaxCalls /\ work \in [Workers -> Works]
      /\ alone \subseteq Workers /\ before \in [Workers -> [U!Names -> 0 .. MaxCalls]]
      /\ residue \in BOOLEAN /\ badThumb \in BOOLEAN
  BY DEF MediaIInv, U!TypeOK, Works
<1>i. InOrder /\ AloneIsAlone /\ FirstSpeaks
  BY DEF MediaIInv
<1>a. w \in alone => SoFar(w) /\ OnlyItsOwn(w) /\ LeftBehind(w)
  BY DEF MediaIInv
<1>o. Len(U!Objects) \in 1 .. Len(Sizes) + 2 /\ \A i \in 1 .. Len(U!Objects) : U!Objects[i] \in U!Names
  BY <1>g, ObjectsAreNamed
<1>u. U!InUse = {U!Objects[i] : i \in 1 .. Len(U!Objects)}
  BY <1>g, ObjectsAreNamed
<1>b. work[w].pc = "save" /\ media = "image"
  BY DEF U!SaveImage
<1>m. media = "image"
  BY <1>b, <1>i DEF InOrder
<1>v. Len(U!Objects) = Len(Sizes) /\ "thumb" \notin U!InUse
  BY <1>g, <1>m, ObjectsAreNamed
<1>z. Len(Sizes) \in Nat /\ Len(Sizes) >= 1 /\ 0 \in 0 .. MaxCalls
  OBVIOUS
<1>n. work[w] \in Works
  BY <1>g
<1>q. /\ work[w].number \in 0 .. MaxCalls /\ work[w].at \in 1 .. Len(Sizes) + 2
      /\ work[w].written \in 0 .. Len(Sizes) /\ work[w].number <= calls
  BY <1>n, <1>i DEF Works, InOrder
<1>r. /\ work[w].pc \in {"save", "delete"} => work[w].at <= Len(U!Objects)
      /\ work[w].pc = "clean" =>
             media = "image" /\ work[w].at <= work[w].written /\ work[w].written < Len(Sizes)
  BY <1>i DEF InOrder
<1>c. UNCHANGED <<media, remote, calls, alone, before>>
  BY DEF U!SaveImage, U!Same
<1>0. \/ /\ work[w].at = Len(U!Objects)
         /\ work' = [work EXCEPT ![w] = [pc |-> "done", number |-> work[w].number, at |-> 1, written |-> 0]]
         /\ stored' = [stored EXCEPT ![U!Objects[work[w].at]] = work[w].number]
         /\ residue' = (residue /\ w \notin alone) /\ badThumb' = badThumb
      \/ /\ work[w].at # Len(U!Objects)
         /\ work' = [work EXCEPT ![w] = [pc |-> "save", number |-> work[w].number, at |-> work[w].at + 1, written |-> work[w].written]]
         /\ stored' = [stored EXCEPT ![U!Objects[work[w].at]] = work[w].number]
         /\ residue' = residue /\ badThumb' = badThumb
  <2>1. U!Goto(w, "done") => work' = [work EXCEPT ![w] = [pc |-> "done", number |-> work[w].number, at |-> 1, written |-> 0]]
    BY <1>g, GotoIs
  <2>2. [work EXCEPT ![w].at = work[w].at + 1]
         = [work EXCEPT ![w] = [pc |-> "save", number |-> work[w].number, at |-> work[w].at + 1, written |-> work[w].written]]
    BY <1>b, <1>g, NextIs
  <2>3. U!NextToSave(w) = U!Objects[work[w].at]
    BY DEF U!NextToSave
  <2>4. CASE work[w].at = Len(U!Objects)
    BY <2>1, <2>3, <2>4 DEF U!SaveImage, U!Put, U!Completed
  <2>5. CASE work[w].at # Len(U!Objects)
    BY <2>2, <2>3, <2>5 DEF U!SaveImage, U!Put
  <2> QED BY <2>4, <2>5
<1>1. work' \in [Workers -> Works] /\ stored' \in [U!Names -> 0 .. MaxCalls] /\ residue' \in BOOLEAN /\ badThumb' \in BOOLEAN
  <2>1. work' \in [Workers -> Works]
    <3>1. CASE /\ work[w].at = Len(U!Objects)
               /\ work' = [work EXCEPT ![w] = [pc |-> "done", number |-> work[w].number, at |-> 1, written |-> 0]]
      <4>1. [pc |-> "done", number |-> work[w].number, at |-> 1, written |-> 0] \in Works
        BY <3>1, <1>b, <1>m, <1>q, <1>r, <1>o, <1>v, <1>z DEF Works, U!Pcs
      <4> QED BY <4>1, <3>1, <1>g
    <3>2. CASE /\ work[w].at # Len(U!Objects)
               /\ work' = [work EXCEPT ![w] = [pc |-> "save", number |-> work[w].number, at |-> work[w].at + 1, written |-> work[w].written]]
      <4>1. [pc |-> "save", number |-> work[w].number, at |-> work[w].at + 1, written |-> work[w].written] \in Works
        BY <3>2, <1>b, <1>m, <1>q, <1>r, <1>o, <1>v, <1>z DEF Works, U!Pcs
      <4> QED BY <4>1, <3>2, <1>g
    <3> QED BY <1>0, <3>1, <3>2
  <2>2. stored' \in [U!Names -> 0 .. MaxCalls]
    BY <1>0, <1>b, <1>m, <1>q, <1>r, <1>g, <1>o, <1>v, <1>z
  <2> QED BY <2>1, <2>2, <1>0, <1>g
<1>2. U!TypeOK'
  BY <1>1, <1>c, <1>g DEF U!TypeOK, Works
<1>3. StepOf(w)
  <2>1. U!Busy(w)
    BY <1>b DEF U!Busy, U!AtRest
  <2>2. (\A v \in Workers \ {w} : work'[v] = work[v]) /\ work'[w].number = work[w].number
    BY <1>0, <1>g
  <2>3. U!Objects' = U!Objects /\ U!InUse' = U!InUse
    BY <1>c DEF U!Objects, U!InUse
  <2>4. ~residue' => ~residue \/ w \in alone
    BY <1>0, <1>g
  <2> QED BY <1>1, <1>c, <2>1, <2>2, <2>3, <2>4 DEF StepOf
<1>4. InOrder'
  <2>1. \A v \in Workers \ {w} : work'[v] = work[v]
    BY <1>3 DEF StepOf
  <2>2. /\ work'[w].number <= calls
        /\ work'[w].pc \in {"save", "delete"} => work'[w].at <= Len(U!Objects)
        /\ work'[w].pc = "clean" =>
               media = "image" /\ work'[w].at <= work'[w].written /\ work'[w].written < Len(Sizes)
    <3>1. CASE /\ work[w].at = Len(U!Objects)
               /\ work' = [work EXCEPT ![w] = [pc |-> "done", number |-> work[w].number, at |-> 1, written |-> 0]]
      <4>1. work'[w].pc = "done" /\ work'[w].number = work[w].number /\ work'[w].at = 1 /\ work'[w].written = 0
        BY <3>1, <1>g
      <4> QED BY <4>1, <3>1, <1>b, <1>m, <1>q, <1>r, <1>o, <1>v, <1>z
    <3>2. CASE /\ work[w].at # Len(U!Objects)
               /\ work' = [work EXCEPT ![w] = [pc |-> "save", number |-> work[w].number, at |-> work[w].at + 1, written |-> work[w].written]]
      <4>1. work'[w].pc = "save" /\ work'[w].number = work[w].number /\ work'[w].at = work[w].at + 1 /\ work'[w].written = work[w].written
        BY <3>2, <1>g
      <4> QED BY <4>1, <3>2, <1>b, <1>m, <1>q, <1>r, <1>o, <1>v, <1>z
    <3> QED BY <1>0, <3>1, <3>2
  <2> QED BY <2>1, <2>2, <1>i, <1>c, <1>3 DEF InOrder, StepOf
<1>5. AloneIsAlone'
  BY <1>3, StepKeepsAlone
<1>6. ASSUME w \in alone PROVE SoFar(w)' /\ OnlyItsOwn(w)' /\ LeftBehind(w)'
  <2>a. SoFar(w) /\ OnlyItsOwn(w) /\ LeftBehind(w)
    BY <1>6, <1>a
  <2>o. U!Objects' = U!Objects /\ U!InUse' = U!InUse
    BY <1>3 DEF StepOf
  <2>1. CASE /\ work[w].at = Len(U!Objects)
             /\ work' = [work EXCEPT ![w] = [pc |-> "done", number |-> work[w].number, at |-> 1, written |-> 0]]
             /\ stored' = [stored EXCEPT ![U!Objects[work[w].at]] = work[w].number]
             /\ residue' = (residue /\ w \notin alone) /\ badThumb' = badThumb
    <3>1. /\ work'[w].pc = "done" /\ work'[w].at = 1 /\ work'[w].written = 0
          /\ work'[w].number = work[w].number
          /\ \A n \in U!Names : stored'[n] = IF n = U!Objects[work[w].at] THEN work[w].number ELSE stored[n]
          /\ residue' = (residue /\ w \notin alone) /\ badThumb' = badThumb
          /\ work[w].at = Len(U!Objects)
      BY <2>1, <1>g
    <3>2. SoFar(w)'
      BY <3>1, <1>b, <1>c DEF SoFar
    <3>3. OnlyItsOwn(w)'
      BY <3>1, <1>b, <1>c DEF OnlyItsOwn
    <3>4. LeftBehind(w)'
      <4>1. \A i \in 1 .. work[w].at : stored'[U!Objects[i]] = work[w].number
        <5>1. \A i \in 1 .. work[w].at - 1 : stored[U!Objects[i]] = work[w].number
          BY <3>1, <1>b, <2>a DEF SoFar
        <5>2. \A i \in 1 .. work[w].at : i = work[w].at \/ i \in 1 .. work[w].at - 1
          BY <1>q
        <5>3. \A i \in 1 .. work[w].at : U!Objects[i] \in U!Names
          BY <1>b, <1>m, <1>q, <1>r, <1>o, <1>v, <1>z
        <5> QED BY <5>1, <5>2, <5>3, <3>1, <1>b
      <4>2. \A n \in U!InUse : stored'[n] = work[w].number
        BY <4>1, <3>1, <1>u
      <4>3. U!Objects[1] \in U!InUse
        BY <1>u, <1>o
      <4> QED BY <4>2, <4>3, <3>1, <1>m, <1>c, <2>o DEF LeftBehind
    <3> QED BY <3>2, <3>3, <3>4
  <2>2. CASE /\ work[w].at # Len(U!Objects)
             /\ work' = [work EXCEPT ![w] = [pc |-> "save", number |-> work[w].number, at |-> work[w].at + 1, written |-> work[w].written]]
             /\ stored' = [stored EXCEPT ![U!Objects[work[w].at]] = work[w].number]
             /\ residue' = residue /\ badThumb' = badThumb
    <3>1. /\ work'[w].pc = "save" /\ work'[w].at = work[w].at + 1 /\ work'[w].written = work[w].written
          /\ work'[w].number = work[w].number
          /\ \A n \in U!Names : stored'[n] = IF n = U!Objects[work[w].at] THEN work[w].number ELSE stored[n]
          /\ residue' = residue /\ badThumb' = badThumb
          /\ work[w].at # Len(U!Objects)
      BY <2>2, <1>g
    <3>2. SoFar(w)'
      <4>1. \A i \in 1 .. work[w].at : stored'[U!Objects[i]] = work[w].number
        <5>1. \A i \in 1 .. work[w].at - 1 : stored[U!Objects[i]] = work[w].number
          BY <3>1, <1>b, <2>a DEF SoFar
        <5>2. \A i \in 1 .. work[w].at : i = work[w].at \/ i \in 1 .. work[w].at - 1
          BY <1>q
        <5>3. \A i \in 1 .. work[w].at : U!Objects[i] \in U!Names
          BY <1>b, <1>m, <1>q, <1>r, <1>o, <1>v, <1>z
        <5> QED BY <5>1, <5>2, <5>3, <3>1, <1>b
      <4>2. work'[w].at - 1 = work[w].at
        BY <3>1, <1>q
      <4> QED BY <4>1, <4>2, <3>1, <2>o DEF SoFar
    <3>3. OnlyItsOwn(w)'
      <4>1. work'[w].at - 1 = work[w].at
        BY <3>1, <1>q
      <4> SUFFICES ASSUME before'[w] = U!Empty, ~residue', NEW n \in U!Names, stored'[n] # 0
                   PROVE  \E i \in 1 .. work[w].at : n = U!Objects[i]
        BY <4>1, <3>1, <2>o DEF OnlyItsOwn
      <4>2. CASE n = U!Objects[work[w].at]
        BY <4>2, <1>q
      <4>3. CASE n # U!Objects[work[w].at]
        <5>1. stored[n] # 0
          BY <4>3, <3>1
        <5>2. \E i \in 1 .. work[w].at - 1 : n = U!Objects[i]
          BY <5>1, <3>1, <1>b, <1>c, <2>a DEF OnlyItsOwn
        <5> QED BY <5>2, <1>q
      <4> QED BY <4>2, <4>3
    <3>4. LeftBehind(w)'
      BY <3>1, <1>b, <1>c DEF LeftBehind
    <3> QED BY <3>2, <3>3, <3>4
  <2> QED BY <1>0, <2>1, <2>2
<1>7. FirstSpeaks'
  <2> SUFFICES ASSUME ~residue', \A v \in Workers : Untouched(v)', stored'[U!Objects'[1]] # 0
             PROVE  \A n \in U!InUse' : stored'[n] = stored'[U!Objects'[1]] \/ (media' = "video" /\ badThumb')
    BY DEF FirstSpeaks
  <2>o. U!Objects' = U!Objects /\ U!InUse' = U!InUse
    BY <1>3 DEF StepOf
  <2>w. w \in alone
    BY <1>3, <1>i DEF StepOf, AloneIsAlone
  <2>a. SoFar(w) /\ OnlyItsOwn(w)
    BY <2>w, <1>a
  <2>b. SoFar(w)' /\ OnlyItsOwn(w)' /\ LeftBehind(w)'
    BY <2>w, <1>6
  <2>t. Untouched(w)'
    OBVIOUS
  <2>p. \A v \in Workers \ {w} : Untouched(v)
    BY <1>3 DEF StepOf, Untouched, U!Busy
  <2>1. CASE /\ work[w].at = Len(U!Objects)
             /\ work' = [work EXCEPT ![w] = [pc |-> "done", number |-> work[w].number, at |-> 1, written |-> 0]]
             /\ stored' = [stored EXCEPT ![U!Objects[work[w].at]] = work[w].number]
             /\ residue' = (residue /\ w \notin alone) /\ badThumb' = badThumb
    <3>1. /\ work'[w].pc = "done" /\ work'[w].at = 1 /\ work'[w].written = 0
          /\ work'[w].number = work[w].number
          /\ \A n \in U!Names : stored'[n] = IF n = U!Objects[work[w].at] THEN work[w].number ELSE stored[n]
          /\ residue' = (residue /\ w \notin alone) /\ badThumb' = badThumb
          /\ work[w].at = Len(U!Objects)
      BY <2>1, <1>g
    <3> QED
      <4>1. \A i \in 1 .. work[w].at : stored'[U!Objects[i]] = work[w].number
        <5>1. \A i \in 1 .. work[w].at - 1 : stored[U!Objects[i]] = work[w].number
          BY <3>1, <1>b, <2>a DEF SoFar
        <5>2. \A i \in 1 .. work[w].at : i = work[w].at \/ i \in 1 .. work[w].at - 1
          BY <1>q
        <5>3. \A i \in 1 .. work[w].at : U!Objects[i] \in U!Names
          BY <1>b, <1>m, <1>q, <1>r, <1>o, <1>v, <1>z
        <5> QED BY <5>1, <5>2, <5>3, <3>1, <1>b
      <4>2. \A n \in U!InUse : stored'[n] = work[w].number
        BY <4>1, <3>1, <1>u
      <4>3. U!Objects[1] \in U!InUse
        BY <1>u, <1>o
      <4> QED BY <4>2, <4>3, <2>o
  <2>2. CASE /\ work[w].at # Len(U!Objects)
             /\ work' = [work EXCEPT ![w] = [pc |-> "save", number |-> work[w].number, at |-> work[w].at + 1, written |-> work[w].written]]
             /\ stored' = [stored EXCEPT ![U!Objects[work[w].at]] = work[w].number]
             /\ residue' = residue /\ badThumb' = badThumb
    <3>1. /\ work'[w].pc = "save" /\ work'[w].at = work[w].at + 1 /\ work'[w].written = work[w].written
          /\ work'[w].number = work[w].number
          /\ \A n \in U!Names : stored'[n] = IF n = U!Objects[work[w].at] THEN work[w].number ELSE stored[n]
          /\ residue' = residue /\ badThumb' = badThumb
          /\ work[w].at # Len(U!Objects)
      BY <2>2, <1>g
    <3> QED
      <4>1. work'[w].pc = "save" /\ work'[w].at # 1
        BY <3>1, <1>q
      <4> QED BY <4>1, <2>t DEF Untouched, U!Busy, U!AtRest
  <2> QED BY <1>0, <2>1, <2>2
<1>8. \A v \in alone' : SoFar(v)' /\ OnlyItsOwn(v)' /\ LeftBehind(v)'
  BY <1>3, <1>6, <1>c, StepKeepsOthers
<1> QED BY <1>2, <1>4, <1>5, <1>7, <1>8 DEF MediaIInv

(* An object of an image is not saved.                                     *)
LEMMA SaveImageFailsStep ==
    ASSUME MediaIInv, NEW w \in Workers, U!SaveImageFails(w) PROVE MediaIInv'
<1> USE MediaAssumption
<1>g. /\ media \in {"image", "video"} /\ remote \in BOOLEAN
      /\ stored \in [U!Names -> 0 .. MaxCalls] /\ calls \in 0 .. MaxCalls /\ work \in [Workers -> Works]
      /\ alone \subseteq Workers /\ before \in [Workers -> [U!Names -> 0 .. MaxCalls]]
      /\ residue \in BOOLEAN /\ badThumb \in BOOLEAN
  BY DEF MediaIInv, U!TypeOK, Works
<1>i. InOrder /\ AloneIsAlone /\ FirstSpeaks
  BY DEF MediaIInv
<1>a. w \in alone => SoFar(w) /\ OnlyItsOwn(w) /\ LeftBehind(w)
  BY DEF MediaIInv
<1>o. Len(U!Objects) \in 1 .. Len(Sizes) + 2 /\ \A i \in 1 .. Len(U!Objects) : U!Objects[i] \in U!Names
  BY <1>g, ObjectsAreNamed
<1>u. U!InUse = {U!Objects[i] : i \in 1 .. Len(U!Objects)}
  BY <1>g, ObjectsAreNamed
<1>b. work[w].pc = "save" /\ media = "image"
  BY DEF U!SaveImageFails
<1>m. media = "image"
  BY <1>b, <1>i DEF InOrder
<1>v. Len(U!Objects) = Len(Sizes) /\ "thumb" \notin U!InUse
  BY <1>g, <1>m, ObjectsAreNamed
<1>z. Len(Sizes) \in Nat /\ Len(Sizes) >= 1 /\ 0 \in 0 .. MaxCalls
  OBVIOUS
<1>n. work[w] \in Works
  BY <1>g
<1>q. /\ work[w].number \in 0 .. MaxCalls /\ work[w].at \in 1 .. Len(Sizes) + 2
      /\ work[w].written \in 0 .. Len(Sizes) /\ work[w].number <= calls
  BY <1>n, <1>i DEF Works, InOrder
<1>r. /\ work[w].pc \in {"save", "delete"} => work[w].at <= Len(U!Objects)
      /\ work[w].pc = "clean" =>
             media = "image" /\ work[w].at <= work[w].written /\ work[w].written < Len(Sizes)
  BY <1>i DEF InOrder
<1>c. UNCHANGED <<media, remote, calls, alone, before>>
  BY DEF U!SaveImageFails, U!Same
<1>0. \/ /\ work[w].at = 1
         /\ work' = [work EXCEPT ![w] = [pc |-> "failed", number |-> work[w].number, at |-> 1, written |-> work[w].at - 1]]
         /\ stored' = stored
         /\ residue' = residue /\ badThumb' = badThumb
      \/ /\ work[w].at # 1
         /\ work' = [work EXCEPT ![w] = [pc |-> "clean", number |-> work[w].number, at |-> 1, written |-> work[w].at - 1]]
         /\ stored' = stored
         /\ residue' = residue /\ badThumb' = badThumb
      \/ /\ work[w].at = 1
         /\ work' = [work EXCEPT ![w] = [pc |-> "failed", number |-> work[w].number, at |-> 1, written |-> work[w].at - 1]]
         /\ stored' = [stored EXCEPT ![U!Objects[work[w].at]] = work[w].number]
         /\ residue' = TRUE /\ badThumb' = badThumb
      \/ /\ work[w].at # 1
         /\ work' = [work EXCEPT ![w] = [pc |-> "clean", number |-> work[w].number, at |-> 1, written |-> work[w].at - 1]]
         /\ stored' = [stored EXCEPT ![U!Objects[work[w].at]] = work[w].number]
         /\ residue' = TRUE /\ badThumb' = badThumb
  <2> DEFINE a == IF work[w].at = 1 THEN "failed" ELSE "clean"
             b == work[w].at - 1
  <2>1. [work EXCEPT ![w].pc = a, ![w].at = 1, ![w].written = b]
          = [work EXCEPT ![w] = [pc |-> a, number |-> work[w].number, at |-> 1, written |-> b]]
    <3> HIDE DEF a, b
    <3>1. \A x, y : [work EXCEPT ![w].pc = x, ![w].at = 1, ![w].written = y]
            = [work EXCEPT ![w] = [pc |-> x, number |-> work[w].number, at |-> 1, written |-> y]]
      BY <1>g, FailsIs
    <3> QED BY <3>1
  <2>2. work' = [work EXCEPT ![w] = [pc |-> a, number |-> work[w].number, at |-> 1, written |-> b]]
    BY <2>1 DEF U!SaveImageFails
  <2>3. /\ badThumb' = badThumb
        /\ \/ stored' = stored /\ residue' = residue
           \/ stored' = [stored EXCEPT ![U!Objects[work[w].at]] = work[w].number] /\ residue' = TRUE
    BY DEF U!SaveImageFails, U!Put, U!NextToSave
  <2>4. CASE work[w].at = 1
    BY <2>2, <2>3, <2>4
  <2>5. CASE work[w].at # 1
    BY <2>2, <2>3, <2>5
  <2> QED BY <2>4, <2>5
<1>1. work' \in [Workers -> Works] /\ stored' \in [U!Names -> 0 .. MaxCalls] /\ residue' \in BOOLEAN /\ badThumb' \in BOOLEAN
  <2>1. work' \in [Workers -> Works]
    <3>1. CASE /\ work[w].at = 1
               /\ work' = [work EXCEPT ![w] = [pc |-> "failed", number |-> work[w].number, at |-> 1, written |-> work[w].at - 1]]
      <4>1. [pc |-> "failed", number |-> work[w].number, at |-> 1, written |-> work[w].at - 1] \in Works
        BY <3>1, <1>b, <1>m, <1>q, <1>r, <1>o, <1>v, <1>z DEF Works, U!Pcs
      <4> QED BY <4>1, <3>1, <1>g
    <3>2. CASE /\ work[w].at # 1
               /\ work' = [work EXCEPT ![w] = [pc |-> "clean", number |-> work[w].number, at |-> 1, written |-> work[w].at - 1]]
      <4>1. [pc |-> "clean", number |-> work[w].number, at |-> 1, written |-> work[w].at - 1] \in Works
        BY <3>2, <1>b, <1>m, <1>q, <1>r, <1>o, <1>v, <1>z DEF Works, U!Pcs
      <4> QED BY <4>1, <3>2, <1>g
    <3>3. CASE /\ work[w].at = 1
               /\ work' = [work EXCEPT ![w] = [pc |-> "failed", number |-> work[w].number, at |-> 1, written |-> work[w].at - 1]]
      <4>1. [pc |-> "failed", number |-> work[w].number, at |-> 1, written |-> work[w].at - 1] \in Works
        BY <3>3, <1>b, <1>m, <1>q, <1>r, <1>o, <1>v, <1>z DEF Works, U!Pcs
      <4> QED BY <4>1, <3>3, <1>g
    <3>4. CASE /\ work[w].at # 1
               /\ work' = [work EXCEPT ![w] = [pc |-> "clean", number |-> work[w].number, at |-> 1, written |-> work[w].at - 1]]
      <4>1. [pc |-> "clean", number |-> work[w].number, at |-> 1, written |-> work[w].at - 1] \in Works
        BY <3>4, <1>b, <1>m, <1>q, <1>r, <1>o, <1>v, <1>z DEF Works, U!Pcs
      <4> QED BY <4>1, <3>4, <1>g
    <3> QED BY <1>0, <3>1, <3>2, <3>3, <3>4
  <2>2. stored' \in [U!Names -> 0 .. MaxCalls]
    BY <1>0, <1>b, <1>m, <1>q, <1>r, <1>g, <1>o, <1>v, <1>z
  <2> QED BY <2>1, <2>2, <1>0, <1>g
<1>2. U!TypeOK'
  BY <1>1, <1>c, <1>g DEF U!TypeOK, Works
<1>3. StepOf(w)
  <2>1. U!Busy(w)
    BY <1>b DEF U!Busy, U!AtRest
  <2>2. (\A v \in Workers \ {w} : work'[v] = work[v]) /\ work'[w].number = work[w].number
    BY <1>0, <1>g
  <2>3. U!Objects' = U!Objects /\ U!InUse' = U!InUse
    BY <1>c DEF U!Objects, U!InUse
  <2>4. ~residue' => ~residue \/ w \in alone
    BY <1>0, <1>g
  <2> QED BY <1>1, <1>c, <2>1, <2>2, <2>3, <2>4 DEF StepOf
<1>4. InOrder'
  <2>1. \A v \in Workers \ {w} : work'[v] = work[v]
    BY <1>3 DEF StepOf
  <2>2. /\ work'[w].number <= calls
        /\ work'[w].pc \in {"save", "delete"} => work'[w].at <= Len(U!Objects)
        /\ work'[w].pc = "clean" =>
               media = "image" /\ work'[w].at <= work'[w].written /\ work'[w].written < Len(Sizes)
    <3>1. CASE /\ work[w].at = 1
               /\ work' = [work EXCEPT ![w] = [pc |-> "failed", number |-> work[w].number, at |-> 1, written |-> work[w].at - 1]]
      <4>1. work'[w].pc = "failed" /\ work'[w].number = work[w].number /\ work'[w].at = 1 /\ work'[w].written = work[w].at - 1
        BY <3>1, <1>g
      <4> QED BY <4>1, <3>1, <1>b, <1>m, <1>q, <1>r, <1>o, <1>v, <1>z
    <3>2. CASE /\ work[w].at # 1
               /\ work' = [work EXCEPT ![w] = [pc |-> "clean", number |-> work[w].number, at |-> 1, written |-> work[w].at - 1]]
      <4>1. work'[w].pc = "clean" /\ work'[w].number = work[w].number /\ work'[w].at = 1 /\ work'[w].written = work[w].at - 1
        BY <3>2, <1>g
      <4> QED BY <4>1, <3>2, <1>b, <1>m, <1>q, <1>r, <1>o, <1>v, <1>z
    <3>3. CASE /\ work[w].at = 1
               /\ work' = [work EXCEPT ![w] = [pc |-> "failed", number |-> work[w].number, at |-> 1, written |-> work[w].at - 1]]
      <4>1. work'[w].pc = "failed" /\ work'[w].number = work[w].number /\ work'[w].at = 1 /\ work'[w].written = work[w].at - 1
        BY <3>3, <1>g
      <4> QED BY <4>1, <3>3, <1>b, <1>m, <1>q, <1>r, <1>o, <1>v, <1>z
    <3>4. CASE /\ work[w].at # 1
               /\ work' = [work EXCEPT ![w] = [pc |-> "clean", number |-> work[w].number, at |-> 1, written |-> work[w].at - 1]]
      <4>1. work'[w].pc = "clean" /\ work'[w].number = work[w].number /\ work'[w].at = 1 /\ work'[w].written = work[w].at - 1
        BY <3>4, <1>g
      <4> QED BY <4>1, <3>4, <1>b, <1>m, <1>q, <1>r, <1>o, <1>v, <1>z
    <3> QED BY <1>0, <3>1, <3>2, <3>3, <3>4
  <2> QED BY <2>1, <2>2, <1>i, <1>c, <1>3 DEF InOrder, StepOf
<1>5. AloneIsAlone'
  BY <1>3, StepKeepsAlone
<1>6. ASSUME w \in alone PROVE SoFar(w)' /\ OnlyItsOwn(w)' /\ LeftBehind(w)'
  <2>a. SoFar(w) /\ OnlyItsOwn(w) /\ LeftBehind(w)
    BY <1>6, <1>a
  <2>o. U!Objects' = U!Objects /\ U!InUse' = U!InUse
    BY <1>3 DEF StepOf
  <2>1. CASE /\ work[w].at = 1
             /\ work' = [work EXCEPT ![w] = [pc |-> "failed", number |-> work[w].number, at |-> 1, written |-> work[w].at - 1]]
             /\ stored' = stored
             /\ residue' = residue /\ badThumb' = badThumb
    <3>1. /\ work'[w].pc = "failed" /\ work'[w].at = 1 /\ work'[w].written = work[w].at - 1
          /\ work'[w].number = work[w].number
          /\ stored' = stored
          /\ residue' = residue /\ badThumb' = badThumb
          /\ work[w].at = 1
      BY <2>1, <1>g
    <3>2. SoFar(w)'
      BY <3>1, <1>b, <1>c DEF SoFar
    <3>3. OnlyItsOwn(w)'
      BY <3>1, <1>b, <1>c DEF OnlyItsOwn
    <3>4. LeftBehind(w)'
      <4> SUFFICES ASSUME before'[w] = U!Empty, ~residue' PROVE stored' = U!Empty
        BY <3>1 DEF LeftBehind
      <4>1. \A n \in U!Names : stored[n] # 0 => \E i \in 1 .. work[w].at - 1 : n = U!Objects[i]
        BY <3>1, <1>b, <1>c, <2>a DEF OnlyItsOwn
      <4>2. 1 .. work[w].at - 1 = {}
        BY <3>1
      <4>3. \A n \in U!Names : stored[n] = 0
        BY <4>1, <4>2
      <4> QED BY <4>3, <3>1, <1>g, EmptyMeans
    <3> QED BY <3>2, <3>3, <3>4
  <2>2. CASE /\ work[w].at # 1
             /\ work' = [work EXCEPT ![w] = [pc |-> "clean", number |-> work[w].number, at |-> 1, written |-> work[w].at - 1]]
             /\ stored' = stored
             /\ residue' = residue /\ badThumb' = badThumb
    <3>1. /\ work'[w].pc = "clean" /\ work'[w].at = 1 /\ work'[w].written = work[w].at - 1
          /\ work'[w].number = work[w].number
          /\ stored' = stored
          /\ residue' = residue /\ badThumb' = badThumb
          /\ work[w].at # 1
      BY <2>2, <1>g
    <3>2. SoFar(w)'
      BY <3>1, <1>b, <1>c DEF SoFar
    <3>3. OnlyItsOwn(w)'
      BY <3>1, <1>b, <1>c, <2>a, <2>o, <1>n DEF OnlyItsOwn
    <3>4. LeftBehind(w)'
      BY <3>1, <1>b, <1>c DEF LeftBehind
    <3> QED BY <3>2, <3>3, <3>4
  <2>3. CASE /\ work[w].at = 1
             /\ work' = [work EXCEPT ![w] = [pc |-> "failed", number |-> work[w].number, at |-> 1, written |-> work[w].at - 1]]
             /\ stored' = [stored EXCEPT ![U!Objects[work[w].at]] = work[w].number]
             /\ residue' = TRUE /\ badThumb' = badThumb
    <3>1. /\ work'[w].pc = "failed" /\ work'[w].at = 1 /\ work'[w].written = work[w].at - 1
          /\ work'[w].number = work[w].number
          /\ \A n \in U!Names : stored'[n] = IF n = U!Objects[work[w].at] THEN work[w].number ELSE stored[n]
          /\ residue' = TRUE /\ badThumb' = badThumb
          /\ work[w].at = 1
      BY <2>3, <1>g
    <3>2. SoFar(w)'
      BY <3>1, <1>b, <1>c DEF SoFar
    <3>3. OnlyItsOwn(w)'
      BY <3>1, <1>b, <1>c DEF OnlyItsOwn
    <3>4. LeftBehind(w)'
      BY <3>1, <1>b, <1>c DEF LeftBehind
    <3> QED BY <3>2, <3>3, <3>4
  <2>4. CASE /\ work[w].at # 1
             /\ work' = [work EXCEPT ![w] = [pc |-> "clean", number |-> work[w].number, at |-> 1, written |-> work[w].at - 1]]
             /\ stored' = [stored EXCEPT ![U!Objects[work[w].at]] = work[w].number]
             /\ residue' = TRUE /\ badThumb' = badThumb
    <3>1. /\ work'[w].pc = "clean" /\ work'[w].at = 1 /\ work'[w].written = work[w].at - 1
          /\ work'[w].number = work[w].number
          /\ \A n \in U!Names : stored'[n] = IF n = U!Objects[work[w].at] THEN work[w].number ELSE stored[n]
          /\ residue' = TRUE /\ badThumb' = badThumb
          /\ work[w].at # 1
      BY <2>4, <1>g
    <3>2. SoFar(w)'
      BY <3>1, <1>b, <1>c DEF SoFar
    <3>3. OnlyItsOwn(w)'
      BY <3>1, <1>b, <1>c DEF OnlyItsOwn
    <3>4. LeftBehind(w)'
      BY <3>1, <1>b, <1>c DEF LeftBehind
    <3> QED BY <3>2, <3>3, <3>4
  <2> QED BY <1>0, <2>1, <2>2, <2>3, <2>4
<1>7. FirstSpeaks'
  <2> SUFFICES ASSUME ~residue', \A v \in Workers : Untouched(v)', stored'[U!Objects'[1]] # 0
             PROVE  \A n \in U!InUse' : stored'[n] = stored'[U!Objects'[1]] \/ (media' = "video" /\ badThumb')
    BY DEF FirstSpeaks
  <2>o. U!Objects' = U!Objects /\ U!InUse' = U!InUse
    BY <1>3 DEF StepOf
  <2>w. w \in alone
    BY <1>3, <1>i DEF StepOf, AloneIsAlone
  <2>a. SoFar(w) /\ OnlyItsOwn(w)
    BY <2>w, <1>a
  <2>b. SoFar(w)' /\ OnlyItsOwn(w)' /\ LeftBehind(w)'
    BY <2>w, <1>6
  <2>t. Untouched(w)'
    OBVIOUS
  <2>p. \A v \in Workers \ {w} : Untouched(v)
    BY <1>3 DEF StepOf, Untouched, U!Busy
  <2>1. CASE /\ work[w].at = 1
             /\ work' = [work EXCEPT ![w] = [pc |-> "failed", number |-> work[w].number, at |-> 1, written |-> work[w].at - 1]]
             /\ stored' = stored
             /\ residue' = residue /\ badThumb' = badThumb
    <3>1. /\ work'[w].pc = "failed" /\ work'[w].at = 1 /\ work'[w].written = work[w].at - 1
          /\ work'[w].number = work[w].number
          /\ stored' = stored
          /\ residue' = residue /\ badThumb' = badThumb
          /\ work[w].at = 1
      BY <2>1, <1>g
    <3> QED
      BY <3>1, <1>b, <1>c, <2>o, <1>n, <1>o, <1>g, <1>z, <1>u, <1>v, <2>p, <1>i DEF FirstSpeaks,
         Untouched
  <2>2. CASE /\ work[w].at # 1
             /\ work' = [work EXCEPT ![w] = [pc |-> "clean", number |-> work[w].number, at |-> 1, written |-> work[w].at - 1]]
             /\ stored' = stored
             /\ residue' = residue /\ badThumb' = badThumb
    <3>1. /\ work'[w].pc = "clean" /\ work'[w].at = 1 /\ work'[w].written = work[w].at - 1
          /\ work'[w].number = work[w].number
          /\ stored' = stored
          /\ residue' = residue /\ badThumb' = badThumb
          /\ work[w].at # 1
      BY <2>2, <1>g
    <3> QED
      BY <3>1, <2>t DEF Untouched, U!Busy, U!AtRest
  <2>3. CASE /\ work[w].at = 1
             /\ work' = [work EXCEPT ![w] = [pc |-> "failed", number |-> work[w].number, at |-> 1, written |-> work[w].at - 1]]
             /\ stored' = [stored EXCEPT ![U!Objects[work[w].at]] = work[w].number]
             /\ residue' = TRUE /\ badThumb' = badThumb
    <3>1. /\ work'[w].pc = "failed" /\ work'[w].at = 1 /\ work'[w].written = work[w].at - 1
          /\ work'[w].number = work[w].number
          /\ \A n \in U!Names : stored'[n] = IF n = U!Objects[work[w].at] THEN work[w].number ELSE stored[n]
          /\ residue' = TRUE /\ badThumb' = badThumb
          /\ work[w].at = 1
      BY <2>3, <1>g
    <3> QED BY <3>1
  <2>4. CASE /\ work[w].at # 1
             /\ work' = [work EXCEPT ![w] = [pc |-> "clean", number |-> work[w].number, at |-> 1, written |-> work[w].at - 1]]
             /\ stored' = [stored EXCEPT ![U!Objects[work[w].at]] = work[w].number]
             /\ residue' = TRUE /\ badThumb' = badThumb
    <3>1. /\ work'[w].pc = "clean" /\ work'[w].at = 1 /\ work'[w].written = work[w].at - 1
          /\ work'[w].number = work[w].number
          /\ \A n \in U!Names : stored'[n] = IF n = U!Objects[work[w].at] THEN work[w].number ELSE stored[n]
          /\ residue' = TRUE /\ badThumb' = badThumb
          /\ work[w].at # 1
      BY <2>4, <1>g
    <3> QED BY <3>1
  <2> QED BY <1>0, <2>1, <2>2, <2>3, <2>4
<1>8. \A v \in alone' : SoFar(v)' /\ OnlyItsOwn(v)' /\ LeftBehind(v)'
  BY <1>3, <1>6, <1>c, StepKeepsOthers
<1> QED BY <1>2, <1>4, <1>5, <1>7, <1>8 DEF MediaIInv

(* A written object is cleaned up, or not.                                 *)
LEMMA CleanStep ==
    ASSUME MediaIInv, NEW w \in Workers, U!Clean(w) PROVE MediaIInv'
<1> USE MediaAssumption
<1>g. /\ media \in {"image", "video"} /\ remote \in BOOLEAN
      /\ stored \in [U!Names -> 0 .. MaxCalls] /\ calls \in 0 .. MaxCalls /\ work \in [Workers -> Works]
      /\ alone \subseteq Workers /\ before \in [Workers -> [U!Names -> 0 .. MaxCalls]]
      /\ residue \in BOOLEAN /\ badThumb \in BOOLEAN
  BY DEF MediaIInv, U!TypeOK, Works
<1>i. InOrder /\ AloneIsAlone /\ FirstSpeaks
  BY DEF MediaIInv
<1>a. w \in alone => SoFar(w) /\ OnlyItsOwn(w) /\ LeftBehind(w)
  BY DEF MediaIInv
<1>o. Len(U!Objects) \in 1 .. Len(Sizes) + 2 /\ \A i \in 1 .. Len(U!Objects) : U!Objects[i] \in U!Names
  BY <1>g, ObjectsAreNamed
<1>b. work[w].pc = "clean"
  BY DEF U!Clean
<1>m. media = "image"
  BY <1>b, <1>i DEF InOrder
<1>v. Len(U!Objects) = Len(Sizes) /\ "thumb" \notin U!InUse
  BY <1>g, <1>m, ObjectsAreNamed
<1>z. Len(Sizes) \in Nat /\ Len(Sizes) >= 1 /\ 0 \in 0 .. MaxCalls
  OBVIOUS
<1>n. work[w] \in Works
  BY <1>g
<1>q. /\ work[w].number \in 0 .. MaxCalls /\ work[w].at \in 1 .. Len(Sizes) + 2
      /\ work[w].written \in 0 .. Len(Sizes) /\ work[w].number <= calls
  BY <1>n, <1>i DEF Works, InOrder
<1>r. /\ work[w].pc \in {"save", "delete"} => work[w].at <= Len(U!Objects)
      /\ work[w].pc = "clean" =>
             media = "image" /\ work[w].at <= work[w].written /\ work[w].written < Len(Sizes)
  BY <1>i DEF InOrder
<1>c. UNCHANGED <<media, remote, calls, alone, before>>
  BY DEF U!Clean, U!Same
<1>0. \/ /\ work[w].at = work[w].written
         /\ work' = [work EXCEPT ![w] = [pc |-> "failed", number |-> work[w].number, at |-> 1, written |-> 0]]
         /\ stored' = [stored EXCEPT ![U!Objects[work[w].at]] = 0]
         /\ residue' = residue /\ badThumb' = badThumb
      \/ /\ work[w].at # work[w].written
         /\ work' = [work EXCEPT ![w] = [pc |-> "clean", number |-> work[w].number, at |-> work[w].at + 1, written |-> work[w].written]]
         /\ stored' = [stored EXCEPT ![U!Objects[work[w].at]] = 0]
         /\ residue' = residue /\ badThumb' = badThumb
      \/ /\ work[w].at = work[w].written
         /\ work' = [work EXCEPT ![w] = [pc |-> "failed", number |-> work[w].number, at |-> 1, written |-> 0]]
         /\ stored' = stored
         /\ residue' = TRUE /\ badThumb' = badThumb
      \/ /\ work[w].at # work[w].written
         /\ work' = [work EXCEPT ![w] = [pc |-> "clean", number |-> work[w].number, at |-> work[w].at + 1, written |-> work[w].written]]
         /\ stored' = stored
         /\ residue' = TRUE /\ badThumb' = badThumb
  BY <1>b, <1>n, <1>g, GotoIs, NextIs, FailsIs DEF U!Clean, U!NextToSave, U!CleanedUp, U!Same
<1>1. work' \in [Workers -> Works] /\ stored' \in [U!Names -> 0 .. MaxCalls] /\ residue' \in BOOLEAN /\ badThumb' \in BOOLEAN
  <2>1. work' \in [Workers -> Works]
    <3>1. CASE /\ work[w].at = work[w].written
               /\ work' = [work EXCEPT ![w] = [pc |-> "failed", number |-> work[w].number, at |-> 1, written |-> 0]]
      <4>1. [pc |-> "failed", number |-> work[w].number, at |-> 1, written |-> 0] \in Works
        BY <3>1, <1>b, <1>m, <1>q, <1>r, <1>o, <1>v, <1>z DEF Works, U!Pcs
      <4> QED BY <4>1, <3>1, <1>g
    <3>2. CASE /\ work[w].at # work[w].written
               /\ work' = [work EXCEPT ![w] = [pc |-> "clean", number |-> work[w].number, at |-> work[w].at + 1, written |-> work[w].written]]
      <4>1. [pc |-> "clean", number |-> work[w].number, at |-> work[w].at + 1, written |-> work[w].written] \in Works
        BY <3>2, <1>b, <1>m, <1>q, <1>r, <1>o, <1>v, <1>z DEF Works, U!Pcs
      <4> QED BY <4>1, <3>2, <1>g
    <3>3. CASE /\ work[w].at = work[w].written
               /\ work' = [work EXCEPT ![w] = [pc |-> "failed", number |-> work[w].number, at |-> 1, written |-> 0]]
      <4>1. [pc |-> "failed", number |-> work[w].number, at |-> 1, written |-> 0] \in Works
        BY <3>3, <1>b, <1>m, <1>q, <1>r, <1>o, <1>v, <1>z DEF Works, U!Pcs
      <4> QED BY <4>1, <3>3, <1>g
    <3>4. CASE /\ work[w].at # work[w].written
               /\ work' = [work EXCEPT ![w] = [pc |-> "clean", number |-> work[w].number, at |-> work[w].at + 1, written |-> work[w].written]]
      <4>1. [pc |-> "clean", number |-> work[w].number, at |-> work[w].at + 1, written |-> work[w].written] \in Works
        BY <3>4, <1>b, <1>m, <1>q, <1>r, <1>o, <1>v, <1>z DEF Works, U!Pcs
      <4> QED BY <4>1, <3>4, <1>g
    <3> QED BY <1>0, <3>1, <3>2, <3>3, <3>4
  <2>2. stored' \in [U!Names -> 0 .. MaxCalls]
    BY <1>0, <1>b, <1>m, <1>q, <1>r, <1>g, <1>o, <1>v, <1>z
  <2> QED BY <2>1, <2>2, <1>0, <1>g
<1>2. U!TypeOK'
  BY <1>1, <1>c, <1>g DEF U!TypeOK, Works
<1>3. StepOf(w)
  <2>1. U!Busy(w)
    BY <1>b DEF U!Busy, U!AtRest
  <2>2. (\A v \in Workers \ {w} : work'[v] = work[v]) /\ work'[w].number = work[w].number
    BY <1>0, <1>g
  <2>3. U!Objects' = U!Objects /\ U!InUse' = U!InUse
    BY <1>c DEF U!Objects, U!InUse
  <2>4. ~residue' => ~residue \/ w \in alone
    BY <1>0, <1>g
  <2> QED BY <1>1, <1>c, <2>1, <2>2, <2>3, <2>4 DEF StepOf
<1>4. InOrder'
  <2>1. \A v \in Workers \ {w} : work'[v] = work[v]
    BY <1>3 DEF StepOf
  <2>2. /\ work'[w].number <= calls
        /\ work'[w].pc \in {"save", "delete"} => work'[w].at <= Len(U!Objects)
        /\ work'[w].pc = "clean" =>
               media = "image" /\ work'[w].at <= work'[w].written /\ work'[w].written < Len(Sizes)
    <3>1. CASE /\ work[w].at = work[w].written
               /\ work' = [work EXCEPT ![w] = [pc |-> "failed", number |-> work[w].number, at |-> 1, written |-> 0]]
      <4>1. work'[w].pc = "failed" /\ work'[w].number = work[w].number /\ work'[w].at = 1 /\ work'[w].written = 0
        BY <3>1, <1>g
      <4> QED BY <4>1, <3>1, <1>b, <1>m, <1>q, <1>r, <1>o, <1>v, <1>z
    <3>2. CASE /\ work[w].at # work[w].written
               /\ work' = [work EXCEPT ![w] = [pc |-> "clean", number |-> work[w].number, at |-> work[w].at + 1, written |-> work[w].written]]
      <4>1. work'[w].pc = "clean" /\ work'[w].number = work[w].number /\ work'[w].at = work[w].at + 1 /\ work'[w].written = work[w].written
        BY <3>2, <1>g
      <4> QED BY <4>1, <3>2, <1>b, <1>m, <1>q, <1>r, <1>o, <1>v, <1>z
    <3>3. CASE /\ work[w].at = work[w].written
               /\ work' = [work EXCEPT ![w] = [pc |-> "failed", number |-> work[w].number, at |-> 1, written |-> 0]]
      <4>1. work'[w].pc = "failed" /\ work'[w].number = work[w].number /\ work'[w].at = 1 /\ work'[w].written = 0
        BY <3>3, <1>g
      <4> QED BY <4>1, <3>3, <1>b, <1>m, <1>q, <1>r, <1>o, <1>v, <1>z
    <3>4. CASE /\ work[w].at # work[w].written
               /\ work' = [work EXCEPT ![w] = [pc |-> "clean", number |-> work[w].number, at |-> work[w].at + 1, written |-> work[w].written]]
      <4>1. work'[w].pc = "clean" /\ work'[w].number = work[w].number /\ work'[w].at = work[w].at + 1 /\ work'[w].written = work[w].written
        BY <3>4, <1>g
      <4> QED BY <4>1, <3>4, <1>b, <1>m, <1>q, <1>r, <1>o, <1>v, <1>z
    <3> QED BY <1>0, <3>1, <3>2, <3>3, <3>4
  <2> QED BY <2>1, <2>2, <1>i, <1>c, <1>3 DEF InOrder, StepOf
<1>5. AloneIsAlone'
  BY <1>3, StepKeepsAlone
<1>6. ASSUME w \in alone PROVE SoFar(w)' /\ OnlyItsOwn(w)' /\ LeftBehind(w)'
  <2>a. SoFar(w) /\ OnlyItsOwn(w) /\ LeftBehind(w)
    BY <1>6, <1>a
  <2>o. U!Objects' = U!Objects /\ U!InUse' = U!InUse
    BY <1>3 DEF StepOf
  <2>1. CASE /\ work[w].at = work[w].written
             /\ work' = [work EXCEPT ![w] = [pc |-> "failed", number |-> work[w].number, at |-> 1, written |-> 0]]
             /\ stored' = [stored EXCEPT ![U!Objects[work[w].at]] = 0]
             /\ residue' = residue /\ badThumb' = badThumb
    <3>1. /\ work'[w].pc = "failed" /\ work'[w].at = 1 /\ work'[w].written = 0
          /\ work'[w].number = work[w].number
          /\ \A n \in U!Names : stored'[n] = IF n = U!Objects[work[w].at] THEN 0 ELSE stored[n]
          /\ residue' = residue /\ badThumb' = badThumb
          /\ work[w].at = work[w].written
      BY <2>1, <1>g
    <3>2. SoFar(w)'
      BY <3>1, <1>b, <1>c DEF SoFar
    <3>3. OnlyItsOwn(w)'
      BY <3>1, <1>b, <1>c DEF OnlyItsOwn
    <3>4. LeftBehind(w)'
      <4> SUFFICES ASSUME before'[w] = U!Empty, ~residue' PROVE stored' = U!Empty
        BY <3>1 DEF LeftBehind
      <4>1. \A n \in U!Names : stored[n] # 0 => n = U!Objects[work[w].at]
        <5>1. \A n \in U!Names : stored[n] # 0 => \E i \in work[w].at .. work[w].written : n = U!Objects[i]
          BY <3>1, <1>b, <1>c, <2>a DEF OnlyItsOwn
        <5> QED BY <5>1, <3>1, <1>q
      <4>2. \A n \in U!Names : stored'[n] = 0
        BY <4>1, <3>1
      <4> QED BY <4>2, <1>1, EmptyMeans
    <3> QED BY <3>2, <3>3, <3>4
  <2>2. CASE /\ work[w].at # work[w].written
             /\ work' = [work EXCEPT ![w] = [pc |-> "clean", number |-> work[w].number, at |-> work[w].at + 1, written |-> work[w].written]]
             /\ stored' = [stored EXCEPT ![U!Objects[work[w].at]] = 0]
             /\ residue' = residue /\ badThumb' = badThumb
    <3>1. /\ work'[w].pc = "clean" /\ work'[w].at = work[w].at + 1 /\ work'[w].written = work[w].written
          /\ work'[w].number = work[w].number
          /\ \A n \in U!Names : stored'[n] = IF n = U!Objects[work[w].at] THEN 0 ELSE stored[n]
          /\ residue' = residue /\ badThumb' = badThumb
          /\ work[w].at # work[w].written
      BY <2>2, <1>g
    <3>2. SoFar(w)'
      <4> SUFFICES ASSUME ~residue PROVE \A i \in 1 .. work[w].at : stored'[U!Objects[i]] = 0
        <5>1. work'[w].at - 1 = work[w].at
          BY <3>1, <1>q
        <5> QED BY <5>1, <3>1, <2>o DEF SoFar
      <4>2. \A i \in 1 .. work[w].at : stored'[U!Objects[i]] = 0
        <5>1. \A i \in 1 .. work[w].at - 1 : stored[U!Objects[i]] = 0
          BY <3>1, <1>b, <2>a DEF SoFar
        <5>2. \A i \in 1 .. work[w].at : i = work[w].at \/ i \in 1 .. work[w].at - 1
          BY <1>q
        <5>3. \A i \in 1 .. work[w].at : U!Objects[i] \in U!Names
          BY <1>b, <1>m, <1>q, <1>r, <1>o, <1>v, <1>z
        <5> QED BY <5>1, <5>2, <5>3, <3>1, <1>b
      <4> QED BY <4>2
    <3>3. OnlyItsOwn(w)'
      <4> SUFFICES ASSUME before'[w] = U!Empty, ~residue', NEW n \in U!Names, stored'[n] # 0
                   PROVE  \E i \in work[w].at + 1 .. work[w].written : n = U!Objects[i]
        BY <3>1, <2>o DEF OnlyItsOwn
      <4>1. stored[n] # 0 /\ n # U!Objects[work[w].at]
        BY <3>1
      <4>2. \E i \in work[w].at .. work[w].written : n = U!Objects[i]
        BY <4>1, <3>1, <1>b, <1>c, <2>a DEF OnlyItsOwn
      <4> QED BY <4>1, <4>2, <1>q
    <3>4. LeftBehind(w)'
      BY <3>1, <1>b, <1>c DEF LeftBehind
    <3> QED BY <3>2, <3>3, <3>4
  <2>3. CASE /\ work[w].at = work[w].written
             /\ work' = [work EXCEPT ![w] = [pc |-> "failed", number |-> work[w].number, at |-> 1, written |-> 0]]
             /\ stored' = stored
             /\ residue' = TRUE /\ badThumb' = badThumb
    <3>1. /\ work'[w].pc = "failed" /\ work'[w].at = 1 /\ work'[w].written = 0
          /\ work'[w].number = work[w].number
          /\ stored' = stored
          /\ residue' = TRUE /\ badThumb' = badThumb
          /\ work[w].at = work[w].written
      BY <2>3, <1>g
    <3>2. SoFar(w)'
      BY <3>1, <1>b, <1>c DEF SoFar
    <3>3. OnlyItsOwn(w)'
      BY <3>1, <1>b, <1>c DEF OnlyItsOwn
    <3>4. LeftBehind(w)'
      BY <3>1, <1>b, <1>c DEF LeftBehind
    <3> QED BY <3>2, <3>3, <3>4
  <2>4. CASE /\ work[w].at # work[w].written
             /\ work' = [work EXCEPT ![w] = [pc |-> "clean", number |-> work[w].number, at |-> work[w].at + 1, written |-> work[w].written]]
             /\ stored' = stored
             /\ residue' = TRUE /\ badThumb' = badThumb
    <3>1. /\ work'[w].pc = "clean" /\ work'[w].at = work[w].at + 1 /\ work'[w].written = work[w].written
          /\ work'[w].number = work[w].number
          /\ stored' = stored
          /\ residue' = TRUE /\ badThumb' = badThumb
          /\ work[w].at # work[w].written
      BY <2>4, <1>g
    <3>2. SoFar(w)'
      BY <3>1, <1>b, <1>c DEF SoFar
    <3>3. OnlyItsOwn(w)'
      BY <3>1, <1>b, <1>c DEF OnlyItsOwn
    <3>4. LeftBehind(w)'
      BY <3>1, <1>b, <1>c DEF LeftBehind
    <3> QED BY <3>2, <3>3, <3>4
  <2> QED BY <1>0, <2>1, <2>2, <2>3, <2>4
<1>7. FirstSpeaks'
  <2> SUFFICES ASSUME ~residue', \A v \in Workers : Untouched(v)', stored'[U!Objects'[1]] # 0
             PROVE  \A n \in U!InUse' : stored'[n] = stored'[U!Objects'[1]] \/ (media' = "video" /\ badThumb')
    BY DEF FirstSpeaks
  <2>o. U!Objects' = U!Objects /\ U!InUse' = U!InUse
    BY <1>3 DEF StepOf
  <2>w. w \in alone
    BY <1>3, <1>i DEF StepOf, AloneIsAlone
  <2>a. SoFar(w) /\ OnlyItsOwn(w)
    BY <2>w, <1>a
  <2>b. SoFar(w)' /\ OnlyItsOwn(w)' /\ LeftBehind(w)'
    BY <2>w, <1>6
  <2>t. Untouched(w)'
    OBVIOUS
  <2>p. \A v \in Workers \ {w} : Untouched(v)
    BY <1>3 DEF StepOf, Untouched, U!Busy
  <2>1. CASE /\ work[w].at = work[w].written
             /\ work' = [work EXCEPT ![w] = [pc |-> "failed", number |-> work[w].number, at |-> 1, written |-> 0]]
             /\ stored' = [stored EXCEPT ![U!Objects[work[w].at]] = 0]
             /\ residue' = residue /\ badThumb' = badThumb
    <3>1. /\ work'[w].pc = "failed" /\ work'[w].at = 1 /\ work'[w].written = 0
          /\ work'[w].number = work[w].number
          /\ \A n \in U!Names : stored'[n] = IF n = U!Objects[work[w].at] THEN 0 ELSE stored[n]
          /\ residue' = residue /\ badThumb' = badThumb
          /\ work[w].at = work[w].written
      BY <2>1, <1>g
    <3> QED
      <4>1. \A i \in 1 .. work[w].at : stored'[U!Objects[i]] = 0
        <5>1. \A i \in 1 .. work[w].at - 1 : stored[U!Objects[i]] = 0
          BY <3>1, <1>b, <2>a DEF SoFar
        <5>2. \A i \in 1 .. work[w].at : i = work[w].at \/ i \in 1 .. work[w].at - 1
          BY <1>q
        <5>3. \A i \in 1 .. work[w].at : U!Objects[i] \in U!Names
          BY <1>b, <1>m, <1>q, <1>r, <1>o, <1>v, <1>z
        <5> QED BY <5>1, <5>2, <5>3, <3>1, <1>b
      <4>2. stored'[U!Objects[1]] = 0
        BY <4>1, <1>q
      <4> QED BY <4>2, <2>o
  <2>2. CASE /\ work[w].at # work[w].written
             /\ work' = [work EXCEPT ![w] = [pc |-> "clean", number |-> work[w].number, at |-> work[w].at + 1, written |-> work[w].written]]
             /\ stored' = [stored EXCEPT ![U!Objects[work[w].at]] = 0]
             /\ residue' = residue /\ badThumb' = badThumb
    <3>1. /\ work'[w].pc = "clean" /\ work'[w].at = work[w].at + 1 /\ work'[w].written = work[w].written
          /\ work'[w].number = work[w].number
          /\ \A n \in U!Names : stored'[n] = IF n = U!Objects[work[w].at] THEN 0 ELSE stored[n]
          /\ residue' = residue /\ badThumb' = badThumb
          /\ work[w].at # work[w].written
      BY <2>2, <1>g
    <3> QED
      BY <3>1, <2>t DEF Untouched, U!Busy, U!AtRest
  <2>3. CASE /\ work[w].at = work[w].written
             /\ work' = [work EXCEPT ![w] = [pc |-> "failed", number |-> work[w].number, at |-> 1, written |-> 0]]
             /\ stored' = stored
             /\ residue' = TRUE /\ badThumb' = badThumb
    <3>1. /\ work'[w].pc = "failed" /\ work'[w].at = 1 /\ work'[w].written = 0
          /\ work'[w].number = work[w].number
          /\ stored' = stored
          /\ residue' = TRUE /\ badThumb' = badThumb
          /\ work[w].at = work[w].written
      BY <2>3, <1>g
    <3> QED BY <3>1
  <2>4. CASE /\ work[w].at # work[w].written
             /\ work' = [work EXCEPT ![w] = [pc |-> "clean", number |-> work[w].number, at |-> work[w].at + 1, written |-> work[w].written]]
             /\ stored' = stored
             /\ residue' = TRUE /\ badThumb' = badThumb
    <3>1. /\ work'[w].pc = "clean" /\ work'[w].at = work[w].at + 1 /\ work'[w].written = work[w].written
          /\ work'[w].number = work[w].number
          /\ stored' = stored
          /\ residue' = TRUE /\ badThumb' = badThumb
          /\ work[w].at # work[w].written
      BY <2>4, <1>g
    <3> QED BY <3>1
  <2> QED BY <1>0, <2>1, <2>2, <2>3, <2>4
<1>8. \A v \in alone' : SoFar(v)' /\ OnlyItsOwn(v)' /\ LeftBehind(v)'
  BY <1>3, <1>6, <1>c, StepKeepsOthers
<1> QED BY <1>2, <1>4, <1>5, <1>7, <1>8 DEF MediaIInv

(* An object of an image is deleted, or not.                               *)
LEMMA DeleteImageStep ==
    ASSUME MediaIInv, NEW w \in Workers, U!DeleteImage(w) PROVE MediaIInv'
<1> USE MediaAssumption
<1>g. /\ media \in {"image", "video"} /\ remote \in BOOLEAN
      /\ stored \in [U!Names -> 0 .. MaxCalls] /\ calls \in 0 .. MaxCalls /\ work \in [Workers -> Works]
      /\ alone \subseteq Workers /\ before \in [Workers -> [U!Names -> 0 .. MaxCalls]]
      /\ residue \in BOOLEAN /\ badThumb \in BOOLEAN
  BY DEF MediaIInv, U!TypeOK, Works
<1>i. InOrder /\ AloneIsAlone /\ FirstSpeaks
  BY DEF MediaIInv
<1>a. w \in alone => SoFar(w) /\ OnlyItsOwn(w) /\ LeftBehind(w)
  BY DEF MediaIInv
<1>o. Len(U!Objects) \in 1 .. Len(Sizes) + 2 /\ \A i \in 1 .. Len(U!Objects) : U!Objects[i] \in U!Names
  BY <1>g, ObjectsAreNamed
<1>u. U!InUse = {U!Objects[i] : i \in 1 .. Len(U!Objects)}
  BY <1>g, ObjectsAreNamed
<1>b. work[w].pc = "delete" /\ media = "image"
  BY DEF U!DeleteImage
<1>m. media = "image"
  BY <1>b, <1>i DEF InOrder
<1>v. Len(U!Objects) = Len(Sizes) /\ "thumb" \notin U!InUse
  BY <1>g, <1>m, ObjectsAreNamed
<1>z. Len(Sizes) \in Nat /\ Len(Sizes) >= 1 /\ 0 \in 0 .. MaxCalls
  OBVIOUS
<1>n. work[w] \in Works
  BY <1>g
<1>q. /\ work[w].number \in 0 .. MaxCalls /\ work[w].at \in 1 .. Len(Sizes) + 2
      /\ work[w].written \in 0 .. Len(Sizes) /\ work[w].number <= calls
  BY <1>n, <1>i DEF Works, InOrder
<1>r. /\ work[w].pc \in {"save", "delete"} => work[w].at <= Len(U!Objects)
      /\ work[w].pc = "clean" =>
             media = "image" /\ work[w].at <= work[w].written /\ work[w].written < Len(Sizes)
  BY <1>i DEF InOrder
<1>c. UNCHANGED <<media, remote, calls, alone, before>>
  BY DEF U!DeleteImage, U!Same
<1>0. \/ /\ work[w].at = Len(U!Objects)
         /\ work' = [work EXCEPT ![w] = [pc |-> "removed", number |-> work[w].number, at |-> 1, written |-> 0]]
         /\ stored' = [stored EXCEPT ![U!Objects[work[w].at]] = 0]
         /\ residue' = (residue /\ w \notin alone) /\ badThumb' = badThumb
      \/ /\ work[w].at # Len(U!Objects)
         /\ work' = [work EXCEPT ![w] = [pc |-> "delete", number |-> work[w].number, at |-> work[w].at + 1, written |-> work[w].written]]
         /\ stored' = [stored EXCEPT ![U!Objects[work[w].at]] = 0]
         /\ residue' = residue /\ badThumb' = badThumb
      \/ /\ work' = [work EXCEPT ![w] = [pc |-> "failed", number |-> work[w].number, at |-> 1, written |-> 0]]
         /\ stored' = stored
         /\ residue' = residue /\ badThumb' = badThumb
      \/ /\ work' = [work EXCEPT ![w] = [pc |-> "failed", number |-> work[w].number, at |-> 1, written |-> 0]]
         /\ stored' = [stored EXCEPT ![U!Objects[work[w].at]] = 0]
         /\ residue' = TRUE /\ badThumb' = badThumb
  <2>1. U!Goto(w, "removed") => work' = [work EXCEPT ![w] = [pc |-> "removed", number |-> work[w].number, at |-> 1, written |-> 0]]
    BY <1>g, GotoIs
  <2>2. [work EXCEPT ![w].at = work[w].at + 1]
         = [work EXCEPT ![w] = [pc |-> "delete", number |-> work[w].number, at |-> work[w].at + 1, written |-> work[w].written]]
    BY <1>b, <1>g, NextIs
  <2>3. U!Goto(w, "failed") => work' = [work EXCEPT ![w] = [pc |-> "failed", number |-> work[w].number, at |-> 1, written |-> 0]]
    BY <1>g, GotoIs
  <2>4. U!NextToDelete(w) = U!Objects[work[w].at]
    BY DEF U!NextToDelete
  <2>5. CASE U!Returns(w, "failed")
    BY <2>3, <2>5 DEF U!DeleteImage, U!Returns
  <2>6. CASE /\ stored' = [stored EXCEPT ![U!NextToDelete(w)] = 0]
             /\ IF work[w].at = Len(U!Objects)
                  THEN U!Goto(w, "removed") /\ U!Completed(w)
                  ELSE work' = [work EXCEPT ![w].at = @ + 1] /\ UNCHANGED residue
    <3>1. badThumb' = badThumb
      BY DEF U!DeleteImage
    <3> QED BY <2>1, <2>2, <2>4, <2>6, <3>1 DEF U!Completed
  <2>7. CASE /\ U!Goto(w, "failed") /\ residue' = TRUE
             /\ stored' = [stored EXCEPT ![U!NextToDelete(w)] = 0]
    BY <2>3, <2>4, <2>7 DEF U!DeleteImage
  <2> QED BY <2>5, <2>6, <2>7 DEF U!DeleteImage
<1>1. work' \in [Workers -> Works] /\ stored' \in [U!Names -> 0 .. MaxCalls] /\ residue' \in BOOLEAN /\ badThumb' \in BOOLEAN
  <2>1. work' \in [Workers -> Works]
    <3>1. CASE /\ work[w].at = Len(U!Objects)
               /\ work' = [work EXCEPT ![w] = [pc |-> "removed", number |-> work[w].number, at |-> 1, written |-> 0]]
      <4>1. [pc |-> "removed", number |-> work[w].number, at |-> 1, written |-> 0] \in Works
        BY <3>1, <1>b, <1>m, <1>q, <1>r, <1>o, <1>v, <1>z DEF Works, U!Pcs
      <4> QED BY <4>1, <3>1, <1>g
    <3>2. CASE /\ work[w].at # Len(U!Objects)
               /\ work' = [work EXCEPT ![w] = [pc |-> "delete", number |-> work[w].number, at |-> work[w].at + 1, written |-> work[w].written]]
      <4>1. [pc |-> "delete", number |-> work[w].number, at |-> work[w].at + 1, written |-> work[w].written] \in Works
        BY <3>2, <1>b, <1>m, <1>q, <1>r, <1>o, <1>v, <1>z DEF Works, U!Pcs
      <4> QED BY <4>1, <3>2, <1>g
    <3>3. CASE work' = [work EXCEPT ![w] = [pc |-> "failed", number |-> work[w].number, at |-> 1, written |-> 0]]
      <4>1. [pc |-> "failed", number |-> work[w].number, at |-> 1, written |-> 0] \in Works
        BY <3>3, <1>b, <1>m, <1>q, <1>r, <1>o, <1>v, <1>z DEF Works, U!Pcs
      <4> QED BY <4>1, <3>3, <1>g
    <3>4. CASE work' = [work EXCEPT ![w] = [pc |-> "failed", number |-> work[w].number, at |-> 1, written |-> 0]]
      <4>1. [pc |-> "failed", number |-> work[w].number, at |-> 1, written |-> 0] \in Works
        BY <3>4, <1>b, <1>m, <1>q, <1>r, <1>o, <1>v, <1>z DEF Works, U!Pcs
      <4> QED BY <4>1, <3>4, <1>g
    <3> QED BY <1>0, <3>1, <3>2, <3>3, <3>4
  <2>2. stored' \in [U!Names -> 0 .. MaxCalls]
    BY <1>0, <1>b, <1>m, <1>q, <1>r, <1>g, <1>o, <1>v, <1>z
  <2> QED BY <2>1, <2>2, <1>0, <1>g
<1>2. U!TypeOK'
  BY <1>1, <1>c, <1>g DEF U!TypeOK, Works
<1>3. StepOf(w)
  <2>1. U!Busy(w)
    BY <1>b DEF U!Busy, U!AtRest
  <2>2. (\A v \in Workers \ {w} : work'[v] = work[v]) /\ work'[w].number = work[w].number
    BY <1>0, <1>g
  <2>3. U!Objects' = U!Objects /\ U!InUse' = U!InUse
    BY <1>c DEF U!Objects, U!InUse
  <2>4. ~residue' => ~residue \/ w \in alone
    BY <1>0, <1>g
  <2> QED BY <1>1, <1>c, <2>1, <2>2, <2>3, <2>4 DEF StepOf
<1>4. InOrder'
  <2>1. \A v \in Workers \ {w} : work'[v] = work[v]
    BY <1>3 DEF StepOf
  <2>2. /\ work'[w].number <= calls
        /\ work'[w].pc \in {"save", "delete"} => work'[w].at <= Len(U!Objects)
        /\ work'[w].pc = "clean" =>
               media = "image" /\ work'[w].at <= work'[w].written /\ work'[w].written < Len(Sizes)
    <3>1. CASE /\ work[w].at = Len(U!Objects)
               /\ work' = [work EXCEPT ![w] = [pc |-> "removed", number |-> work[w].number, at |-> 1, written |-> 0]]
      <4>1. work'[w].pc = "removed" /\ work'[w].number = work[w].number /\ work'[w].at = 1 /\ work'[w].written = 0
        BY <3>1, <1>g
      <4> QED BY <4>1, <3>1, <1>b, <1>m, <1>q, <1>r, <1>o, <1>v, <1>z
    <3>2. CASE /\ work[w].at # Len(U!Objects)
               /\ work' = [work EXCEPT ![w] = [pc |-> "delete", number |-> work[w].number, at |-> work[w].at + 1, written |-> work[w].written]]
      <4>1. work'[w].pc = "delete" /\ work'[w].number = work[w].number /\ work'[w].at = work[w].at + 1 /\ work'[w].written = work[w].written
        BY <3>2, <1>g
      <4> QED BY <4>1, <3>2, <1>b, <1>m, <1>q, <1>r, <1>o, <1>v, <1>z
    <3>3. CASE work' = [work EXCEPT ![w] = [pc |-> "failed", number |-> work[w].number, at |-> 1, written |-> 0]]
      <4>1. work'[w].pc = "failed" /\ work'[w].number = work[w].number /\ work'[w].at = 1 /\ work'[w].written = 0
        BY <3>3, <1>g
      <4> QED BY <4>1, <3>3, <1>b, <1>m, <1>q, <1>r, <1>o, <1>v, <1>z
    <3>4. CASE work' = [work EXCEPT ![w] = [pc |-> "failed", number |-> work[w].number, at |-> 1, written |-> 0]]
      <4>1. work'[w].pc = "failed" /\ work'[w].number = work[w].number /\ work'[w].at = 1 /\ work'[w].written = 0
        BY <3>4, <1>g
      <4> QED BY <4>1, <3>4, <1>b, <1>m, <1>q, <1>r, <1>o, <1>v, <1>z
    <3> QED BY <1>0, <3>1, <3>2, <3>3, <3>4
  <2> QED BY <2>1, <2>2, <1>i, <1>c, <1>3 DEF InOrder, StepOf
<1>5. AloneIsAlone'
  BY <1>3, StepKeepsAlone
<1>6. ASSUME w \in alone PROVE SoFar(w)' /\ OnlyItsOwn(w)' /\ LeftBehind(w)'
  <2>a. SoFar(w) /\ OnlyItsOwn(w) /\ LeftBehind(w)
    BY <1>6, <1>a
  <2>o. U!Objects' = U!Objects /\ U!InUse' = U!InUse
    BY <1>3 DEF StepOf
  <2>1. CASE /\ work[w].at = Len(U!Objects)
             /\ work' = [work EXCEPT ![w] = [pc |-> "removed", number |-> work[w].number, at |-> 1, written |-> 0]]
             /\ stored' = [stored EXCEPT ![U!Objects[work[w].at]] = 0]
             /\ residue' = (residue /\ w \notin alone) /\ badThumb' = badThumb
    <3>1. /\ work'[w].pc = "removed" /\ work'[w].at = 1 /\ work'[w].written = 0
          /\ work'[w].number = work[w].number
          /\ \A n \in U!Names : stored'[n] = IF n = U!Objects[work[w].at] THEN 0 ELSE stored[n]
          /\ residue' = (residue /\ w \notin alone) /\ badThumb' = badThumb
          /\ work[w].at = Len(U!Objects)
      BY <2>1, <1>g
    <3>2. SoFar(w)'
      BY <3>1, <1>b, <1>c DEF SoFar
    <3>3. OnlyItsOwn(w)'
      BY <3>1, <1>b, <1>c DEF OnlyItsOwn
    <3>4. LeftBehind(w)'
      <4>1. \A i \in 1 .. work[w].at : stored'[U!Objects[i]] = 0
        <5>1. \A i \in 1 .. work[w].at - 1 : stored[U!Objects[i]] = 0
          BY <3>1, <1>b, <2>a DEF SoFar
        <5>2. \A i \in 1 .. work[w].at : i = work[w].at \/ i \in 1 .. work[w].at - 1
          BY <1>q
        <5>3. \A i \in 1 .. work[w].at : U!Objects[i] \in U!Names
          BY <1>b, <1>m, <1>q, <1>r, <1>o, <1>v, <1>z
        <5> QED BY <5>1, <5>2, <5>3, <3>1, <1>b
      <4>2. \A n \in U!InUse : stored'[n] = 0
        BY <4>1, <3>1, <1>u
      <4> QED BY <4>2, <3>1, <2>o DEF LeftBehind
    <3> QED BY <3>2, <3>3, <3>4
  <2>2. CASE /\ work[w].at # Len(U!Objects)
             /\ work' = [work EXCEPT ![w] = [pc |-> "delete", number |-> work[w].number, at |-> work[w].at + 1, written |-> work[w].written]]
             /\ stored' = [stored EXCEPT ![U!Objects[work[w].at]] = 0]
             /\ residue' = residue /\ badThumb' = badThumb
    <3>1. /\ work'[w].pc = "delete" /\ work'[w].at = work[w].at + 1 /\ work'[w].written = work[w].written
          /\ work'[w].number = work[w].number
          /\ \A n \in U!Names : stored'[n] = IF n = U!Objects[work[w].at] THEN 0 ELSE stored[n]
          /\ residue' = residue /\ badThumb' = badThumb
          /\ work[w].at # Len(U!Objects)
      BY <2>2, <1>g
    <3>2. SoFar(w)'
      <4>1. \A i \in 1 .. work[w].at : stored'[U!Objects[i]] = 0
        <5>1. \A i \in 1 .. work[w].at - 1 : stored[U!Objects[i]] = 0
          BY <3>1, <1>b, <2>a DEF SoFar
        <5>2. \A i \in 1 .. work[w].at : i = work[w].at \/ i \in 1 .. work[w].at - 1
          BY <1>q
        <5>3. \A i \in 1 .. work[w].at : U!Objects[i] \in U!Names
          BY <1>b, <1>m, <1>q, <1>r, <1>o, <1>v, <1>z
        <5> QED BY <5>1, <5>2, <5>3, <3>1, <1>b
      <4>2. work'[w].at - 1 = work[w].at
        BY <3>1, <1>q
      <4> QED BY <4>1, <4>2, <3>1, <2>o DEF SoFar
    <3>3. OnlyItsOwn(w)'
      <4> SUFFICES ASSUME before'[w] = U!Empty, ~residue' PROVE stored' = U!Empty
        BY <3>1 DEF OnlyItsOwn
      <4>1. stored = U!Empty
        BY <3>1, <1>b, <1>c, <2>a DEF OnlyItsOwn
      <4>2. \A n \in U!Names : stored'[n] = 0
        BY <4>1, <3>1, <1>g, EmptyMeans
      <4> QED BY <4>2, <1>1, EmptyMeans
    <3>4. LeftBehind(w)'
      BY <3>1, <1>b, <1>c DEF LeftBehind
    <3> QED BY <3>2, <3>3, <3>4
  <2>3. CASE /\ work' = [work EXCEPT ![w] = [pc |-> "failed", number |-> work[w].number, at |-> 1, written |-> 0]]
             /\ stored' = stored
             /\ residue' = residue /\ badThumb' = badThumb
    <3>1. /\ work'[w].pc = "failed" /\ work'[w].at = 1 /\ work'[w].written = 0
          /\ work'[w].number = work[w].number
          /\ stored' = stored
          /\ residue' = residue /\ badThumb' = badThumb
      BY <2>3, <1>g
    <3>2. SoFar(w)'
      BY <3>1, <1>b, <1>c DEF SoFar
    <3>3. OnlyItsOwn(w)'
      BY <3>1, <1>b, <1>c DEF OnlyItsOwn
    <3>4. LeftBehind(w)'
      BY <3>1, <1>b, <1>c, <2>a, <2>o, <1>n, <1>g DEF SoFar, OnlyItsOwn, LeftBehind
    <3> QED BY <3>2, <3>3, <3>4
  <2>4. CASE /\ work' = [work EXCEPT ![w] = [pc |-> "failed", number |-> work[w].number, at |-> 1, written |-> 0]]
             /\ stored' = [stored EXCEPT ![U!Objects[work[w].at]] = 0]
             /\ residue' = TRUE /\ badThumb' = badThumb
    <3>1. /\ work'[w].pc = "failed" /\ work'[w].at = 1 /\ work'[w].written = 0
          /\ work'[w].number = work[w].number
          /\ \A n \in U!Names : stored'[n] = IF n = U!Objects[work[w].at] THEN 0 ELSE stored[n]
          /\ residue' = TRUE /\ badThumb' = badThumb
      BY <2>4, <1>g
    <3>2. SoFar(w)'
      BY <3>1, <1>b, <1>c DEF SoFar
    <3>3. OnlyItsOwn(w)'
      BY <3>1, <1>b, <1>c DEF OnlyItsOwn
    <3>4. LeftBehind(w)'
      BY <3>1, <1>b, <1>c DEF LeftBehind
    <3> QED BY <3>2, <3>3, <3>4
  <2> QED BY <1>0, <2>1, <2>2, <2>3, <2>4
<1>7. FirstSpeaks'
  <2> SUFFICES ASSUME ~residue', \A v \in Workers : Untouched(v)', stored'[U!Objects'[1]] # 0
             PROVE  \A n \in U!InUse' : stored'[n] = stored'[U!Objects'[1]] \/ (media' = "video" /\ badThumb')
    BY DEF FirstSpeaks
  <2>o. U!Objects' = U!Objects /\ U!InUse' = U!InUse
    BY <1>3 DEF StepOf
  <2>w. w \in alone
    BY <1>3, <1>i DEF StepOf, AloneIsAlone
  <2>a. SoFar(w) /\ OnlyItsOwn(w)
    BY <2>w, <1>a
  <2>b. SoFar(w)' /\ OnlyItsOwn(w)' /\ LeftBehind(w)'
    BY <2>w, <1>6
  <2>t. Untouched(w)'
    OBVIOUS
  <2>p. \A v \in Workers \ {w} : Untouched(v)
    BY <1>3 DEF StepOf, Untouched, U!Busy
  <2>1. CASE /\ work[w].at = Len(U!Objects)
             /\ work' = [work EXCEPT ![w] = [pc |-> "removed", number |-> work[w].number, at |-> 1, written |-> 0]]
             /\ stored' = [stored EXCEPT ![U!Objects[work[w].at]] = 0]
             /\ residue' = (residue /\ w \notin alone) /\ badThumb' = badThumb
    <3>1. /\ work'[w].pc = "removed" /\ work'[w].at = 1 /\ work'[w].written = 0
          /\ work'[w].number = work[w].number
          /\ \A n \in U!Names : stored'[n] = IF n = U!Objects[work[w].at] THEN 0 ELSE stored[n]
          /\ residue' = (residue /\ w \notin alone) /\ badThumb' = badThumb
          /\ work[w].at = Len(U!Objects)
      BY <2>1, <1>g
    <3> QED
      <4>1. \A i \in 1 .. work[w].at : stored'[U!Objects[i]] = 0
        <5>1. \A i \in 1 .. work[w].at - 1 : stored[U!Objects[i]] = 0
          BY <3>1, <1>b, <2>a DEF SoFar
        <5>2. \A i \in 1 .. work[w].at : i = work[w].at \/ i \in 1 .. work[w].at - 1
          BY <1>q
        <5>3. \A i \in 1 .. work[w].at : U!Objects[i] \in U!Names
          BY <1>b, <1>m, <1>q, <1>r, <1>o, <1>v, <1>z
        <5> QED BY <5>1, <5>2, <5>3, <3>1, <1>b
      <4>2. stored'[U!Objects[1]] = 0
        BY <4>1, <1>q
      <4> QED BY <4>2, <2>o
  <2>2. CASE /\ work[w].at # Len(U!Objects)
             /\ work' = [work EXCEPT ![w] = [pc |-> "delete", number |-> work[w].number, at |-> work[w].at + 1, written |-> work[w].written]]
             /\ stored' = [stored EXCEPT ![U!Objects[work[w].at]] = 0]
             /\ residue' = residue /\ badThumb' = badThumb
    <3>1. /\ work'[w].pc = "delete" /\ work'[w].at = work[w].at + 1 /\ work'[w].written = work[w].written
          /\ work'[w].number = work[w].number
          /\ \A n \in U!Names : stored'[n] = IF n = U!Objects[work[w].at] THEN 0 ELSE stored[n]
          /\ residue' = residue /\ badThumb' = badThumb
          /\ work[w].at # Len(U!Objects)
      BY <2>2, <1>g
    <3> QED
      <4>1. work'[w].pc = "delete" /\ work'[w].at # 1
        BY <3>1, <1>q
      <4> QED BY <4>1, <2>t DEF Untouched, U!Busy, U!AtRest
  <2>3. CASE /\ work' = [work EXCEPT ![w] = [pc |-> "failed", number |-> work[w].number, at |-> 1, written |-> 0]]
             /\ stored' = stored
             /\ residue' = residue /\ badThumb' = badThumb
    <3>1. /\ work'[w].pc = "failed" /\ work'[w].at = 1 /\ work'[w].written = 0
          /\ work'[w].number = work[w].number
          /\ stored' = stored
          /\ residue' = residue /\ badThumb' = badThumb
      BY <2>3, <1>g
    <3>2. CASE work[w].at = 1
      <4>1. \A v \in Workers : Untouched(v)
        BY <3>2, <2>p, <1>b DEF Untouched
      <4> QED BY <4>1, <3>1, <1>i, <1>c, <2>o DEF FirstSpeaks
    <3>3. CASE work[w].at # 1
      <4>1. 1 \in 1 .. work[w].at - 1
        BY <3>3, <1>q
      <4>2. stored[U!Objects[1]] = 0
        BY <4>1, <1>b, <2>a DEF SoFar
      <4> QED BY <4>2, <3>1, <2>o
    <3> QED BY <3>2, <3>3
  <2>4. CASE /\ work' = [work EXCEPT ![w] = [pc |-> "failed", number |-> work[w].number, at |-> 1, written |-> 0]]
             /\ stored' = [stored EXCEPT ![U!Objects[work[w].at]] = 0]
             /\ residue' = TRUE /\ badThumb' = badThumb
    <3>1. /\ work'[w].pc = "failed" /\ work'[w].at = 1 /\ work'[w].written = 0
          /\ work'[w].number = work[w].number
          /\ \A n \in U!Names : stored'[n] = IF n = U!Objects[work[w].at] THEN 0 ELSE stored[n]
          /\ residue' = TRUE /\ badThumb' = badThumb
      BY <2>4, <1>g
    <3> QED BY <3>1
  <2> QED BY <1>0, <2>1, <2>2, <2>3, <2>4
<1>8. \A v \in alone' : SoFar(v)' /\ OnlyItsOwn(v)' /\ LeftBehind(v)'
  BY <1>3, <1>6, <1>c, StepKeepsOthers
<1> QED BY <1>2, <1>4, <1>5, <1>7, <1>8 DEF MediaIInv

(* The file of a video is saved, or not.                                   *)
LEMMA SaveVideoStep ==
    ASSUME MediaIInv, NEW w \in Workers, U!SaveVideo(w) PROVE MediaIInv'
<1> USE MediaAssumption
<1>g. /\ media \in {"image", "video"} /\ remote \in BOOLEAN
      /\ stored \in [U!Names -> 0 .. MaxCalls] /\ calls \in 0 .. MaxCalls /\ work \in [Workers -> Works]
      /\ alone \subseteq Workers /\ before \in [Workers -> [U!Names -> 0 .. MaxCalls]]
      /\ residue \in BOOLEAN /\ badThumb \in BOOLEAN
  BY DEF MediaIInv, U!TypeOK, Works
<1>i. InOrder /\ AloneIsAlone /\ FirstSpeaks
  BY DEF MediaIInv
<1>a. w \in alone => SoFar(w) /\ OnlyItsOwn(w) /\ LeftBehind(w)
  BY DEF MediaIInv
<1>o. Len(U!Objects) \in 1 .. Len(Sizes) + 2 /\ \A i \in 1 .. Len(U!Objects) : U!Objects[i] \in U!Names
  BY <1>g, ObjectsAreNamed
<1>u. U!InUse = {U!Objects[i] : i \in 1 .. Len(U!Objects)}
  BY <1>g, ObjectsAreNamed
<1>b. work[w].pc = "save" /\ media = "video" /\ work[w].at = 1
  BY DEF U!SaveVideo
<1>m. media = "video"
  BY <1>b
<1>v. /\ Len(U!Objects) = 2 /\ U!Objects[1] = "video" /\ U!Objects[2] = "thumb"
      /\ U!InUse = {"video", "thumb"} /\ {"video", "thumb"} \subseteq U!Names
  BY <1>g, <1>m, ObjectsAreNamed
<1>z. Len(Sizes) \in Nat /\ Len(Sizes) >= 1 /\ 0 \in 0 .. MaxCalls
  OBVIOUS
<1>n. work[w] \in Works
  BY <1>g
<1>q. /\ work[w].number \in 0 .. MaxCalls /\ work[w].at \in 1 .. Len(Sizes) + 2
      /\ work[w].written \in 0 .. Len(Sizes) /\ work[w].number <= calls
  BY <1>n, <1>i DEF Works, InOrder
<1>r. /\ work[w].pc \in {"save", "delete"} => work[w].at <= Len(U!Objects)
      /\ work[w].pc = "clean" =>
             media = "image" /\ work[w].at <= work[w].written /\ work[w].written < Len(Sizes)
  BY <1>i DEF InOrder
<1>c. UNCHANGED <<media, remote, calls, alone, before>>
  BY DEF U!SaveVideo, U!Same
<1>0. \/ /\ work' = [work EXCEPT ![w] = [pc |-> "save", number |-> work[w].number, at |-> 2, written |-> work[w].written]]
         /\ stored' = [stored EXCEPT !["video"] = work[w].number]
         /\ residue' = residue /\ badThumb' = badThumb
      \/ /\ work' = [work EXCEPT ![w] = [pc |-> "failed", number |-> work[w].number, at |-> 1, written |-> 0]]
         /\ stored' = stored
         /\ residue' = residue /\ badThumb' = badThumb
      \/ /\ work' = [work EXCEPT ![w] = [pc |-> "failed", number |-> work[w].number, at |-> 1, written |-> 0]]
         /\ stored' = [stored EXCEPT !["video"] = work[w].number]
         /\ residue' = TRUE /\ badThumb' = badThumb
  <2>1. [work EXCEPT ![w].at = 2]
         = [work EXCEPT ![w] = [pc |-> "save", number |-> work[w].number, at |-> 2, written |-> work[w].written]]
    BY <1>b, <1>g, NextIs
  <2>2. U!Goto(w, "failed") => work' = [work EXCEPT ![w] = [pc |-> "failed", number |-> work[w].number, at |-> 1, written |-> 0]]
    BY <1>g, GotoIs
  <2>3. CASE U!Put(w, "video") /\ work' = [work EXCEPT ![w].at = 2] /\ UNCHANGED <<residue, badThumb>>
    BY <2>1, <2>3 DEF U!Put
  <2>4. CASE U!Returns(w, "failed")
    BY <2>2, <2>4 DEF U!Returns
  <2>5. CASE U!Put(w, "video") /\ U!Goto(w, "failed") /\ residue' = TRUE /\ UNCHANGED badThumb
    BY <2>2, <2>5 DEF U!Put
  <2> QED BY <2>3, <2>4, <2>5 DEF U!SaveVideo
<1>1. work' \in [Workers -> Works] /\ stored' \in [U!Names -> 0 .. MaxCalls] /\ residue' \in BOOLEAN /\ badThumb' \in BOOLEAN
  <2>1. work' \in [Workers -> Works]
    <3>1. CASE work' = [work EXCEPT ![w] = [pc |-> "save", number |-> work[w].number, at |-> 2, written |-> work[w].written]]
      <4>1. [pc |-> "save", number |-> work[w].number, at |-> 2, written |-> work[w].written] \in Works
        BY <3>1, <1>b, <1>m, <1>q, <1>r, <1>o, <1>v, <1>z DEF Works, U!Pcs
      <4> QED BY <4>1, <3>1, <1>g
    <3>2. CASE work' = [work EXCEPT ![w] = [pc |-> "failed", number |-> work[w].number, at |-> 1, written |-> 0]]
      <4>1. [pc |-> "failed", number |-> work[w].number, at |-> 1, written |-> 0] \in Works
        BY <3>2, <1>b, <1>m, <1>q, <1>r, <1>o, <1>v, <1>z DEF Works, U!Pcs
      <4> QED BY <4>1, <3>2, <1>g
    <3>3. CASE work' = [work EXCEPT ![w] = [pc |-> "failed", number |-> work[w].number, at |-> 1, written |-> 0]]
      <4>1. [pc |-> "failed", number |-> work[w].number, at |-> 1, written |-> 0] \in Works
        BY <3>3, <1>b, <1>m, <1>q, <1>r, <1>o, <1>v, <1>z DEF Works, U!Pcs
      <4> QED BY <4>1, <3>3, <1>g
    <3> QED BY <1>0, <3>1, <3>2, <3>3
  <2>2. stored' \in [U!Names -> 0 .. MaxCalls]
    BY <1>0, <1>b, <1>m, <1>q, <1>r, <1>g, <1>o, <1>v, <1>z
  <2> QED BY <2>1, <2>2, <1>0, <1>g
<1>2. U!TypeOK'
  BY <1>1, <1>c, <1>g DEF U!TypeOK, Works
<1>3. StepOf(w)
  <2>1. U!Busy(w)
    BY <1>b DEF U!Busy, U!AtRest
  <2>2. (\A v \in Workers \ {w} : work'[v] = work[v]) /\ work'[w].number = work[w].number
    BY <1>0, <1>g
  <2>3. U!Objects' = U!Objects /\ U!InUse' = U!InUse
    BY <1>c DEF U!Objects, U!InUse
  <2>4. ~residue' => ~residue \/ w \in alone
    BY <1>0, <1>g
  <2> QED BY <1>1, <1>c, <2>1, <2>2, <2>3, <2>4 DEF StepOf
<1>4. InOrder'
  <2>1. \A v \in Workers \ {w} : work'[v] = work[v]
    BY <1>3 DEF StepOf
  <2>2. /\ work'[w].number <= calls
        /\ work'[w].pc \in {"save", "delete"} => work'[w].at <= Len(U!Objects)
        /\ work'[w].pc = "clean" =>
               media = "image" /\ work'[w].at <= work'[w].written /\ work'[w].written < Len(Sizes)
    <3>1. CASE work' = [work EXCEPT ![w] = [pc |-> "save", number |-> work[w].number, at |-> 2, written |-> work[w].written]]
      <4>1. work'[w].pc = "save" /\ work'[w].number = work[w].number /\ work'[w].at = 2 /\ work'[w].written = work[w].written
        BY <3>1, <1>g
      <4> QED BY <4>1, <3>1, <1>b, <1>m, <1>q, <1>r, <1>o, <1>v, <1>z
    <3>2. CASE work' = [work EXCEPT ![w] = [pc |-> "failed", number |-> work[w].number, at |-> 1, written |-> 0]]
      <4>1. work'[w].pc = "failed" /\ work'[w].number = work[w].number /\ work'[w].at = 1 /\ work'[w].written = 0
        BY <3>2, <1>g
      <4> QED BY <4>1, <3>2, <1>b, <1>m, <1>q, <1>r, <1>o, <1>v, <1>z
    <3>3. CASE work' = [work EXCEPT ![w] = [pc |-> "failed", number |-> work[w].number, at |-> 1, written |-> 0]]
      <4>1. work'[w].pc = "failed" /\ work'[w].number = work[w].number /\ work'[w].at = 1 /\ work'[w].written = 0
        BY <3>3, <1>g
      <4> QED BY <4>1, <3>3, <1>b, <1>m, <1>q, <1>r, <1>o, <1>v, <1>z
    <3> QED BY <1>0, <3>1, <3>2, <3>3
  <2> QED BY <2>1, <2>2, <1>i, <1>c, <1>3 DEF InOrder, StepOf
<1>5. AloneIsAlone'
  BY <1>3, StepKeepsAlone
<1>6. ASSUME w \in alone PROVE SoFar(w)' /\ OnlyItsOwn(w)' /\ LeftBehind(w)'
  <2>a. SoFar(w) /\ OnlyItsOwn(w) /\ LeftBehind(w)
    BY <1>6, <1>a
  <2>o. U!Objects' = U!Objects /\ U!InUse' = U!InUse
    BY <1>3 DEF StepOf
  <2>1. CASE /\ work' = [work EXCEPT ![w] = [pc |-> "save", number |-> work[w].number, at |-> 2, written |-> work[w].written]]
             /\ stored' = [stored EXCEPT !["video"] = work[w].number]
             /\ residue' = residue /\ badThumb' = badThumb
    <3>1. /\ work'[w].pc = "save" /\ work'[w].at = 2 /\ work'[w].written = work[w].written
          /\ work'[w].number = work[w].number
          /\ \A n \in U!Names : stored'[n] = IF n = "video" THEN work[w].number ELSE stored[n]
          /\ residue' = residue /\ badThumb' = badThumb
      BY <2>1, <1>g
    <3>2. SoFar(w)'
      BY <3>1, <1>b, <1>c, <2>a, <2>o, <1>n, <1>g, <1>o, <1>u, <1>v, <1>z, <1>i DEF SoFar,
         OnlyItsOwn, LeftBehind, InOrder, Works
    <3>3. OnlyItsOwn(w)'
      BY <3>1, <1>b, <1>c, <2>a, <2>o, <1>n, <1>g, <1>o, <1>u, <1>v, <1>z, <1>i DEF SoFar,
         OnlyItsOwn, LeftBehind, InOrder, Works
    <3>4. LeftBehind(w)'
      BY <3>1, <1>b, <1>c DEF LeftBehind
    <3> QED BY <3>2, <3>3, <3>4
  <2>2. CASE /\ work' = [work EXCEPT ![w] = [pc |-> "failed", number |-> work[w].number, at |-> 1, written |-> 0]]
             /\ stored' = stored
             /\ residue' = residue /\ badThumb' = badThumb
    <3>1. /\ work'[w].pc = "failed" /\ work'[w].at = 1 /\ work'[w].written = 0
          /\ work'[w].number = work[w].number
          /\ stored' = stored
          /\ residue' = residue /\ badThumb' = badThumb
      BY <2>2, <1>g
    <3>2. SoFar(w)'
      BY <3>1, <1>b, <1>c DEF SoFar
    <3>3. OnlyItsOwn(w)'
      BY <3>1, <1>b, <1>c DEF OnlyItsOwn
    <3>4. LeftBehind(w)'
      <4> SUFFICES ASSUME before'[w] = U!Empty, ~residue' PROVE stored' = U!Empty
        BY <3>1 DEF LeftBehind
      <4>1. \A n \in U!Names : stored[n] # 0 => \E i \in 1 .. work[w].at - 1 : n = U!Objects[i]
        BY <3>1, <1>b, <1>c, <2>a DEF OnlyItsOwn
      <4>2. 1 .. work[w].at - 1 = {}
        BY <1>b
      <4>3. \A n \in U!Names : stored[n] = 0
        BY <4>1, <4>2
      <4> QED BY <4>3, <3>1, <1>g, EmptyMeans
    <3> QED BY <3>2, <3>3, <3>4
  <2>3. CASE /\ work' = [work EXCEPT ![w] = [pc |-> "failed", number |-> work[w].number, at |-> 1, written |-> 0]]
             /\ stored' = [stored EXCEPT !["video"] = work[w].number]
             /\ residue' = TRUE /\ badThumb' = badThumb
    <3>1. /\ work'[w].pc = "failed" /\ work'[w].at = 1 /\ work'[w].written = 0
          /\ work'[w].number = work[w].number
          /\ \A n \in U!Names : stored'[n] = IF n = "video" THEN work[w].number ELSE stored[n]
          /\ residue' = TRUE /\ badThumb' = badThumb
      BY <2>3, <1>g
    <3>2. SoFar(w)'
      BY <3>1, <1>b, <1>c DEF SoFar
    <3>3. OnlyItsOwn(w)'
      BY <3>1, <1>b, <1>c DEF OnlyItsOwn
    <3>4. LeftBehind(w)'
      BY <3>1, <1>b, <1>c DEF LeftBehind
    <3> QED BY <3>2, <3>3, <3>4
  <2> QED BY <1>0, <2>1, <2>2, <2>3
<1>7. FirstSpeaks'
  <2> SUFFICES ASSUME ~residue', \A v \in Workers : Untouched(v)', stored'[U!Objects'[1]] # 0
             PROVE  \A n \in U!InUse' : stored'[n] = stored'[U!Objects'[1]] \/ (media' = "video" /\ badThumb')
    BY DEF FirstSpeaks
  <2>o. U!Objects' = U!Objects /\ U!InUse' = U!InUse
    BY <1>3 DEF StepOf
  <2>w. w \in alone
    BY <1>3, <1>i DEF StepOf, AloneIsAlone
  <2>a. SoFar(w) /\ OnlyItsOwn(w)
    BY <2>w, <1>a
  <2>b. SoFar(w)' /\ OnlyItsOwn(w)' /\ LeftBehind(w)'
    BY <2>w, <1>6
  <2>t. Untouched(w)'
    OBVIOUS
  <2>p. \A v \in Workers \ {w} : Untouched(v)
    BY <1>3 DEF StepOf, Untouched, U!Busy
  <2>1. CASE /\ work' = [work EXCEPT ![w] = [pc |-> "save", number |-> work[w].number, at |-> 2, written |-> work[w].written]]
             /\ stored' = [stored EXCEPT !["video"] = work[w].number]
             /\ residue' = residue /\ badThumb' = badThumb
    <3>1. /\ work'[w].pc = "save" /\ work'[w].at = 2 /\ work'[w].written = work[w].written
          /\ work'[w].number = work[w].number
          /\ \A n \in U!Names : stored'[n] = IF n = "video" THEN work[w].number ELSE stored[n]
          /\ residue' = residue /\ badThumb' = badThumb
      BY <2>1, <1>g
    <3> QED
      <4>1. work'[w].pc = "save" /\ work'[w].at # 1
        BY <3>1, <1>q
      <4> QED BY <4>1, <2>t DEF Untouched, U!Busy, U!AtRest
  <2>2. CASE /\ work' = [work EXCEPT ![w] = [pc |-> "failed", number |-> work[w].number, at |-> 1, written |-> 0]]
             /\ stored' = stored
             /\ residue' = residue /\ badThumb' = badThumb
    <3>1. /\ work'[w].pc = "failed" /\ work'[w].at = 1 /\ work'[w].written = 0
          /\ work'[w].number = work[w].number
          /\ stored' = stored
          /\ residue' = residue /\ badThumb' = badThumb
      BY <2>2, <1>g
    <3> QED
      BY <3>1, <1>b, <1>c, <2>o, <1>n, <1>o, <1>g, <1>z, <1>u, <1>v, <2>p, <1>i DEF FirstSpeaks,
         Untouched
  <2>3. CASE /\ work' = [work EXCEPT ![w] = [pc |-> "failed", number |-> work[w].number, at |-> 1, written |-> 0]]
             /\ stored' = [stored EXCEPT !["video"] = work[w].number]
             /\ residue' = TRUE /\ badThumb' = badThumb
    <3>1. /\ work'[w].pc = "failed" /\ work'[w].at = 1 /\ work'[w].written = 0
          /\ work'[w].number = work[w].number
          /\ \A n \in U!Names : stored'[n] = IF n = "video" THEN work[w].number ELSE stored[n]
          /\ residue' = TRUE /\ badThumb' = badThumb
      BY <2>3, <1>g
    <3> QED BY <3>1
  <2> QED BY <1>0, <2>1, <2>2, <2>3
<1>8. \A v \in alone' : SoFar(v)' /\ OnlyItsOwn(v)' /\ LeftBehind(v)'
  BY <1>3, <1>6, <1>c, StepKeepsOthers
<1> QED BY <1>2, <1>4, <1>5, <1>7, <1>8 DEF MediaIInv

(* The thumbnail is saved, or not.                                         *)
LEMMA SaveThumbStep ==
    ASSUME MediaIInv, NEW w \in Workers, U!SaveThumb(w) PROVE MediaIInv'
<1> USE MediaAssumption
<1>g. /\ media \in {"image", "video"} /\ remote \in BOOLEAN
      /\ stored \in [U!Names -> 0 .. MaxCalls] /\ calls \in 0 .. MaxCalls /\ work \in [Workers -> Works]
      /\ alone \subseteq Workers /\ before \in [Workers -> [U!Names -> 0 .. MaxCalls]]
      /\ residue \in BOOLEAN /\ badThumb \in BOOLEAN
  BY DEF MediaIInv, U!TypeOK, Works
<1>i. InOrder /\ AloneIsAlone /\ FirstSpeaks
  BY DEF MediaIInv
<1>a. w \in alone => SoFar(w) /\ OnlyItsOwn(w) /\ LeftBehind(w)
  BY DEF MediaIInv
<1>o. Len(U!Objects) \in 1 .. Len(Sizes) + 2 /\ \A i \in 1 .. Len(U!Objects) : U!Objects[i] \in U!Names
  BY <1>g, ObjectsAreNamed
<1>b. work[w].pc = "save" /\ media = "video" /\ work[w].at = 2
  BY DEF U!SaveThumb
<1>m. media = "video"
  BY <1>b
<1>v. /\ Len(U!Objects) = 2 /\ U!Objects[1] = "video" /\ U!Objects[2] = "thumb"
      /\ U!InUse = {"video", "thumb"} /\ {"video", "thumb"} \subseteq U!Names
  BY <1>g, <1>m, ObjectsAreNamed
<1>z. Len(Sizes) \in Nat /\ Len(Sizes) >= 1 /\ 0 \in 0 .. MaxCalls
  OBVIOUS
<1>n. work[w] \in Works
  BY <1>g
<1>q. /\ work[w].number \in 0 .. MaxCalls /\ work[w].at \in 1 .. Len(Sizes) + 2
      /\ work[w].written \in 0 .. Len(Sizes) /\ work[w].number <= calls
  BY <1>n, <1>i DEF Works, InOrder
<1>r. /\ work[w].pc \in {"save", "delete"} => work[w].at <= Len(U!Objects)
      /\ work[w].pc = "clean" =>
             media = "image" /\ work[w].at <= work[w].written /\ work[w].written < Len(Sizes)
  BY <1>i DEF InOrder
<1>c. UNCHANGED <<media, remote, calls, alone, before>>
  BY DEF U!SaveThumb, U!Same
<1>0. \/ /\ work' = [work EXCEPT ![w] = [pc |-> "done", number |-> work[w].number, at |-> 1, written |-> 0]]
         /\ stored' = [stored EXCEPT !["thumb"] = work[w].number]
         /\ residue' = (residue /\ w \notin alone) /\ badThumb' = FALSE
      \/ /\ work' = [work EXCEPT ![w] = [pc |-> "done", number |-> work[w].number, at |-> 1, written |-> 0]]
         /\ stored' = stored
         /\ residue' = (residue /\ w \notin alone) /\ badThumb' = TRUE
  BY <1>b, <1>n, <1>g, GotoIs, NextIs, FailsIs DEF U!SaveThumb, U!PutThumb, U!Put, U!Completed,
     U!Same
<1>1. work' \in [Workers -> Works] /\ stored' \in [U!Names -> 0 .. MaxCalls] /\ residue' \in BOOLEAN /\ badThumb' \in BOOLEAN
  <2>1. work' \in [Workers -> Works]
    <3>1. CASE work' = [work EXCEPT ![w] = [pc |-> "done", number |-> work[w].number, at |-> 1, written |-> 0]]
      <4>1. [pc |-> "done", number |-> work[w].number, at |-> 1, written |-> 0] \in Works
        BY <3>1, <1>b, <1>m, <1>q, <1>r, <1>o, <1>v, <1>z DEF Works, U!Pcs
      <4> QED BY <4>1, <3>1, <1>g
    <3>2. CASE work' = [work EXCEPT ![w] = [pc |-> "done", number |-> work[w].number, at |-> 1, written |-> 0]]
      <4>1. [pc |-> "done", number |-> work[w].number, at |-> 1, written |-> 0] \in Works
        BY <3>2, <1>b, <1>m, <1>q, <1>r, <1>o, <1>v, <1>z DEF Works, U!Pcs
      <4> QED BY <4>1, <3>2, <1>g
    <3> QED BY <1>0, <3>1, <3>2
  <2>2. stored' \in [U!Names -> 0 .. MaxCalls]
    BY <1>0, <1>b, <1>m, <1>q, <1>r, <1>g, <1>o, <1>v, <1>z
  <2> QED BY <2>1, <2>2, <1>0, <1>g
<1>2. U!TypeOK'
  BY <1>1, <1>c, <1>g DEF U!TypeOK, Works
<1>3. StepOf(w)
  <2>1. U!Busy(w)
    BY <1>b DEF U!Busy, U!AtRest
  <2>2. (\A v \in Workers \ {w} : work'[v] = work[v]) /\ work'[w].number = work[w].number
    BY <1>0, <1>g
  <2>3. U!Objects' = U!Objects /\ U!InUse' = U!InUse
    BY <1>c DEF U!Objects, U!InUse
  <2>4. ~residue' => ~residue \/ w \in alone
    BY <1>0, <1>g
  <2> QED BY <1>1, <1>c, <2>1, <2>2, <2>3, <2>4 DEF StepOf
<1>4. InOrder'
  <2>1. \A v \in Workers \ {w} : work'[v] = work[v]
    BY <1>3 DEF StepOf
  <2>2. /\ work'[w].number <= calls
        /\ work'[w].pc \in {"save", "delete"} => work'[w].at <= Len(U!Objects)
        /\ work'[w].pc = "clean" =>
               media = "image" /\ work'[w].at <= work'[w].written /\ work'[w].written < Len(Sizes)
    <3>1. CASE work' = [work EXCEPT ![w] = [pc |-> "done", number |-> work[w].number, at |-> 1, written |-> 0]]
      <4>1. work'[w].pc = "done" /\ work'[w].number = work[w].number /\ work'[w].at = 1 /\ work'[w].written = 0
        BY <3>1, <1>g
      <4> QED BY <4>1, <3>1, <1>b, <1>m, <1>q, <1>r, <1>o, <1>v, <1>z
    <3>2. CASE work' = [work EXCEPT ![w] = [pc |-> "done", number |-> work[w].number, at |-> 1, written |-> 0]]
      <4>1. work'[w].pc = "done" /\ work'[w].number = work[w].number /\ work'[w].at = 1 /\ work'[w].written = 0
        BY <3>2, <1>g
      <4> QED BY <4>1, <3>2, <1>b, <1>m, <1>q, <1>r, <1>o, <1>v, <1>z
    <3> QED BY <1>0, <3>1, <3>2
  <2> QED BY <2>1, <2>2, <1>i, <1>c, <1>3 DEF InOrder, StepOf
<1>5. AloneIsAlone'
  BY <1>3, StepKeepsAlone
<1>6. ASSUME w \in alone PROVE SoFar(w)' /\ OnlyItsOwn(w)' /\ LeftBehind(w)'
  <2>a. SoFar(w) /\ OnlyItsOwn(w) /\ LeftBehind(w)
    BY <1>6, <1>a
  <2>o. U!Objects' = U!Objects /\ U!InUse' = U!InUse
    BY <1>3 DEF StepOf
  <2>1. CASE /\ work' = [work EXCEPT ![w] = [pc |-> "done", number |-> work[w].number, at |-> 1, written |-> 0]]
             /\ stored' = [stored EXCEPT !["thumb"] = work[w].number]
             /\ residue' = (residue /\ w \notin alone) /\ badThumb' = FALSE
    <3>1. /\ work'[w].pc = "done" /\ work'[w].at = 1 /\ work'[w].written = 0
          /\ work'[w].number = work[w].number
          /\ \A n \in U!Names : stored'[n] = IF n = "thumb" THEN work[w].number ELSE stored[n]
          /\ residue' = (residue /\ w \notin alone) /\ badThumb' = FALSE
      BY <2>1, <1>g
    <3>2. SoFar(w)'
      BY <3>1, <1>b, <1>c DEF SoFar
    <3>3. OnlyItsOwn(w)'
      BY <3>1, <1>b, <1>c DEF OnlyItsOwn
    <3>4. LeftBehind(w)'
      <4>1. stored["video"] = work[w].number
        <5>1. 1 \in 1 .. work[w].at - 1
          BY <1>b, <1>q
        <5> QED BY <5>1, <1>b, <1>v, <2>a DEF SoFar
      <4>2. stored'["video"] = work[w].number /\ (stored'["thumb"] = work[w].number \/ badThumb')
        BY <4>1, <3>1, <1>v
      <4>3. \A n \in U!InUse \ {"thumb"} : n = "video"
        BY <1>v
      <4> QED BY <4>2, <4>3, <3>1, <1>v, <2>o DEF LeftBehind
    <3> QED BY <3>2, <3>3, <3>4
  <2>2. CASE /\ work' = [work EXCEPT ![w] = [pc |-> "done", number |-> work[w].number, at |-> 1, written |-> 0]]
             /\ stored' = stored
             /\ residue' = (residue /\ w \notin alone) /\ badThumb' = TRUE
    <3>1. /\ work'[w].pc = "done" /\ work'[w].at = 1 /\ work'[w].written = 0
          /\ work'[w].number = work[w].number
          /\ stored' = stored
          /\ residue' = (residue /\ w \notin alone) /\ badThumb' = TRUE
      BY <2>2, <1>g
    <3>2. SoFar(w)'
      BY <3>1, <1>b, <1>c DEF SoFar
    <3>3. OnlyItsOwn(w)'
      BY <3>1, <1>b, <1>c DEF OnlyItsOwn
    <3>4. LeftBehind(w)'
      <4>1. stored["video"] = work[w].number
        <5>1. 1 \in 1 .. work[w].at - 1
          BY <1>b, <1>q
        <5> QED BY <5>1, <1>b, <1>v, <2>a DEF SoFar
      <4>2. stored'["video"] = work[w].number /\ (stored'["thumb"] = work[w].number \/ badThumb')
        BY <4>1, <3>1, <1>v
      <4>3. \A n \in U!InUse \ {"thumb"} : n = "video"
        BY <1>v
      <4> QED BY <4>2, <4>3, <3>1, <1>v, <2>o DEF LeftBehind
    <3> QED BY <3>2, <3>3, <3>4
  <2> QED BY <1>0, <2>1, <2>2
<1>7. FirstSpeaks'
  <2> SUFFICES ASSUME ~residue', \A v \in Workers : Untouched(v)', stored'[U!Objects'[1]] # 0
             PROVE  \A n \in U!InUse' : stored'[n] = stored'[U!Objects'[1]] \/ (media' = "video" /\ badThumb')
    BY DEF FirstSpeaks
  <2>o. U!Objects' = U!Objects /\ U!InUse' = U!InUse
    BY <1>3 DEF StepOf
  <2>w. w \in alone
    BY <1>3, <1>i DEF StepOf, AloneIsAlone
  <2>a. SoFar(w) /\ OnlyItsOwn(w)
    BY <2>w, <1>a
  <2>b. SoFar(w)' /\ OnlyItsOwn(w)' /\ LeftBehind(w)'
    BY <2>w, <1>6
  <2>t. Untouched(w)'
    OBVIOUS
  <2>p. \A v \in Workers \ {w} : Untouched(v)
    BY <1>3 DEF StepOf, Untouched, U!Busy
  <2>1. CASE /\ work' = [work EXCEPT ![w] = [pc |-> "done", number |-> work[w].number, at |-> 1, written |-> 0]]
             /\ stored' = [stored EXCEPT !["thumb"] = work[w].number]
             /\ residue' = (residue /\ w \notin alone) /\ badThumb' = FALSE
    <3>1. /\ work'[w].pc = "done" /\ work'[w].at = 1 /\ work'[w].written = 0
          /\ work'[w].number = work[w].number
          /\ \A n \in U!Names : stored'[n] = IF n = "thumb" THEN work[w].number ELSE stored[n]
          /\ residue' = (residue /\ w \notin alone) /\ badThumb' = FALSE
      BY <2>1, <1>g
    <3> QED
      <4>1. stored["video"] = work[w].number
        <5>1. 1 \in 1 .. work[w].at - 1
          BY <1>b, <1>q
        <5> QED BY <5>1, <1>b, <1>v, <2>a DEF SoFar
      <4>2. stored'["video"] = work[w].number /\ (stored'["thumb"] = work[w].number \/ badThumb')
        BY <4>1, <3>1, <1>v
      <4> QED BY <4>2, <1>c, <1>m, <1>v, <2>o
  <2>2. CASE /\ work' = [work EXCEPT ![w] = [pc |-> "done", number |-> work[w].number, at |-> 1, written |-> 0]]
             /\ stored' = stored
             /\ residue' = (residue /\ w \notin alone) /\ badThumb' = TRUE
    <3>1. /\ work'[w].pc = "done" /\ work'[w].at = 1 /\ work'[w].written = 0
          /\ work'[w].number = work[w].number
          /\ stored' = stored
          /\ residue' = (residue /\ w \notin alone) /\ badThumb' = TRUE
      BY <2>2, <1>g
    <3> QED
      <4>1. stored["video"] = work[w].number
        <5>1. 1 \in 1 .. work[w].at - 1
          BY <1>b, <1>q
        <5> QED BY <5>1, <1>b, <1>v, <2>a DEF SoFar
      <4>2. stored'["video"] = work[w].number /\ (stored'["thumb"] = work[w].number \/ badThumb')
        BY <4>1, <3>1, <1>v
      <4> QED BY <4>2, <1>c, <1>m, <1>v, <2>o
  <2> QED BY <1>0, <2>1, <2>2
<1>8. \A v \in alone' : SoFar(v)' /\ OnlyItsOwn(v)' /\ LeftBehind(v)'
  BY <1>3, <1>6, <1>c, StepKeepsOthers
<1> QED BY <1>2, <1>4, <1>5, <1>7, <1>8 DEF MediaIInv

(* The file of a video or its thumbnail is deleted, or not.                *)
LEMMA DeleteVideoStep ==
    ASSUME MediaIInv, NEW w \in Workers, U!DeleteVideo(w) PROVE MediaIInv'
<1> USE MediaAssumption
<1>g. /\ media \in {"image", "video"} /\ remote \in BOOLEAN
      /\ stored \in [U!Names -> 0 .. MaxCalls] /\ calls \in 0 .. MaxCalls /\ work \in [Workers -> Works]
      /\ alone \subseteq Workers /\ before \in [Workers -> [U!Names -> 0 .. MaxCalls]]
      /\ residue \in BOOLEAN /\ badThumb \in BOOLEAN
  BY DEF MediaIInv, U!TypeOK, Works
<1>i. InOrder /\ AloneIsAlone /\ FirstSpeaks
  BY DEF MediaIInv
<1>a. w \in alone => SoFar(w) /\ OnlyItsOwn(w) /\ LeftBehind(w)
  BY DEF MediaIInv
<1>o. Len(U!Objects) \in 1 .. Len(Sizes) + 2 /\ \A i \in 1 .. Len(U!Objects) : U!Objects[i] \in U!Names
  BY <1>g, ObjectsAreNamed
<1>u. U!InUse = {U!Objects[i] : i \in 1 .. Len(U!Objects)}
  BY <1>g, ObjectsAreNamed
<1>b. work[w].pc = "delete" /\ media = "video"
  BY DEF U!DeleteVideo
<1>m. media = "video"
  BY <1>b
<1>v. /\ Len(U!Objects) = 2 /\ U!Objects[1] = "video" /\ U!Objects[2] = "thumb"
      /\ U!InUse = {"video", "thumb"} /\ {"video", "thumb"} \subseteq U!Names
  BY <1>g, <1>m, ObjectsAreNamed
<1>z. Len(Sizes) \in Nat /\ Len(Sizes) >= 1 /\ 0 \in 0 .. MaxCalls
  OBVIOUS
<1>n. work[w] \in Works
  BY <1>g
<1>q. /\ work[w].number \in 0 .. MaxCalls /\ work[w].at \in 1 .. Len(Sizes) + 2
      /\ work[w].written \in 0 .. Len(Sizes) /\ work[w].number <= calls
  BY <1>n, <1>i DEF Works, InOrder
<1>r. /\ work[w].pc \in {"save", "delete"} => work[w].at <= Len(U!Objects)
      /\ work[w].pc = "clean" =>
             media = "image" /\ work[w].at <= work[w].written /\ work[w].written < Len(Sizes)
  BY <1>i DEF InOrder
<1>c. UNCHANGED <<media, remote, calls, alone, before>>
  BY DEF U!DeleteVideo, U!Same
<1>0. \/ /\ work[w].at = 1
         /\ work' = [work EXCEPT ![w] = [pc |-> "delete", number |-> work[w].number, at |-> 2, written |-> work[w].written]]
         /\ stored' = [stored EXCEPT !["video"] = 0]
         /\ residue' = residue /\ badThumb' = badThumb
      \/ /\ work[w].at = 1
         /\ work' = [work EXCEPT ![w] = [pc |-> "failed", number |-> work[w].number, at |-> 1, written |-> 0]]
         /\ stored' = stored
         /\ residue' = residue /\ badThumb' = badThumb
      \/ /\ work[w].at = 1
         /\ work' = [work EXCEPT ![w] = [pc |-> "failed", number |-> work[w].number, at |-> 1, written |-> 0]]
         /\ stored' = [stored EXCEPT !["video"] = 0]
         /\ residue' = TRUE /\ badThumb' = badThumb
      \/ /\ work[w].at # 1
         /\ work' = [work EXCEPT ![w] = [pc |-> "removed", number |-> work[w].number, at |-> 1, written |-> 0]]
         /\ stored' = [stored EXCEPT !["thumb"] = 0]
         /\ residue' = (residue /\ w \notin alone) /\ badThumb' = FALSE
      \/ /\ work[w].at # 1
         /\ work' = [work EXCEPT ![w] = [pc |-> "removed", number |-> work[w].number, at |-> 1, written |-> 0]]
         /\ stored' = stored
         /\ residue' = (residue /\ w \notin alone) /\ badThumb' = TRUE
  BY <1>b, <1>n, <1>g, GotoIs, NextIs, FailsIs DEF U!DeleteVideo, U!Completed, U!Same
<1>1. work' \in [Workers -> Works] /\ stored' \in [U!Names -> 0 .. MaxCalls] /\ residue' \in BOOLEAN /\ badThumb' \in BOOLEAN
  <2>1. work' \in [Workers -> Works]
    <3>1. CASE /\ work[w].at = 1
               /\ work' = [work EXCEPT ![w] = [pc |-> "delete", number |-> work[w].number, at |-> 2, written |-> work[w].written]]
      <4>1. [pc |-> "delete", number |-> work[w].number, at |-> 2, written |-> work[w].written] \in Works
        BY <3>1, <1>b, <1>m, <1>q, <1>r, <1>o, <1>v, <1>z DEF Works, U!Pcs
      <4> QED BY <4>1, <3>1, <1>g
    <3>2. CASE /\ work[w].at = 1
               /\ work' = [work EXCEPT ![w] = [pc |-> "failed", number |-> work[w].number, at |-> 1, written |-> 0]]
      <4>1. [pc |-> "failed", number |-> work[w].number, at |-> 1, written |-> 0] \in Works
        BY <3>2, <1>b, <1>m, <1>q, <1>r, <1>o, <1>v, <1>z DEF Works, U!Pcs
      <4> QED BY <4>1, <3>2, <1>g
    <3>3. CASE /\ work[w].at = 1
               /\ work' = [work EXCEPT ![w] = [pc |-> "failed", number |-> work[w].number, at |-> 1, written |-> 0]]
      <4>1. [pc |-> "failed", number |-> work[w].number, at |-> 1, written |-> 0] \in Works
        BY <3>3, <1>b, <1>m, <1>q, <1>r, <1>o, <1>v, <1>z DEF Works, U!Pcs
      <4> QED BY <4>1, <3>3, <1>g
    <3>4. CASE /\ work[w].at # 1
               /\ work' = [work EXCEPT ![w] = [pc |-> "removed", number |-> work[w].number, at |-> 1, written |-> 0]]
      <4>1. [pc |-> "removed", number |-> work[w].number, at |-> 1, written |-> 0] \in Works
        BY <3>4, <1>b, <1>m, <1>q, <1>r, <1>o, <1>v, <1>z DEF Works, U!Pcs
      <4> QED BY <4>1, <3>4, <1>g
    <3>5. CASE /\ work[w].at # 1
               /\ work' = [work EXCEPT ![w] = [pc |-> "removed", number |-> work[w].number, at |-> 1, written |-> 0]]
      <4>1. [pc |-> "removed", number |-> work[w].number, at |-> 1, written |-> 0] \in Works
        BY <3>5, <1>b, <1>m, <1>q, <1>r, <1>o, <1>v, <1>z DEF Works, U!Pcs
      <4> QED BY <4>1, <3>5, <1>g
    <3> QED BY <1>0, <3>1, <3>2, <3>3, <3>4, <3>5
  <2>2. stored' \in [U!Names -> 0 .. MaxCalls]
    BY <1>0, <1>b, <1>m, <1>q, <1>r, <1>g, <1>o, <1>v, <1>z
  <2> QED BY <2>1, <2>2, <1>0, <1>g
<1>2. U!TypeOK'
  BY <1>1, <1>c, <1>g DEF U!TypeOK, Works
<1>3. StepOf(w)
  <2>1. U!Busy(w)
    BY <1>b DEF U!Busy, U!AtRest
  <2>2. (\A v \in Workers \ {w} : work'[v] = work[v]) /\ work'[w].number = work[w].number
    BY <1>0, <1>g
  <2>3. U!Objects' = U!Objects /\ U!InUse' = U!InUse
    BY <1>c DEF U!Objects, U!InUse
  <2>4. ~residue' => ~residue \/ w \in alone
    BY <1>0, <1>g
  <2> QED BY <1>1, <1>c, <2>1, <2>2, <2>3, <2>4 DEF StepOf
<1>4. InOrder'
  <2>1. \A v \in Workers \ {w} : work'[v] = work[v]
    BY <1>3 DEF StepOf
  <2>2. /\ work'[w].number <= calls
        /\ work'[w].pc \in {"save", "delete"} => work'[w].at <= Len(U!Objects)
        /\ work'[w].pc = "clean" =>
               media = "image" /\ work'[w].at <= work'[w].written /\ work'[w].written < Len(Sizes)
    <3>1. CASE /\ work[w].at = 1
               /\ work' = [work EXCEPT ![w] = [pc |-> "delete", number |-> work[w].number, at |-> 2, written |-> work[w].written]]
      <4>1. work'[w].pc = "delete" /\ work'[w].number = work[w].number /\ work'[w].at = 2 /\ work'[w].written = work[w].written
        BY <3>1, <1>g
      <4> QED BY <4>1, <3>1, <1>b, <1>m, <1>q, <1>r, <1>o, <1>v, <1>z
    <3>2. CASE /\ work[w].at = 1
               /\ work' = [work EXCEPT ![w] = [pc |-> "failed", number |-> work[w].number, at |-> 1, written |-> 0]]
      <4>1. work'[w].pc = "failed" /\ work'[w].number = work[w].number /\ work'[w].at = 1 /\ work'[w].written = 0
        BY <3>2, <1>g
      <4> QED BY <4>1, <3>2, <1>b, <1>m, <1>q, <1>r, <1>o, <1>v, <1>z
    <3>3. CASE /\ work[w].at = 1
               /\ work' = [work EXCEPT ![w] = [pc |-> "failed", number |-> work[w].number, at |-> 1, written |-> 0]]
      <4>1. work'[w].pc = "failed" /\ work'[w].number = work[w].number /\ work'[w].at = 1 /\ work'[w].written = 0
        BY <3>3, <1>g
      <4> QED BY <4>1, <3>3, <1>b, <1>m, <1>q, <1>r, <1>o, <1>v, <1>z
    <3>4. CASE /\ work[w].at # 1
               /\ work' = [work EXCEPT ![w] = [pc |-> "removed", number |-> work[w].number, at |-> 1, written |-> 0]]
      <4>1. work'[w].pc = "removed" /\ work'[w].number = work[w].number /\ work'[w].at = 1 /\ work'[w].written = 0
        BY <3>4, <1>g
      <4> QED BY <4>1, <3>4, <1>b, <1>m, <1>q, <1>r, <1>o, <1>v, <1>z
    <3>5. CASE /\ work[w].at # 1
               /\ work' = [work EXCEPT ![w] = [pc |-> "removed", number |-> work[w].number, at |-> 1, written |-> 0]]
      <4>1. work'[w].pc = "removed" /\ work'[w].number = work[w].number /\ work'[w].at = 1 /\ work'[w].written = 0
        BY <3>5, <1>g
      <4> QED BY <4>1, <3>5, <1>b, <1>m, <1>q, <1>r, <1>o, <1>v, <1>z
    <3> QED BY <1>0, <3>1, <3>2, <3>3, <3>4, <3>5
  <2> QED BY <2>1, <2>2, <1>i, <1>c, <1>3 DEF InOrder, StepOf
<1>5. AloneIsAlone'
  BY <1>3, StepKeepsAlone
<1>6. ASSUME w \in alone PROVE SoFar(w)' /\ OnlyItsOwn(w)' /\ LeftBehind(w)'
  <2>a. SoFar(w) /\ OnlyItsOwn(w) /\ LeftBehind(w)
    BY <1>6, <1>a
  <2>o. U!Objects' = U!Objects /\ U!InUse' = U!InUse
    BY <1>3 DEF StepOf
  <2>1. CASE /\ work[w].at = 1
             /\ work' = [work EXCEPT ![w] = [pc |-> "delete", number |-> work[w].number, at |-> 2, written |-> work[w].written]]
             /\ stored' = [stored EXCEPT !["video"] = 0]
             /\ residue' = residue /\ badThumb' = badThumb
    <3>1. /\ work'[w].pc = "delete" /\ work'[w].at = 2 /\ work'[w].written = work[w].written
          /\ work'[w].number = work[w].number
          /\ \A n \in U!Names : stored'[n] = IF n = "video" THEN 0 ELSE stored[n]
          /\ residue' = residue /\ badThumb' = badThumb
          /\ work[w].at = 1
      BY <2>1, <1>g
    <3>2. SoFar(w)'
      BY <3>1, <1>b, <1>c, <2>a, <2>o, <1>n, <1>g, <1>o, <1>u, <1>v, <1>z, <1>i DEF SoFar,
         OnlyItsOwn, LeftBehind, InOrder, Works
    <3>3. OnlyItsOwn(w)'
      <4> SUFFICES ASSUME before'[w] = U!Empty, ~residue' PROVE stored' = U!Empty
        BY <3>1 DEF OnlyItsOwn
      <4>1. stored = U!Empty
        BY <3>1, <1>b, <1>c, <2>a DEF OnlyItsOwn
      <4>2. \A n \in U!Names : stored'[n] = 0
        BY <4>1, <3>1, <1>g, EmptyMeans
      <4> QED BY <4>2, <1>1, EmptyMeans
    <3>4. LeftBehind(w)'
      BY <3>1, <1>b, <1>c DEF LeftBehind
    <3> QED BY <3>2, <3>3, <3>4
  <2>2. CASE /\ work[w].at = 1
             /\ work' = [work EXCEPT ![w] = [pc |-> "failed", number |-> work[w].number, at |-> 1, written |-> 0]]
             /\ stored' = stored
             /\ residue' = residue /\ badThumb' = badThumb
    <3>1. /\ work'[w].pc = "failed" /\ work'[w].at = 1 /\ work'[w].written = 0
          /\ work'[w].number = work[w].number
          /\ stored' = stored
          /\ residue' = residue /\ badThumb' = badThumb
          /\ work[w].at = 1
      BY <2>2, <1>g
    <3>2. SoFar(w)'
      BY <3>1, <1>b, <1>c DEF SoFar
    <3>3. OnlyItsOwn(w)'
      BY <3>1, <1>b, <1>c DEF OnlyItsOwn
    <3>4. LeftBehind(w)'
      BY <3>1, <1>b, <1>c, <2>a, <2>o, <1>n, <1>g DEF SoFar, OnlyItsOwn, LeftBehind
    <3> QED BY <3>2, <3>3, <3>4
  <2>3. CASE /\ work[w].at = 1
             /\ work' = [work EXCEPT ![w] = [pc |-> "failed", number |-> work[w].number, at |-> 1, written |-> 0]]
             /\ stored' = [stored EXCEPT !["video"] = 0]
             /\ residue' = TRUE /\ badThumb' = badThumb
    <3>1. /\ work'[w].pc = "failed" /\ work'[w].at = 1 /\ work'[w].written = 0
          /\ work'[w].number = work[w].number
          /\ \A n \in U!Names : stored'[n] = IF n = "video" THEN 0 ELSE stored[n]
          /\ residue' = TRUE /\ badThumb' = badThumb
          /\ work[w].at = 1
      BY <2>3, <1>g
    <3>2. SoFar(w)'
      BY <3>1, <1>b, <1>c DEF SoFar
    <3>3. OnlyItsOwn(w)'
      BY <3>1, <1>b, <1>c DEF OnlyItsOwn
    <3>4. LeftBehind(w)'
      BY <3>1, <1>b, <1>c DEF LeftBehind
    <3> QED BY <3>2, <3>3, <3>4
  <2>4. CASE /\ work[w].at # 1
             /\ work' = [work EXCEPT ![w] = [pc |-> "removed", number |-> work[w].number, at |-> 1, written |-> 0]]
             /\ stored' = [stored EXCEPT !["thumb"] = 0]
             /\ residue' = (residue /\ w \notin alone) /\ badThumb' = FALSE
    <3>1. /\ work'[w].pc = "removed" /\ work'[w].at = 1 /\ work'[w].written = 0
          /\ work'[w].number = work[w].number
          /\ \A n \in U!Names : stored'[n] = IF n = "thumb" THEN 0 ELSE stored[n]
          /\ residue' = (residue /\ w \notin alone) /\ badThumb' = FALSE
          /\ work[w].at # 1
      BY <2>4, <1>g
    <3>2. SoFar(w)'
      BY <3>1, <1>b, <1>c DEF SoFar
    <3>3. OnlyItsOwn(w)'
      BY <3>1, <1>b, <1>c DEF OnlyItsOwn
    <3>4. LeftBehind(w)'
      <4>1. stored["video"] = 0
        <5>1. 1 \in 1 .. work[w].at - 1
          BY <3>1, <1>b, <1>q
        <5> QED BY <5>1, <1>b, <1>v, <2>a DEF SoFar
      <4>2. stored'["video"] = 0 /\ (stored'["thumb"] = 0 \/ badThumb')
        BY <4>1, <3>1, <1>v
      <4> QED BY <4>2, <3>1, <1>v, <2>o DEF LeftBehind
    <3> QED BY <3>2, <3>3, <3>4
  <2>5. CASE /\ work[w].at # 1
             /\ work' = [work EXCEPT ![w] = [pc |-> "removed", number |-> work[w].number, at |-> 1, written |-> 0]]
             /\ stored' = stored
             /\ residue' = (residue /\ w \notin alone) /\ badThumb' = TRUE
    <3>1. /\ work'[w].pc = "removed" /\ work'[w].at = 1 /\ work'[w].written = 0
          /\ work'[w].number = work[w].number
          /\ stored' = stored
          /\ residue' = (residue /\ w \notin alone) /\ badThumb' = TRUE
          /\ work[w].at # 1
      BY <2>5, <1>g
    <3>2. SoFar(w)'
      BY <3>1, <1>b, <1>c DEF SoFar
    <3>3. OnlyItsOwn(w)'
      BY <3>1, <1>b, <1>c DEF OnlyItsOwn
    <3>4. LeftBehind(w)'
      <4>1. stored["video"] = 0
        <5>1. 1 \in 1 .. work[w].at - 1
          BY <3>1, <1>b, <1>q
        <5> QED BY <5>1, <1>b, <1>v, <2>a DEF SoFar
      <4>2. stored'["video"] = 0 /\ (stored'["thumb"] = 0 \/ badThumb')
        BY <4>1, <3>1, <1>v
      <4> QED BY <4>2, <3>1, <1>v, <2>o DEF LeftBehind
    <3> QED BY <3>2, <3>3, <3>4
  <2> QED BY <1>0, <2>1, <2>2, <2>3, <2>4, <2>5
<1>7. FirstSpeaks'
  <2> SUFFICES ASSUME ~residue', \A v \in Workers : Untouched(v)', stored'[U!Objects'[1]] # 0
             PROVE  \A n \in U!InUse' : stored'[n] = stored'[U!Objects'[1]] \/ (media' = "video" /\ badThumb')
    BY DEF FirstSpeaks
  <2>o. U!Objects' = U!Objects /\ U!InUse' = U!InUse
    BY <1>3 DEF StepOf
  <2>w. w \in alone
    BY <1>3, <1>i DEF StepOf, AloneIsAlone
  <2>a. SoFar(w) /\ OnlyItsOwn(w)
    BY <2>w, <1>a
  <2>b. SoFar(w)' /\ OnlyItsOwn(w)' /\ LeftBehind(w)'
    BY <2>w, <1>6
  <2>t. Untouched(w)'
    OBVIOUS
  <2>p. \A v \in Workers \ {w} : Untouched(v)
    BY <1>3 DEF StepOf, Untouched, U!Busy
  <2>1. CASE /\ work[w].at = 1
             /\ work' = [work EXCEPT ![w] = [pc |-> "delete", number |-> work[w].number, at |-> 2, written |-> work[w].written]]
             /\ stored' = [stored EXCEPT !["video"] = 0]
             /\ residue' = residue /\ badThumb' = badThumb
    <3>1. /\ work'[w].pc = "delete" /\ work'[w].at = 2 /\ work'[w].written = work[w].written
          /\ work'[w].number = work[w].number
          /\ \A n \in U!Names : stored'[n] = IF n = "video" THEN 0 ELSE stored[n]
          /\ residue' = residue /\ badThumb' = badThumb
          /\ work[w].at = 1
      BY <2>1, <1>g
    <3> QED
      <4>1. work'[w].pc = "delete" /\ work'[w].at # 1
        BY <3>1, <1>q
      <4> QED BY <4>1, <2>t DEF Untouched, U!Busy, U!AtRest
  <2>2. CASE /\ work[w].at = 1
             /\ work' = [work EXCEPT ![w] = [pc |-> "failed", number |-> work[w].number, at |-> 1, written |-> 0]]
             /\ stored' = stored
             /\ residue' = residue /\ badThumb' = badThumb
    <3>1. /\ work'[w].pc = "failed" /\ work'[w].at = 1 /\ work'[w].written = 0
          /\ work'[w].number = work[w].number
          /\ stored' = stored
          /\ residue' = residue /\ badThumb' = badThumb
          /\ work[w].at = 1
      BY <2>2, <1>g
    <3>2. CASE work[w].at = 1
      <4>1. \A v \in Workers : Untouched(v)
        BY <3>2, <2>p, <1>b DEF Untouched
      <4> QED BY <4>1, <3>1, <1>i, <1>c, <2>o DEF FirstSpeaks
    <3>3. CASE work[w].at # 1
      <4>1. 1 \in 1 .. work[w].at - 1
        BY <3>3, <1>q
      <4>2. stored[U!Objects[1]] = 0
        BY <4>1, <1>b, <2>a DEF SoFar
      <4> QED BY <4>2, <3>1, <2>o
    <3> QED BY <3>2, <3>3
  <2>3. CASE /\ work[w].at = 1
             /\ work' = [work EXCEPT ![w] = [pc |-> "failed", number |-> work[w].number, at |-> 1, written |-> 0]]
             /\ stored' = [stored EXCEPT !["video"] = 0]
             /\ residue' = TRUE /\ badThumb' = badThumb
    <3>1. /\ work'[w].pc = "failed" /\ work'[w].at = 1 /\ work'[w].written = 0
          /\ work'[w].number = work[w].number
          /\ \A n \in U!Names : stored'[n] = IF n = "video" THEN 0 ELSE stored[n]
          /\ residue' = TRUE /\ badThumb' = badThumb
          /\ work[w].at = 1
      BY <2>3, <1>g
    <3> QED BY <3>1
  <2>4. CASE /\ work[w].at # 1
             /\ work' = [work EXCEPT ![w] = [pc |-> "removed", number |-> work[w].number, at |-> 1, written |-> 0]]
             /\ stored' = [stored EXCEPT !["thumb"] = 0]
             /\ residue' = (residue /\ w \notin alone) /\ badThumb' = FALSE
    <3>1. /\ work'[w].pc = "removed" /\ work'[w].at = 1 /\ work'[w].written = 0
          /\ work'[w].number = work[w].number
          /\ \A n \in U!Names : stored'[n] = IF n = "thumb" THEN 0 ELSE stored[n]
          /\ residue' = (residue /\ w \notin alone) /\ badThumb' = FALSE
          /\ work[w].at # 1
      BY <2>4, <1>g
    <3> QED
      <4>1. stored["video"] = 0
        <5>1. 1 \in 1 .. work[w].at - 1
          BY <3>1, <1>b, <1>q
        <5> QED BY <5>1, <1>b, <1>v, <2>a DEF SoFar
      <4>2. stored'["video"] = 0
        BY <4>1, <3>1, <1>v
      <4> QED BY <4>2, <1>v, <2>o
  <2>5. CASE /\ work[w].at # 1
             /\ work' = [work EXCEPT ![w] = [pc |-> "removed", number |-> work[w].number, at |-> 1, written |-> 0]]
             /\ stored' = stored
             /\ residue' = (residue /\ w \notin alone) /\ badThumb' = TRUE
    <3>1. /\ work'[w].pc = "removed" /\ work'[w].at = 1 /\ work'[w].written = 0
          /\ work'[w].number = work[w].number
          /\ stored' = stored
          /\ residue' = (residue /\ w \notin alone) /\ badThumb' = TRUE
          /\ work[w].at # 1
      BY <2>5, <1>g
    <3> QED
      <4>1. stored["video"] = 0
        <5>1. 1 \in 1 .. work[w].at - 1
          BY <3>1, <1>b, <1>q
        <5> QED BY <5>1, <1>b, <1>v, <2>a DEF SoFar
      <4>2. stored'["video"] = 0
        BY <4>1, <3>1, <1>v
      <4> QED BY <4>2, <1>v, <2>o
  <2> QED BY <1>0, <2>1, <2>2, <2>3, <2>4, <2>5
<1>8. \A v \in alone' : SoFar(v)' /\ OnlyItsOwn(v)' /\ LeftBehind(v)'
  BY <1>3, <1>6, <1>c, StepKeepsOthers
<1> QED BY <1>2, <1>4, <1>5, <1>7, <1>8 DEF MediaIInv

-----------------------------------------------------------------------------
(* A behaviour of the composition.                                         *)

(* Nothing has been opened, served or stored.                              *)
LEMMA DBInitOK == D!Init => DBIInv
<1> USE DBAssumption
<1>1. 0 \in 0 .. MaxRetries
  OBVIOUS
<1>2. D!Init => dlate <= pings /\ D!PoolIsOwned
  BY DEF D!Init, D!PoolIsOwned
<1>3. D!Init => PingsCounted
  BY <1>2 DEF D!Init, PingsCounted
<1>4. D!Init => D!TypeOK
  BY <1>1 DEF D!Init, D!TypeOK
<1> QED BY <1>2, <1>3, <1>4 DEF DBIInv

LEMMA ServerInitOK == S!Init => ServerIInv
<1> USE ServerAssumption
<1>1. 0 \in 0 .. MaxInFlight
  OBVIOUS
<1>2. S!Init => ErrorIsKept /\ ShutFirst
  BY DEF S!Init, ErrorIsKept, ShutFirst
<1> QED BY <1>1, <1>2 DEF S!Init, ServerIInv, S!TypeOK

LEMMA SessionsInitOK == A!Init => SessionsIInv
<1> SUFFICES ASSUME A!Init PROVE SessionsIInv
  OBVIOUS
<1> USE SessionsAssumption DEF A!Init
<1>1. 0 \in 0 .. MaxTime /\ DOMAIN sessions = {}
  OBVIOUS
<1>2. A!TypeOK
  BY <1>1 DEF A!TypeOK
<1>3. StoreIsKnown
  BY <1>1 DEF StoreIsKnown
<1>4. RequestsAreFair /\ A!NotBeforeItsTime
  BY DEF RequestsAreFair, A!NotBeforeItsTime
<1> QED BY <1>2, <1>3, <1>4 DEF SessionsIInv

(* A step of the composition is one of the part chosen.                    *)
LEMMA DBMoves == [MCNext]_mcvars => D!Next \/ UNCHANGED dvars
BY DEF MCNext, mcvars, NotHub, NotJanitor, NotGroup, NotFlags, NotServer

LEMMA ServerMoves == [MCNext]_mcvars => S!Next \/ UNCHANGED svars
BY DEF MCNext, mcvars, NotHub, NotJanitor, NotGroup, NotFlags

LEMMA SessionsMoves == [MCNext]_mcvars => A!Next \/ UNCHANGED avars
BY DEF MCNext, mcvars, NotHub, NotJanitor, NotGroup, NotFlags, NotServer

LEMMA DBInvariance == MCSpec => []DBIInv
<1>1. DBIInv /\ [MCNext]_mcvars => DBIInv'
  <2> SUFFICES ASSUME DBIInv, [MCNext]_mcvars PROVE DBIInv'
    OBVIOUS
  <2>1. CASE D!Next
    BY <2>1, DBTypeStep, PingsCountedStep, PoolStep DEF DBIInv
  <2>2. CASE UNCHANGED dvars
    BY <2>2 DEF dvars, DBIInv, D!TypeOK, PingsCounted, D!PoolIsOwned
  <2> QED BY <2>1, <2>2, DBMoves
<1>2. MCInit => DBIInv
  BY DBInitOK DEF MCInit
<1> QED BY <1>1, <1>2, PTL DEF MCSpec

(* A pool is handed out or closed, and the last attempt's error reported   *)
(* after as many attempts as were allowed (db.go, ConnectContext).         *)
THEOREM PoolIsNeverLeaked == MCSpec => []D!Inv
<1>1. DBIInv => D!Inv
  BY DEF DBIInv, D!Inv
<1> QED BY <1>1, DBInvariance, PTL

LEMMA ServerInvariance == MCSpec => []ServerIInv
<1>1. ServerIInv /\ [MCNext]_mcvars => ServerIInv'
  <2> SUFFICES ASSUME ServerIInv, [MCNext]_mcvars PROVE ServerIInv'
    OBVIOUS
  <2>1. CASE S!Next
    BY <2>1, ServerTypeStep, ErrorIsKeptStep, ShutFirstStep DEF ServerIInv
  <2>2. CASE UNCHANGED svars
    <3>1. S!TypeOK'
      BY <2>2 DEF svars, ServerIInv, S!TypeOK
    <3>2. ErrorIsKept' /\ ShutFirst'
      BY <2>2 DEF svars, ServerIInv, ErrorIsKept, ShutFirst
    <3> QED BY <3>1, <3>2 DEF ServerIInv
  <2> QED BY <2>1, <2>2, ServerMoves
<1>2. MCInit => ServerIInv
  BY ServerInitOK DEF MCInit
<1> QED BY <1>1, <1>2, PTL DEF MCSpec

(* Start returns nil only after a clean end: the listener's error is not   *)
(* lost, and no request is cut off (server.go, Start).                     *)
THEOREM NilIsClean == MCSpec => []S!Inv
<1>1. ServerIInv => S!Inv
  BY DEF ServerIInv, ShutFirst, S!Inv, S!NilMeansClean
<1> QED BY <1>1, ServerInvariance, PTL

LEMMA SessionsInvariance == MCSpec => []SessionsIInv
<1>1. SessionsIInv /\ [MCNext]_mcvars => SessionsIInv'
  <2> SUFFICES ASSUME SessionsIInv, [MCNext]_mcvars PROVE SessionsIInv'
    OBVIOUS
  <2>1. CASE A!Next
    BY <2>1, SessionsTypeStep, StoreIsKnownStep, RequestsAreFairStep, NotBeforeItsTimeStep DEF
       SessionsIInv
  <2>2. CASE UNCHANGED avars
    BY <2>2 DEF avars, SessionsIInv, A!TypeOK, StoreIsKnown, RequestsAreFair, A!NotBeforeItsTime
  <2> QED BY <2>1, <2>2, SessionsMoves
<1>2. MCInit => SessionsIInv
  BY SessionsInitOK DEF MCInit
<1> QED BY <1>1, <1>2, PTL DEF MCSpec

(* A logout is final, for the request that began after it and for the      *)
(* extension that overlaps with it, and nobody is logged out before their  *)
(* time (session.go, ValidateSession, DeleteSession).                      *)
THEOREM SessionsAreTheirs == MCSpec => []A!Inv
<1>1. ASSUME SessionsIInv PROVE A!Inv
  <2>1. revoked \cap DOMAIN sessions = {}
    BY <1>1 DEF SessionsIInv, StoreIsKnown
  <2>2. \A r \in late : verdict[r] # "subject"
    BY <1>1 DEF SessionsIInv, A!TypeOK, RequestsAreFair
  <2> QED BY <1>1, <2>1, <2>2 DEF SessionsIInv, A!Inv, A!LogoutIsFinal
<1> QED BY <1>1, SessionsInvariance, PTL

(* A call begins: it is alone if nobody else is at work, and from then on  *)
(* those that were at work are not.                                        *)
LEMMA BeginStep ==
    ASSUME MediaIInv, NEW w \in Workers, U!Begin(w) PROVE MediaIInv'
<1> USE MediaAssumption
<1> DEFINE others == {v \in Workers \ {w} : U!Busy(v)}
<1>g. /\ media \in {"image", "video"} /\ remote \in BOOLEAN
      /\ stored \in [U!Names -> 0 .. MaxCalls] /\ calls \in 0 .. MaxCalls /\ work \in [Workers -> Works]
      /\ alone \subseteq Workers /\ before \in [Workers -> [U!Names -> 0 .. MaxCalls]]
      /\ residue \in BOOLEAN /\ badThumb \in BOOLEAN
  BY DEF MediaIInv, U!TypeOK, Works
<1>i. InOrder /\ AloneIsAlone /\ FirstSpeaks
  BY DEF MediaIInv
<1>a. /\ ~U!Busy(w) /\ calls < MaxCalls /\ calls' = calls + 1
      /\ UNCHANGED <<media, remote, stored, badThumb>>
      /\ residue' = (residue \/ others # {})
      /\ alone' = IF others = {} THEN alone \cup {w} ELSE (alone \ others) \ {w}
      /\ before' = [v \in Workers |-> IF v \in alone' THEN (IF v = w THEN stored ELSE before[v])
                                      ELSE U!Empty]
  BY DEF U!Begin
<1>o. U!Objects' = U!Objects /\ U!InUse' = U!InUse /\ Len(U!Objects) \in 1 .. Len(Sizes) + 2
  BY <1>a, <1>g, ObjectsAreNamed DEF U!Objects, U!InUse
<1>0. PICK begin \in {"probe", "prepare", "delete"} :
          work' = [work EXCEPT ![w] = [pc |-> begin, number |-> calls + 1, at |-> 1, written |-> 0]]
  BY DEF U!Begin
<1>1. calls \in Nat /\ calls + 1 \in 0 .. MaxCalls /\ Len(Sizes) \in Nat
  BY <1>a, <1>g
<1>2. [pc |-> begin, number |-> calls + 1, at |-> 1, written |-> 0] \in Works
  BY <1>1 DEF Works, U!Pcs
<1>3. work' \in [Workers -> Works] /\ \A v \in Workers \ {w} : work'[v] = work[v]
  BY <1>0, <1>2, <1>g
<1>4. work'[w].pc = begin /\ work'[w].number = calls + 1 /\ work'[w].at = 1 /\ work'[w].written = 0
  BY <1>0, <1>g
<1>5. U!TypeOK'
  <2>1. U!Empty \in [U!Names -> 0 .. MaxCalls]
    BY DEF U!Empty
  <2>2. before' \in [Workers -> [U!Names -> 0 .. MaxCalls]]
    BY <2>1, <1>a, <1>g
  <2>3. alone' \subseteq Workers /\ residue' \in BOOLEAN
    BY <1>a, <1>g
  <2> QED BY <2>2, <2>3, <1>1, <1>3, <1>a, <1>g DEF U!TypeOK, Works
<1>6. InOrder'
  <2>1. \A v \in Workers : work[v].number \in Nat
    BY <1>g DEF Works
  <2>2. \A v \in Workers : work[v].number <= calls + 1
    BY <2>1, <1>1, <1>i DEF InOrder
  <2> QED BY <2>2, <1>1, <1>3, <1>4, <1>a, <1>i, <1>o DEF InOrder
<1>7. \A v \in Workers \ {w} : (U!Busy(v)' <=> U!Busy(v)) /\ ~U!Latest(v)'
  <2>1. \A v \in Workers : work[v].number \in Nat /\ work[v].number <= calls
    BY <1>g, <1>i DEF Works, InOrder
  <2> QED BY <2>1, <1>1, <1>3, <1>a DEF U!Busy, U!Latest
<1>8. \A v \in alone' \ {w} : v \in Workers /\ ~U!Busy(v)'
  BY <1>7, <1>a, <1>g
<1>9. w \in alone' => others = {} /\ before'[w] = stored
  BY <1>a
<1>10. AloneIsAlone'
  <2>1. \A u \in alone' : U!Busy(u)' \/ U!Latest(u)' => \A v \in Workers \ {u} : ~U!Busy(v)'
    BY <1>7, <1>8, <1>9
  <2>2. ~residue' => \A v \in Workers : U!Busy(v)' => v \in alone'
    BY <1>7, <1>a
  <2> QED BY <2>1, <2>2 DEF AloneIsAlone
<1>11. FirstSpeaks'
  <2> SUFFICES ASSUME ~residue', \A v \in Workers : Untouched(v)' PROVE ~residue /\ \A v \in Workers : Untouched(v)
    BY <1>i, <1>a, <1>o DEF FirstSpeaks
  <2>1. \A v \in Workers \ {w} : Untouched(v)
    BY <1>3 DEF Untouched, U!Busy
  <2> QED BY <2>1, <1>a DEF Untouched
<1>12. \A v \in alone' : SoFar(v)' /\ OnlyItsOwn(v)' /\ LeftBehind(v)'
  <2>1. ASSUME w \in alone' PROVE SoFar(w)' /\ OnlyItsOwn(w)' /\ LeftBehind(w)'
    <3>1. before'[w] = stored'
      BY <2>1, <1>9, <1>a
    <3>2. work'[w].at - 1 = 0 /\ work'[w].pc \in {"probe", "prepare", "delete"}
      BY <1>4
    <3> QED BY <3>1, <3>2 DEF SoFar, OnlyItsOwn, LeftBehind
  <2>2. ASSUME NEW v \in alone' \ {w} PROVE SoFar(v)' /\ OnlyItsOwn(v)' /\ LeftBehind(v)'
    <3>1. v \in Workers /\ ~U!Busy(v)' /\ ~U!Latest(v)'
      BY <1>7, <1>8
    <3>2. work'[v].pc \notin {"probe", "prepare", "save", "clean", "delete"}
      BY <3>1 DEF U!Busy, U!AtRest
    <3> QED BY <3>1, <3>2 DEF SoFar, OnlyItsOwn, LeftBehind
  <2> QED BY <2>1, <2>2
<1> QED BY <1>5, <1>6, <1>10, <1>11, <1>12 DEF MediaIInv

(* The process dies.                                                       *)
LEMMA UploadsCrashStep ==
    ASSUME MediaIInv, U!Crash PROVE MediaIInv'
<1> USE MediaAssumption
<1>g. /\ media \in {"image", "video"} /\ remote \in BOOLEAN
      /\ stored \in [U!Names -> 0 .. MaxCalls] /\ calls \in 0 .. MaxCalls /\ work \in [Workers -> Works]
      /\ alone \subseteq Workers /\ before \in [Workers -> [U!Names -> 0 .. MaxCalls]]
      /\ residue \in BOOLEAN /\ badThumb \in BOOLEAN
  BY DEF MediaIInv, U!TypeOK, Works
<1>i. InOrder /\ \A w \in alone : LeftBehind(w)
  BY DEF MediaIInv
<1>c. UNCHANGED <<media, remote, stored, calls, alone, before, badThumb>> /\ residue' = TRUE
  BY DEF U!Crash
<1>o. U!Objects' = U!Objects /\ U!InUse' = U!InUse
  BY <1>c DEF U!Objects, U!InUse
<1>1. U!NoWork \in Works /\ U!NoWork.pc = "idle" /\ U!NoWork.number = 0
  BY DEF U!NoWork, Works, U!Pcs
<1>2. /\ work' \in [Workers -> Works]
      /\ \A w \in Workers : work'[w] = IF U!Busy(w) THEN U!NoWork ELSE work[w]
  BY <1>1, <1>g DEF U!Crash
<1>3. \A w \in Workers : ~U!Busy(w)' /\ work'[w].pc \notin {"probe", "prepare", "save", "clean", "delete"}
  BY <1>1, <1>2 DEF U!Busy, U!AtRest
<1>4. U!TypeOK'
  BY <1>2, <1>c, <1>g DEF U!TypeOK, Works
<1>5. InOrder'
  <2>1. \A w \in Workers : work'[w].number <= calls
    <3> TAKE w \in Workers
    <3>1. CASE U!Busy(w)
      <4>1. work'[w].number = 0
        BY <3>1, <1>1, <1>2
      <4> QED BY <4>1, <1>g
    <3>2. CASE ~U!Busy(w)
      BY <3>2, <1>2, <1>i DEF InOrder
    <3> QED BY <3>1, <3>2
  <2> QED BY <2>1, <1>3, <1>c DEF InOrder
<1>6. AloneIsAlone' /\ FirstSpeaks'
  BY <1>3, <1>c DEF AloneIsAlone, FirstSpeaks
<1>7. ASSUME NEW w \in alone' PROVE SoFar(w)' /\ OnlyItsOwn(w)' /\ LeftBehind(w)'
  <2>1. w \in Workers /\ LeftBehind(w)
    BY <1>c, <1>g, <1>i
  <2>2. CASE U!Busy(w)
    <3>1. work'[w].pc = "idle"
      BY <2>1, <2>2, <1>1, <1>2
    <3> QED BY <3>1 DEF SoFar, OnlyItsOwn, LeftBehind
  <2>3. CASE ~U!Busy(w)
    <3>1. work'[w] = work[w]
      BY <2>1, <2>3, <1>2
    <3>2. SoFar(w)' /\ OnlyItsOwn(w)'
      BY <2>1, <1>3 DEF SoFar, OnlyItsOwn
    <3>3. LeftBehind(w)'
      BY <2>1, <3>1, <1>c, <1>o DEF LeftBehind, U!Latest
    <3> QED BY <3>2, <3>3
  <2> QED BY <2>2, <2>3
<1> QED BY <1>4, <1>5, <1>6, <1>7 DEF MediaIInv

(* Nothing is stored, and nobody is at work.                               *)
LEMMA MediaInitOK == U!Init => MediaIInv
<1> SUFFICES ASSUME U!Init PROVE MediaIInv
  OBVIOUS
<1> USE MediaAssumption
<1>0. /\ media \in {"image", "video"} /\ remote \in BOOLEAN
      /\ stored = U!Empty /\ calls = 0 /\ alone = Workers /\ residue = FALSE /\ badThumb = FALSE
      /\ work = [w \in Workers |-> U!NoWork] /\ before = [w \in Workers |-> U!Empty]
  BY DEF U!Init
<1>1. /\ U!NoWork \in Works /\ U!NoWork.pc = "idle" /\ U!NoWork.number = 0
      /\ U!Empty \in [U!Names -> 0 .. MaxCalls] /\ 0 \in 0 .. MaxCalls
  BY DEF U!NoWork, Works, U!Pcs, U!Empty
<1>2. \A w \in Workers : work[w].pc = "idle" /\ work[w].number = 0 /\ ~U!Busy(w)
  BY <1>0, <1>1 DEF U!Busy, U!AtRest
<1>3. U!TypeOK
  BY <1>0, <1>1 DEF U!TypeOK, Works
<1>4. InOrder /\ AloneIsAlone
  BY <1>0, <1>2 DEF InOrder, AloneIsAlone
<1>5. FirstSpeaks
  <2>1. stored[U!Objects[1]] = 0
    BY <1>0, ObjectsAreNamed DEF U!Empty
  <2> QED BY <2>1 DEF FirstSpeaks
<1>6. \A w \in alone : SoFar(w) /\ OnlyItsOwn(w) /\ LeftBehind(w)
  BY <1>0, <1>2 DEF SoFar, OnlyItsOwn, LeftBehind
<1> QED BY <1>3, <1>4, <1>5, <1>6 DEF MediaIInv

LEMMA MediaMoves == [MCNext]_mcvars => U!Next \/ UNCHANGED uvars
BY DEF MCNext, mcvars, NotHub, NotJanitor, NotGroup, NotFlags, NotServer

LEMMA MediaInvariance == MCSpec => []MediaIInv
<1>1. MediaIInv /\ [MCNext]_mcvars => MediaIInv'
  <2> SUFFICES ASSUME MediaIInv, [MCNext]_mcvars PROVE MediaIInv'
    OBVIOUS
  <2>1. CASE U!Next
    BY <2>1, BeginStep, ProbeStep, PrepareStep, SaveImageStep, SaveImageFailsStep, CleanStep,
       DeleteImageStep, SaveVideoStep, SaveThumbStep, DeleteVideoStep, UploadsCrashStep DEF U!Next
  <2>2. CASE UNCHANGED uvars
    <3>1. /\ UNCHANGED <<media, remote, stored, calls, work, alone, before, residue, badThumb>>
          /\ UNCHANGED <<U!Objects, U!InUse>>
      BY <2>2 DEF uvars, U!Objects, U!InUse
    <3>2. U!TypeOK' /\ InOrder' /\ AloneIsAlone'
      BY <3>1 DEF MediaIInv, U!TypeOK, InOrder, AloneIsAlone, U!Busy, U!Latest
    <3>3. FirstSpeaks'
      BY <3>1 DEF MediaIInv, FirstSpeaks, Untouched, U!Busy
    <3>4. \A w \in alone' : SoFar(w)' /\ OnlyItsOwn(w)' /\ LeftBehind(w)'
      BY <3>1 DEF MediaIInv, SoFar, OnlyItsOwn, LeftBehind, U!Latest
    <3> QED BY <3>2, <3>3, <3>4 DEF MediaIInv
  <2> QED BY <2>1, <2>2, MediaMoves
<1>2. MCInit => MediaIInv
  BY MediaInitOK DEF MCInit
<1> QED BY <1>1, <1>2, PTL DEF MCSpec

(* An undisturbed upload that reports success is whole, one that fails for *)
(* a new id and cleans up leaves nothing, an asset whose first object is   *)
(* there is complete, and a deletion that reports success has left at most *)
(* a thumbnail (image_store.go, upload, cleanupPartial, Delete;            *)
(* video_store.go, upload, Delete).                                        *)
THEOREM UploadsAreWhole == MCSpec => []U!Inv
<1>1. ASSUME MediaIInv PROVE U!Inv
  <2>1. \A w \in alone : LeftBehind(w)
    BY <1>1 DEF MediaIInv
  <2>2. U!RetryRepairs /\ U!FailureLeavesNothing /\ U!ExistingIsKept /\ U!RemovedIsGone
    BY <2>1 DEF LeftBehind, U!RetryRepairs, U!FailureLeavesNothing, U!ExistingIsKept,
       U!RemovedIsGone
  <2>3. U!ProbeIsRight
    BY <1>1 DEF MediaIInv, FirstSpeaks, Untouched, U!ProbeIsRight, U!Quiet
  <2> QED BY <2>2, <2>3 DEF U!Inv
<1> QED BY <1>1, MediaInvariance, PTL

-----------------------------------------------------------------------------
(* The rate limiter.                                                       *)

(* Orders of keys: each is there once.                                     *)
Distinct(q) == \A i, j \in DOMAIN q : q[i] = q[j] => i = j

LEMMA SameCount == \A T : R!Cardinality(T) = Cardinality(T)
BY DEF R!Cardinality, Cardinality

LEMMA ToSetIs ==
    ASSUME NEW q \in Seq(Keys)
    PROVE  /\ DOMAIN q = 1 .. Len(q) /\ Len(q) \in Nat /\ R!ToSet(q) \subseteq Keys
           /\ \A x : x \in R!ToSet(q) <=> \E i \in 1 .. Len(q) : q[i] = x
BY DEF R!ToSet

LEMMA RemoveAtIs ==
    ASSUME NEW E, NEW s \in Seq(E), NEW n \in 1 .. Len(s)
    PROVE  /\ R!RemoveAt(s, n) \in Seq(E) /\ Len(R!RemoveAt(s, n)) = Len(s) - 1
           /\ \A i \in 1 .. Len(s) - 1 : R!RemoveAt(s, n)[i] = IF i < n THEN s[i] ELSE s[i + 1]
<1>1. /\ SubSeq(s, 1, n - 1) \in Seq(E) /\ Len(SubSeq(s, 1, n - 1)) = n - 1
      /\ \A i \in 1 .. n - 1 : SubSeq(s, 1, n - 1)[i] = s[i]
  OBVIOUS
<1>2. /\ SubSeq(s, n + 1, Len(s)) \in Seq(E) /\ Len(SubSeq(s, n + 1, Len(s))) = Len(s) - n
      /\ \A i \in 1 .. Len(s) - n : SubSeq(s, n + 1, Len(s))[i] = s[n + i]
  OBVIOUS
<1> DEFINE a == SubSeq(s, 1, n - 1)
           b == SubSeq(s, n + 1, Len(s))
<1>3. R!RemoveAt(s, n) = a \o b
  BY DEF R!RemoveAt
<1>4. a \in Seq(E) /\ b \in Seq(E) /\ Len(a) = n - 1 /\ Len(b) = Len(s) - n
  BY <1>1, <1>2
<1>5. (\A i \in 1 .. n - 1 : a[i] = s[i]) /\ (\A i \in 1 .. Len(s) - n : b[i] = s[n + i])
  BY <1>1, <1>2
<1> HIDE DEF a, b
<1>6. a \o b \in Seq(E) /\ Len(a \o b) = Len(s) - 1
  BY <1>4
<1>7. ASSUME NEW i \in 1 .. Len(s) - 1
      PROVE  (a \o b)[i] = IF i < n THEN s[i] ELSE s[i + 1]
  <2>1. CASE i < n
    BY <1>4, <1>5, <2>1
  <2>2. CASE ~(i < n)
    <3>1. i - (n - 1) \in 1 .. Len(s) - n /\ n + (i - (n - 1)) = i + 1
      BY <2>2
    <3>2. (a \o b)[i] = b[i - (n - 1)]
      BY <1>4, <2>2
    <3>3. b[i - (n - 1)] = s[n + (i - (n - 1))]
      BY <1>5, <3>1
    <3>4. (a \o b)[i] = s[i + 1] /\ ~(i < n)
      BY <2>2, <3>1, <3>2, <3>3
    <3> QED  BY <3>4
  <2> QED  BY <2>1, <2>2
<1> QED  BY <1>3, <1>6, <1>7

(* A label is shown once: showing it again changes nothing, and taking it  *)
(* away takes nothing else.                                                *)
(* A key taken out leaves the others in their order.                       *)
LEMMA WithoutIs ==
    ASSUME NEW q \in Seq(Keys), Distinct(q), NEW k \in Keys
    PROVE  /\ R!Without(q, k) \in Seq(Keys) /\ Distinct(R!Without(q, k))
           /\ R!ToSet(R!Without(q, k)) = R!ToSet(q) \ {k} /\ Len(R!Without(q, k)) <= Len(q)
           /\ \A x, y : R!Before(R!Without(q, k), x, y) => R!Before(q, x, y)
           /\ \A x, y : R!Before(q, x, y) /\ x # k /\ y # k => R!Before(R!Without(q, k), x, y)
<1>1. CASE k \notin R!ToSet(q)
  BY <1>1 DEF R!Without
<1>2. CASE k \in R!ToSet(q)
  <2>1. PICK n \in 1 .. Len(q) : n = (CHOOSE i \in DOMAIN q : q[i] = k) /\ q[n] = k
    BY <1>2, ToSetIs
  <2>2. R!Without(q, k) = R!RemoveAt(q, n)
    BY <1>2, <2>1 DEF R!Without
  <2>3. PICK p : p = R!RemoveAt(q, n)
    OBVIOUS
  <2>4. p \in Seq(Keys) /\ Len(p) = Len(q) - 1
    BY <2>3, RemoveAtIs
  <2>5. \A i \in 1 .. Len(q) - 1 : p[i] = IF i < n THEN q[i] ELSE q[i + 1]
    BY <2>3, RemoveAtIs
  <2>6. DOMAIN p = 1 .. Len(q) - 1 /\ DOMAIN q = 1 .. Len(q) /\ Len(q) \in Nat
    BY <2>4, ToSetIs
  <2>7. \A i \in 1 .. Len(q) : i # n => q[i] # k
    BY <2>1, <2>6 DEF Distinct
  <2>8. \A i \in 1 .. Len(q) - 1 : p[i] # k
    <3> TAKE i \in 1 .. Len(q) - 1
    <3>1. CASE i < n
      BY <3>1, <2>5, <2>6, <2>7
    <3>2. CASE ~(i < n)
      <4>1. i + 1 \in 1 .. Len(q) /\ i + 1 # n /\ p[i] = q[i + 1]
        BY <3>2, <2>5, <2>6
      <4> QED  BY <4>1, <2>7
    <3> QED  BY <3>1, <3>2
  <2>9. \A i \in 1 .. Len(q) : i # n => \E m \in 1 .. Len(q) - 1 : p[m] = q[i] /\ m = IF i < n THEN i ELSE i - 1
    <3> TAKE i \in 1 .. Len(q)
    <3> HAVE i # n
    <3>1. CASE i < n
      <4>1. i \in 1 .. Len(q) - 1 /\ p[i] = q[i]
        BY <3>1, <2>5, <2>6
      <4> QED  BY <3>1, <4>1
    <3>2. CASE ~(i < n)
      <4>1. i - 1 \in 1 .. Len(q) - 1 /\ ~(i - 1 < n) /\ (i - 1) + 1 = i
        BY <3>2, <2>6
      <4>2. p[i - 1] = q[i]
        BY <4>1, <2>5
      <4> QED  BY <3>2, <4>1, <4>2
    <3> QED  BY <3>1, <3>2
  <2>10. Distinct(p)
    <3> SUFFICES ASSUME NEW i \in 1 .. Len(q) - 1, NEW j \in 1 .. Len(q) - 1, p[i] = p[j] PROVE i = j
      BY <2>6 DEF Distinct
    <3>1. PICK a \in 1 .. Len(q) : p[i] = q[a] /\ a = IF i < n THEN i ELSE i + 1
      BY <2>5, <2>6
    <3>2. PICK b \in 1 .. Len(q) : p[j] = q[b] /\ b = IF j < n THEN j ELSE j + 1
      BY <2>5, <2>6
    <3>3. a = b
      BY <3>1, <3>2, <2>6 DEF Distinct
    <3> QED  BY <3>1, <3>2, <3>3
  <2>11. R!ToSet(p) = R!ToSet(q) \ {k}
    <3>1. ASSUME NEW x \in R!ToSet(p) PROVE x \in R!ToSet(q) \ {k}
      <4>1. PICK i \in 1 .. Len(q) - 1 : p[i] = x
        BY <3>1, <2>4, <2>6, ToSetIs
      <4>2. \E a \in 1 .. Len(q) : x = q[a]
        BY <4>1, <2>5, <2>6
      <4> QED  BY <4>1, <4>2, <2>8, ToSetIs
    <3>2. ASSUME NEW x \in R!ToSet(q) \ {k} PROVE x \in R!ToSet(p)
      <4>1. PICK i \in 1 .. Len(q) : q[i] = x /\ i # n
        BY <3>2, <2>1, ToSetIs
      <4>2. \E m \in 1 .. Len(q) - 1 : p[m] = x
        BY <4>1, <2>9
      <4> QED  BY <4>2, <2>4, ToSetIs
    <3> QED  BY <3>1, <3>2
  <2>12. ASSUME NEW x, NEW y, R!Before(p, x, y) PROVE R!Before(q, x, y)
    <3>1. PICK i \in 1 .. Len(q) - 1, j \in 1 .. Len(q) - 1 : i < j /\ p[i] = x /\ p[j] = y
      BY <2>12, <2>6 DEF R!Before
    <3>2. PICK a \in 1 .. Len(q) : p[i] = q[a] /\ a = IF i < n THEN i ELSE i + 1
      BY <2>5, <2>6
    <3>3. PICK b \in 1 .. Len(q) : p[j] = q[b] /\ b = IF j < n THEN j ELSE j + 1
      BY <2>5, <2>6
    <3>4. a < b
      BY <3>1, <3>2, <3>3
    <3> QED  BY <3>1, <3>2, <3>3, <3>4, <2>6 DEF R!Before
  <2>13. ASSUME NEW x, NEW y, R!Before(q, x, y), x # k, y # k PROVE R!Before(p, x, y)
    <3>1. PICK i \in 1 .. Len(q), j \in 1 .. Len(q) : i < j /\ q[i] = x /\ q[j] = y
      BY <2>13, <2>6 DEF R!Before
    <3>2. i # n /\ j # n
      BY <3>1, <2>1, <2>13
    <3>3. PICK a \in 1 .. Len(q) - 1 : p[a] = q[i] /\ a = IF i < n THEN i ELSE i - 1
      BY <3>2, <2>9
    <3>4. PICK b \in 1 .. Len(q) - 1 : p[b] = q[j] /\ b = IF j < n THEN j ELSE j - 1
      BY <3>2, <2>9
    <3>5. a < b
      BY <3>1, <3>2, <3>3, <3>4
    <3> QED  BY <3>1, <3>3, <3>4, <3>5, <2>6 DEF R!Before
  <2>14. Len(p) <= Len(q)
    BY <2>4, <2>6
  <2> QED  BY <2>2, <2>3, <2>4, <2>10, <2>11, <2>12, <2>13, <2>14
<1> QED  BY <1>1, <1>2

(* A key put last comes after all others.                                  *)
LEMMA PutLast ==
    ASSUME NEW q \in Seq(Keys), Distinct(q), NEW k \in Keys, k \notin R!ToSet(q)
    PROVE  /\ Append(q, k) \in Seq(Keys) /\ Distinct(Append(q, k))
           /\ R!ToSet(Append(q, k)) = R!ToSet(q) \cup {k}
           /\ Len(Append(q, k)) = Len(q) + 1 /\ Append(q, k)[Len(q) + 1] = k
           /\ \A x, y : R!Before(Append(q, k), x, y) <=> R!Before(q, x, y) \/ (x \in R!ToSet(q) /\ y = k)
<1>1. PICK p : p = Append(q, k)
  OBVIOUS
<1>2. p \in Seq(Keys) /\ Len(p) = Len(q) + 1 /\ Len(q) \in Nat
  BY <1>1
<1>3. (\A i \in 1 .. Len(q) : p[i] = q[i]) /\ p[Len(q) + 1] = k
  BY <1>1
<1>4. DOMAIN p = 1 .. Len(q) + 1 /\ DOMAIN q = 1 .. Len(q)
  BY <1>2
<1>5. \A i \in 1 .. Len(q) : q[i] # k
  BY ToSetIs
<1>6. \A i \in 1 .. Len(q) + 1 : i = Len(q) + 1 \/ i \in 1 .. Len(q)
  BY <1>2
<1>7. Distinct(p)
  BY <1>3, <1>4, <1>5, <1>6 DEF Distinct
<1>8. R!ToSet(p) = R!ToSet(q) \cup {k}
  <2>1. \A x : x \in R!ToSet(p) <=> \E i \in 1 .. Len(q) + 1 : p[i] = x
    BY <1>2, ToSetIs
  <2>2. \A x : x \in R!ToSet(q) <=> \E i \in 1 .. Len(q) : q[i] = x
    BY ToSetIs
  <2>3. 1 .. Len(q) \subseteq 1 .. Len(q) + 1 /\ Len(q) + 1 \in 1 .. Len(q) + 1
    BY <1>2
  <2> QED  BY <2>1, <2>2, <2>3, <1>3, <1>6
<1>9. ASSUME NEW x, NEW y, R!Before(p, x, y) PROVE R!Before(q, x, y) \/ (x \in R!ToSet(q) /\ y = k)
  <2>1. PICK i \in 1 .. Len(q) + 1, j \in 1 .. Len(q) + 1 : i < j /\ p[i] = x /\ p[j] = y
    BY <1>9, <1>4 DEF R!Before
  <2>2. i \in 1 .. Len(q) /\ q[i] = x
    BY <2>1, <1>2, <1>3
  <2>3. CASE j = Len(q) + 1
    BY <2>1, <2>2, <2>3, <1>3, ToSetIs
  <2>4. CASE j \in 1 .. Len(q)
    BY <2>1, <2>2, <2>4, <1>3, <1>4 DEF R!Before
  <2> QED  BY <2>3, <2>4, <1>6
<1>10. ASSUME NEW x, NEW y, R!Before(q, x, y) PROVE R!Before(p, x, y)
  <2>1. PICK i \in 1 .. Len(q), j \in 1 .. Len(q) : i < j /\ q[i] = x /\ q[j] = y
    BY <1>10, <1>4 DEF R!Before
  <2>2. i \in DOMAIN p /\ j \in DOMAIN p
    BY <1>4, <1>2
  <2> QED  BY <2>1, <2>2, <1>3 DEF R!Before
<1>11. ASSUME NEW x \in R!ToSet(q) PROVE R!Before(p, x, k)
  <2>1. PICK i \in 1 .. Len(q) : q[i] = x
    BY <1>11, ToSetIs
  <2>2. i \in DOMAIN p /\ Len(q) + 1 \in DOMAIN p /\ i < Len(q) + 1
    BY <1>4, <1>2
  <2> QED  BY <2>1, <2>2, <1>3 DEF R!Before
<1> QED  BY <1>1, <1>2, <1>3, <1>7, <1>8, <1>9, <1>10, <1>11

(* The first of an order taken off.                                        *)
LEMMA FirstOff ==
    ASSUME NEW q \in Seq(Keys), Distinct(q), q # <<>>
    PROVE  /\ Tail(q) \in Seq(Keys) /\ Distinct(Tail(q)) /\ Len(Tail(q)) = Len(q) - 1
           /\ R!ToSet(Tail(q)) = R!ToSet(q) \ {q[1]} /\ q[1] \in R!ToSet(q)
           /\ \A x, y : R!Before(Tail(q), x, y) => R!Before(q, x, y)
<1>1. PICK p : p = Tail(q)
  OBVIOUS
<1>2. p \in Seq(Keys) /\ Len(p) = Len(q) - 1 /\ Len(q) \in Nat \ {0}
  BY <1>1
<1>3. \A i \in 1 .. Len(q) - 1 : p[i] = q[i + 1]
  BY <1>1
<1>4. DOMAIN p = 1 .. Len(q) - 1 /\ DOMAIN q = 1 .. Len(q)
  BY <1>2
<1>5. \A i \in 1 .. Len(q) - 1 : i + 1 \in 1 .. Len(q) /\ i + 1 # 1
  BY <1>2
<1>6. Distinct(p)
  <2> SUFFICES ASSUME NEW i \in 1 .. Len(q) - 1, NEW j \in 1 .. Len(q) - 1, p[i] = p[j] PROVE i = j
    BY <1>4 DEF Distinct
  <2>1. i + 1 = j + 1
    BY <1>3, <1>4, <1>5 DEF Distinct
  <2> QED  BY <2>1
<1>7. \A i \in 1 .. Len(q) : i # 1 => \E m \in 1 .. Len(q) - 1 : i = m + 1 /\ p[m] = q[i]
  <2> TAKE i \in 1 .. Len(q)
  <2> HAVE i # 1
  <2>1. i - 1 \in 1 .. Len(q) - 1 /\ i = (i - 1) + 1
    BY <1>2
  <2> QED  BY <2>1, <1>3
<1>8. R!ToSet(p) = R!ToSet(q) \ {q[1]} /\ q[1] \in R!ToSet(q)
  <2>0. 1 \in 1 .. Len(q)
    BY <1>2
  <2>1. \A x : x \in R!ToSet(p) <=> \E i \in 1 .. Len(q) - 1 : p[i] = x
    BY <1>2, ToSetIs
  <2>2. \A x : x \in R!ToSet(q) <=> \E i \in 1 .. Len(q) : q[i] = x
    BY ToSetIs
  <2>3. \A i \in 1 .. Len(q) : q[i] = q[1] => i = 1
    BY <2>0, <1>4 DEF Distinct
  <2>4. ASSUME NEW x \in R!ToSet(p) PROVE x \in R!ToSet(q) \ {q[1]}
    BY <2>1, <2>2, <2>3, <2>4, <1>3, <1>5
  <2>5. ASSUME NEW x \in R!ToSet(q) \ {q[1]} PROVE x \in R!ToSet(p)
    <3>1. PICK i \in 1 .. Len(q) : q[i] = x /\ i # 1
      BY <2>2, <2>5
    <3> QED  BY <3>1, <2>1, <1>7
  <2> QED  BY <2>0, <2>2, <2>4, <2>5
<1>9. ASSUME NEW x, NEW y, R!Before(p, x, y) PROVE R!Before(q, x, y)
  <2>1. PICK i \in 1 .. Len(q) - 1, j \in 1 .. Len(q) - 1 : i < j /\ p[i] = x /\ p[j] = y
    BY <1>9, <1>4 DEF R!Before
  <2>2. i + 1 < j + 1 /\ q[i + 1] = x /\ q[j + 1] = y
    BY <2>1, <1>3
  <2> QED  BY <2>2, <1>4, <1>5 DEF R!Before
<1> QED  BY <1>1, <1>2, <1>6, <1>8, <1>9

(* An order has as many members as it is long.                             *)
LEMMA DistinctCounts ==
    ASSUME NEW q \in Seq(Keys), Distinct(q)
    PROVE  IsFiniteSet(R!ToSet(q)) /\ Cardinality(R!ToSet(q)) = Len(q)
<1>1. DOMAIN q = 1 .. Len(q) /\ Len(q) \in Nat
  OBVIOUS
<1>2. IsFiniteSet(1 .. Len(q)) /\ Cardinality(1 .. Len(q)) = Len(q)
  BY <1>1, FS_Interval
<1>3. q \in [1 .. Len(q) -> R!ToSet(q)]
  BY <1>1 DEF R!ToSet
<1>4. \A x \in R!ToSet(q) : \E i \in 1 .. Len(q) : q[i] = x
  BY ToSetIs
<1>5. \A i, j \in 1 .. Len(q) : q[i] = q[j] => i = j
  BY <1>1 DEF Distinct
<1>6. q \in Surjection(1 .. Len(q), R!ToSet(q)) /\ q \in Injection(1 .. Len(q), R!ToSet(q))
  BY <1>3, <1>4, <1>5 DEF Surjection, Injection, IsInjective
<1> QED  BY <1>2, <1>6, FS_Surjection

(* What it is to be in the order of another.                               *)
LEMMA InOrderIs ==
    ASSUME NEW q \in Seq(Keys), Distinct(q), NEW T \in SUBSET Keys, IsFiniteSet(T),
           NEW p \in R!InOrderOf(q, T)
    PROVE  /\ p \in Seq(Keys) /\ Distinct(p) /\ R!ToSet(p) = T
           /\ \A x, y : R!Before(p, x, y) => R!Before(q, x, y)
<1>1. Cardinality(T) \in Nat
  BY FS_CardinalityType
<1>2. p \in [1 .. Cardinality(T) -> T] /\ R!ToSet(p) = T
  BY SameCount DEF R!InOrderOf
<1>3. \A i, j \in DOMAIN p : i < j => R!Before(q, p[i], p[j])
  BY DEF R!InOrderOf
<1>4. p \in Seq(Keys) /\ DOMAIN p = 1 .. Cardinality(T)
  BY <1>1, <1>2
<1>5. ASSUME NEW x, NEW y, R!Before(p, x, y) PROVE R!Before(q, x, y)
  BY <1>3, <1>5 DEF R!Before
<1>6. \A x : ~R!Before(q, x, x)
  <2>1. DOMAIN q = 1 .. Len(q) /\ Len(q) \in Nat
    OBVIOUS
  <2> QED  BY <2>1 DEF R!Before, Distinct
<1>7. ASSUME NEW i \in DOMAIN p, NEW j \in DOMAIN p, p[i] = p[j], i # j PROVE FALSE
  <2>1. i < j \/ j < i
    BY <1>4, <1>7
  <2>2. R!Before(q, p[i], p[j]) \/ R!Before(q, p[j], p[i])
    BY <2>1, <1>3
  <2> QED  BY <2>2, <1>6, <1>7
<1> QED  BY <1>2, <1>4, <1>5, <1>7 DEF Distinct

LEMMA IsInOrder ==
    ASSUME NEW q \in Seq(Keys), NEW p \in Seq(Keys), Distinct(p),
           \A x, y : R!Before(p, x, y) => R!Before(q, x, y)
    PROVE  p \in R!InOrderOf(q, R!ToSet(p))
<1>1. Cardinality(R!ToSet(p)) = Len(p) /\ DOMAIN p = 1 .. Len(p)
  BY DistinctCounts
<1>2. p \in [1 .. Len(p) -> R!ToSet(p)]
  <2>1. \A i \in 1 .. Len(p) : p[i] \in R!ToSet(p)
    BY ToSetIs
  <2>2. p \in [1 .. Len(p) -> Keys]
    OBVIOUS
  <2> QED  BY <2>1, <2>2
<1>3. ASSUME NEW i \in DOMAIN p, NEW j \in DOMAIN p, i < j PROVE R!Before(q, p[i], p[j])
  <2>1. R!Before(p, p[i], p[j])
    BY <1>3 DEF R!Before
  <2> QED  BY <2>1
<1> QED  BY <1>1, <1>2, <1>3, SameCount DEF R!InOrderOf

(* Of the times s at which requests went through: those from a on, and     *)
(* those from a to b.                                                      *)
SinceOf(s, a)     == {i \in DOMAIN s : a <= s[i]}
PassedOf(s, a, b) == {i \in DOMAIN s : a <= s[i] /\ s[i] <= b}

LEMMA IndicesCount ==
    ASSUME NEW s \in Seq(Nat), NEW T \in SUBSET DOMAIN s
    PROVE  /\ IsFiniteSet(T) /\ Cardinality(T) \in Nat
           /\ \A V \in SUBSET T : IsFiniteSet(V) /\ Cardinality(V) <= Cardinality(T)
<1>1. DOMAIN s = 1 .. Len(s) /\ Len(s) \in Nat
  OBVIOUS
<1>2. IsFiniteSet(DOMAIN s)
  BY <1>1, FS_Interval
<1>3. IsFiniteSet(T)
  BY <1>2, FS_Subset
<1> QED  BY <1>3, FS_Subset, FS_CardinalityType

LEMMA PassAdded ==
    ASSUME NEW s \in Seq(Nat), NEW t \in Nat, NEW a \in Int
    PROVE  /\ Append(s, t) \in Seq(Nat)
           /\ a <= t => Cardinality(SinceOf(Append(s, t), a)) = Cardinality(SinceOf(s, a)) + 1
           /\ \A b \in Int : b < t => PassedOf(Append(s, t), a, b) = PassedOf(s, a, b)
           /\ \A m \in Int : t < m /\ (\A i \in DOMAIN s : s[i] < m) =>
                  \A i \in DOMAIN Append(s, t) : Append(s, t)[i] < m
<1>1. PICK p : p = Append(s, t)
  OBVIOUS
<1>2. p \in Seq(Nat) /\ Len(p) = Len(s) + 1 /\ Len(s) \in Nat
  BY <1>1
<1>3. (\A i \in 1 .. Len(s) : p[i] = s[i]) /\ p[Len(s) + 1] = t
  BY <1>1
<1>4. DOMAIN p = (1 .. Len(s)) \cup {Len(s) + 1} /\ DOMAIN s = 1 .. Len(s) /\ Len(s) + 1 \notin DOMAIN s
  BY <1>2
<1>5. ASSUME a <= t PROVE Cardinality(SinceOf(p, a)) = Cardinality(SinceOf(s, a)) + 1
  <2>1. SinceOf(p, a) = SinceOf(s, a) \cup {Len(s) + 1} /\ Len(s) + 1 \notin SinceOf(s, a)
    BY <1>3, <1>4, <1>5 DEF SinceOf
  <2>2. IsFiniteSet(SinceOf(s, a))
    BY IndicesCount DEF SinceOf
  <2> QED  BY <2>1, <2>2, FS_AddElement
<1>6. ASSUME NEW b \in Int, b < t PROVE PassedOf(p, a, b) = PassedOf(s, a, b)
  <2>1. ~(t <= b)
    BY <1>6
  <2> QED  BY <2>1, <1>3, <1>4 DEF PassedOf
<1>7. ASSUME NEW m \in Int, t < m, \A i \in DOMAIN s : s[i] < m PROVE \A i \in DOMAIN p : p[i] < m
  BY <1>3, <1>4, <1>7
<1> QED  BY <1>1, <1>2, <1>5, <1>6, <1>7

(* A window has counted what went through since it began, if no more than  *)
(* the rate; unless something was lost it counted nothing else, and as     *)
(* much at most went through in the length of it before.                   *)
WindowRecords == [count : Nat \ {0}, start : Nat]
Enough(s, w) ==
    \/ Cardinality(SinceOf(s, w.start)) >= w.count
    \/ Cardinality(SinceOf(s, w.start)) >= Rate
Exact(s, w) ==
    /\ Cardinality(SinceOf(s, w.start)) <= Rate /\ Cardinality(SinceOf(s, w.start)) <= w.count
    /\ Cardinality(PassedOf(s, w.start - Window + 1, w.start - 1)) <= Rate
    /\ \A i \in DOMAIN s : s[i] < w.start + Window

(* A key without a window has had at most the rate lately.                 *)
Rested(s, t) ==
    /\ Cardinality(SinceOf(s, t - Window + 1)) <= Rate
    /\ \A i \in DOMAIN s : s[i] < t

(* A request that passes in a window.                                      *)
LEMMA PassInWindow ==
    ASSUME NEW s \in Seq(Nat), NEW w \in WindowRecords, NEW t \in Nat,
           w.start <= t, t - w.start < Window, w.count + 1 <= Rate,
           NEW v \in WindowRecords, v.start = w.start, v.count = w.count + 1
    PROVE  /\ Enough(s, w) => Enough(Append(s, t), v)
           /\ Exact(s, w) => Exact(Append(s, t), v)
<1> USE LimiterAssumption
<1>1. w.start \in Nat /\ w.count \in Nat /\ Rate \in Nat /\ Window \in Nat /\ w.start \in Int
  BY DEF WindowRecords
<1>2. PICK n : n = Cardinality(SinceOf(s, w.start))
  OBVIOUS
<1>3. n \in Nat
  BY <1>2, IndicesCount DEF SinceOf
<1>4. Cardinality(SinceOf(Append(s, t), w.start)) = n + 1
  BY <1>1, <1>2, PassAdded
<1>5. PassedOf(Append(s, t), w.start - Window + 1, w.start - 1) = PassedOf(s, w.start - Window + 1, w.start - 1)
  <2>1. w.start - Window + 1 \in Int /\ w.start - 1 \in Int /\ w.start - 1 < t
    BY <1>1
  <2> QED  BY <2>1, PassAdded
<1>6. (\A i \in DOMAIN s : s[i] < w.start + Window)
          => \A i \in DOMAIN Append(s, t) : Append(s, t)[i] < w.start + Window
  <2>1. w.start + Window \in Int /\ t < w.start + Window
    BY <1>1
  <2> QED  BY <2>1, PassAdded
<1>7. Enough(s, w) => Enough(Append(s, t), v)
  <2>1. n >= w.count \/ n >= Rate => n + 1 >= w.count + 1 \/ n + 1 >= Rate
    BY <1>1, <1>3
  <2> QED  BY <2>1, <1>2, <1>4 DEF Enough
<1>8. Exact(s, w) => Exact(Append(s, t), v)
  <2>1. n <= w.count => n + 1 <= Rate /\ n + 1 <= w.count + 1
    BY <1>1, <1>3
  <2> QED  BY <2>1, <1>2, <1>4, <1>5, <1>6 DEF Exact
<1> QED  BY <1>7, <1>8

(* One that is refused; the rate was used up.                              *)
LEMMA RefusalInWindow ==
    ASSUME NEW s \in Seq(Nat), NEW w \in WindowRecords, w.count + 1 > Rate,
           NEW v \in WindowRecords, v.start = w.start, v.count = w.count + 1
    PROVE  /\ Enough(s, w) => Enough(s, v) /\ Cardinality(SinceOf(s, w.start)) >= Rate
           /\ Exact(s, w) => Exact(s, v)
<1> USE LimiterAssumption
<1>1. w.count \in Nat /\ Rate \in Nat
  BY DEF WindowRecords
<1>2. PICK n : n = Cardinality(SinceOf(s, w.start))
  OBVIOUS
<1>3. n \in Nat
  BY <1>2, IndicesCount DEF SinceOf
<1>4. n >= w.count \/ n >= Rate => n >= Rate
  BY <1>1, <1>3
<1>5. n <= w.count => n <= w.count + 1
  BY <1>1, <1>3
<1> QED  BY <1>2, <1>4, <1>5 DEF Enough, Exact

(* One that begins a window.                                               *)
LEMMA PassInNewWindow ==
    ASSUME NEW s \in Seq(Nat), NEW t \in Nat,
           NEW v \in WindowRecords, v.start = t, v.count = 1
    PROVE  /\ Enough(Append(s, t), v)
           /\ Rested(s, t) => Exact(Append(s, t), v)
<1> USE LimiterAssumption
<1>1. Rate \in Nat \ {0} /\ Window \in Nat \ {0} /\ t \in Int
  OBVIOUS
<1>2. PICK n : n = Cardinality(SinceOf(s, t))
  OBVIOUS
<1>3. n \in Nat
  BY <1>2, IndicesCount DEF SinceOf
<1>4. Cardinality(SinceOf(Append(s, t), t)) = n + 1
  BY <1>1, <1>2, PassAdded
<1>5. Enough(Append(s, t), v)
  <2>1. n + 1 >= 1
    BY <1>3
  <2> QED  BY <2>1, <1>4 DEF Enough
<1>6. ASSUME Rested(s, t) PROVE Exact(Append(s, t), v)
  <2>1. SinceOf(s, t) = {}
    <3>1. \A i \in DOMAIN s : s[i] < t /\ s[i] \in Nat
      BY <1>6 DEF Rested
    <3> QED  BY <3>1 DEF SinceOf
  <2>2. n = 0
    BY <2>1, <1>2, FS_EmptySet
  <2>3. n + 1 <= Rate /\ n + 1 <= 1
    BY <2>2, <1>1
  <2>4. PassedOf(Append(s, t), t - Window + 1, t - 1) = PassedOf(s, t - Window + 1, t - 1)
    <3>1. t - Window + 1 \in Int /\ t - 1 \in Int /\ t - 1 < t
      BY <1>1
    <3> QED  BY <3>1, PassAdded
  <2>5. Cardinality(PassedOf(s, t - Window + 1, t - 1)) <= Rate
    <3>1. PassedOf(s, t - Window + 1, t - 1) \subseteq SinceOf(s, t - Window + 1)
      BY DEF PassedOf, SinceOf
    <3>2. Cardinality(PassedOf(s, t - Window + 1, t - 1)) <= Cardinality(SinceOf(s, t - Window + 1))
      BY <3>1, IndicesCount DEF SinceOf
    <3>3. Cardinality(PassedOf(s, t - Window + 1, t - 1)) \in Nat /\ Cardinality(SinceOf(s, t - Window + 1)) \in Nat
      BY IndicesCount DEF SinceOf, PassedOf
    <3>4. Cardinality(SinceOf(s, t - Window + 1)) <= Rate
      BY <1>6 DEF Rested
    <3> QED  BY <3>2, <3>3, <3>4, <1>1
  <2>6. \A i \in DOMAIN Append(s, t) : Append(s, t)[i] < t + Window
    <3>1. t + Window \in Int /\ t < t + Window
      BY <1>1
    <3>2. \A i \in DOMAIN s : s[i] < t + Window
      <4>1. \A i \in DOMAIN s : s[i] < t /\ s[i] \in Nat
        BY <1>6 DEF Rested
      <4> QED  BY <4>1, <1>1
    <3> QED  BY <3>1, <3>2, PassAdded
  <2> QED  BY <2>3, <2>4, <2>5, <2>6, <1>4 DEF Exact
<1> QED  BY <1>5, <1>6

(* A request counted in a window and turned away, its answer lost; one let  *)
(* through, counted or not; and one turned away that began a window.        *)
LEMMA CountedInWindow ==
    ASSUME NEW s \in Seq(Nat), NEW w \in WindowRecords, NEW t \in Nat, w.start <= t,
           NEW v \in WindowRecords, v.start = w.start, v.count = w.count + 1
    PROVE  /\ Exact(s, w) => Exact(s, v)
           /\ Enough(s, w) => Enough(Append(s, t), w) /\ Enough(Append(s, t), v)
<1> USE LimiterAssumption
<1>1. w.start \in Nat /\ w.count \in Nat /\ Rate \in Nat /\ w.start \in Int
  BY DEF WindowRecords
<1>2. PICK n : n = Cardinality(SinceOf(s, w.start))
  OBVIOUS
<1>3. n \in Nat
  BY <1>2, IndicesCount DEF SinceOf
<1>4. Cardinality(SinceOf(Append(s, t), w.start)) = n + 1
  BY <1>1, <1>2, PassAdded
<1>5. n <= w.count => n <= w.count + 1
  BY <1>1, <1>3
<1>6. n >= w.count \/ n >= Rate =>
          (n + 1 >= w.count \/ n + 1 >= Rate) /\ (n + 1 >= w.count + 1 \/ n + 1 >= Rate)
  BY <1>1, <1>3
<1> QED  BY <1>2, <1>4, <1>5, <1>6 DEF Enough, Exact

LEMMA CountedInNewWindow ==
    ASSUME NEW s \in Seq(Nat), NEW t \in Nat, Rested(s, t),
           NEW v \in WindowRecords, v.start = t, v.count = 1
    PROVE  Exact(s, v)
<1> USE LimiterAssumption
<1>1. Rate \in Nat \ {0} /\ Window \in Nat \ {0} /\ \A i \in DOMAIN s : s[i] < t /\ s[i] \in Nat
  BY DEF Rested
<1>2. SinceOf(s, t) = {}
  BY <1>1 DEF SinceOf
<1>3. Cardinality(SinceOf(s, t)) = 0
  BY <1>2, FS_EmptySet
<1>4. Cardinality(PassedOf(s, t - Window + 1, t - 1)) <= Rate
  <2>1. PassedOf(s, t - Window + 1, t - 1) \subseteq SinceOf(s, t - Window + 1)
    BY DEF PassedOf, SinceOf
  <2>2. Cardinality(PassedOf(s, t - Window + 1, t - 1)) <= Cardinality(SinceOf(s, t - Window + 1))
    BY <2>1, IndicesCount DEF SinceOf
  <2>3. Cardinality(PassedOf(s, t - Window + 1, t - 1)) \in Nat /\ Cardinality(SinceOf(s, t - Window + 1)) \in Nat
    BY IndicesCount DEF SinceOf, PassedOf
  <2>4. Cardinality(SinceOf(s, t - Window + 1)) <= Rate
    BY DEF Rested
  <2> QED  BY <2>2, <2>3, <2>4, <1>1
<1>5. \A i \in DOMAIN s : s[i] < t + Window
  BY <1>1
<1>6. 0 <= Rate /\ 0 <= 1
  BY <1>1
<1> QED  BY <1>3, <1>4, <1>5, <1>6 DEF Exact

(* A window that is over leaves its key rested, and it stays so.           *)
LEMMA RestedAfter ==
    ASSUME NEW s \in Seq(Nat), NEW w \in WindowRecords, NEW t \in Nat, t - w.start >= Window, Exact(s, w)
    PROVE  Rested(s, t)
<1> USE LimiterAssumption
<1>1. w.start \in Nat /\ Rate \in Nat /\ Window \in Nat
  BY DEF WindowRecords
<1>s. \A i \in DOMAIN s : s[i] \in Nat
  OBVIOUS
<1>2. SinceOf(s, t - Window + 1) \subseteq SinceOf(s, w.start)
  <2>1. \A n \in Nat : t - Window + 1 <= n => w.start <= n
    BY <1>1
  <2> QED  BY <2>1, <1>s DEF SinceOf
<1>3. Cardinality(SinceOf(s, t - Window + 1)) <= Cardinality(SinceOf(s, w.start))
  BY <1>2, IndicesCount DEF SinceOf
<1>4. Cardinality(SinceOf(s, t - Window + 1)) \in Nat /\ Cardinality(SinceOf(s, w.start)) \in Nat
  BY IndicesCount DEF SinceOf
<1>5. Cardinality(SinceOf(s, w.start)) <= Rate /\ \A i \in DOMAIN s : s[i] < w.start + Window
  BY DEF Exact
<1>6. Cardinality(SinceOf(s, t - Window + 1)) <= Rate
  BY <1>1, <1>3, <1>4, <1>5
<1>7. \A i \in DOMAIN s : s[i] < t
  <2>1. \A n \in Nat : n < w.start + Window => n < t
    BY <1>1
  <2> QED  BY <2>1, <1>5, <1>s
<1> QED  BY <1>6, <1>7 DEF Rested

LEMMA RestedLater ==
    ASSUME NEW s \in Seq(Nat), NEW t \in Nat, Rested(s, t) PROVE Rested(s, t + 1)
<1> USE LimiterAssumption
<1>s. \A i \in DOMAIN s : s[i] \in Nat
  OBVIOUS
<1>1. \A n \in Nat : (t + 1) - Window + 1 <= n => t - Window + 1 <= n
  OBVIOUS
<1>2. SinceOf(s, (t + 1) - Window + 1) \subseteq SinceOf(s, t - Window + 1)
  BY <1>1, <1>s DEF SinceOf
<1>3. Cardinality(SinceOf(s, (t + 1) - Window + 1)) <= Cardinality(SinceOf(s, t - Window + 1))
  BY <1>2, IndicesCount DEF SinceOf
<1>4. Cardinality(SinceOf(s, (t + 1) - Window + 1)) \in Nat /\ Cardinality(SinceOf(s, t - Window + 1)) \in Nat
  BY IndicesCount DEF SinceOf
<1>5. Cardinality(SinceOf(s, t - Window + 1)) <= Rate /\ \A i \in DOMAIN s : s[i] < t
  BY DEF Rested
<1>6. Cardinality(SinceOf(s, (t + 1) - Window + 1)) <= Rate
  BY <1>3, <1>4, <1>5
<1>7. \A i \in DOMAIN s : s[i] < t + 1
  BY <1>5, <1>s
<1> QED  BY <1>6, <1>7 DEF Rested

(* Two windows meet in a stretch of the length of one.                     *)
LEMMA TwoWindows ==
    ASSUME NEW s \in Seq(Nat), NEW w \in WindowRecords, NEW t \in Nat, w.start <= t, Exact(s, w)
    PROVE  Cardinality(PassedOf(s, t - Window + 1, t)) <= 2 * Rate
<1> USE LimiterAssumption
<1>1. w.start \in Nat /\ Rate \in Nat /\ Window \in Nat
  BY DEF WindowRecords
<1> DEFINE old == PassedOf(s, w.start - Window + 1, w.start - 1)
           new == SinceOf(s, w.start)
           all == PassedOf(s, t - Window + 1, t)
<1>s. \A i \in DOMAIN s : s[i] \in Nat
  OBVIOUS
<1>2. all \subseteq old \cup new
  <2>1. \A n \in Nat : t - Window + 1 <= n => w.start <= n \/ (w.start - Window + 1 <= n /\ n <= w.start - 1)
    BY <1>1
  <2> QED  BY <2>1, <1>s DEF PassedOf, SinceOf
<1>3. /\ IsFiniteSet(old) /\ IsFiniteSet(new) /\ IsFiniteSet(all) /\ IsFiniteSet(old \cap new)
      /\ Cardinality(old) \in Nat /\ Cardinality(new) \in Nat /\ Cardinality(all) \in Nat
      /\ Cardinality(old \cap new) \in Nat /\ Cardinality(old \cup new) \in Nat
      /\ old \cup new \subseteq DOMAIN s
  <2>1. old \in SUBSET DOMAIN s /\ new \in SUBSET DOMAIN s /\ all \in SUBSET DOMAIN s
    BY DEF PassedOf, SinceOf
  <2>2. old \cap new \in SUBSET DOMAIN s /\ old \cup new \in SUBSET DOMAIN s
    BY <2>1
  <2> QED  BY <2>1, <2>2, IndicesCount
<1>4. Cardinality(old) <= Rate /\ Cardinality(new) <= Rate
  BY DEF Exact
<1> HIDE DEF old, new, all
<1>5. Cardinality(all) <= Cardinality(old \cup new)
  BY <1>2, <1>3, IndicesCount
<1>6. Cardinality(old \cup new) = Cardinality(old) + Cardinality(new) - Cardinality(old \cap new)
  BY <1>3, FS_Union
<1>7. Cardinality(all) <= 2 * Rate
  BY <1>1, <1>3, <1>4, <1>5, <1>6
<1> QED  BY <1>7 DEF all

LEMMA OneRest ==
    ASSUME NEW s \in Seq(Nat), NEW t \in Nat, Rested(s, t)
    PROVE  Cardinality(PassedOf(s, t - Window + 1, t)) <= 2 * Rate
<1> USE LimiterAssumption
<1>1. PassedOf(s, t - Window + 1, t) \subseteq SinceOf(s, t - Window + 1)
  BY DEF PassedOf, SinceOf
<1>2. Cardinality(PassedOf(s, t - Window + 1, t)) <= Cardinality(SinceOf(s, t - Window + 1))
  BY <1>1, IndicesCount DEF SinceOf
<1>3. Cardinality(PassedOf(s, t - Window + 1, t)) \in Nat /\ Cardinality(SinceOf(s, t - Window + 1)) \in Nat
  BY IndicesCount DEF SinceOf, PassedOf
<1>4. Cardinality(SinceOf(s, t - Window + 1)) <= Rate
  BY DEF Rested
<1> QED  BY <1>2, <1>3, <1>4

(* The windows, and what went through, are of the past.                    *)
WindowsAre ==
    /\ windows \in [DOMAIN windows -> WindowRecords]
    /\ served \in [Keys -> Seq(Nat)]
    /\ \A k \in Keys : \A i \in DOMAIN served[k] : served[k][i] <= now
    /\ refused \subseteq Keys

(* The order of the memory store is of the keys that have a window, the    *)
(* one in which they were last active.                                     *)
OrdersAgree ==
    /\ lru \in Seq(Keys) /\ Distinct(lru) /\ recent \in Seq(Keys) /\ Distinct(recent)
    /\ store = "pg" \/ MaxSize = 0 => lru = <<>>
    /\ store = "memory" /\ MaxSize > 0 =>
           /\ R!ToSet(lru) = DOMAIN windows /\ Len(lru) <= MaxSize
           /\ R!ToSet(lru) \subseteq R!ToSet(recent)
           /\ \A x, y : R!Before(lru, x, y) => R!Before(recent, x, y)

(* What a window says of its key, or the lack of one.                      *)
PassesCounted(k) ==
    /\ k \in DOMAIN windows =>
           /\ k \notin charged => Enough(served[k], windows[k])
           /\ k \notin forgotten => Exact(served[k], windows[k])
    /\ k \notin DOMAIN windows \cup forgotten => Rested(served[k], now)

(* The inductive invariant.                                                *)
RateIInv ==
    /\ R!TypeOK /\ WindowsAre /\ OrdersAgree /\ \A k \in Keys : PassesCounted(k)
    /\ R!TwiceAtMost /\ R!RefusedRightly

LEMMA LatelyIs ==
    ASSUME NEW s \in Seq(Nat), NEW t \in Int
    PROVE  R!Cardinality({i \in DOMAIN s : t - s[i] < Window /\ s[i] <= t})
               = Cardinality(PassedOf(s, t - Window + 1, t))
<1> USE LimiterAssumption
<1>1. \A i \in DOMAIN s : s[i] \in Nat
  OBVIOUS
<1>2. \A n \in Nat : t - n < Window <=> t - Window + 1 <= n
  OBVIOUS
<1>3. {i \in DOMAIN s : t - s[i] < Window /\ s[i] <= t} = PassedOf(s, t - Window + 1, t)
  BY <1>1, <1>2 DEF PassedOf
<1> QED  BY <1>3, SameCount

(* Which windows a request removes, and what it does to the others.        *)
WithoutThose(k, gone) ==
    /\ windows' = [x \in (DOMAIN windows \cup {k}) \ gone |-> IF x = k THEN R!Counted(k) ELSE windows[x]]
    /\ forgotten' = forgotten \cup {x \in gone : now - windows[x].start < Window}

(* The memory store evicts the key that was active least recently.         *)
LEMMA Evicts ==
    ASSUME RateIInv, NEW k \in Keys, store = "memory", R!MemoryAllow(k), UNCHANGED store,
           recent' = Append(R!Without(recent, k), k)
    PROVE  (\E gone \in SUBSET (DOMAIN windows \ {k}) : WithoutThose(k, gone)) /\ OrdersAgree'
<1> USE LimiterAssumption
<1>a. OrdersAgree
  BY DEF RateIInv
<1>b. lru \in Seq(Keys) /\ Distinct(lru) /\ recent \in Seq(Keys) /\ Distinct(recent)
  BY <1>a DEF OrdersAgree
<1> DEFINE order == R!Touched(k)
           kept == IF MaxSize > 0 /\ Len(order) > MaxSize THEN Tail(order) ELSE order
           evicted == R!ToSet(order) \ R!ToSet(kept)
<1>c. /\ lru' = kept /\ WithoutThose(k, evicted)
  BY DEF R!MemoryAllow, WithoutThose
<1>1. PICK rp : rp = R!Without(recent, k)
  OBVIOUS
<1>2. /\ rp \in Seq(Keys) /\ Distinct(rp) /\ R!ToSet(rp) = R!ToSet(recent) \ {k}
      /\ \A x, y : R!Before(recent, x, y) /\ x # k /\ y # k => R!Before(rp, x, y)
  BY <1>1, <1>b, WithoutIs
<1>3. k \notin R!ToSet(rp) /\ recent' = Append(rp, k)
  BY <1>1, <1>2
<1>4. /\ recent' \in Seq(Keys) /\ Distinct(recent') /\ R!ToSet(recent') = R!ToSet(rp) \cup {k}
      /\ \A x, y : R!Before(rp, x, y) => R!Before(recent', x, y)
      /\ \A x \in R!ToSet(rp) : R!Before(recent', x, k)
  BY <1>2, <1>3, PutLast
<1>5. CASE MaxSize = 0
  <2>1. order = lru /\ lru = <<>>
    BY <1>5, <1>a DEF R!Touched, OrdersAgree
  <2>2. kept = lru /\ evicted = {}
    BY <2>1, <1>5
  <2> HIDE DEF order, kept, evicted
  <2>3. lru' = lru
    BY <1>c, <2>2
  <2>4. OrdersAgree'
    BY <2>1, <2>3, <1>b, <1>4, <1>5 DEF OrdersAgree
  <2> QED  BY <2>2, <2>4, <1>c
<1>6. CASE MaxSize > 0
  <2>a. /\ R!ToSet(lru) = DOMAIN windows /\ Len(lru) <= MaxSize /\ R!ToSet(lru) \subseteq R!ToSet(recent)
        /\ \A x, y : R!Before(lru, x, y) => R!Before(recent, x, y)
    BY <1>6, <1>a DEF OrdersAgree
  <2>1. PICK p : p = R!Without(lru, k)
    OBVIOUS
  <2>2. /\ p \in Seq(Keys) /\ Distinct(p) /\ R!ToSet(p) = R!ToSet(lru) \ {k} /\ Len(p) <= Len(lru)
        /\ \A x, y : R!Before(p, x, y) => R!Before(lru, x, y)
    BY <2>1, <1>b, WithoutIs
  <2>3. k \notin R!ToSet(p)
    BY <2>2
  <2>4. PICK q : q = Append(p, k)
    OBVIOUS
  <2>5. /\ q \in Seq(Keys) /\ Distinct(q) /\ R!ToSet(q) = R!ToSet(p) \cup {k}
        /\ Len(q) = Len(p) + 1 /\ q[Len(q)] = k
        /\ \A x, y : R!Before(q, x, y) => R!Before(p, x, y) \/ (x \in R!ToSet(p) /\ y = k)
    BY <2>2, <2>3, <2>4, PutLast
  <2>6. order = q
    BY <2>1, <2>4, <1>6 DEF R!Touched
  <2>7. R!ToSet(q) = DOMAIN windows \cup {k} /\ R!ToSet(q) \subseteq R!ToSet(recent')
    BY <2>a, <2>2, <2>5, <1>2, <1>4
  <2>8. ASSUME NEW x, NEW y, R!Before(q, x, y) PROVE R!Before(recent', x, y)
    <3>1. CASE R!Before(p, x, y)
      <4>1. x \in R!ToSet(p) /\ y \in R!ToSet(p)
        BY <3>1 DEF R!Before, R!ToSet
      <4>2. x # k /\ y # k
        BY <4>1, <2>3
      <4>3. R!Before(recent, x, y)
        BY <3>1, <2>2, <2>a
      <4> QED  BY <4>2, <4>3, <1>2, <1>4
    <3>2. CASE x \in R!ToSet(p) /\ y = k
      <4>1. x \in R!ToSet(rp)
        BY <3>2, <2>2, <2>a, <1>2
      <4> QED  BY <4>1, <3>2, <1>4
    <3> QED  BY <3>1, <3>2, <2>8, <2>5
  <2>n. Len(p) \in Nat /\ Len(lru) \in Nat /\ MaxSize \in Nat
    BY <2>2, <1>b
  <2>9. CASE Len(q) > MaxSize
    <3>1. q # <<>> /\ Len(q) \in Nat /\ Len(q) > 1
      BY <2>9, <2>5, <2>n, <1>6
    <3>2. /\ Tail(q) \in Seq(Keys) /\ Distinct(Tail(q)) /\ Len(Tail(q)) = Len(q) - 1
          /\ R!ToSet(Tail(q)) = R!ToSet(q) \ {q[1]} /\ q[1] \in R!ToSet(q)
          /\ \A x, y : R!Before(Tail(q), x, y) => R!Before(q, x, y)
      BY <3>1, <2>5, FirstOff
    <3>3. q[1] # k
      <4>1. 1 \in DOMAIN q /\ Len(q) \in DOMAIN q /\ Len(q) # 1
        BY <3>1, <2>5
      <4> QED  BY <4>1, <2>5 DEF Distinct
    <3>4. kept = Tail(q) /\ evicted = {q[1]}
      BY <2>6, <2>9, <1>6, <3>2
    <3>5. q[1] \in DOMAIN windows \ {k}
      BY <3>2, <3>3, <2>7
    <3>6. lru' = Tail(q)
      BY <1>c, <3>4
    <3>7. WithoutThose(k, {q[1]})
      BY <1>c, <3>4
    <3>8. DOMAIN windows' = R!ToSet(lru')
      BY <3>2, <3>6, <3>7, <2>7 DEF WithoutThose
    <3>9. Len(lru') <= MaxSize
      BY <3>2, <3>6, <2>5, <2>2, <2>a, <2>n
    <3>10. OrdersAgree'
      <4>1. \A x, y : R!Before(lru', x, y) => R!Before(recent', x, y)
        BY <3>2, <3>6, <2>8
      <4>2. R!ToSet(lru') \subseteq R!ToSet(recent')
        BY <3>2, <3>6, <2>7
      <4> QED  BY <4>1, <4>2, <3>2, <3>6, <3>8, <3>9, <1>4, <1>6 DEF OrdersAgree
    <3> QED  BY <3>5, <3>7, <3>10
  <2>10. CASE ~(Len(q) > MaxSize)
    <3>1. kept = q /\ evicted = {}
      BY <2>6, <2>10
    <3>2. lru' = q /\ WithoutThose(k, {})
      BY <1>c, <3>1
    <3>3. DOMAIN windows' = R!ToSet(lru') /\ Len(lru') <= MaxSize
      BY <3>2, <2>7, <2>10, <2>n, <2>5 DEF WithoutThose
    <3>4. OrdersAgree'
      BY <3>2, <3>3, <2>5, <2>7, <2>8, <1>4, <1>6 DEF OrdersAgree
    <3> QED  BY <3>2, <3>4
  <2> QED  BY <2>9, <2>10
<1> QED  BY <1>5, <1>6 DEF LimiterAssumption

(* The rate is kept after a request: of one key and of the others.         *)
LEMMA RequestCounts ==
    ASSUME RateIInv, NEW k \in Keys, NEW gone \in SUBSET (DOMAIN windows \ {k}), WithoutThose(k, gone),
           IF R!Counted(k).count <= Rate THEN R!Pass(k) ELSE refused' = {k} /\ UNCHANGED served,
           charged' = IF R!Counted(k).count = 1 THEN charged \ {k} ELSE charged, UNCHANGED now
    PROVE  WindowsAre' /\ (\A x \in Keys : PassesCounted(x)') /\ R!RefusedRightly'
<1> USE LimiterAssumption
<1>a. R!TypeOK /\ WindowsAre /\ (\A x \in Keys : PassesCounted(x)) /\ R!RefusedRightly
  BY DEF RateIInv
<1>b. now \in Nat /\ Rate \in Nat \ {0} /\ Window \in Nat \ {0} /\ now' = now /\ DOMAIN windows \subseteq Keys
  BY <1>a DEF R!TypeOK
<1>c. /\ windows \in [DOMAIN windows -> WindowRecords] /\ served \in [Keys -> Seq(Nat)]
      /\ \A x \in Keys : \A i \in DOMAIN served[x] : served[x][i] <= now
  BY <1>a DEF WindowsAre
<1>w. ASSUME NEW x \in DOMAIN windows
      PROVE  windows[x] \in WindowRecords /\ windows[x].start <= now /\ windows[x].start \in Nat /\ windows[x].count \in Nat
  BY <1>a, <1>c DEF R!TypeOK, WindowRecords
<1>1. PICK v : v = R!Counted(k)
  OBVIOUS
<1>2. v \in WindowRecords /\ v.start <= now
  <2>1. CASE k \in DOMAIN windows /\ now - windows[k].start < Window
    <3>1. v = [windows[k] EXCEPT !.count = @ + 1]
      BY <1>1, <2>1 DEF R!Counted
    <3> QED  BY <3>1, <2>1, <1>w DEF WindowRecords
  <2>2. CASE ~(k \in DOMAIN windows /\ now - windows[k].start < Window)
    <3>1. v = [count |-> 1, start |-> now]
      BY <1>1, <2>2 DEF R!Counted
    <3> QED  BY <3>1, <1>b DEF WindowRecords
  <2> QED  BY <2>1, <2>2
<1>3. /\ DOMAIN windows' = (DOMAIN windows \cup {k}) \ gone /\ k \in DOMAIN windows' /\ windows'[k] = v
      /\ \A x \in DOMAIN windows' : x # k => x \in DOMAIN windows /\ windows'[x] = windows[x]
  BY <1>1 DEF WithoutThose
<1>4. windows' \in [DOMAIN windows' -> WindowRecords]
  <2>1. windows' = [x \in DOMAIN windows' |-> windows'[x]]
    BY DEF WithoutThose
  <2>2. \A x \in DOMAIN windows' : windows'[x] \in WindowRecords
    BY <1>2, <1>3, <1>w
  <2> QED  BY <2>1, <2>2
<1>5. PICK s \in Seq(Nat) : s = served[k] /\ \A i \in DOMAIN s : s[i] <= now
  BY <1>c
<1>6. PICK r \in Seq(Nat) : /\ served' = [served EXCEPT ![k] = r] /\ r = served'[k]
                            /\ IF v.count <= Rate THEN r = Append(s, now) /\ refused' = {}
                                                  ELSE r = s /\ refused' = {k}
  <2>1. CASE v.count <= Rate
    <3>1. served' = [served EXCEPT ![k] = Append(s, now)] /\ refused' = {}
      BY <1>1, <1>5, <2>1 DEF R!Pass, R!NoKey
    <3>2. Append(s, now) \in Seq(Nat) /\ served'[k] = Append(s, now)
      BY <3>1, <1>b, <1>c
    <3> QED  BY <3>1, <3>2, <2>1
  <2>2. CASE ~(v.count <= Rate)
    <3>1. served' = served /\ refused' = {k}
      BY <1>1, <2>2
    <3>2. served' = [served EXCEPT ![k] = s]
      BY <3>1, <1>5, <1>c
    <3> QED  BY <3>1, <3>2, <2>2, <1>5
  <2> QED  BY <2>1, <2>2
<1>7. \A x \in Keys \ {k} : served'[x] = served[x]
  BY <1>6, <1>c
<1>8. \A i \in DOMAIN r : r[i] <= now
  <2>1. CASE r = s
    BY <2>1, <1>5
  <2>2. CASE r = Append(s, now)
    <3>1. now < now + 1 /\ now + 1 \in Int /\ \A i \in DOMAIN s : s[i] < now + 1
      BY <1>b, <1>5
    <3>2. \A i \in DOMAIN r : r[i] < now + 1
      BY <3>1, <2>2, <1>b, PassAdded
    <3> QED  BY <3>2, <1>b
  <2> QED  BY <2>1, <2>2, <1>6
<1>9. WindowsAre'
  <2>1. served' \in [Keys -> Seq(Nat)]
    BY <1>6, <1>c
  <2>2. \A x \in Keys : \A i \in DOMAIN served'[x] : served'[x][i] <= now'
    BY <1>6, <1>7, <1>8, <1>b, <1>c
  <2>3. refused' \subseteq Keys
    BY <1>6
  <2> QED  BY <2>1, <2>2, <2>3, <1>4 DEF WindowsAre
<1>10. forgotten \subseteq forgotten' /\ (k \in forgotten' => k \in forgotten)
  BY DEF WithoutThose
<1>g. charged' = (IF v.count = 1 THEN charged \ {k} ELSE charged)
  BY <1>1
<1>11. /\ (k \notin charged' => Enough(r, v)) /\ (k \notin forgotten' => Exact(r, v))
       /\ refused' = {k} /\ k \notin charged' =>
              Cardinality(SinceOf(r, v.start)) >= Rate /\ now - v.start < Window
  <2>1. CASE k \in DOMAIN windows /\ now - windows[k].start < Window
    <3>1. PICK w \in WindowRecords : w = windows[k]
      BY <2>1, <1>w
    <3>2. v = [w EXCEPT !.count = @ + 1] /\ v.start = w.start /\ v.count = w.count + 1
      BY <1>1, <2>1, <3>1 DEF R!Counted, WindowRecords
    <3>3. w.start <= now /\ now - w.start < Window /\ w.count \in Nat
      BY <2>1, <3>1, <1>w
    <3>g. charged' = charged
      <4>1. v.count # 1
        BY <3>2, <3>3, <2>1, <3>1 DEF WindowRecords
      <4> QED  BY <4>1, <1>g
    <3>4. (k \notin charged' => Enough(s, w)) /\ (k \notin forgotten' => Exact(s, w))
      BY <2>1, <3>1, <3>g, <1>a, <1>5, <1>10 DEF PassesCounted
    <3>5. CASE v.count <= Rate
      <4>1. r = Append(s, now) /\ refused' = {}
        BY <1>6, <3>5
      <4>2. w.count + 1 <= Rate /\ v.start = w.start /\ v.count = w.count + 1
        BY <3>2, <3>5
      <4>3. /\ Enough(s, w) => Enough(Append(s, now), v)
            /\ Exact(s, w) => Exact(Append(s, now), v)
        BY <4>2, <3>3, <1>2, <1>b, PassInWindow
      <4> QED  BY <4>1, <4>3, <3>4
    <3>6. CASE ~(v.count <= Rate)
      <4>1. r = s
        BY <1>6, <3>6
      <4>2. w.count + 1 > Rate
        BY <3>2, <3>3, <3>6, <1>b
      <4>3. /\ Enough(s, w) => Enough(s, v) /\ Cardinality(SinceOf(s, w.start)) >= Rate
            /\ Exact(s, w) => Exact(s, v)
        BY <3>2, <4>2, <1>2, RefusalInWindow
      <4> QED  BY <4>1, <4>3, <3>2, <3>3, <3>4
    <3> QED  BY <3>5, <3>6
  <2>2. CASE ~(k \in DOMAIN windows /\ now - windows[k].start < Window)
    <3>1. v = [count |-> 1, start |-> now]
      BY <1>1, <2>2 DEF R!Counted
    <3>2. v.start = now /\ v.count = 1 /\ v.count <= Rate
      BY <3>1, <1>b
    <3>3. r = Append(s, now) /\ refused' = {}
      BY <1>6, <3>2
    <3>4. ASSUME k \notin forgotten' PROVE Rested(s, now)
      <4>1. CASE k \notin DOMAIN windows
        BY <4>1, <3>4, <1>a, <1>5, <1>10 DEF PassesCounted
      <4>2. CASE k \in DOMAIN windows
        <5>1. Exact(s, windows[k])
          BY <4>2, <3>4, <1>a, <1>5, <1>10 DEF PassesCounted
        <5>2. now - windows[k].start >= Window
          BY <4>2, <2>2, <1>w, <1>b
        <5> QED  BY <5>1, <5>2, <4>2, <1>w, <1>b, RestedAfter
      <4> QED  BY <4>1, <4>2
    <3>5. Enough(Append(s, now), v) /\ (Rested(s, now) => Exact(Append(s, now), v))
      BY <3>2, <1>2, <1>b, PassInNewWindow
    <3> QED  BY <3>3, <3>4, <3>5
  <2> QED  BY <2>1, <2>2
<1>12. ASSUME NEW x \in Keys PROVE PassesCounted(x)'
  <2>1. CASE x = k
    BY <2>1, <1>3, <1>6, <1>11 DEF PassesCounted
  <2>2. CASE x # k
    <3>1. /\ served'[x] = served[x] /\ (x \in DOMAIN windows' => x \in DOMAIN windows /\ windows'[x] = windows[x])
          /\ x \in charged <=> x \in charged'
      BY <2>2, <1>3, <1>7, <1>g
    <3>2. PassesCounted(x)
      BY <1>a
    <3>3. CASE x \in DOMAIN windows'
      BY <3>1, <3>2, <3>3, <1>10 DEF PassesCounted
    <3>4. CASE x \notin DOMAIN windows'
      <4>1. CASE x \notin DOMAIN windows
        BY <3>1, <3>2, <3>4, <4>1, <1>10, <1>b DEF PassesCounted
      <4>2. CASE x \in DOMAIN windows
        <5>1. x \in gone
          BY <3>4, <4>2, <1>3
        <5>2. ASSUME x \notin forgotten' PROVE Rested(served'[x], now')
          <6>1. ~(now - windows[x].start < Window)
            BY <5>1, <5>2 DEF WithoutThose
          <6>2. now - windows[x].start >= Window
            BY <6>1, <4>2, <1>w, <1>b
          <6>3. Exact(served[x], windows[x])
            BY <3>2, <4>2, <5>2, <1>10 DEF PassesCounted
          <6>4. served[x] \in Seq(Nat)
            BY <1>c
          <6> QED  BY <6>2, <6>3, <6>4, <4>2, <3>1, <1>w, <1>b, RestedAfter
        <5> QED  BY <5>2, <3>4 DEF PassesCounted
      <4> QED  BY <4>1, <4>2
    <3> QED  BY <3>3, <3>4
  <2> QED  BY <2>1, <2>2
<1>13. R!RefusedRightly'
  <2>1. CASE refused' = {}
    BY <2>1 DEF R!RefusedRightly
  <2>2. CASE refused' = {k} /\ k \notin charged'
    <3>1. Cardinality(SinceOf(r, v.start)) >= Rate /\ now - v.start < Window
      BY <2>2, <1>11
    <3>2. SinceOf(r, v.start) \subseteq PassedOf(r, now - Window + 1, now)
      <4>1. v.start \in Nat
        BY <1>2 DEF WindowRecords
      <4>2. \A n \in Nat : v.start <= n => now - Window + 1 <= n
        BY <4>1, <3>1, <1>b
      <4>3. \A i \in DOMAIN r : r[i] \in Nat
        OBVIOUS
      <4> QED  BY <4>2, <4>3, <1>8 DEF SinceOf, PassedOf
    <3>3. /\ PassedOf(r, now - Window + 1, now) \in SUBSET DOMAIN r
          /\ SinceOf(r, v.start) \in SUBSET DOMAIN r
      BY DEF PassedOf, SinceOf
    <3>4. Cardinality(SinceOf(r, v.start)) <= Cardinality(PassedOf(r, now - Window + 1, now))
      BY <3>2, <3>3, IndicesCount
    <3>5. Cardinality(SinceOf(r, v.start)) \in Nat /\ Cardinality(PassedOf(r, now - Window + 1, now)) \in Nat
      BY <3>3, IndicesCount
    <3>6. Cardinality(PassedOf(r, now - Window + 1, now)) >= Rate
      BY <3>1, <3>4, <3>5, <1>b
    <3>7. now \in Int
      BY <1>b
    <3>8. R!Cardinality({i \in DOMAIN r : now - r[i] < Window /\ r[i] <= now}) >= Rate
      BY <3>6, <3>7, LatelyIs
    <3> QED  BY <3>8, <2>2, <1>6, <1>b DEF R!RefusedRightly, R!Lately
  <2>3. CASE refused' = {k} /\ k \in charged'
    BY <2>3 DEF R!RefusedRightly
  <2> QED  BY <2>1, <2>2, <2>3, <1>6
<1> QED  BY <1>9, <1>12, <1>13

(* No step lets a key through twice too often: what is later than all that *)
(* went through is counted by the windows, and the past does not change.   *)
LEMMA TwiceStep ==
    ASSUME RateIInv, WindowsAre', \A k \in Keys : PassesCounted(k)', R!TypeOK',
           forgotten \subseteq forgotten', now' \in {now, now + 1},
           \A k \in Keys : served'[k] = served[k] \/ (now' = now /\ served'[k] = Append(served[k], now))
    PROVE  R!TwiceAtMost'
<1> USE LimiterAssumption
<1>a. R!TypeOK /\ WindowsAre /\ R!TwiceAtMost
  BY DEF RateIInv
<1>b. now \in Nat /\ now' \in Nat /\ Rate \in Nat /\ Window \in Nat /\ forgotten \subseteq Keys
  BY <1>a DEF R!TypeOK
<1> SUFFICES ASSUME NEW k \in Keys, k \notin forgotten', NEW t \in 0 .. now'
             PROVE  R!Lately(k, t)' <= 2 * Rate
  <2>1. \A k \in Keys \ forgotten' : \A t \in 0 .. now' : R!Lately(k, t)' <= 2 * Rate
    OBVIOUS
  <2> QED  BY <2>1 DEF R!TwiceAtMost
<1>1. PICK s \in Seq(Nat) : s = served[k]
  BY <1>a DEF WindowsAre
<1>2. PICK r \in Seq(Nat) : r = served'[k]
  BY DEF WindowsAre
<1>t. t \in Int
  BY <1>b
<1>3. R!Lately(k, t) = Cardinality(PassedOf(s, t - Window + 1, t))
  <2>1. R!Cardinality({i \in DOMAIN s : t - s[i] < Window /\ s[i] <= t})
            = Cardinality(PassedOf(s, t - Window + 1, t))
    BY <1>t, LatelyIs
  <2>2. R!Lately(k, t) = R!Cardinality({i \in DOMAIN s : t - s[i] < Window /\ s[i] <= t})
    BY <1>1, Zenon DEF R!Lately
  <2> QED  BY <2>1, <2>2
<1>4. R!Lately(k, t)' = Cardinality(PassedOf(r, t - Window + 1, t))
  <2>1. R!Cardinality({i \in DOMAIN r : t - r[i] < Window /\ r[i] <= t})
            = Cardinality(PassedOf(r, t - Window + 1, t))
    BY <1>t, LatelyIs
  <2>2. R!Lately(k, t)' = R!Cardinality({i \in DOMAIN r : t - r[i] < Window /\ r[i] <= t})
    BY <1>2, Zenon DEF R!Lately
  <2> QED  BY <2>1, <2>2
<1>5. CASE t = now'
  <2>1. CASE k \in DOMAIN windows'
    <3>1. windows'[k] \in WindowRecords /\ windows'[k].start <= now'
      BY <2>1, <1>b DEF WindowsAre, R!TypeOK, WindowRecords
    <3>2. Exact(r, windows'[k])
      BY <2>1, <1>2 DEF PassesCounted
    <3> QED  BY <3>1, <3>2, <1>4, <1>5, <1>b, TwoWindows
  <2>2. CASE k \notin DOMAIN windows'
    <3>1. Rested(r, now')
      BY <2>2, <1>2 DEF PassesCounted
    <3> QED  BY <3>1, <1>4, <1>5, <1>b, OneRest
  <2> QED  BY <2>1, <2>2
<1>6. CASE t # now'
  <2>1. t \in 0 .. now /\ t < now' /\ k \in Keys \ forgotten
    BY <1>6, <1>b
  <2>2. R!Lately(k, t) <= 2 * Rate
    BY <2>1, <1>a DEF R!TwiceAtMost
  <2>3. PassedOf(r, t - Window + 1, t) = PassedOf(s, t - Window + 1, t)
    <3>1. CASE r = s
      BY <3>1
    <3>2. CASE now' = now /\ r = Append(s, now)
      <4>1. t - Window + 1 \in Int /\ t \in Int /\ t < now
        BY <2>1, <3>2, <1>b
      <4> QED  BY <4>1, <3>2, <1>b, PassAdded
    <3> QED  BY <3>1, <3>2, <1>1, <1>2
  <2> QED  BY <2>2, <2>3, <1>3, <1>4
<1> QED  BY <1>5, <1>6

LEMMA RateTypeStep ==
    ASSUME RateIInv, R!Next PROVE R!TypeOK' /\ forgotten \subseteq forgotten'
<1> USE LimiterAssumption
<1>a. R!TypeOK /\ WindowsAre /\ OrdersAgree
  BY DEF RateIInv
<1>b. /\ now \in Nat /\ now \in 0 .. MaxTime /\ requests \in 0 .. MaxRequests /\ DOMAIN windows \subseteq Keys
      /\ store \in {"memory", "pg"} /\ failClosed \in BOOLEAN /\ forgotten \subseteq Keys /\ charged \subseteq Keys
      /\ lru \in Seq(Keys)
  BY <1>a DEF R!TypeOK
<1>w. ASSUME NEW x \in DOMAIN windows
      PROVE  windows[x].count > 0 /\ windows[x].start \in 0 .. now
  BY <1>a DEF R!TypeOK
<1>c. ASSUME NEW k \in Keys PROVE R!Counted(k).count > 0 /\ R!Counted(k).start \in 0 .. now
  <2>1. CASE k \in DOMAIN windows /\ now - windows[k].start < Window
    <3>1. windows[k] \in WindowRecords
      BY <2>1, <1>a DEF WindowsAre
    <3>2. R!Counted(k).count = windows[k].count + 1 /\ R!Counted(k).start = windows[k].start
      BY <2>1, <3>1 DEF R!Counted, WindowRecords
    <3>3. windows[k].count \in Nat
      BY <3>1 DEF WindowRecords
    <3> QED  BY <2>1, <3>2, <3>3, <1>w
  <2>2. CASE ~(k \in DOMAIN windows /\ now - windows[k].start < Window)
    <3>1. R!Counted(k).count = 1 /\ R!Counted(k).start = now
      BY <2>2 DEF R!Counted
    <3> QED  BY <3>1, <1>b
  <2> QED  BY <2>1, <2>2
<1>1. ASSUME NEW k \in Keys, R!Request(k) PROVE R!TypeOK' /\ forgotten \subseteq forgotten'
  <2>1. PICK gone \in SUBSET (DOMAIN windows \ {k}) : WithoutThose(k, gone)
    <3>1. CASE store = "memory"
      BY <3>1, <1>1, Evicts DEF R!Request
    <3>2. CASE store # "memory"
      <4>1. WithoutThose(k, {})
        BY <3>2, <1>1 DEF R!Request, R!PGAllow, R!Upserted, WithoutThose
      <4> QED  BY <4>1
    <3> QED  BY <3>1, <3>2
  <2>2. lru' \in Seq(Keys)
    <3>1. CASE store = "memory"
      BY <3>1, <1>1, Evicts DEF R!Request, OrdersAgree
    <3>2. CASE store # "memory"
      BY <3>2, <1>1, <1>b DEF R!Request, R!PGAllow
    <3> QED  BY <3>1, <3>2
  <2>3. requests' \in 0 .. MaxRequests /\ charged' \subseteq Keys /\ UNCHANGED <<store, failClosed, now>>
    BY <1>1, <1>b DEF R!Request
  <2>4. forgotten' \subseteq Keys /\ forgotten \subseteq forgotten' /\ DOMAIN windows' \subseteq Keys
    BY <2>1, <1>b DEF WithoutThose
  <2>5. ASSUME NEW x \in DOMAIN windows' PROVE windows'[x].count > 0 /\ windows'[x].start \in 0 .. now
    BY <2>1, <2>5, <1>c, <1>w DEF WithoutThose
  <2> QED  BY <2>2, <2>3, <2>4, <2>5, <1>b DEF R!TypeOK
<1>2. ASSUME NEW k \in Keys, R!RequestUnanswered(k) PROVE R!TypeOK' /\ forgotten \subseteq forgotten'
  <2>1. requests' \in 0 .. MaxRequests /\ UNCHANGED <<store, failClosed, now, lru>>
    BY <1>2, <1>b DEF R!RequestUnanswered
  <2>2. forgotten' \subseteq Keys /\ forgotten \subseteq forgotten' /\ charged' \subseteq Keys
    BY <1>2, <1>b DEF R!RequestUnanswered
  <2>3. /\ DOMAIN windows' \subseteq Keys
        /\ \A x \in DOMAIN windows' : windows'[x].count > 0 /\ windows'[x].start \in 0 .. now
    <3>1. CASE windows' = windows
      BY <3>1, <1>b, <1>w
    <3>2. CASE windows' = R!Upserted(k)
      BY <3>2, <1>b, <1>c, <1>w DEF R!Upserted
    <3> QED  BY <3>1, <3>2, <1>2 DEF R!RequestUnanswered
  <2> QED  BY <2>1, <2>2, <2>3, <1>b DEF R!TypeOK
<1>3. ASSUME NEW gone \in SUBSET DOMAIN windows, R!Drop(gone) PROVE R!TypeOK' /\ forgotten \subseteq forgotten'
  <2>1. lru' \in Seq(Keys)
    <3>1. R!ToSet(lru) \ gone \in SUBSET Keys /\ IsFiniteSet(R!ToSet(lru) \ gone)
      <4>1. IsFiniteSet(R!ToSet(lru)) /\ R!ToSet(lru) \subseteq Keys
        BY <1>a, DistinctCounts, ToSetIs DEF OrdersAgree
      <4> QED  BY <4>1, FS_Subset
    <3> QED  BY <1>3, <1>a, <3>1, InOrderIs DEF R!Drop, OrdersAgree
  <2>2. /\ DOMAIN windows' = DOMAIN windows \ gone
        /\ \A x \in DOMAIN windows' : x \in DOMAIN windows /\ windows'[x] = windows[x]
    BY <1>3 DEF R!Drop
  <2>3. forgotten' \subseteq Keys /\ forgotten \subseteq forgotten'
        /\ UNCHANGED <<store, failClosed, now, charged, requests>>
    BY <1>3, <1>b DEF R!Drop
  <2> QED  BY <2>1, <2>2, <2>3, <1>a DEF R!TypeOK
<1>4. ASSUME R!TimePasses PROVE R!TypeOK' /\ forgotten \subseteq forgotten'
  <2>1. now' \in 0 .. MaxTime /\ now' = now + 1 /\ UNCHANGED <<store, failClosed, windows, lru, forgotten, charged, requests>>
    BY <1>4, <1>b DEF R!TimePasses
  <2>2. ASSUME NEW x \in DOMAIN windows PROVE windows[x].count > 0 /\ windows[x].start \in 0 .. now'
    BY <2>1, <2>2, <1>w, <1>b
  <2> QED  BY <2>1, <2>2, <1>b DEF R!TypeOK
<1>5. ASSUME R!CleanupExpired PROVE R!TypeOK' /\ forgotten \subseteq forgotten'
  BY <1>3, <1>5 DEF R!CleanupExpired
<1>6. ASSUME R!Cleanup PROVE R!TypeOK' /\ forgotten \subseteq forgotten'
  BY <1>3, <1>6 DEF R!Cleanup
<1> QED  BY <1>1, <1>2, <1>4, <1>5, <1>6 DEF R!Next

(* A clean-up, in which windows go that need not be over.                  *)
LEMMA DropCounts ==
    ASSUME RateIInv, NEW gone \in SUBSET DOMAIN windows, R!Drop(gone)
    PROVE  /\ WindowsAre' /\ OrdersAgree' /\ (\A x \in Keys : PassesCounted(x)') /\ R!RefusedRightly'
           /\ UNCHANGED <<served, now>>
<1> USE LimiterAssumption
<1>a. R!TypeOK /\ WindowsAre /\ OrdersAgree /\ \A x \in Keys : PassesCounted(x)
  BY DEF RateIInv
<1>b. now \in Nat /\ DOMAIN windows \subseteq Keys
  BY <1>a DEF R!TypeOK
<1>1. /\ DOMAIN windows' = DOMAIN windows \ gone
      /\ \A x \in DOMAIN windows' : x \in DOMAIN windows /\ windows'[x] = windows[x]
      /\ windows' = [x \in DOMAIN windows' |-> windows'[x]]
      /\ lru' \in R!InOrderOf(lru, R!ToSet(lru) \ gone) /\ refused' = {}
      /\ forgotten' = forgotten \cup {k \in gone : now - windows[k].start < Window}
      /\ UNCHANGED <<store, now, recent, served, charged>>
  BY DEF R!Drop, R!NoKey
<1>2. WindowsAre'
  <2>1. windows' \in [DOMAIN windows' -> WindowRecords]
    BY <1>1, <1>a DEF WindowsAre
  <2> QED  BY <2>1, <1>1, <1>a DEF WindowsAre
<1>3. OrdersAgree'
  <2>a. lru \in Seq(Keys) /\ Distinct(lru) /\ recent \in Seq(Keys) /\ Distinct(recent)
    BY <1>a DEF OrdersAgree
  <2>1. R!ToSet(lru) \ gone \in SUBSET Keys /\ IsFiniteSet(R!ToSet(lru) \ gone) /\ IsFiniteSet(R!ToSet(lru))
    <3>1. IsFiniteSet(R!ToSet(lru)) /\ R!ToSet(lru) \subseteq Keys
      BY <2>a, DistinctCounts, ToSetIs
    <3> QED  BY <3>1, FS_Subset
  <2>2. /\ lru' \in Seq(Keys) /\ Distinct(lru') /\ R!ToSet(lru') = R!ToSet(lru) \ gone
        /\ \A x, y : R!Before(lru', x, y) => R!Before(lru, x, y)
    BY <2>a, <2>1, <1>1, InOrderIs
  <2>3. Len(lru') <= Len(lru) /\ Len(lru') \in Nat /\ Len(lru) \in Nat
    <3>1. Cardinality(R!ToSet(lru')) <= Cardinality(R!ToSet(lru))
      BY <2>1, <2>2, FS_Subset
    <3>2. Len(lru') \in Nat /\ Len(lru) \in Nat
      BY <2>a, <2>2
    <3>3. Cardinality(R!ToSet(lru')) = Len(lru')
      BY <2>2, DistinctCounts
    <3>4. Cardinality(R!ToSet(lru)) = Len(lru)
      BY <2>a, DistinctCounts
    <3> QED  BY <3>1, <3>2, <3>3, <3>4
  <2>4. ASSUME store = "pg" \/ MaxSize = 0 PROVE lru' = <<>>
    <3>1. Len(lru) = 0
      BY <2>4, <1>a DEF OrdersAgree
    <3> QED  BY <3>1, <2>2, <2>3
  <2>5. ASSUME store = "memory", MaxSize > 0
        PROVE  /\ R!ToSet(lru') = DOMAIN windows' /\ Len(lru') <= MaxSize
               /\ R!ToSet(lru') \subseteq R!ToSet(recent)
               /\ \A x, y : R!Before(lru', x, y) => R!Before(recent, x, y)
    <3>1. /\ R!ToSet(lru) = DOMAIN windows /\ Len(lru) <= MaxSize /\ R!ToSet(lru) \subseteq R!ToSet(recent)
          /\ \A x, y : R!Before(lru, x, y) => R!Before(recent, x, y)
      BY <2>5, <1>a DEF OrdersAgree
    <3>2. Len(lru') <= MaxSize
      BY <3>1, <2>3
    <3> QED  BY <3>1, <3>2, <2>2, <1>1
  <2> QED  BY <2>a, <2>2, <2>4, <2>5, <1>1 DEF OrdersAgree
<1>4. ASSUME NEW x \in Keys PROVE PassesCounted(x)'
  <2>1. PassesCounted(x)
    BY <1>a
  <2>2. CASE x \in DOMAIN windows'
    BY <2>1, <2>2, <1>1 DEF PassesCounted
  <2>3. CASE x \notin DOMAIN windows'
    <3>1. CASE x \notin DOMAIN windows
      BY <2>1, <2>3, <3>1, <1>1 DEF PassesCounted
    <3>2. CASE x \in DOMAIN windows
      <4>1. x \in gone
        BY <2>3, <3>2, <1>1
      <4>2. ASSUME x \notin forgotten' PROVE Rested(served'[x], now')
        <5>1. ~(now - windows[x].start < Window)
          BY <4>1, <4>2, <1>1
        <5>2. windows[x] \in WindowRecords
          BY <3>2, <1>a DEF WindowsAre
        <5>3. now - windows[x].start >= Window
          BY <5>1, <5>2, <1>b DEF WindowRecords
        <5>4. Exact(served[x], windows[x]) /\ served[x] \in Seq(Nat)
          BY <2>1, <3>2, <4>2, <1>1, <1>a DEF PassesCounted, WindowsAre
        <5> QED  BY <5>2, <5>3, <5>4, <1>1, <1>b, RestedAfter
      <4> QED  BY <4>2, <2>3 DEF PassesCounted
    <3> QED  BY <3>1, <3>2
  <2> QED  BY <2>2, <2>3
<1>5. R!RefusedRightly'
  BY <1>1 DEF R!RefusedRightly
<1> QED  BY <1>1, <1>2, <1>3, <1>4, <1>5

LEMMA TimeCounts ==
    ASSUME RateIInv, R!TimePasses
    PROVE  WindowsAre' /\ OrdersAgree' /\ (\A x \in Keys : PassesCounted(x)') /\ R!RefusedRightly'
<1> USE LimiterAssumption
<1>a. R!TypeOK /\ WindowsAre /\ OrdersAgree /\ \A x \in Keys : PassesCounted(x)
  BY DEF RateIInv
<1>b. now \in Nat
  BY <1>a DEF R!TypeOK
<1>1. now' = now + 1 /\ refused' = {} /\ UNCHANGED <<store, windows, lru, recent, served, forgotten, charged>>
  BY DEF R!TimePasses, R!NoKey
<1>2. WindowsAre'
  <2>1. \A k \in Keys : \A i \in DOMAIN served[k] : served[k][i] <= now + 1
    <3> TAKE k \in Keys
    <3>1. \A i \in DOMAIN served[k] : served[k][i] \in Nat /\ served[k][i] <= now
      BY <1>a DEF WindowsAre
    <3> QED  BY <3>1, <1>b
  <2> QED  BY <2>1, <1>1, <1>a DEF WindowsAre
<1>3. OrdersAgree'
  BY <1>1, <1>a DEF OrdersAgree
<1>4. ASSUME NEW x \in Keys PROVE PassesCounted(x)'
  <2>1. served[x] \in Seq(Nat)
    BY <1>a DEF WindowsAre
  <2>2. Rested(served[x], now) => Rested(served[x], now + 1)
    BY <2>1, <1>b, RestedLater
  <2> QED  BY <2>2, <1>1, <1>a DEF PassesCounted
<1>5. R!RefusedRightly'
  BY <1>1 DEF R!RefusedRightly
<1> QED  BY <1>2, <1>3, <1>4, <1>5

(* A request that nobody answers is let through, or is turned away, and    *)
(* counted or not.                                                         *)
LEMMA UnansweredCounts ==
    ASSUME RateIInv, NEW k \in Keys, R!RequestUnanswered(k)
    PROVE  /\ WindowsAre' /\ OrdersAgree' /\ (\A x \in Keys : PassesCounted(x)') /\ R!RefusedRightly'
           /\ now' = now
           /\ \A x \in Keys : served'[x] = served[x] \/ served'[x] = Append(served[x], now)
<1> USE LimiterAssumption
<1>a. R!TypeOK /\ WindowsAre /\ OrdersAgree /\ \A x \in Keys : PassesCounted(x)
  BY DEF RateIInv
<1>b. now \in Nat /\ Rate \in Nat /\ Window \in Nat
  BY <1>a DEF R!TypeOK
<1>c. /\ windows \in [DOMAIN windows -> WindowRecords] /\ served \in [Keys -> Seq(Nat)]
      /\ \A x \in Keys : \A i \in DOMAIN served[x] : served[x][i] <= now
  BY <1>a DEF WindowsAre
<1>w. ASSUME NEW x \in DOMAIN windows
      PROVE  windows[x] \in WindowRecords /\ windows[x].start <= now /\ windows[x].start \in Nat /\ windows[x].count \in Nat
  BY <1>a, <1>c DEF R!TypeOK, WindowRecords
<1>1. refused' = {} /\ windows' \in {windows, R!Upserted(k)} /\ UNCHANGED <<store, now, lru, recent>>
  BY DEF R!RequestUnanswered, R!Pass, R!NoKey
<1>2. PICK s \in Seq(Nat) : s = served[k] /\ \A i \in DOMAIN s : s[i] <= now
  BY <1>c
<1>3. PICK v : v = R!Counted(k)
  OBVIOUS
<1>5. v \in WindowRecords /\ v.start <= now
  <2>1. CASE k \in DOMAIN windows /\ now - windows[k].start < Window
    <3>1. v = [windows[k] EXCEPT !.count = @ + 1]
      BY <1>3, <2>1 DEF R!Counted
    <3> QED  BY <3>1, <2>1, <1>w DEF WindowRecords
  <2>2. CASE ~(k \in DOMAIN windows /\ now - windows[k].start < Window)
    <3>1. v = [count |-> 1, start |-> now]
      BY <1>3, <2>2 DEF R!Counted
    <3> QED  BY <3>1, <1>b DEF WindowRecords
  <2> QED  BY <2>1, <2>2
<1>6. /\ windows' \in [DOMAIN windows' -> WindowRecords]
      /\ \A x \in Keys \ {k} : (x \in DOMAIN windows' <=> x \in DOMAIN windows)
                               /\ (x \in DOMAIN windows => windows'[x] = windows[x])
  <2>1. CASE windows' = windows
    BY <2>1, <1>c
  <2>2. CASE windows' = R!Upserted(k)
    BY <2>2, <1>3, <1>5, <1>w DEF R!Upserted
  <2> QED  BY <2>1, <2>2, <1>1
<1>8. OrdersAgree'
  <2>1. store = "pg" /\ store' = "pg"
    BY <1>1 DEF R!RequestUnanswered
  <2> QED  BY <2>1, <1>1, <1>a DEF OrdersAgree
<1>9. R!RefusedRightly'
  BY <1>1 DEF R!RefusedRightly
<1>10. CASE failClosed
  <2>1. UNCHANGED <<served, forgotten>> /\ charged' = IF windows' = windows THEN charged ELSE charged \cup {k}
    BY <1>10 DEF R!RequestUnanswered
  <2>2. WindowsAre'
    BY <1>1, <1>6, <2>1, <1>a DEF WindowsAre
  <2>3. ASSUME NEW x \in Keys PROVE PassesCounted(x)'
    <3>1. CASE x # k
      BY <3>1, <2>1, <1>1, <1>6, <1>a DEF PassesCounted
    <3>2. CASE x = k /\ windows' = windows
      BY <3>2, <2>1, <1>1, <1>a DEF PassesCounted
    <3>3. CASE x = k /\ windows' # windows
      <4>1. k \in DOMAIN windows' /\ windows'[k] = v /\ k \in charged'
        BY <3>3, <2>1, <1>1, <1>3 DEF R!Upserted
      <4>2. ASSUME k \notin forgotten PROVE Exact(s, v)
        <5>1. CASE k \in DOMAIN windows /\ now - windows[k].start < Window
          <6>1. PICK w \in WindowRecords : w = windows[k] /\ w.start <= now
            BY <5>1, <1>w
          <6>2. v.start = w.start /\ v.count = w.count + 1
            BY <1>3, <5>1, <6>1 DEF R!Counted, WindowRecords
          <6>3. Exact(s, w)
            BY <4>2, <5>1, <6>1, <1>2, <1>a DEF PassesCounted
          <6> QED  BY <6>1, <6>2, <6>3, <1>5, <1>b, CountedInWindow
        <5>2. CASE ~(k \in DOMAIN windows /\ now - windows[k].start < Window)
          <6>1. v.start = now /\ v.count = 1
            BY <1>3, <5>2 DEF R!Counted
          <6>2. Rested(s, now)
            <7>1. CASE k \notin DOMAIN windows
              BY <7>1, <4>2, <1>a, <1>2 DEF PassesCounted
            <7>2. CASE k \in DOMAIN windows
              <8>1. Exact(s, windows[k])
                BY <7>2, <4>2, <1>a, <1>2 DEF PassesCounted
              <8>2. now - windows[k].start >= Window
                BY <7>2, <5>2, <1>w, <1>b
              <8> QED  BY <8>1, <8>2, <7>2, <1>w, <1>b, RestedAfter
            <7> QED  BY <7>1, <7>2
          <6> QED  BY <6>1, <6>2, <1>5, <1>b, CountedInNewWindow
        <5> QED  BY <5>1, <5>2
      <4> QED  BY <4>1, <4>2, <3>3, <2>1, <1>2 DEF PassesCounted
    <3> QED  BY <3>1, <3>2, <3>3
  <2> QED  BY <2>1, <2>2, <2>3, <1>1, <1>8, <1>9
<1>11. CASE ~failClosed
  <2>1. /\ served' = [served EXCEPT ![k] = Append(@, now)] /\ forgotten' = forgotten \cup {k}
        /\ charged' = charged
    BY <1>11 DEF R!RequestUnanswered, R!Pass
  <2>2. Append(s, now) \in Seq(Nat) /\ served'[k] = Append(s, now) /\ \A x \in Keys \ {k} : served'[x] = served[x]
    BY <2>1, <1>2, <1>b, <1>c
  <2>3. \A i \in DOMAIN Append(s, now) : Append(s, now)[i] <= now
    <3>1. now < now + 1 /\ now + 1 \in Int /\ \A i \in DOMAIN s : s[i] < now + 1
      BY <1>2, <1>b
    <3>2. \A i \in DOMAIN Append(s, now) : Append(s, now)[i] < now + 1
      BY <3>1, <1>b, PassAdded
    <3> QED  BY <3>2, <2>2, <1>b
  <2>4. WindowsAre'
    <3>1. served' \in [Keys -> Seq(Nat)]
      BY <2>1, <2>2, <1>c
    <3>2. \A x \in Keys : \A i \in DOMAIN served'[x] : served'[x][i] <= now
      BY <2>2, <2>3, <1>c
    <3> QED  BY <3>1, <3>2, <1>1, <1>6, <1>a DEF WindowsAre
  <2>5. ASSUME NEW x \in Keys PROVE PassesCounted(x)'
    <3>1. CASE x # k
      BY <3>1, <2>1, <2>2, <1>1, <1>6, <1>a DEF PassesCounted
    <3>2. CASE x = k
      <4>1. ASSUME k \in DOMAIN windows', k \notin charged PROVE Enough(served'[k], windows'[k])
        <5>1. CASE k \in DOMAIN windows /\ now - windows[k].start < Window
          <6>1. PICK w \in WindowRecords : w = windows[k] /\ w.start <= now
            BY <5>1, <1>w
          <6>2. v.start = w.start /\ v.count = w.count + 1
            BY <1>3, <5>1, <6>1 DEF R!Counted, WindowRecords
          <6>3. Enough(s, w)
            BY <4>1, <5>1, <6>1, <1>2, <1>a DEF PassesCounted
          <6>4. Enough(Append(s, now), w) /\ Enough(Append(s, now), v)
            BY <6>1, <6>2, <6>3, <1>5, <1>b, CountedInWindow
          <6>5. windows'[k] \in {w, v}
            BY <6>1, <1>1, <1>3 DEF R!Upserted
          <6> QED  BY <6>4, <6>5, <2>2
        <5>2. CASE ~(k \in DOMAIN windows /\ now - windows[k].start < Window) /\ windows' = R!Upserted(k)
          <6>1. v.start = now /\ v.count = 1 /\ windows'[k] = v
            BY <1>3, <5>2 DEF R!Counted, R!Upserted
          <6> QED  BY <6>1, <2>2, <1>5, <1>b, PassInNewWindow
        <5>3. CASE windows' = windows
          <6>1. PICK w \in WindowRecords : w = windows[k] /\ w.start <= now /\ w.count \in Nat /\ w.start \in Nat
            BY <4>1, <5>3, <1>w
          <6>2. Enough(s, w)
            BY <4>1, <5>3, <6>1, <1>2, <1>a DEF PassesCounted
          <6>3. PICK u \in WindowRecords : u.start = w.start /\ u.count = w.count + 1
            <7>1. [count |-> w.count + 1, start |-> w.start] \in WindowRecords
              BY <6>1 DEF WindowRecords
            <7> QED  BY <7>1
          <6>4. Enough(Append(s, now), w)
            BY <6>1, <6>2, <6>3, <1>b, CountedInWindow
          <6> QED  BY <6>1, <6>4, <5>3, <2>2
        <5> QED  BY <5>1, <5>2, <5>3, <1>1
      <4> QED  BY <4>1, <3>2, <2>1, <1>1 DEF PassesCounted
    <3> QED  BY <3>1, <3>2
  <2> QED  BY <2>2, <2>4, <2>5, <1>1, <1>2, <1>8, <1>9
<1> QED  BY <1>10, <1>11

LEMMA RateStep ==
    ASSUME RateIInv, R!Next PROVE RateIInv'
<1>t. R!TypeOK' /\ forgotten \subseteq forgotten'
  BY RateTypeStep
<1>1. ASSUME NEW k \in Keys, R!Request(k) PROVE RateIInv'
  <2>1. (\E gone \in SUBSET (DOMAIN windows \ {k}) : WithoutThose(k, gone)) /\ OrdersAgree'
    <3>1. CASE store = "memory"
      BY <3>1, <1>1, Evicts DEF R!Request
    <3>2. CASE store # "memory"
      <4>1. WithoutThose(k, {})
        BY <3>2, <1>1 DEF R!Request, R!PGAllow, R!Upserted, WithoutThose
      <4>2. OrdersAgree'
        BY <3>2, <1>1 DEF R!Request, R!PGAllow, OrdersAgree, RateIInv
      <4> QED  BY <4>1, <4>2
    <3> QED  BY <3>1, <3>2
  <2>2. /\ IF R!Counted(k).count <= Rate THEN R!Pass(k) ELSE refused' = {k} /\ UNCHANGED served
        /\ charged' = IF R!Counted(k).count = 1 THEN charged \ {k} ELSE charged
        /\ UNCHANGED now
    BY <1>1 DEF R!Request
  <2>3. WindowsAre' /\ (\A x \in Keys : PassesCounted(x)') /\ R!RefusedRightly'
    BY <2>1, <2>2, RequestCounts
  <2>4. \A x \in Keys : served'[x] = served[x] \/ (now' = now /\ served'[x] = Append(served[x], now))
    <3>1. served \in [Keys -> Seq(Nat)]
      BY DEF RateIInv, WindowsAre
    <3> QED  BY <2>2, <3>1 DEF R!Pass
  <2>5. R!TwiceAtMost'
    BY <1>t, <2>2, <2>3, <2>4, TwiceStep
  <2> QED  BY <1>t, <2>1, <2>3, <2>5 DEF RateIInv
<1>2. ASSUME NEW k \in Keys, R!RequestUnanswered(k) PROVE RateIInv'
  <2>1. /\ WindowsAre' /\ OrdersAgree' /\ (\A x \in Keys : PassesCounted(x)') /\ R!RefusedRightly'
        /\ now' = now
        /\ \A x \in Keys : served'[x] = served[x] \/ served'[x] = Append(served[x], now)
    BY <1>2, UnansweredCounts
  <2>2. R!TwiceAtMost'
    BY <1>t, <2>1, TwiceStep
  <2> QED  BY <1>t, <2>1, <2>2 DEF RateIInv
<1>3. ASSUME NEW gone \in SUBSET DOMAIN windows, R!Drop(gone) PROVE RateIInv'
  <2>1. /\ WindowsAre' /\ OrdersAgree' /\ (\A x \in Keys : PassesCounted(x)') /\ R!RefusedRightly'
        /\ UNCHANGED <<served, now>>
    BY <1>3, DropCounts
  <2>2. R!TwiceAtMost'
    BY <1>t, <2>1, TwiceStep
  <2> QED  BY <1>t, <2>1, <2>2 DEF RateIInv
<1>4. ASSUME R!TimePasses PROVE RateIInv'
  <2>1. WindowsAre' /\ OrdersAgree' /\ (\A x \in Keys : PassesCounted(x)') /\ R!RefusedRightly'
    BY <1>4, TimeCounts
  <2>2. now' = now + 1 /\ UNCHANGED served
    BY <1>4 DEF R!TimePasses
  <2>3. R!TwiceAtMost'
    BY <1>t, <2>1, <2>2, TwiceStep
  <2> QED  BY <1>t, <2>1, <2>3 DEF RateIInv
<1>5. ASSUME R!CleanupExpired PROVE RateIInv'
  BY <1>3, <1>5 DEF R!CleanupExpired
<1>6. ASSUME R!Cleanup PROVE RateIInv'
  BY <1>3, <1>6 DEF R!Cleanup
<1> QED  BY <1>1, <1>2, <1>4, <1>5, <1>6 DEF R!Next

LEMMA RateInitOK == R!Init => RateIInv
<1> SUFFICES ASSUME R!Init PROVE RateIInv
  OBVIOUS
<1> USE LimiterAssumption
<1>1. /\ store \in {"memory", "pg"} /\ failClosed \in BOOLEAN /\ now = 0 /\ requests = 0
      /\ windows = [k \in {} |-> 0] /\ lru = <<>> /\ recent = <<>> /\ served = [k \in Keys |-> <<>>]
      /\ forgotten = {} /\ charged = {} /\ refused = {}
  BY DEF R!Init, R!NoKey
<1>2. DOMAIN windows = {} /\ windows \in [DOMAIN windows -> WindowRecords]
  BY <1>1
<1>3. <<>> \in Seq(Keys) /\ <<>> \in Seq(Nat) /\ DOMAIN <<>> = {}
  OBVIOUS
<1>4. R!TypeOK
  BY <1>1, <1>2, <1>3 DEF R!TypeOK
<1>5. WindowsAre
  BY <1>1, <1>2, <1>3 DEF WindowsAre
<1>6. OrdersAgree
  <2>1. Distinct(<<>>) /\ R!ToSet(<<>>) = {} /\ Len(<<>>) = 0 /\ \A x, y : ~R!Before(<<>>, x, y)
    BY <1>3 DEF Distinct, R!ToSet, R!Before
  <2> QED  BY <2>1, <1>1, <1>2, <1>3 DEF OrdersAgree
<1>7. \A k \in Keys : PassesCounted(k)
  <2>1. SinceOf(<<>>, now - Window + 1) = {}
    BY <1>3 DEF SinceOf
  <2>2. Cardinality(SinceOf(<<>>, now - Window + 1)) = 0
    BY <2>1, FS_EmptySet
  <2>3. Rested(<<>>, now)
    BY <2>2, <1>3 DEF Rested
  <2> QED  BY <2>3, <1>1, <1>2 DEF PassesCounted
<1>8. R!TwiceAtMost
  <2> SUFFICES ASSUME NEW k \in Keys, NEW t \in 0 .. now PROVE R!Lately(k, t) <= 2 * Rate
    BY DEF R!TwiceAtMost
  <2>1. {i \in DOMAIN served[k] : t - served[k][i] < Window /\ served[k][i] <= t} = {}
    BY <1>1, <1>3
  <2>2. R!Lately(k, t) = 0
    BY <2>1, SameCount, FS_EmptySet DEF R!Lately
  <2> QED  BY <2>2
<1>9. R!RefusedRightly
  BY <1>1 DEF R!RefusedRightly
<1> QED  BY <1>4, <1>5, <1>6, <1>7, <1>8, <1>9 DEF RateIInv

LEMMA RateMoves == [MCNext]_mcvars => R!Next \/ UNCHANGED rvars
BY DEF MCNext, mcvars, NotHub, NotJanitor, NotGroup, NotFlags, NotServer

LEMMA RateInvariance == MCSpec => []RateIInv
<1>1. RateIInv /\ [MCNext]_mcvars => RateIInv'
  <2> SUFFICES ASSUME RateIInv, [MCNext]_mcvars PROVE RateIInv'
    OBVIOUS
  <2>1. CASE R!Next
    BY <2>1, RateStep
  <2>2. CASE UNCHANGED rvars
    BY <2>2 DEF rvars, RateIInv, R!TypeOK, WindowsAre, OrdersAgree, PassesCounted,
       R!TwiceAtMost, R!RefusedRightly, R!Lately
  <2> QED  BY <2>1, <2>2, RateMoves
<1>2. MCInit => RateIInv
  BY RateInitOK DEF MCInit
<1> QED  BY <1>1, <1>2, PTL DEF MCSpec

(* In no stretch of a window's length do more than twice the rate go       *)
(* through, unless the limiter lost a window; who is refused did use the   *)
(* rate up; and the keys evicted are those longest idle (ratelimit.go,     *)
(* Allow, CleanupExpired).                                                 *)
THEOREM RateIsKept == MCSpec => []R!Inv
<1>1. ASSUME RateIInv PROVE R!Inv
  <2>1. ASSUME store = "memory", MaxSize > 0
        PROVE  R!ToSet(lru) = DOMAIN windows /\ Len(lru) <= MaxSize /\ lru \in R!InOrderOf(recent, DOMAIN windows)
    <3>1. /\ lru \in Seq(Keys) /\ Distinct(lru) /\ recent \in Seq(Keys)
          /\ R!ToSet(lru) = DOMAIN windows /\ Len(lru) <= MaxSize
          /\ \A x, y : R!Before(lru, x, y) => R!Before(recent, x, y)
      BY <2>1, <1>1 DEF RateIInv, OrdersAgree
    <3> QED  BY <3>1, IsInOrder
  <2> QED  BY <2>1, <1>1 DEF RateIInv, R!Inv, R!BusyKeysKept
<1> QED  BY <1>1, RateInvariance, PTL

-----------------------------------------------------------------------------
(* Static files.                                                           *)

(* An event is queued.                                                     *)
Has(q, e) == \E i \in DOMAIN q : q[i] = e

(* The events that make the loop read a file again.                        *)
Covers(f) == {Y!Written(f)} \cup (IF f = nested THEN {Y!Announced} ELSE {})

(* The upload under way is of the file; the walk under way comes to it.    *)
Opened(o, f) == o # <<>> /\ o[1] = f
Visited(t, f) == \E i \in DOMAIN t : t[i] = f \/ (t[i] = dir /\ f = nested)

(* What is still to come makes the object of a file (in version b) what    *)
(* the file is (in version d): a file that is gone has a removal queued or *)
(* no object at all; one that is there is read again after every removal   *)
(* queued, and it is read again, or being uploaded, or there already.      *)
Reported(f, d, b, q, o, t) ==
    /\ d = 0 => Has(q, Y!Removal(f)) \/ (b = 0 /\ ~Opened(o, f))
    /\ d # 0 => /\ \A i \in DOMAIN q : q[i] = Y!Removal(f) =>
                      \E j \in DOMAIN q : i < j /\ q[j] \in Covers(f)
                /\ \/ \E j \in DOMAIN q : q[j] \in Covers(f)
                   \/ Visited(t, f) \/ o = <<f, d>> \/ (b = d /\ ~Opened(o, f))

LEMMA HasIs ==
    ASSUME NEW q \in Seq(Y!Event), NEW e
    PROVE  (Y!Contains(q, e) <=> Has(q, e)) /\ (e \in Y!ToSet(q) <=> Has(q, e))
BY DEF Y!Contains, Y!ToSet, Has

(* What is in neither of two queues is not in the two together.            *)
LEMMA HasNeither ==
    ASSUME NEW q \in Seq(Y!Event), NEW h \in Seq(Y!Event), NEW e, ~Has(q, e), ~Has(h, e)
    PROVE  ~Has(q \o h, e)
<1>1. \A i \in 1 .. Len(q) + Len(h) : (q \o h)[i] = IF i <= Len(q) THEN q[i] ELSE h[i - Len(q)]
  OBVIOUS
<1>2. \A i \in 1 .. Len(q) + Len(h) : i > Len(q) => i - Len(q) \in 1 .. Len(h)
  OBVIOUS
<1>3. DOMAIN (q \o h) = 1 .. Len(q) + Len(h)
  OBVIOUS
<1> QED  BY <1>1, <1>2, <1>3 DEF Has

LEMMA EventsDiffer ==
    ASSUME NEW f \in Y!Files
    PROVE  /\ Y!Removal(f) \notin Covers(f) /\ Covers(f) \subseteq Y!Event /\ Y!Removal(f) \in Y!Event
           /\ \A g : Y!Removal(g) = Y!Removal(f) => g = f
           /\ \A g : Y!Written(g) # Y!Removal(f)
           /\ Y!Removal(dir) # Y!Removal(f) /\ dir # f
BY StaticAssumption DEF Covers, Y!Removal, Y!Written, Y!Announced, Y!Event, Y!Files

(* Events that remove nothing of a file leave it reported.                 *)
LEMMA EventsAdd ==
    ASSUME NEW f \in Y!Files, NEW q \in Seq(Y!Event), NEW h \in Seq(Y!Event), NEW d, NEW b, NEW o, NEW t,
           Reported(f, d, b, q, o, t), ~Has(h, Y!Removal(f))
    PROVE  Reported(f, d, b, q \o h, o, t)
<1>1. /\ Len(q \o h) = Len(q) + Len(h) /\ Len(q) \in Nat /\ Len(h) \in Nat
      /\ \A i \in 1 .. Len(q) : (q \o h)[i] = q[i]
      /\ \A i \in Len(q) + 1 .. Len(q) + Len(h) : (q \o h)[i] = h[i - Len(q)] /\ i - Len(q) \in 1 .. Len(h)
      /\ DOMAIN q = 1 .. Len(q) /\ DOMAIN h = 1 .. Len(h) /\ DOMAIN (q \o h) = 1 .. Len(q) + Len(h)
  OBVIOUS
<1>2. DOMAIN q \subseteq DOMAIN (q \o h)
  BY <1>1
<1>3. ASSUME d = 0 PROVE Has(q \o h, Y!Removal(f)) \/ (b = 0 /\ ~Opened(o, f))
  BY <1>1, <1>2, <1>3 DEF Reported, Has
<1>4. ASSUME d # 0, NEW i \in DOMAIN (q \o h), (q \o h)[i] = Y!Removal(f)
      PROVE  \E j \in DOMAIN (q \o h) : i < j /\ (q \o h)[j] \in Covers(f)
  <2>1. i \in 1 .. Len(q) /\ q[i] = Y!Removal(f)
    BY <1>1, <1>4 DEF Has
  <2>2. PICK j \in DOMAIN q : i < j /\ q[j] \in Covers(f)
    BY <1>1, <1>4, <2>1 DEF Reported
  <2> QED  BY <2>2, <1>1, <1>2
<1>5. ASSUME d # 0
      PROVE  \/ \E j \in DOMAIN (q \o h) : (q \o h)[j] \in Covers(f)
             \/ Visited(t, f) \/ o = <<f, d>> \/ (b = d /\ ~Opened(o, f))
  BY <1>1, <1>2, <1>5 DEF Reported
<1> QED  BY <1>3, <1>4, <1>5 DEF Reported

(* An event that makes the loop read a file, after all the others.         *)
LEMMA CoverAdds ==
    ASSUME NEW f \in Y!Files, NEW q \in Seq(Y!Event), NEW e \in Covers(f), NEW d, d # 0, NEW b, NEW o, NEW t
    PROVE  Reported(f, d, b, q \o <<e>>, o, t)
<1>1. /\ Len(q) \in Nat /\ DOMAIN (q \o <<e>>) = 1 .. Len(q) + 1
      /\ (q \o <<e>>)[Len(q) + 1] = e
  BY EventsDiffer
<1>2. e # Y!Removal(f)
  BY EventsDiffer
<1>3. ASSUME NEW i \in DOMAIN (q \o <<e>>), (q \o <<e>>)[i] = Y!Removal(f)
      PROVE  \E j \in DOMAIN (q \o <<e>>) : i < j /\ (q \o <<e>>)[j] \in Covers(f)
  <2>1. i < Len(q) + 1 /\ Len(q) + 1 \in DOMAIN (q \o <<e>>)
    BY <1>1, <1>2, <1>3
  <2> QED  BY <2>1, <1>1
<1>4. \E j \in DOMAIN (q \o <<e>>) : (q \o <<e>>)[j] \in Covers(f)
  <2>1. Len(q) + 1 \in DOMAIN (q \o <<e>>)
    BY <1>1
  <2> QED  BY <2>1, <1>1
<1> QED  BY <1>3, <1>4 DEF Reported

(* A removal that is queued is all a file that is gone needs.              *)
LEMMA RemovalAdds ==
    ASSUME NEW f \in Y!Files, NEW q \in Seq(Y!Event), NEW h \in Seq(Y!Event),
           NEW b, NEW o, NEW t, Has(h, Y!Removal(f))
    PROVE  Reported(f, 0, b, q \o h, o, t)
<1>1. PICK i \in 1 .. Len(h) : h[i] = Y!Removal(f)
  BY DEF Has
<1>2. Len(q) + i \in DOMAIN (q \o h) /\ (q \o h)[Len(q) + i] = h[i]
  OBVIOUS
<1>3. Has(q \o h, Y!Removal(f))
  BY <1>1, <1>2 DEF Has
<1> QED  BY <1>3 DEF Reported

LEMMA TailIs ==
    ASSUME NEW q \in Seq(Y!Event), q # <<>>
    PROVE  /\ Tail(q) \in Seq(Y!Event) /\ Len(q) \in Nat \ {0} /\ Len(Tail(q)) = Len(q) - 1
           /\ DOMAIN q = 1 .. Len(q) /\ DOMAIN Tail(q) = 1 .. Len(q) - 1
           /\ Head(q) = q[1] /\ \A i \in DOMAIN Tail(q) : Tail(q)[i] = q[i + 1] /\ i + 1 \in DOMAIN q
OBVIOUS

(* An event behind the first one is in the rest.                           *)
LEMMA InTail ==
    ASSUME NEW q \in Seq(Y!Event), q # <<>>, NEW j \in DOMAIN q, j # 1
    PROVE  j - 1 \in DOMAIN Tail(q) /\ Tail(q)[j - 1] = q[j]
<1>1. j \in Nat /\ j > 1 /\ j - 1 \in 1 .. Len(q) - 1
  BY TailIs
<1> QED  BY <1>1, TailIs

(* Every removal in the rest of the queue still has a read after it.       *)
LEMMA TailKeepsOrder ==
    ASSUME NEW f \in Y!Files, NEW q \in Seq(Y!Event), q # <<>>, NEW d, d # 0, NEW b, NEW o, NEW t,
           Reported(f, d, b, q, o, t), NEW i \in DOMAIN Tail(q), Tail(q)[i] = Y!Removal(f)
    PROVE  \E j \in DOMAIN Tail(q) : i < j /\ Tail(q)[j] \in Covers(f)
<1>1. i + 1 \in DOMAIN q /\ q[i + 1] = Y!Removal(f) /\ i \in Nat /\ i >= 1
  BY TailIs
<1>2. PICK j \in DOMAIN q : i + 1 < j /\ q[j] \in Covers(f)
  BY <1>1 DEF Reported
<1>3. j \in Nat /\ j # 1 /\ i < j - 1
  BY <1>1, <1>2, TailIs
<1> QED  BY <1>2, <1>3, InTail

(* An event of something else is taken.                                    *)
LEMMA OtherTaken ==
    ASSUME NEW f \in Y!Files, NEW q \in Seq(Y!Event), q # <<>>, NEW d, NEW b, NEW o, NEW t,
           Reported(f, d, b, q, o, t), Head(q) \notin Covers(f) \cup {Y!Removal(f)}
    PROVE  Reported(f, d, b, Tail(q), o, t)
<1>1. ASSUME NEW j \in DOMAIN q, q[j] \in Covers(f) \cup {Y!Removal(f)}
      PROVE  j - 1 \in DOMAIN Tail(q) /\ Tail(q)[j - 1] = q[j]
  <2>1. j # 1
    BY <1>1, TailIs
  <2> QED  BY <2>1, InTail
<1>2. ASSUME d = 0 PROVE Has(Tail(q), Y!Removal(f)) \/ (b = 0 /\ ~Opened(o, f))
  BY <1>1, <1>2 DEF Reported, Has
<1>3. ASSUME d # 0
      PROVE  \/ \E j \in DOMAIN Tail(q) : Tail(q)[j] \in Covers(f)
             \/ Visited(t, f) \/ o = <<f, d>> \/ (b = d /\ ~Opened(o, f))
  BY <1>1, <1>3 DEF Reported
<1>9. ASSUME d # 0, NEW i \in DOMAIN Tail(q), Tail(q)[i] = Y!Removal(f)
      PROVE  \E j \in DOMAIN Tail(q) : i < j /\ Tail(q)[j] \in Covers(f)
  BY <1>9, TailKeepsOrder
<1> QED  BY <1>2, <1>3, <1>9 DEF Reported

(* A removal is taken, and the object deleted.                             *)
LEMMA RemovalTaken ==
    ASSUME NEW f \in Y!Files, NEW q \in Seq(Y!Event), q # <<>>, NEW d, NEW b, NEW o, NEW t,
           Reported(f, d, b, q, o, t), Head(q) = Y!Removal(f), o = <<>>
    PROVE  Reported(f, d, 0, Tail(q), o, t)
<1>1. ASSUME d # 0 PROVE \E j \in DOMAIN Tail(q) : Tail(q)[j] \in Covers(f)
  <2>1. 1 \in DOMAIN q /\ q[1] = Y!Removal(f)
    BY TailIs
  <2>2. PICK j \in DOMAIN q : 1 < j /\ q[j] \in Covers(f)
    BY <1>1, <2>1 DEF Reported
  <2>3. j # 1
    BY <2>2, TailIs
  <2> QED  BY <2>2, <2>3, InTail
<1>9. ASSUME d # 0, NEW i \in DOMAIN Tail(q), Tail(q)[i] = Y!Removal(f)
      PROVE  \E j \in DOMAIN Tail(q) : i < j /\ Tail(q)[j] \in Covers(f)
  BY <1>9, TailKeepsOrder
<1>8. ~Opened(o, f)
  BY DEF Opened
<1> QED  BY <1>1, <1>8, <1>9 DEF Reported

(* A write is taken: the file is opened or visited, if it is there.        *)
LEMMA CoverTaken ==
    ASSUME NEW f \in Y!Files, NEW q \in Seq(Y!Event), q # <<>>, NEW d, NEW b, NEW t, NEW p, NEW o,
           Reported(f, d, b, q, <<>>, t), Head(q) \in Covers(f),
           d = 0 => ~Opened(o, f),
           d # 0 => o = <<f, d>> \/ Visited(p, f)
    PROVE  Reported(f, d, b, Tail(q), o, p)
<1>1. ASSUME d = 0 PROVE Has(Tail(q), Y!Removal(f)) \/ (b = 0 /\ ~Opened(o, f))
  <2>1. Has(q, Y!Removal(f)) \/ b = 0
    BY <1>1 DEF Reported
  <2>2. ASSUME Has(q, Y!Removal(f)) PROVE Has(Tail(q), Y!Removal(f))
    <3>1. PICK j \in DOMAIN q : q[j] = Y!Removal(f)
      BY <2>2 DEF Has
    <3>2. j # 1
      BY <3>1, EventsDiffer, TailIs
    <3> QED  BY <3>1, <3>2, InTail DEF Has
  <2> QED  BY <1>1, <2>1, <2>2
<1>2. ASSUME d # 0
      PROVE  \/ \E j \in DOMAIN Tail(q) : Tail(q)[j] \in Covers(f)
             \/ Visited(p, f) \/ o = <<f, d>> \/ (b = d /\ ~Opened(o, f))
  BY <1>2
<1>9. ASSUME d # 0, NEW i \in DOMAIN Tail(q), Tail(q)[i] = Y!Removal(f)
      PROVE  \E j \in DOMAIN Tail(q) : i < j /\ Tail(q)[j] \in Covers(f)
  BY <1>9, TailKeepsOrder
<1> QED  BY <1>1, <1>2, <1>9 DEF Reported

(* Where WatchAndSync is says what may be queued, watched and under way.   *)
Stages ==
    /\ walk \in {"bucket", "walk", "watch"} => queue = <<>> /\ watched = {}
    /\ walk \in {"watch", "subs"} => todo = <<>> /\ open = <<>>
    /\ walk = "subs" => watched = {"root"} /\ ~Has(queue, Y!Removal(nested))
    /\ disk[nested] # 0 => sub

(* The directory of a file is watched.                                     *)
Watching(f) == walk = "loop" \/ (walk = "subs" /\ f = top)
Followed(f) == f \in unheard \/ Reported(f, disk[f], bucket[f], queue, open, todo)

(* The inductive invariant.                                                *)
StaticIInv == Y!TypeOK /\ Stages /\ \A f \in Y!Files : Watching(f) => Followed(f)

LEMMA EventsAre ==
    /\ \A f \in Y!Files : Y!Written(f) \in Y!Event /\ Y!Removal(f) \in Y!Event
    /\ Y!Announced \in Y!Event /\ Y!Removal(dir) \in Y!Event
BY DEF Y!Announced, Y!Written, Y!Removal, Y!Event, Y!Files

(* What is heard goes behind the queue, all of it or nothing; an event     *)
(* that is not queued makes its file unheard, unless a directory about to  *)
(* be read covers it.                                                      *)
Lost(e, g, q) ==
    \/ e.op = "write" /\ e.name # top /\ Has(q, Y!Announced) /\ ~Has(q, Y!Removal(nested))
    \/ \A f \in Y!Files : e.name = f \/ (e = Y!Announced /\ f = nested) => f \in g

LEMMA Notified ==
    ASSUME NEW inside \in Seq(Y!Event), NEW outside \in Seq(Y!Event), Y!TypeOK, Y!Notify(inside, outside)
    PROVE  /\ unheard \subseteq unheard' /\ unheard' \subseteq Y!Files
           /\ \E h \in {<<>>, Y!Heard("sub", inside) \o Y!Heard("root", outside)} :
                 /\ h \in Seq(Y!Event) /\ queue' = queue \o h /\ Len(queue') <= QueueCap
                 /\ walk \in {"subs", "loop"} =>
                       \A e : (Has(inside, e) \/ Has(outside, e)) /\ ~Has(h, e) => Lost(e, unheard', queue)
<1> DEFINE heard == Y!Heard("sub", inside) \o Y!Heard("root", outside)
           fits == Len(queue) + Len(heard) <= QueueCap
           lost == {e \in Y!ToSet(inside \o outside) : (~fits \/ ~Y!Contains(heard, e)) /\
                      ~(e.op = "write" /\ e.name # top /\ Y!Contains(queue, Y!Announced) /\
                        ~Y!Contains(queue, Y!Removal(nested)))}
<1>1. /\ queue' = IF fits THEN queue \o heard ELSE queue
      /\ unheard' = IF walk \notin {"subs", "loop"} THEN unheard
                    ELSE unheard \cup {f \in Y!Files : \E e \in lost :
                               e.name = f \/ (e = Y!Announced /\ f = nested)}
  BY DEF Y!Notify
<1>2. queue \in Seq(Y!Event) /\ Len(queue) <= QueueCap /\ unheard \subseteq Y!Files
  BY DEF Y!TypeOK
<1>3. heard \in Seq(Y!Event) /\ inside \o outside \in Seq(Y!Event)
  BY DEF Y!Heard
<1>4. unheard \subseteq unheard' /\ unheard' \subseteq Y!Files
  BY <1>1, <1>2
<1>5. ASSUME NEW e, Has(inside, e) \/ Has(outside, e) PROVE e \in Y!ToSet(inside \o outside)
  <2>1. Has(inside \o outside, e)
    <3>1. CASE Has(inside, e)
      <4>1. PICK i \in 1 .. Len(inside) : inside[i] = e
        BY <3>1 DEF Has
      <4>2. i \in DOMAIN (inside \o outside) /\ (inside \o outside)[i] = inside[i]
        OBVIOUS
      <4> QED  BY <4>1, <4>2 DEF Has
    <3>2. CASE Has(outside, e)
      <4>1. PICK i \in 1 .. Len(outside) : outside[i] = e
        BY <3>2 DEF Has
      <4>2. Len(inside) + i \in DOMAIN (inside \o outside) /\ (inside \o outside)[Len(inside) + i] = outside[i]
        OBVIOUS
      <4> QED  BY <4>1, <4>2 DEF Has
    <3> QED  BY <1>5, <3>1, <3>2
  <2> QED  BY <2>1, <1>3, HasIs
<1>6. ASSUME walk \in {"subs", "loop"}, NEW e, Has(inside, e) \/ Has(outside, e), ~fits \/ ~Has(heard, e)
      PROVE  Lost(e, unheard', queue)
  <2>1. e \in Y!ToSet(inside \o outside)
    BY <1>5, <1>6
  <2>2. ~fits \/ ~Y!Contains(heard, e)
    BY <1>6, <1>3, HasIs
  <2>3. /\ Y!Contains(queue, Y!Announced) <=> Has(queue, Y!Announced)
        /\ Y!Contains(queue, Y!Removal(nested)) <=> Has(queue, Y!Removal(nested))
    BY <1>2, HasIs
  <2>4. CASE e \in lost
    <3>1. unheard' = unheard \cup {f \in Y!Files : \E x \in lost : x.name = f \/ (x = Y!Announced /\ f = nested)}
      BY <1>1, <1>6
    <3> HIDE DEF lost
    <3> QED  BY <3>1, <2>4 DEF Lost
  <2>5. CASE e \notin lost
    <3>1. e.op = "write" /\ e.name # top /\ Y!Contains(queue, Y!Announced) /\ ~Y!Contains(queue, Y!Removal(nested))
      BY <2>1, <2>2, <2>5
    <3> QED  BY <3>1, <2>3 DEF Lost
  <2> QED  BY <2>4, <2>5
<1>7. CASE fits
  <2>1. queue' = queue \o heard
    BY <1>1, <1>7
  <2>2. Len(queue') <= QueueCap
    <3> HIDE DEF heard
    <3> QED  BY <2>1, <1>2, <1>3, <1>7
  <2>3. walk \in {"subs", "loop"} =>
           \A e : (Has(inside, e) \/ Has(outside, e)) /\ ~Has(heard, e) => Lost(e, unheard', queue)
    BY <1>6
  <2> QED  BY <2>1, <2>2, <2>3, <1>3, <1>4
<1>8. CASE ~fits
  <2>1. queue' = queue \o <<>>
    BY <1>1, <1>2, <1>8
  <2>2. queue' = queue
    BY <1>1, <1>8
  <2>3. walk \in {"subs", "loop"} =>
           \A e : (Has(inside, e) \/ Has(outside, e)) /\ ~Has(<<>>, e) => Lost(e, unheard', queue)
    BY <1>6, <1>8
  <2> QED  BY <2>1, <2>2, <2>3, <1>2, <1>4
<1> QED  BY <1>7, <1>8

(* The same of a change that one event reports.                            *)
LEMMA Changed ==
    ASSUME NEW e \in Y!Event, Y!TypeOK, Y!Change(e)
    PROVE  /\ unheard \subseteq unheard' /\ unheard' \subseteq Y!Files
           /\ edits < MaxEdits /\ edits' = edits + 1 /\ UNCHANGED <<bucket, walk, todo, open, trouble>>
           /\ \/ queue' = queue \o <<e>> /\ Len(queue') <= QueueCap /\ Y!Dir(e.name) \in watched
              \/ queue' = queue /\ (walk \in {"subs", "loop"} => Lost(e, unheard', queue))
<1> DEFINE inside == Y!Of("sub", e)
           outside == Y!Of("root", e)
<1>1. Y!Notify(inside, outside) /\ edits < MaxEdits /\ edits' = edits + 1
      /\ UNCHANGED <<bucket, walk, todo, open, trouble>>
  BY DEF Y!Change, Y!Edit
<1>2. inside \in Seq(Y!Event) /\ outside \in Seq(Y!Event)
  BY DEF Y!Of
<1>3. \/ inside = <<e>> /\ outside = <<>> /\ Y!Dir(e.name) = "sub"
      \/ inside = <<>> /\ outside = <<e>> /\ Y!Dir(e.name) = "root"
  BY DEF Y!Of, Y!Dir
<1>4. Has(inside, e) \/ Has(outside, e)
  BY <1>3 DEF Has
<1>5. Y!Heard("sub", inside) \o Y!Heard("root", outside) = <<>>
      \/ (Y!Heard("sub", inside) \o Y!Heard("root", outside) = <<e>> /\ Y!Dir(e.name) \in watched)
  <2> HIDE DEF inside, outside
  <2>1. \A d : Y!Heard(d, <<>>) = <<>> /\ Y!Heard(d, <<e>>) = IF d \in watched THEN <<e>> ELSE <<>>
    BY DEF Y!Heard
  <2>2. <<>> \o <<>> = <<>> /\ <<e>> \o <<>> = <<e>> /\ <<>> \o <<e>> = <<e>>
    OBVIOUS
  <2> QED  BY <1>3, <2>1, <2>2
<1> HIDE DEF inside, outside
<1>6. /\ unheard \subseteq unheard' /\ unheard' \subseteq Y!Files
      /\ \E h \in {<<>>, Y!Heard("sub", inside) \o Y!Heard("root", outside)} :
            /\ h \in Seq(Y!Event) /\ queue' = queue \o h /\ Len(queue') <= QueueCap
            /\ walk \in {"subs", "loop"} =>
                  \A x : (Has(inside, x) \/ Has(outside, x)) /\ ~Has(h, x) => Lost(x, unheard', queue)
  BY <1>1, <1>2, Notified
<1>7. PICK h : /\ h \in {<<>>, Y!Heard("sub", inside) \o Y!Heard("root", outside)}
               /\ queue' = queue \o h /\ Len(queue') <= QueueCap
               /\ walk \in {"subs", "loop"} =>
                     \A x : (Has(inside, x) \/ Has(outside, x)) /\ ~Has(h, x) => Lost(x, unheard', queue)
  BY <1>6
<1>8. CASE h = <<>>
  <2>1. ~Has(h, e)
    BY <1>8 DEF Has
  <2>2. queue' = queue
    BY <1>7, <1>8 DEF Y!TypeOK
  <2> QED  BY <2>1, <2>2, <1>1, <1>4, <1>6, <1>7
<1>9. CASE h = <<e>> /\ Y!Dir(e.name) \in watched
  BY <1>1, <1>6, <1>7, <1>9
<1> QED  BY <1>5, <1>7, <1>8, <1>9

(* The editor writes or removes a file: that file, and any other.          *)
LEMMA WriteFileFollowed ==
    ASSUME StaticIInv, NEW g \in Y!Files, Y!WriteFile(g), NEW f \in Y!Files, Watching(f)'
    PROVE  Followed(f)'
<1>1. /\ disk' = [disk EXCEPT ![g] = edits + 2] /\ Y!Change(Y!Written(g))
  BY DEF Y!WriteFile
<1>2. Y!TypeOK /\ (Watching(f) => Followed(f)) /\ edits \in Nat /\ disk \in [Y!Files -> Y!Versions]
      /\ queue \in Seq(Y!Event)
  BY DEF StaticIInv, Y!TypeOK
<1>3. /\ unheard \subseteq unheard' /\ UNCHANGED <<bucket, walk, todo, open>>
      /\ \/ queue' = queue \o <<Y!Written(g)>>
         \/ queue' = queue /\ (walk \in {"subs", "loop"} => Lost(Y!Written(g), unheard', queue))
  BY <1>1, <1>2, EventsAre, Changed
<1>4. Watching(f) /\ walk \in {"subs", "loop"}
  BY <1>3 DEF Watching
<1>5. CASE f # g
  <2>1. disk'[f] = disk[f]
    BY <1>1, <1>2, <1>5
  <2>2. CASE f \in unheard
    BY <2>2, <1>3 DEF Followed
  <2>3. CASE Reported(f, disk[f], bucket[f], queue, open, todo)
    <3>1. ~Has(<<Y!Written(g)>>, Y!Removal(f))
      BY EventsDiffer DEF Has
    <3>2. <<Y!Written(g)>> \in Seq(Y!Event)
      BY EventsAre
    <3>3. Reported(f, disk[f], bucket[f], queue \o <<Y!Written(g)>>, open, todo)
      BY <2>3, <3>1, <3>2, <1>2, EventsAdd
    <3> QED  BY <3>3, <2>1, <2>3, <1>3 DEF Followed
  <2> QED  BY <2>2, <2>3, <1>2, <1>4 DEF Followed
<1>6. CASE f = g
  <2>1. disk'[f] = edits + 2 /\ disk'[f] # 0
    BY <1>1, <1>2, <1>6
  <2>2. CASE queue' = queue \o <<Y!Written(g)>>
    <3>1. Y!Written(f) \in Covers(f)
      BY DEF Covers
    <3>2. Reported(f, disk'[f], bucket[f], queue \o <<Y!Written(f)>>, open, todo)
      BY <3>1, <2>1, <1>2, CoverAdds
    <3> QED  BY <3>2, <2>2, <1>3, <1>6 DEF Followed
  <2>3. CASE queue' = queue /\ Lost(Y!Written(g), unheard', queue)
    <3>1. CASE f \in unheard'
      BY <3>1 DEF Followed
    <3>2. CASE f \notin unheard'
      <4>1. f # top /\ Has(queue, Y!Announced) /\ ~Has(queue, Y!Removal(nested))
        BY <2>3, <3>2, <1>6 DEF Lost, Y!Written
      <4>2. f = nested
        BY <4>1 DEF Y!Files
      <4>3. Reported(f, disk'[f], bucket[f], queue, open, todo)
        BY <4>1, <4>2, <2>1 DEF Reported, Covers, Has
      <4> QED  BY <4>3, <2>3, <1>3 DEF Followed
    <3> QED  BY <3>1, <3>2
  <2> QED  BY <2>2, <2>3, <1>3, <1>4
<1> QED  BY <1>5, <1>6

LEMMA RemoveFileFollowed ==
    ASSUME StaticIInv, NEW g \in Y!Files, Y!RemoveFile(g), NEW f \in Y!Files, Watching(f)'
    PROVE  Followed(f)'
<1>1. /\ disk' = [disk EXCEPT ![g] = 0] /\ Y!Change(Y!Removal(g))
  BY DEF Y!RemoveFile
<1>2. Y!TypeOK /\ (Watching(f) => Followed(f)) /\ disk \in [Y!Files -> Y!Versions] /\ queue \in Seq(Y!Event)
  BY DEF StaticIInv, Y!TypeOK
<1>3. /\ unheard \subseteq unheard' /\ UNCHANGED <<bucket, walk, todo, open>>
      /\ \/ queue' = queue \o <<Y!Removal(g)>>
         \/ queue' = queue /\ (walk \in {"subs", "loop"} => Lost(Y!Removal(g), unheard', queue))
  BY <1>1, <1>2, EventsAre, Changed
<1>4. Watching(f) /\ walk \in {"subs", "loop"}
  BY <1>3 DEF Watching
<1>5. <<Y!Removal(g)>> \in Seq(Y!Event)
  BY EventsAre
<1>6. CASE f # g
  <2>1. disk'[f] = disk[f]
    BY <1>1, <1>2, <1>6
  <2>2. CASE f \in unheard
    BY <2>2, <1>3 DEF Followed
  <2>3. CASE Reported(f, disk[f], bucket[f], queue, open, todo)
    <3>1. Y!Removal(g) # Y!Removal(f)
      BY <1>6, EventsDiffer
    <3>2. ~Has(<<Y!Removal(g)>>, Y!Removal(f))
      BY <3>1 DEF Has
    <3>3. Reported(f, disk[f], bucket[f], queue \o <<Y!Removal(g)>>, open, todo)
      BY <2>3, <3>2, <1>5, <1>2, EventsAdd
    <3> QED  BY <3>3, <2>1, <2>3, <1>3 DEF Followed
  <2> QED  BY <2>2, <2>3, <1>2, <1>4 DEF Followed
<1>7. CASE f = g
  <2>1. disk'[f] = 0
    BY <1>1, <1>2, <1>7
  <2>2. CASE queue' = queue \o <<Y!Removal(g)>>
    <3>1. Has(<<Y!Removal(f)>>, Y!Removal(f))
      BY DEF Has
    <3>2. Reported(f, 0, bucket[f], queue \o <<Y!Removal(f)>>, open, todo)
      BY <3>1, <1>5, <1>7, <1>2, RemovalAdds
    <3> QED  BY <3>2, <2>1, <2>2, <1>3, <1>7 DEF Followed
  <2>3. CASE Lost(Y!Removal(g), unheard', queue)
    <3>1. f \in unheard'
      BY <2>3, <1>7 DEF Lost, Y!Removal
    <3> QED  BY <3>1 DEF Followed
  <2> QED  BY <2>2, <2>3, <1>3, <1>4
<1> QED  BY <1>6, <1>7

(* The subdirectory is made, removed, or moved away.                       *)
LEMMA MakeSubFollowed ==
    ASSUME StaticIInv, Y!MakeSub, NEW f \in Y!Files, Watching(f)'
    PROVE  Followed(f)'
<1>1. PICK v \in {0, edits + 2} : disk' = [disk EXCEPT ![nested] = v]
  BY DEF Y!MakeSub
<1>2. Y!TypeOK /\ (Watching(f) => Followed(f)) /\ disk \in [Y!Files -> Y!Versions] /\ queue \in Seq(Y!Event)
      /\ disk[nested] = 0
  BY DEF StaticIInv, Y!TypeOK, Stages, Y!MakeSub
<1>3. /\ unheard \subseteq unheard' /\ UNCHANGED <<bucket, walk, todo, open>>
      /\ \/ queue' = queue \o <<Y!Announced>>
         \/ queue' = queue /\ (walk \in {"subs", "loop"} => Lost(Y!Announced, unheard', queue))
  BY <1>2, EventsAre, Changed DEF Y!MakeSub
<1>4. Watching(f) /\ walk \in {"subs", "loop"}
  BY <1>3 DEF Watching
<1>5. CASE disk'[f] = disk[f]
  <2>2. CASE f \in unheard
    BY <2>2, <1>3 DEF Followed
  <2>3. CASE Reported(f, disk[f], bucket[f], queue, open, todo)
    <3>1. ~Has(<<Y!Announced>>, Y!Removal(f))
      BY EventsDiffer DEF Has, Y!Announced
    <3>2. <<Y!Announced>> \in Seq(Y!Event)
      BY EventsAre
    <3>3. Reported(f, disk[f], bucket[f], queue \o <<Y!Announced>>, open, todo)
      BY <2>3, <3>1, <3>2, <1>2, EventsAdd
    <3> QED  BY <3>3, <1>5, <2>3, <1>3 DEF Followed
  <2> QED  BY <2>2, <2>3, <1>2, <1>4 DEF Followed
<1>6. CASE disk'[f] # disk[f]
  <2>1. f = nested /\ disk'[f] # 0
    BY <1>1, <1>2, <1>6 DEF Y!Files
  <2>2. CASE queue' = queue \o <<Y!Announced>>
    <3>1. Y!Announced \in Covers(f)
      BY <2>1 DEF Covers
    <3>2. Reported(f, disk'[f], bucket[f], queue \o <<Y!Announced>>, open, todo)
      BY <3>1, <2>1, <1>2, CoverAdds
    <3> QED  BY <3>2, <2>2, <1>3 DEF Followed
  <2>3. CASE queue' = queue /\ Lost(Y!Announced, unheard', queue)
    <3>1. CASE f \in unheard'
      BY <3>1 DEF Followed
    <3>2. CASE f \notin unheard'
      <4>1. Has(queue, Y!Announced) /\ ~Has(queue, Y!Removal(nested))
        BY <2>1, <2>3, <3>2 DEF Lost
      <4>2. Reported(f, disk'[f], bucket[f], queue, open, todo)
        BY <4>1, <2>1 DEF Reported, Covers, Has
      <4> QED  BY <4>2, <2>3, <1>3 DEF Followed
    <3> QED  BY <3>1, <3>2
  <2> QED  BY <2>2, <2>3, <1>3, <1>4
<1> QED  BY <1>5, <1>6

LEMMA RemoveSubFollowed ==
    ASSUME StaticIInv, Y!RemoveSub, NEW f \in Y!Files, Watching(f)'
    PROVE  Followed(f)'
<1> DEFINE inside == IF disk[nested] = 0 THEN <<>> ELSE <<Y!Removal(nested)>>
           outside == <<Y!Removal(dir)>>
<1>1. /\ disk' = [disk EXCEPT ![nested] = 0] /\ Y!Notify(inside, outside)
      /\ UNCHANGED <<bucket, walk, todo, open>>
  BY DEF Y!RemoveSub, Y!Edit
<1>2. Y!TypeOK /\ (Watching(f) => Followed(f)) /\ disk \in [Y!Files -> Y!Versions] /\ queue \in Seq(Y!Event)
  BY DEF StaticIInv, Y!TypeOK
<1>3. inside \in Seq(Y!Event) /\ outside \in Seq(Y!Event)
  BY EventsAre DEF Y!Files
<1>4. Watching(f) /\ walk \in {"subs", "loop"}
  BY <1>1 DEF Watching
<1>5. PICK h \in {<<>>, Y!Heard("sub", inside) \o Y!Heard("root", outside)} :
         /\ h \in Seq(Y!Event) /\ queue' = queue \o h
         /\ \A e : (Has(inside, e) \/ Has(outside, e)) /\ ~Has(h, e) => Lost(e, unheard', queue)
  BY <1>1, <1>2, <1>3, <1>4, Notified
<1>6. unheard \subseteq unheard'
  BY <1>1, <1>2, <1>3, Notified
<1>7. CASE f = top \/ disk[nested] = 0
  <2>1. disk'[f] = disk[f]
    BY <1>1, <1>2, <1>7, StaticAssumption DEF Y!Files
  <2>2. CASE f \in unheard
    BY <2>2, <1>6 DEF Followed
  <2>3. CASE Reported(f, disk[f], bucket[f], queue, open, todo)
    <3>1. ~Has(h, Y!Removal(f))
      <4>1. Y!Removal(dir) # Y!Removal(f) /\ (f = top => Y!Removal(nested) # Y!Removal(f))
        BY EventsDiffer, StaticAssumption
      <4>2. inside \in {<<>>, <<Y!Removal(nested)>>} /\ (disk[nested] = 0 => inside = <<>>)
        OBVIOUS
      <4>3. f = top => ~Has(h, Y!Removal(f))
        <5>1. \A d, x : Y!Heard(d, <<x>>) \in {<<>>, <<x>>} /\ Y!Heard(d, <<>>) = <<>>
          BY DEF Y!Heard
        <5> HIDE DEF inside
        <5>2. Y!Heard("sub", inside) \in {<<>>, <<Y!Removal(nested)>>}
          BY <4>2, <5>1
        <5>3. Y!Heard("root", outside) \in {<<>>, <<Y!Removal(dir)>>}
          BY <5>1
        <5>4. Y!Heard("sub", inside) \in Seq(Y!Event) /\ Y!Heard("root", outside) \in Seq(Y!Event)
          BY <1>3 DEF Y!Heard
        <5>5. f = top => ~Has(Y!Heard("sub", inside), Y!Removal(f)) /\ ~Has(Y!Heard("root", outside), Y!Removal(f))
          BY <4>1, <5>2, <5>3 DEF Has
        <5>6. f = top => ~Has(Y!Heard("sub", inside) \o Y!Heard("root", outside), Y!Removal(f))
          BY <5>4, <5>5, HasNeither
        <5>7. ~Has(<<>>, Y!Removal(f))
          BY DEF Has
        <5> QED  BY <5>6, <5>7, <1>5
      <4>4. disk[nested] = 0 => h \in {<<>>, <<Y!Removal(dir)>>}
        BY <1>5 DEF Y!Heard
      <4>5. CASE disk[nested] = 0
        BY <4>1, <4>4, <4>5 DEF Has
      <4>6. CASE f = top
        BY <4>3, <4>6
      <4> QED  BY <4>5, <4>6, <1>7
    <3>2. Reported(f, disk[f], bucket[f], queue \o h, open, todo)
      BY <2>3, <3>1, <1>2, <1>5, EventsAdd
    <3> QED  BY <3>2, <2>1, <1>1, <1>5 DEF Followed
  <2> QED  BY <2>2, <2>3, <1>2, <1>4 DEF Followed
<1>8. CASE f = nested /\ disk[nested] # 0
  <2>1. disk'[f] = 0 /\ Has(inside, Y!Removal(f))
    BY <1>1, <1>2, <1>8 DEF Has
  <2>2. CASE Has(h, Y!Removal(f))
    <3>1. Reported(f, 0, bucket[f], queue \o h, open, todo)
      BY <2>2, <1>2, <1>5, RemovalAdds
    <3> QED  BY <3>1, <2>1, <1>1, <1>5 DEF Followed
  <2>3. CASE ~Has(h, Y!Removal(f))
    <3>1. Lost(Y!Removal(f), unheard', queue)
      BY <2>1, <2>3, <1>5
    <3>2. f \in unheard'
      BY <3>1 DEF Lost, Y!Removal
    <3> QED  BY <3>2 DEF Followed
  <2> QED  BY <2>2, <2>3
<1> QED  BY <1>7, <1>8 DEF Y!Files

LEMMA MoveSubAwayFollowed ==
    ASSUME StaticIInv, Y!MoveSubAway, NEW f \in Y!Files, Watching(f)'
    PROVE  Followed(f)'
<1>1. /\ disk' = [disk EXCEPT ![nested] = 0] /\ UNCHANGED <<bucket, walk, todo, open>>
      /\ queue' = queue \/ queue' = queue \o <<Y!Removal(dir)>>
      /\ unheard' = unheard \cup (IF walk = "loop" THEN {nested} ELSE {})
  BY DEF Y!MoveSubAway, StaticIInv, Y!TypeOK
<1>2. (Watching(f) => Followed(f)) /\ disk \in [Y!Files -> Y!Versions] /\ queue \in Seq(Y!Event)
  BY DEF StaticIInv, Y!TypeOK
<1>3. Watching(f)
  BY <1>1 DEF Watching
<1>4. CASE f \in unheard'
  BY <1>4 DEF Followed
<1>5. CASE f \notin unheard'
  <2>1. f = top /\ Reported(f, disk[f], bucket[f], queue, open, todo)
    BY <1>1, <1>2, <1>3, <1>5 DEF Followed, Watching, Y!Files
  <2>2. disk'[f] = disk[f]
    BY <2>1, <1>1, <1>2, StaticAssumption
  <2>3. ~Has(<<Y!Removal(dir)>>, Y!Removal(f))
    BY EventsDiffer DEF Has
  <2>4. <<Y!Removal(dir)>> \in Seq(Y!Event)
    BY EventsAre
  <2>5. Reported(f, disk[f], bucket[f], queue \o <<Y!Removal(dir)>>, open, todo)
    BY <2>1, <2>3, <2>4, <1>2, EventsAdd
  <2> QED  BY <2>1, <2>2, <2>5, <1>1 DEF Followed
<1> QED  BY <1>4, <1>5

(* A walk that has not begun to watch, or that failed, promises nothing.   *)
LEMMA WalkFollowed ==
    ASSUME StaticIInv, Y!EnsureBucket \/ Y!SyncedAll, NEW f \in Y!Files
    PROVE  ~Watching(f)'
BY DEF Y!EnsureBucket, Y!SyncedAll, Y!Fails, Watching

LEMMA VisitFollowed ==
    ASSUME StaticIInv, Y!Visit, NEW f \in Y!Files, Watching(f)'
    PROVE  Followed(f)'
<1>1. /\ todo # <<>> /\ open = <<>> /\ Head(todo) = dir
      /\ todo' = Y!On(nested, Y!Here) \o Tail(todo)
      /\ UNCHANGED <<disk, bucket, queue, walk, open, unheard>>
  BY DEF Y!Visit, Y!Keep, Y!Fails, Watching
<1>2. (Watching(f) => Followed(f)) /\ todo \in Seq(Y!Files \cup {dir})
  BY DEF StaticIInv, Y!TypeOK
<1>3. Watching(f)
  BY <1>1 DEF Watching
<1>4. ASSUME Visited(todo, f), disk[f] # 0 PROVE Visited(todo', f)
  <2>1. PICK i \in 1 .. Len(todo) : todo[i] = f \/ (todo[i] = dir /\ f = nested)
    BY <1>2, <1>4 DEF Visited
  <2>2. CASE i = 1
    <3>1. f = nested
      BY <2>1, <2>2, <1>1, EventsDiffer
    <3>2. todo' = <<nested>> \o Tail(todo)
      BY <3>1, <1>1, <1>4 DEF Y!On, Y!Here
    <3>3. 1 \in DOMAIN todo' /\ todo'[1] = nested
      BY <3>2, <1>1, <1>2
    <3> QED  BY <3>1, <3>3 DEF Visited
  <2>3. CASE i # 1
    <3>1. Tail(todo) \in Seq(Y!Files \cup {dir}) /\ i - 1 \in 1 .. Len(Tail(todo)) /\ Tail(todo)[i - 1] = todo[i]
      BY <2>3, <1>1, <1>2
    <3>2. Y!On(nested, Y!Here) \in {<<>>, <<nested>>}
      BY DEF Y!On
    <3>3. CASE Y!On(nested, Y!Here) = <<>>
      <4>1. i - 1 \in DOMAIN todo' /\ todo'[i - 1] = todo[i]
        BY <3>1, <3>3, <1>1
      <4> QED  BY <4>1, <2>1 DEF Visited
    <3>4. CASE Y!On(nested, Y!Here) = <<nested>>
      <4>1. i \in DOMAIN todo' /\ todo'[i] = todo[i]
        BY <3>1, <3>4, <1>1, <2>3
      <4> QED  BY <4>1, <2>1 DEF Visited
    <3> QED  BY <3>2, <3>3, <3>4
  <2> QED  BY <2>2, <2>3
<1>5. CASE f \in unheard
  BY <1>1, <1>5 DEF Followed
<1>6. CASE Reported(f, disk[f], bucket[f], queue, open, todo)
  <2>1. Reported(f, disk[f], bucket[f], queue, open, todo')
    BY <1>4, <1>6 DEF Reported
  <2> QED  BY <2>1, <1>1 DEF Followed
<1> QED  BY <1>2, <1>3, <1>5, <1>6 DEF Followed

LEMMA OpenNextFollowed ==
    ASSUME StaticIInv, Y!OpenNext, NEW f \in Y!Files, Watching(f)'
    PROVE  Followed(f)'
<1>1. /\ todo # <<>> /\ open = <<>> /\ Head(todo) # dir /\ todo' = Tail(todo)
      /\ open' = IF disk[Head(todo)] # 0 THEN <<Head(todo), disk[Head(todo)]>> ELSE <<>>
      /\ UNCHANGED <<disk, bucket, queue, walk, unheard>>
  BY DEF Y!OpenNext, Y!Keep, Y!Fails, Watching
<1>2. (Watching(f) => Followed(f)) /\ todo \in Seq(Y!Files \cup {dir})
  BY DEF StaticIInv, Y!TypeOK
<1>3. Watching(f)
  BY <1>1 DEF Watching
<1>4. CASE f \in unheard
  BY <1>1, <1>4 DEF Followed
<1>5. ASSUME Visited(todo, f), disk[f] # 0 PROVE Visited(todo', f) \/ open' = <<f, disk[f]>>
  <2>1. PICK i \in 1 .. Len(todo) : todo[i] = f \/ (todo[i] = dir /\ f = nested)
    BY <1>2, <1>5 DEF Visited
  <2>2. CASE i = 1
    <3>1. Head(todo) = f
      BY <2>1, <2>2, <1>1, <1>2
    <3> QED  BY <3>1, <1>1, <1>5
  <2>3. CASE i # 1
    <3>1. i - 1 \in DOMAIN todo' /\ todo'[i - 1] = todo[i]
      BY <2>3, <1>1, <1>2
    <3> QED  BY <3>1, <2>1 DEF Visited
  <2> QED  BY <2>2, <2>3
<1>6. ASSUME Opened(open', f) PROVE open' = <<f, disk[f]>> /\ disk[f] # 0
  BY <1>1, <1>6 DEF Opened
<1>7. CASE Reported(f, disk[f], bucket[f], queue, open, todo)
  <2>1. disk[f] = 0 => Has(queue, Y!Removal(f)) \/ (bucket[f] = 0 /\ ~Opened(open', f))
    BY <1>6, <1>7 DEF Reported
  <2>2. open # <<f, disk[f]>>
    BY <1>1
  <2>3. disk[f] # 0 => \/ \E j \in DOMAIN queue : queue[j] \in Covers(f)
                       \/ Visited(todo', f) \/ open' = <<f, disk[f]>> \/ (bucket[f] = disk[f] /\ ~Opened(open', f))
    BY <1>5, <1>6, <1>7, <2>2 DEF Reported
  <2>4. Reported(f, disk[f], bucket[f], queue, open', todo')
    BY <1>7, <2>1, <2>3 DEF Reported
  <2> QED  BY <2>4, <1>1 DEF Followed
<1> QED  BY <1>2, <1>3, <1>4, <1>7 DEF Followed

(* What was opened is stored, or not.                                      *)
LEMMA PutFollowed ==
    ASSUME StaticIInv, Y!Put, NEW f \in Y!Files, Watching(f)'
    PROVE  Followed(f)'
<1>1. /\ open # <<>> /\ open' = <<>> /\ UNCHANGED <<disk, queue, walk, todo>>
  BY DEF Y!Put, Y!Keep, Y!Fails, Watching
<1>2. /\ Watching(f) => Followed(f)
      /\ bucket \in [Y!Files -> Y!Versions] /\ queue \in Seq(Y!Event)
  BY DEF StaticIInv, Y!TypeOK
<1>3. Watching(f) /\ ~Opened(open', f)
  BY <1>1 DEF Watching, Opened
<1>4. \/ /\ bucket' = [bucket EXCEPT ![open[1]] = open[2]]
         /\ unheard' = IF disk[open[1]] = open[2] /\ ~Y!Contains(queue, Y!Removal(open[1]))
                       THEN unheard \ {open[1]} ELSE unheard
      \/ /\ unheard' = unheard \cup {open[1]} /\ bucket' = bucket
  BY DEF Y!Put, Y!Fails, Watching
<1>5. CASE f \in unheard'
  BY <1>5 DEF Followed
<1>6. CASE f \notin unheard' /\ f # open[1]
  <2>1. bucket'[f] = bucket[f] /\ f \notin unheard
    BY <1>2, <1>4, <1>6
  <2>2. Reported(f, disk[f], bucket[f], queue, open, todo) /\ open # <<f, disk[f]>>
    BY <2>1, <1>2, <1>3, <1>6 DEF Followed
  <2>3. Reported(f, disk[f], bucket[f], queue, open', todo)
    BY <2>2, <1>3 DEF Reported
  <2> QED  BY <2>1, <2>3, <1>1 DEF Followed
<1>7. CASE f \notin unheard' /\ f = open[1]
  <2>1. bucket' = [bucket EXCEPT ![f] = open[2]] /\ bucket'[f] = open[2] /\ Opened(open, f)
    BY <1>1, <1>2, <1>4, <1>7 DEF Opened
  <2>2. CASE f \in unheard
    <3>1. disk[f] = open[2] /\ ~Y!Contains(queue, Y!Removal(f))
      BY <2>2, <1>4, <1>7
    <3>2. ~Has(queue, Y!Removal(f))
      BY <3>1, <1>2, HasIs
    <3>3. Reported(f, disk[f], bucket'[f], queue, open', todo)
      BY <3>1, <3>2, <2>1, <1>3 DEF Reported, Has
    <3> QED  BY <3>3, <1>1 DEF Followed
  <2>3. CASE f \notin unheard
    <3>1. Reported(f, disk[f], bucket[f], queue, open, todo)
      BY <2>3, <1>2, <1>3 DEF Followed
    <3>2. open = <<f, disk[f]>> => bucket'[f] = disk[f]
      BY <2>1
    <3>3. Reported(f, disk[f], bucket'[f], queue, open', todo)
      BY <3>1, <3>2, <2>1, <1>3 DEF Reported
    <3> QED  BY <3>3, <1>1 DEF Followed
  <2> QED  BY <2>2, <2>3
<1> QED  BY <1>5, <1>6, <1>7

(* The directories are watched, and what changed before is known.          *)
LEMMA WatchFollowed ==
    ASSUME StaticIInv, Y!WatchRoot \/ Y!WatchSub, NEW f \in Y!Files, Watching(f)'
    PROVE  Followed(f)'
<1>1. Stages /\ (Watching(f) => Followed(f))
  BY DEF StaticIInv
<1>2. /\ UNCHANGED <<disk, bucket, queue, todo, open>> /\ open = <<>>
      /\ \/ walk = "watch" /\ unheard' = Y!Behind \ (IF sub THEN {nested} ELSE {})
            /\ walk' = (IF sub THEN "subs" ELSE "loop")
         \/ walk = "subs" /\ unheard' = unheard \cup (Y!Behind \cap {nested})
  BY <1>1 DEF Y!WatchRoot, Y!WatchSub, Y!Keep, Y!Fails, Watching, Stages
<1>3. CASE f \in unheard'
  BY <1>3 DEF Followed
<1>4. ASSUME f \notin unheard', walk = "watch" \/ f = nested PROVE Followed(f)'
  <2>1. ~Has(queue, Y!Removal(f))
    BY <1>1, <1>2, <1>4 DEF Stages, Has
  <2>2. bucket[f] = disk[f]
    <3>1. f \notin Y!Behind
      BY <1>2, <1>4, StaticAssumption DEF Watching
    <3> QED  BY <3>1 DEF Y!Behind
  <2>3. Reported(f, disk[f], bucket[f], queue, open, todo)
    BY <2>1, <2>2, <1>2 DEF Reported, Has, Opened
  <2> QED  BY <2>3, <1>2 DEF Followed
<1>5. CASE f \notin unheard' /\ walk = "subs" /\ f = top
  <2>1. Watching(f) /\ f \notin unheard
    BY <1>2, <1>5 DEF Watching
  <2>2. Reported(f, disk[f], bucket[f], queue, open, todo)
    BY <2>1, <1>1 DEF Followed
  <2> QED  BY <2>2, <1>2 DEF Followed
<1> QED  BY <1>2, <1>3, <1>4, <1>5 DEF Y!Files

(* The loop takes an event.                                                *)
LEMMA HandleWriteFollowed ==
    ASSUME StaticIInv, Y!HandleWrite, NEW f \in Y!Files, Watching(f)'
    PROVE  Followed(f)'
<1>1. PICK e \in Y!Event : /\ Y!Taken(e) /\ e.op = "write" /\ UNCHANGED <<bucket, trouble, unheard>>
                           /\ IF e.name = dir
                                THEN /\ UNCHANGED open
                                     /\ IF sub THEN Y!NewDirectory ELSE UNCHANGED <<watched, todo>>
                                ELSE /\ open' = IF disk[e.name] = 0 THEN <<>> ELSE <<e.name, disk[e.name]>>
                                     /\ UNCHANGED <<watched, todo>>
  BY DEF Y!HandleWrite
<1>2. /\ queue # <<>> /\ todo = <<>> /\ open = <<>> /\ e = Head(queue) /\ queue' = Tail(queue) /\ walk = "loop"
      /\ UNCHANGED <<disk, sub>>
  BY <1>1 DEF Y!Taken, Y!Keep
<1>3. Followed(f) /\ queue \in Seq(Y!Event) /\ (disk[nested] # 0 => sub)
  BY <1>2 DEF StaticIInv, Y!TypeOK, Stages, Watching
<1>4. e = Y!Written(e.name)
  BY <1>1 DEF Y!Event, Y!Written
<1>5. CASE f \in unheard
  BY <1>1, <1>5 DEF Followed
<1>6. CASE Reported(f, disk[f], bucket[f], queue, <<>>, <<>>) /\ e \in Covers(f)
  <2>1. e.name = f \/ (e.name = dir /\ f = nested)
    BY <1>6 DEF Covers, Y!Written, Y!Announced
  <2>2. disk[f] = 0 => ~Opened(open', f)
    BY <2>1, <1>1, <1>2, EventsDiffer DEF Opened
  <2>3. disk[f] # 0 => open' = <<f, disk[f]>> \/ Visited(todo', f)
    <3>1. CASE e.name = f
      BY <3>1, <1>1, EventsDiffer
    <3>2. CASE e.name = dir /\ f = nested /\ disk[f] # 0
      <4>1. todo' = <<dir>>
        BY <3>2, <1>1, <1>3 DEF Y!NewDirectory
      <4> QED  BY <4>1, <3>2 DEF Visited
    <3> QED  BY <2>1, <3>1, <3>2
  <2>4. Reported(f, disk[f], bucket[f], Tail(queue), open', todo')
    BY <1>6, <2>2, <2>3, <1>2, <1>3, CoverTaken
  <2> QED  BY <2>4, <1>1, <1>2 DEF Followed
<1>7. CASE Reported(f, disk[f], bucket[f], queue, <<>>, <<>>) /\ e \notin Covers(f)
  <2>1. Reported(f, disk[f], bucket[f], Tail(queue), <<>>, <<>>)
    BY <1>2, <1>3, <1>4, <1>7, EventsDiffer, OtherTaken
  <2>2. e.name # f
    BY <1>4, <1>7 DEF Covers
  <2>3. ~Opened(open', f)
    BY <2>2, <1>1, <1>2 DEF Opened
  <2>4. ~Visited(<<>>, f) /\ <<>> # <<f, disk[f]>>
    BY DEF Visited
  <2>5. Reported(f, disk[f], bucket[f], Tail(queue), open', todo')
    BY <2>1, <2>3, <2>4 DEF Reported
  <2> QED  BY <2>5, <1>1, <1>2 DEF Followed
<1> QED  BY <1>2, <1>3, <1>5, <1>6, <1>7 DEF Followed

LEMMA HandleRemoveFollowed ==
    ASSUME StaticIInv, Y!HandleRemove, NEW f \in Y!Files, Watching(f)'
    PROVE  Followed(f)'
<1>1. PICK e \in Y!Event : /\ Y!Taken(e) /\ e.op = "remove" /\ UNCHANGED <<watched, todo, open>>
                           /\ \/ /\ bucket' = [x \in Y!Files |-> IF x = e.name THEN 0 ELSE bucket[x]]
                                 /\ unheard' = unheard \ {x \in {e.name} : x # dir /\ disk[x] = 0}
                              \/ /\ UNCHANGED bucket
                                 /\ unheard' = unheard \cup ({e.name} \cap Y!Files)
  BY DEF Y!HandleRemove
<1>2. /\ queue # <<>> /\ todo = <<>> /\ open = <<>> /\ e = Head(queue) /\ queue' = Tail(queue) /\ walk = "loop"
      /\ UNCHANGED <<disk, sub>>
  BY <1>1 DEF Y!Taken, Y!Keep
<1>3. Followed(f) /\ queue \in Seq(Y!Event) /\ bucket \in [Y!Files -> Y!Versions]
  BY <1>2 DEF StaticIInv, Y!TypeOK, Watching
<1>4. e = Y!Removal(e.name)
  BY <1>1 DEF Y!Event, Y!Removal
<1>5. CASE f \in unheard'
  BY <1>5 DEF Followed
<1>6. CASE f \notin unheard' /\ e.name # f
  <2>1. f \notin unheard /\ bucket'[f] = bucket[f]
    BY <1>1, <1>3, <1>6
  <2>2. e \notin Covers(f) \cup {Y!Removal(f)}
    BY <1>1, <1>4, <1>6, EventsDiffer DEF Covers, Y!Written, Y!Announced
  <2>3. Reported(f, disk[f], bucket[f], Tail(queue), open, todo)
    BY <2>1, <2>2, <1>2, <1>3, OtherTaken DEF Followed
  <2> QED  BY <2>1, <2>3, <1>1, <1>2 DEF Followed
<1>7. CASE f \notin unheard' /\ e.name = f
  <2>1. bucket'[f] = 0
    BY <1>1, <1>7
  <2>2. CASE f \in unheard
    <3>1. disk[f] = 0
      BY <1>1, <1>7, <2>2
    <3>2. Reported(f, disk[f], 0, Tail(queue), open, todo)
      BY <3>1, <1>2 DEF Reported, Opened
    <3> QED  BY <3>2, <2>1, <1>1, <1>2 DEF Followed
  <2>3. CASE f \notin unheard
    <3>1. Reported(f, disk[f], bucket[f], queue, open, todo)
      BY <2>3, <1>3 DEF Followed
    <3>2. Reported(f, disk[f], 0, Tail(queue), open, todo)
      BY <3>1, <1>2, <1>3, <1>4, <1>7, RemovalTaken
    <3> QED  BY <3>2, <2>1, <1>1, <1>2 DEF Followed
  <2> QED  BY <2>2, <2>3
<1> QED  BY <1>5, <1>6, <1>7

(* The types, action by action.                                            *)
LEMMA StaticEdits ==
    ASSUME StaticIInv,
           (\E g \in Y!Files : Y!WriteFile(g) \/ Y!RemoveFile(g)) \/ Y!MakeSub \/ Y!RemoveSub \/ Y!MoveSubAway
    PROVE  Y!TypeOK' /\ Stages'
<1>1. Y!TypeOK /\ Stages
  BY DEF StaticIInv
<1> USE StaticAssumption
<1>2. /\ disk \in [Y!Files -> Y!Versions] /\ bucket \in [Y!Files -> Y!Versions] /\ sub \in BOOLEAN
      /\ watched \subseteq {"root", "sub"} /\ queue \in Seq(Y!Event) /\ Len(queue) <= QueueCap
      /\ walk \in {"bucket", "walk", "watch", "subs", "loop", "failed"}
      /\ todo \in Seq(Y!Files \cup {dir}) /\ (open = <<>> \/ open \in Y!Files \X Y!Versions)
      /\ edits \in 0 .. MaxEdits /\ trouble \in 0 .. MaxFaults /\ unheard \subseteq Y!Files
  BY <1>1 DEF Y!TypeOK
<1>3. 0 \in Y!Versions /\ (edits < MaxEdits => edits + 2 \in Y!Versions /\ edits + 1 \in 0 .. MaxEdits)
  BY <1>2 DEF Y!Versions
<1>4. UNCHANGED <<bucket, walk, todo, open, trouble>> /\ edits' = edits + 1 /\ edits < MaxEdits
  BY DEF Y!WriteFile, Y!RemoveFile, Y!MakeSub, Y!RemoveSub, Y!MoveSubAway, Y!Change, Y!Edit
<1>5. /\ disk' \in [Y!Files -> Y!Versions] /\ sub' \in BOOLEAN
      /\ watched' \in {watched, watched \ {"sub"}} /\ (disk'[nested] # 0 => sub')
  <2>1. ASSUME NEW g \in Y!Files, Y!WriteFile(g) \/ Y!RemoveFile(g)
        PROVE  /\ disk' \in [Y!Files -> Y!Versions] /\ sub' \in BOOLEAN
               /\ watched' \in {watched, watched \ {"sub"}} /\ (disk'[nested] # 0 => sub')
    <3>1. PICK v \in Y!Versions : disk' = [disk EXCEPT ![g] = v] /\ (v = 0 \/ g = top \/ sub)
      BY <2>1, <1>3, <1>4 DEF Y!WriteFile, Y!RemoveFile
    <3>2. UNCHANGED <<sub, watched>>
      BY <2>1 DEF Y!WriteFile, Y!RemoveFile
    <3>3. disk' \in [Y!Files -> Y!Versions]
      BY <3>1, <1>2
    <3>4. disk'[nested] # 0 => sub
      BY <3>1, <1>1, <1>2 DEF Stages, Y!Files
    <3> QED  BY <3>2, <3>3, <3>4, <1>2
  <2>2. CASE Y!MakeSub
    <3>1. PICK v \in Y!Versions : disk' = [disk EXCEPT ![nested] = v]
      BY <2>2, <1>3, <1>4 DEF Y!MakeSub
    <3>2. sub' = TRUE /\ watched' = watched
      BY <2>2 DEF Y!MakeSub
    <3> QED  BY <3>1, <3>2, <1>2
  <2>3. CASE Y!RemoveSub \/ Y!MoveSubAway
    <3>1. disk' = [disk EXCEPT ![nested] = 0] /\ sub' = FALSE /\ watched' = watched \ {"sub"}
      BY <2>3 DEF Y!RemoveSub, Y!MoveSubAway
    <3>2. nested \in Y!Files
      BY DEF Y!Files
    <3> QED  BY <3>1, <3>2, <1>2, <1>3
  <2> QED  BY <2>1, <2>2, <2>3
<1>6. /\ queue' \in Seq(Y!Event) /\ Len(queue') <= QueueCap /\ unheard' \subseteq Y!Files
      /\ watched = {} /\ queue = <<>> => queue' = <<>>
      /\ watched = {"root"} /\ ~Has(queue, Y!Removal(nested)) => ~Has(queue', Y!Removal(nested))
  <2>1. ASSUME NEW h \in Seq(Y!Event), ~Has(h, Y!Removal(nested)), ~Has(queue, Y!Removal(nested))
        PROVE  ~Has(queue \o h, Y!Removal(nested))
    BY <2>1, <1>2, HasNeither
  <2>2. ASSUME NEW e \in Y!Event, Y!Change(e)
        PROVE  /\ queue' \in Seq(Y!Event) /\ Len(queue') <= QueueCap /\ unheard' \subseteq Y!Files
               /\ watched = {} /\ queue = <<>> => queue' = <<>>
               /\ watched = {"root"} /\ ~Has(queue, Y!Removal(nested)) => ~Has(queue', Y!Removal(nested))
    <3>1. /\ unheard' \subseteq Y!Files
          /\ \/ queue' = queue \o <<e>> /\ Len(queue') <= QueueCap /\ Y!Dir(e.name) \in watched
             \/ queue' = queue
      BY <2>2, <1>1, Changed
    <3>2. CASE queue' = queue
      BY <3>1, <3>2, <1>2
    <3>3. CASE queue' = queue \o <<e>> /\ Len(queue') <= QueueCap /\ Y!Dir(e.name) \in watched
      <4>1. watched # {}
        BY <3>3
      <4>2. watched = {"root"} => e # Y!Removal(nested)
        BY <3>3 DEF Y!Dir, Y!Removal
      <4>3. watched = {"root"} => ~Has(<<e>>, Y!Removal(nested))
        BY <4>2 DEF Has
      <4>4. queue' \in Seq(Y!Event)
        BY <3>3, <1>2
      <4>5. <<e>> \in Seq(Y!Event)
        OBVIOUS
      <4> QED  BY <3>1, <3>3, <4>1, <4>3, <4>4, <4>5, <2>1
    <3> QED  BY <3>1, <3>2, <3>3
  <2>3. CASE (\E g \in Y!Files : Y!WriteFile(g) \/ Y!RemoveFile(g)) \/ Y!MakeSub
    <3>1. PICK e \in Y!Event : Y!Change(e)
      BY <2>3, EventsAre DEF Y!WriteFile, Y!RemoveFile, Y!MakeSub
    <3> QED  BY <3>1, <2>2
  <2>4. CASE Y!RemoveSub
    <3> DEFINE inside == IF disk[nested] = 0 THEN <<>> ELSE <<Y!Removal(nested)>>
               outside == <<Y!Removal(dir)>>
    <3>1. Y!Notify(inside, outside)
      BY <2>4 DEF Y!RemoveSub, Y!Edit
    <3>2. inside \in Seq(Y!Event) /\ outside \in Seq(Y!Event)
      BY EventsAre DEF Y!Files
    <3>a. ~Has(outside, Y!Removal(nested))
      BY EventsDiffer DEF Has, Y!Files
    <3> HIDE DEF inside
    <3>3. /\ unheard' \subseteq Y!Files
          /\ \E h \in {<<>>, Y!Heard("sub", inside) \o Y!Heard("root", outside)} :
                h \in Seq(Y!Event) /\ queue' = queue \o h /\ Len(queue') <= QueueCap
      BY <3>1, <3>2, <1>1, Notified
    <3>4. PICK h \in {<<>>, Y!Heard("sub", inside) \o Y!Heard("root", outside)} :
             h \in Seq(Y!Event) /\ queue' = queue \o h /\ Len(queue') <= QueueCap
      BY <3>3
    <3>5. watched = {} => h = <<>>
      BY <3>4 DEF Y!Heard
    <3>6. watched = {"root"} => h \in {<<>>, outside}
      <4>1. watched = {"root"} => Y!Heard("sub", inside) = <<>> /\ Y!Heard("root", outside) = outside
        BY DEF Y!Heard
      <4>2. <<>> \o outside = outside
        BY <3>2
      <4> QED  BY <3>4, <4>1, <4>2
    <3>7. ~Has(<<>>, Y!Removal(nested))
      BY DEF Has
    <3>8. queue' \in Seq(Y!Event) /\ (queue = <<>> /\ h = <<>> => queue' = <<>>)
      BY <3>4, <1>2
    <3>9. watched = {"root"} => ~Has(h, Y!Removal(nested))
      BY <3>6, <3>7, <3>a
    <3> QED  BY <3>3, <3>4, <3>5, <3>8, <3>9, <2>1
  <2>5. CASE Y!MoveSubAway
    <3>1. /\ queue' = IF "root" \in watched /\ Len(queue) < QueueCap THEN Append(queue, Y!Removal(dir)) ELSE queue
          /\ unheard' \in {unheard, unheard \cup {nested}}
      BY <2>5 DEF Y!MoveSubAway
    <3>2. Y!Removal(dir) \in Y!Event /\ ~Has(<<Y!Removal(dir)>>, Y!Removal(nested)) /\ nested \in Y!Files
      BY EventsAre, EventsDiffer DEF Has, Y!Files
    <3>3. CASE queue' = queue
      BY <3>1, <3>2, <3>3, <1>2
    <3>4. CASE queue' = queue \o <<Y!Removal(dir)>> /\ "root" \in watched /\ Len(queue) < QueueCap
      <4>1. queue' \in Seq(Y!Event) /\ Len(queue') <= QueueCap /\ <<Y!Removal(dir)>> \in Seq(Y!Event)
        BY <3>2, <3>4, <1>2
      <4> QED  BY <4>1, <3>1, <3>2, <3>4, <2>1, <1>2
    <3>5. Append(queue, Y!Removal(dir)) = queue \o <<Y!Removal(dir)>>
      BY <1>2, <3>2
    <3> QED  BY <3>1, <3>3, <3>4, <3>5
  <2> QED  BY <2>3, <2>4, <2>5
<1>7. Y!TypeOK'
  BY <1>2, <1>3, <1>4, <1>5, <1>6 DEF Y!TypeOK
<1>8. Stages'
  <2>1. ASSUME walk \in {"bucket", "walk", "watch"} PROVE queue' = <<>> /\ watched' = {}
    BY <2>1, <1>1, <1>5, <1>6 DEF Stages
  <2>2. ASSUME walk = "subs" PROVE watched' = {"root"} /\ ~Has(queue', Y!Removal(nested))
    BY <2>2, <1>1, <1>5, <1>6 DEF Stages
  <2> QED  BY <2>1, <2>2, <1>1, <1>4, <1>5 DEF Stages
<1> QED  BY <1>7, <1>8

LEMMA StaticSteps ==
    ASSUME StaticIInv,
           Y!EnsureBucket \/ Y!Visit \/ Y!OpenNext \/ Y!Put \/ Y!SyncedAll \/ Y!WatchRoot \/ Y!WatchSub
           \/ Y!HandleWrite \/ Y!HandleRemove
    PROVE  Y!TypeOK' /\ Stages'
<1>1. Y!TypeOK /\ Stages
  BY DEF StaticIInv
<1> USE StaticAssumption
<1>2. /\ disk \in [Y!Files -> Y!Versions] /\ bucket \in [Y!Files -> Y!Versions] /\ sub \in BOOLEAN
      /\ watched \subseteq {"root", "sub"} /\ queue \in Seq(Y!Event) /\ Len(queue) <= QueueCap
      /\ walk \in {"bucket", "walk", "watch", "subs", "loop", "failed"}
      /\ todo \in Seq(Y!Files \cup {dir}) /\ (open = <<>> \/ open \in Y!Files \X Y!Versions)
      /\ edits \in 0 .. MaxEdits /\ trouble \in 0 .. MaxFaults /\ unheard \subseteq Y!Files
  BY <1>1 DEF Y!TypeOK
<1>3. UNCHANGED <<disk, sub, edits>>
  BY DEF Y!EnsureBucket, Y!Visit, Y!OpenNext, Y!Put, Y!SyncedAll, Y!WatchRoot, Y!WatchSub,
         Y!HandleWrite, Y!HandleRemove, Y!Taken, Y!Keep
<1>4. ASSUME NEW f \in {dir, nested, top}, NEW names PROVE Y!On(f, names) \in Seq(Y!Files \cup {dir})
  <2>1. f \in Y!Files \cup {dir}
    BY DEF Y!Files
  <2>2. <<f>> \in Seq(Y!Files \cup {dir})
    BY <2>1
  <2>3. <<>> \in Seq(Y!Files \cup {dir})
    OBVIOUS
  <2>4. Y!On(f, names) \in {<<f>>, <<>>}
    BY DEF Y!On
  <2> QED  BY <2>2, <2>3, <2>4
<1>5. Y!Fault => trouble' \in 0 .. MaxFaults
  BY <1>2 DEF Y!Fault
<1>6. ASSUME Y!Fails, trouble' \in 0 .. MaxFaults PROVE Y!TypeOK' /\ Stages'
  <2>1. UNCHANGED <<disk, sub, edits, bucket, watched, queue, unheard>> /\ walk' = "failed" /\ todo' = <<>> /\ open' = <<>>
    BY <1>3, <1>6 DEF Y!Fails
  <2>2. Y!TypeOK'
    BY <2>1, <1>2, <1>6 DEF Y!TypeOK
  <2> QED  BY <2>1, <2>2, <1>1 DEF Stages
<1>7. CASE Y!EnsureBucket
  <2>1. CASE Y!Fault /\ Y!Fails
    BY <2>1, <1>5, <1>6
  <2>2. CASE /\ walk = "bucket" /\ walk' = "walk"
             /\ todo' = Y!On(dir, IF sub THEN {dir} ELSE {}) \o Y!On(top, Y!Here)
             /\ UNCHANGED <<bucket, watched, queue, open, trouble, unheard>>
    <3>1. todo' \in Seq(Y!Files \cup {dir})
      BY <2>2, <1>4
    <3>2. Y!TypeOK'
      BY <3>1, <2>2, <1>2, <1>3 DEF Y!TypeOK
    <3> QED  BY <3>2, <2>2, <1>1, <1>3 DEF Stages
  <2> QED  BY <1>7, <2>1, <2>2 DEF Y!EnsureBucket
<1>8. CASE Y!Visit
  <2>1. CASE Y!Fails
    BY <2>1, <1>2, <1>6, <1>8 DEF Y!Visit
  <2>2. CASE todo' = Y!On(nested, Y!Here) \o Tail(todo) /\ UNCHANGED <<bucket, watched, queue, walk, open, unheard>>
    <3>1. todo # <<>> /\ UNCHANGED trouble
      BY <1>8 DEF Y!Visit
    <3>2. todo' \in Seq(Y!Files \cup {dir})
      BY <2>2, <3>1, <1>2, <1>4
    <3>3. Y!TypeOK'
      BY <3>1, <3>2, <2>2, <1>2, <1>3 DEF Y!TypeOK
    <3> QED  BY <3>1, <3>3, <2>2, <1>1, <1>3 DEF Stages
  <2> QED  BY <1>8, <2>1, <2>2 DEF Y!Visit
<1>9. CASE Y!OpenNext
  <2>1. CASE Y!Fails
    BY <2>1, <1>2, <1>6, <1>9 DEF Y!OpenNext
  <2>2. CASE todo' = Tail(todo) /\ UNCHANGED <<bucket, watched, queue, walk, unheard>>
    <3>1. todo # <<>> /\ Head(todo) # dir /\ UNCHANGED trouble
          /\ (open' = <<Head(todo), disk[Head(todo)]>> \/ open' = open)
      BY <2>2, <1>9 DEF Y!OpenNext, Y!Fails
    <3>2. Head(todo) \in Y!Files /\ todo' \in Seq(Y!Files \cup {dir})
      BY <2>2, <3>1, <1>2
    <3>3. open' = <<>> \/ open' \in Y!Files \X Y!Versions
      BY <3>1, <3>2, <1>2
    <3>4. Y!TypeOK'
      BY <3>1, <3>2, <3>3, <2>2, <1>2, <1>3 DEF Y!TypeOK
    <3> QED  BY <3>1, <3>4, <2>2, <1>1, <1>3 DEF Stages
  <2> QED  BY <1>9, <2>1, <2>2 DEF Y!OpenNext
<1>10. CASE Y!Put
  <2>1. CASE Y!Fault /\ Y!Fails
    BY <2>1, <1>5, <1>6
  <2>2. CASE /\ bucket' = [bucket EXCEPT ![open[1]] = open[2]] /\ open' = <<>>
             /\ unheard' \in {unheard, unheard \ {open[1]}}
             /\ UNCHANGED <<watched, queue, walk, todo, trouble>>
    <3>1. open \in Y!Files \X Y!Versions
      BY <1>2, <1>10 DEF Y!Put
    <3>2. bucket' \in [Y!Files -> Y!Versions] /\ unheard' \subseteq Y!Files
      BY <3>1, <2>2, <1>2
    <3>3. Y!TypeOK'
      BY <3>2, <2>2, <1>2, <1>3 DEF Y!TypeOK
    <3> QED  BY <3>3, <2>2, <1>1, <1>3 DEF Stages
  <2>3. CASE /\ walk = "loop" /\ Y!Fault /\ open' = <<>> /\ unheard' = unheard \cup {open[1]}
             /\ UNCHANGED <<bucket, watched, queue, walk, todo>>
    <3>1. open \in Y!Files \X Y!Versions
      BY <1>2, <1>10 DEF Y!Put
    <3>2. unheard' \subseteq Y!Files
      BY <3>1, <2>3, <1>2
    <3>3. Y!TypeOK'
      BY <3>2, <2>3, <1>2, <1>3, <1>5 DEF Y!TypeOK
    <3> QED  BY <3>3, <2>3, <1>1, <1>3 DEF Stages
  <2> QED  BY <1>10, <2>1, <2>2, <2>3 DEF Y!Put
<1>11. CASE Y!SyncedAll
  <2>1. /\ walk = "walk" /\ walk' = "watch" /\ todo = <<>> /\ open = <<>>
        /\ UNCHANGED <<bucket, watched, queue, todo, open, trouble, unheard>>
    BY <1>11 DEF Y!SyncedAll
  <2>2. Y!TypeOK'
    BY <2>1, <1>2, <1>3 DEF Y!TypeOK
  <2> QED  BY <2>1, <2>2, <1>1, <1>3 DEF Stages
<1>12. CASE Y!WatchRoot
  <2>1. /\ walk = "watch" /\ walk' \in {"subs", "loop"} /\ watched' = {"root"}
        /\ unheard' = Y!Behind \ (IF sub THEN {nested} ELSE {})
        /\ UNCHANGED <<bucket, queue, todo, open, trouble>>
    BY <1>12 DEF Y!WatchRoot
  <2>2. unheard' \subseteq Y!Files
    BY <2>1 DEF Y!Behind
  <2>3. Y!TypeOK'
    BY <2>1, <2>2, <1>2, <1>3 DEF Y!TypeOK
  <2>4. queue = <<>> /\ ~Has(queue, Y!Removal(nested)) /\ todo = <<>> /\ open = <<>>
    BY <2>1, <1>1 DEF Stages, Has
  <2> QED  BY <2>1, <2>3, <2>4, <1>1, <1>3 DEF Stages
<1>13. CASE Y!WatchSub
  <2>1. CASE Y!Fails
    BY <2>1, <1>2, <1>6, <1>13 DEF Y!WatchSub
  <2>2. CASE /\ watched' = {"root", "sub"} /\ walk' = "loop"
             /\ unheard' = unheard \cup (Y!Behind \cap {nested})
             /\ UNCHANGED <<bucket, queue, todo, open, trouble>>
    <3>1. unheard' \subseteq Y!Files
      BY <2>2, <1>2 DEF Y!Behind
    <3>2. Y!TypeOK'
      BY <3>1, <2>2, <1>2, <1>3 DEF Y!TypeOK
    <3> QED  BY <3>2, <2>2, <1>1, <1>3 DEF Stages
  <2> QED  BY <1>13, <2>1, <2>2 DEF Y!WatchSub
<1>14. CASE Y!HandleWrite
  <2>1. PICK e \in Y!Event :
           /\ Y!Taken(e) /\ UNCHANGED <<bucket, trouble, unheard>>
           /\ \/ UNCHANGED open /\ (Y!NewDirectory \/ UNCHANGED <<watched, todo>>)
              \/ /\ e.name # dir /\ open' \in {<<>>, <<e.name, disk[e.name]>>}
                 /\ UNCHANGED <<watched, todo>>
    BY <1>14 DEF Y!HandleWrite
  <2>2. queue # <<>> /\ queue' = Tail(queue) /\ walk = "loop" /\ walk' = "loop"
    BY <2>1 DEF Y!Taken
  <2>3. queue' \in Seq(Y!Event) /\ Len(queue') <= QueueCap
    BY <2>2, <1>2
  <2>4. open' = <<>> \/ open' \in Y!Files \X Y!Versions
    <3>1. e.name # dir => e.name \in Y!Files
      BY DEF Y!Event
    <3> QED  BY <3>1, <2>1, <1>2
  <2>5. watched' \subseteq {"root", "sub"} /\ todo' \in Seq(Y!Files \cup {dir})
    <3>1. <<dir>> \in Seq(Y!Files \cup {dir})
      OBVIOUS
    <3> QED  BY <3>1, <2>1, <1>2 DEF Y!NewDirectory
  <2>6. Y!TypeOK'
    BY <2>1, <2>2, <2>3, <2>4, <2>5, <1>2, <1>3 DEF Y!TypeOK
  <2> QED  BY <2>2, <2>6, <1>1, <1>3 DEF Stages
<1>15. CASE Y!HandleRemove
  <2>1. PICK e \in Y!Event :
           /\ Y!Taken(e) /\ UNCHANGED <<watched, todo, open>>
           /\ \/ bucket' = [x \in Y!Files |-> IF x = e.name THEN 0 ELSE bucket[x]]
              \/ bucket' = bucket
           /\ unheard' \subseteq unheard \/ unheard' = unheard \cup ({e.name} \cap Y!Files)
           /\ trouble' = trouble \/ Y!Fault
    BY <1>15 DEF Y!HandleRemove
  <2>2. queue # <<>> /\ queue' = Tail(queue) /\ walk = "loop" /\ walk' = "loop"
    BY <2>1 DEF Y!Taken
  <2>3. queue' \in Seq(Y!Event) /\ Len(queue') <= QueueCap
    BY <2>2, <1>2
  <2>4. bucket' \in [Y!Files -> Y!Versions] /\ unheard' \subseteq Y!Files /\ trouble' \in 0 .. MaxFaults
    <3>1. 0 \in Y!Versions
      BY DEF Y!Versions
    <3> QED  BY <3>1, <2>1, <1>2, <1>5
  <2>5. Y!TypeOK'
    BY <2>1, <2>2, <2>3, <2>4, <1>2, <1>3 DEF Y!TypeOK
  <2> QED  BY <2>2, <2>5, <1>1, <1>3 DEF Stages
<1> QED  BY <1>7, <1>8, <1>9, <1>10, <1>11, <1>12, <1>13, <1>14, <1>15

LEMMA StaticIInvInit == Y!Init => StaticIInv
<1> SUFFICES ASSUME Y!Init PROVE StaticIInv
  OBVIOUS
<1> USE StaticAssumption
<1>1. 0 \in Y!Versions /\ 1 \in Y!Versions
  BY DEF Y!Versions
<1>2. Y!TypeOK
  <2>1. disk \in [Y!Files -> Y!Versions] /\ bucket \in [Y!Files -> Y!Versions] /\ sub \in BOOLEAN
    BY <1>1 DEF Y!Init
  <2>2. queue = <<>> /\ todo = <<>> /\ open = <<>> /\ walk = "bucket" /\ watched = {} /\ edits = 0
        /\ trouble = 0 /\ unheard = {}
    BY DEF Y!Init
  <2> QED  BY <2>1, <2>2 DEF Y!TypeOK
<1>3. Stages
  BY DEF Y!Init, Stages, Y!Files
<1> QED  BY <1>2, <1>3 DEF StaticIInv, Watching, Y!Init

LEMMA StaticIInvNext == StaticIInv /\ [Y!Next]_(Y!ssvars) => StaticIInv'
<1> SUFFICES ASSUME StaticIInv, [Y!Next]_(Y!ssvars) PROVE StaticIInv'
  OBVIOUS
<1>1. CASE Y!Next
  <2>1. Y!TypeOK' /\ Stages'
    BY <1>1, StaticEdits, StaticSteps DEF Y!Next
  <2>2. ASSUME NEW f \in Y!Files, Watching(f)' PROVE Followed(f)'
    BY <1>1, <2>2, WriteFileFollowed, RemoveFileFollowed, MakeSubFollowed, RemoveSubFollowed,
       MoveSubAwayFollowed, WalkFollowed, VisitFollowed, OpenNextFollowed, PutFollowed, WatchFollowed,
       HandleWriteFollowed, HandleRemoveFollowed DEF Y!Next
  <2>3. \A f \in Y!Files : Watching(f)' => Followed(f)'
    BY <2>2
  <2>4. Y!Files' = Y!Files
    BY DEF Y!Files
  <2> QED  BY <2>1, <2>3, <2>4 DEF StaticIInv
<1>2. CASE UNCHANGED Y!ssvars
  <2> USE <1>2 DEF Y!ssvars
  <2>1. Y!TypeOK'
    BY DEF StaticIInv, Y!TypeOK
  <2>2. Stages'
    BY DEF StaticIInv, Stages
  <2>3. \A f \in Y!Files : Watching(f)' => Followed(f)'
    BY DEF StaticIInv, Watching, Followed
  <2> QED  BY <2>1, <2>2, <2>3 DEF StaticIInv, Y!Files
<1> QED  BY <1>1, <1>2

LEMMA StaticIInvHolds == MCSpec => []StaticIInv
<1>1. MCInit => StaticIInv
  BY StaticIInvInit DEF MCInit
<1>2. StaticIInv /\ [MCNext]_mcvars => StaticIInv'
  <2> SUFFICES ASSUME StaticIInv, [MCNext]_mcvars PROVE StaticIInv'
    OBVIOUS
  <2>1. [Y!Next]_(Y!ssvars)
    BY DEF MCNext, mcvars, yvars, Y!ssvars, NotHub, NotJanitor, NotGroup, NotFlags, NotServer
  <2> QED  BY <2>1, StaticIInvNext
<1> QED  BY <1>1, <1>2, PTL DEF MCSpec

(* When the loop of hamr sync --watch has nothing left to do, the bucket   *)
(* holds what the directory holds, but for the files whose last change     *)
(* nothing reports.                                                        *)
THEOREM BucketIsKept == MCSpec => []Y!Inv
<1>1. StaticIInv => Y!Inv
  <2> SUFFICES ASSUME StaticIInv PROVE Y!Inv
    OBVIOUS
  <2>1. ASSUME walk = "loop", queue = <<>>, todo = <<>>, open = <<>>, NEW f \in Y!Behind
        PROVE  f \in unheard
    <3>1. f \in Y!Files /\ bucket[f] # disk[f]
      BY <2>1 DEF Y!Behind
    <3>2. Followed(f)
      BY <2>1, <3>1 DEF StaticIInv, Watching
    <3>3. ~Reported(f, disk[f], bucket[f], queue, open, todo)
      BY <2>1, <3>1 DEF Reported, Has, Visited
    <3> QED  BY <3>2, <3>3 DEF Followed
  <2> QED  BY <2>1 DEF Y!Inv, Y!BucketFollows, StaticIInv
<1> QED  BY <1>1, StaticIInvHolds, PTL

-----------------------------------------------------------------------------
(* What a run checks of the parts a server is made of.                     *)

(* The limiter serves no key beyond twice its rate and keeps the busy      *)
(* ones, a session is as its owner left it, an error of the server or of   *)
(* the database is reported and no pool is lost, what is uploaded is       *)
(* whole, and the bucket follows the directory of static files.            *)
THEOREM ServeIsKept == MCSpec => []ServeInv
<1>1. /\ MCSpec => []R!Inv
      /\ MCSpec => []A!Inv
      /\ MCSpec => []S!Inv
      /\ MCSpec => []D!Inv
      /\ MCSpec => []U!Inv
      /\ MCSpec => []Y!Inv
  BY RateIsKept, SessionsAreTheirs, NilIsClean, PoolIsNeverLeaked, UploadsAreWhole, BucketIsKept
<1>2. R!Inv /\ A!Inv /\ S!Inv /\ D!Inv /\ U!Inv /\ Y!Inv => ServeInv
  BY DEF ServeInv
<1> QED  BY <1>1, <1>2, PTL

===============================================================================
