--------------------------- MODULE Runtime_proofs ---------------------------
(***************************************************************************)
(* Proofs about what runs beside the scheduler, for any values of the      *)
(* constants: the process manager, and, in the composition of MCRuntime,   *)
(* the events for the browser, the file watcher, the tunnel, the layers of *)
(* the environment and the Stripe switch.  The composition renames the     *)
(* variables of a part that would clash with another's: the tunnel's proc  *)
(* is link, the switch's is listener, and so on (see the INSTANCEs of      *)
(* MCRuntime).  Each part has an inductive invariant, one lemma for every  *)
(* conjunct a step can disturb, and one theorem per property.              *)
(***************************************************************************)
EXTENDS MCRuntime, FiniteSetTheorems, TLAPS

-----------------------------------------------------------------------------
(* The process manager: never two leaders of one rule, none that is        *)
(* running and forgotten, none that hamr stopped reported as a failure,    *)
(* and none of the scheduler left when StopAll has returned.               *)

(* Who is in StartProcess holds startMu; the goroutine of Run stops        *)
(* processes, and only once the context is cancelled.                      *)
LockHeld ==
    /\ \A a \in Starters : pc[a] # "idle" => startMu = a
    /\ pc[Main] \notin {"spawn", "track"}
    /\ pc[Main] # "idle" => main = "stopall"
    /\ main \in {"cancelled", "stopall", "down"} => cancelled

(* Nothing hamr does to a process has reached p.                           *)
Untouched(p) == ~intr[p] /\ by[p] # "signal"

(* What a goroutine has in hand is of its rule and not tracked: it was     *)
(* taken out before it is stopped, or is yet to be entered.                *)
InHand(a) ==
    IF pc[a] \in {"idle", "untrack", "spawn"} THEN victim[a] = 0
    ELSE /\ victim[a] \in 1 .. born
         /\ rule[victim[a]] = want[a] /\ procs[want[a]] # victim[a]
         /\ IF pc[a] = "track"
               THEN wait[victim[a]] = "unborn" /\ starter[victim[a]] = a /\ Untouched(victim[a])
               ELSE wait[victim[a]] # "unborn"

(* Once StartProcess has untracked a rule, nobody enters another process.  *)
Vacant(a) == pc[a] \notin {"idle", "untrack"} => procs[want[a]] = 0

(* A tracked process is of the rule it is tracked under.                   *)
Tracked(r) ==
    procs[r] # 0 =>
        /\ procs[r] \in 1 .. born /\ rule[procs[r]] = r
        /\ wait[procs[r]] # "unborn" /\ Untouched(procs[r])

(* The Wait goroutine has got no further than its process.                 *)
WaitInOrder(p) ==
    /\ p > born <=> leader[p] = "unborn"
    /\ p > born => wait[p] = "unborn" /\ Untouched(p)
    /\ wait[p] \in {"pipes", "cleanup", "report", "gone"} \/ done[p] => leader[p] = "reaped"
    /\ wait[p] = "report" \/ p \in reported => leader[p] = "reaped" /\ Untouched(p)

(* Once StopAll has listed the processes, the scheduler starts no more.    *)
Listing ==
    main \in {"stopall", "down"} =>
        /\ pc[Scheduler] = "idle"
        /\ main = "down" => todo = {} /\ pc[Main] = "idle"

(* A process of the scheduler is listed, or the next that StopAll takes.   *)
Listed(r) ==
    main \in {"stopall", "down"} /\ procs[r] # 0 /\ starter[procs[r]] = Scheduler =>
        r \in todo \/ (pc[Main] = "untrack" /\ want[Main] = r)

(* NoLostProcess and OneLeader, of a process and of two.                   *)
NotLost(p) == leader[p] = "run" => procs[rule[p]] = p \/ \E a \in Actors : victim[a] = p
Apart(p, q) == p # q /\ leader[p] = "run" /\ leader[q] = "run" => rule[p] # rule[q]

(* The inductive invariant. *)
IInv ==
    /\ TypeOK /\ LockHeld /\ Listing
    /\ \A a \in Actors : InHand(a)
    /\ \A a \in Starters : Vacant(a)
    /\ \A r \in Rules : Tracked(r) /\ Listed(r)
    /\ \A p \in Procs : WaitInOrder(p) /\ NotLost(p)
    /\ \A p, q \in Procs : Apart(p, q)

(* The initial state satisfies the invariant.                              *)
LEMMA InitOK == Init => IInv
<1> SUFFICES ASSUME Init PROVE IInv  OBVIOUS
<1> USE ManagerAssumption DEF Init, Actors, Procs
<1>0. (CHOOSE r \in Rules : TRUE) \in Rules
  OBVIOUS
<1>1. TypeOK
  <2>1. rule \in [Procs -> Rules] /\ want \in [Actors -> Rules]
    BY <1>0
  <2>2. /\ procs \in [Rules -> 0 .. MaxProcs] /\ victim \in [Actors -> 0 .. MaxProcs]
        /\ born \in 0 .. MaxProcs /\ starter \in [Procs -> Starters]
    OBVIOUS
  <2> QED BY <2>1, <2>2 DEF TypeOK
<1>2. LockHeld /\ Listing
  BY DEF LockHeld, Listing
<1>3. \A a \in Actors : InHand(a) /\ Vacant(a)
  BY DEF InHand, Vacant
<1>4. \A r \in Rules : Tracked(r) /\ Listed(r)
  BY DEF Tracked, Listed
<1>5. \A p \in Procs : WaitInOrder(p) /\ NotLost(p)
  BY DEF WaitInOrder, NotLost, Untouched
<1>6. \A p, q \in Procs : Apart(p, q)
  BY DEF Apart
<1> QED BY <1>1, <1>2, <1>3, <1>4, <1>5, <1>6 DEF IInv

(* Every step keeps every variable in its type.                            *)
LEMMA TypeStep ==
    ASSUME IInv, [Next]_vars
    PROVE  TypeOK'
<1> USE ManagerAssumption DEF Actors, Procs
<1>g. TypeOK /\ LockHeld
  BY DEF IInv
<1>procs. procs \in [Rules -> 0 .. MaxProcs]
  BY <1>g DEF TypeOK
<1>startMu. startMu \in Starters \cup {Nobody}
  BY <1>g DEF TypeOK
<1>pc. pc \in [Actors -> {"idle", "untrack", "signal", "wait", "kill", "last", "spawn", "track"}]
  BY <1>g DEF TypeOK
<1>want. want \in [Actors -> Rules]
  BY <1>g DEF TypeOK
<1>victim. victim \in [Actors -> 0 .. MaxProcs]
  BY <1>g DEF TypeOK
<1>born. born \in 0 .. MaxProcs
  BY <1>g DEF TypeOK
<1>rule. rule \in [Procs -> Rules]
  BY <1>g DEF TypeOK
<1>starter. starter \in [Procs -> Starters]
  BY <1>g DEF TypeOK
<1>leader. leader \in [Procs -> {"unborn", "run", "exited", "reaped"}]
  BY <1>g DEF TypeOK
<1>by. by \in [Procs -> {"none", "clean", "crash", "signal", "cancel"}]
  BY <1>g DEF TypeOK
<1>group. group \in [Procs -> BOOLEAN]
  BY <1>g DEF TypeOK
<1>intr. intr \in [Procs -> BOOLEAN]
  BY <1>g DEF TypeOK
<1>wait. wait \in [Procs -> {"unborn", "wait", "pipes", "cleanup", "report", "gone"}]
  BY <1>g DEF TypeOK
<1>done. done \in [Procs -> BOOLEAN]
  BY <1>g DEF TypeOK
<1>reported. reported \in SUBSET Procs
  BY <1>g DEF TypeOK
<1>callback. callback \in BOOLEAN
  BY <1>g DEF TypeOK
<1>cancelled. cancelled \in BOOLEAN
  BY <1>g DEF TypeOK
<1>main. main \in {"run", "cleared", "cancelled", "stopall", "down"}
  BY <1>g DEF TypeOK
<1>todo. todo \in SUBSET Rules
  BY <1>g DEF TypeOK
<1>1. ASSUME NEW b \in Actors, Untrack(b) PROVE TypeOK'
  <2>1. pc' \in [Actors -> {"idle", "untrack", "signal", "wait", "kill", "last", "spawn", "track"}]
    BY <1>1, <1>pc DEF Untrack, Stopped, Goto
  <2>2. victim' \in [Actors -> 0 .. MaxProcs]
    BY <1>1, <1>victim, <1>procs, <1>want, <1>born DEF Untrack, Stopped, Goto
  <2>3. procs' \in [Rules -> 0 .. MaxProcs]
    BY <1>1, <1>procs, <1>want, <1>rule, <1>victim DEF Untrack, Stopped, Goto
  <2> QED BY <1>g, <1>1, <2>1, <2>2 DEF TypeOK, Untrack, procVars, waitVars, downVars
<1>2. ASSUME NEW b \in Actors, Interrupt(b) PROVE TypeOK'
  <2>1. pc' \in [Actors -> {"idle", "untrack", "signal", "wait", "kill", "last", "spawn", "track"}]
    BY <1>2, <1>pc DEF Interrupt, Goto
  <2>2. intr' \in [Procs -> BOOLEAN]
    BY <1>2, <1>intr DEF Interrupt, Goto
  <2> QED BY <1>g, <1>2, <2>1 DEF TypeOK, Interrupt, waitVars, downVars
<1>3. ASSUME NEW b \in Actors, StopDone(b) PROVE TypeOK'
  <2>1. pc' \in [Actors -> {"idle", "untrack", "signal", "wait", "kill", "last", "spawn", "track"}]
    BY <1>3, <1>pc DEF StopDone, Stopped, Goto
  <2>2. victim' \in [Actors -> 0 .. MaxProcs]
    BY <1>3, <1>victim, <1>procs, <1>want, <1>born DEF StopDone, Stopped, Goto
  <2> QED BY <1>g, <1>3, <2>1, <2>2 DEF TypeOK, StopDone, procVars, waitVars, downVars
<1>4. ASSUME NEW b \in Actors, StopTimeout(b) PROVE TypeOK'
  <2>1. pc' \in [Actors -> {"idle", "untrack", "signal", "wait", "kill", "last", "spawn", "track"}]
    BY <1>4, <1>pc DEF StopTimeout, Goto
  <2> QED BY <1>g, <1>4, <2>1 DEF TypeOK, StopTimeout, Goto, vars, actorVars, procVars, waitVars,
     downVars
<1>5. ASSUME NEW b \in Actors, ForceKill(b) PROVE TypeOK'
  <2>1. pc' \in [Actors -> {"idle", "untrack", "signal", "wait", "kill", "last", "spawn", "track"}]
    BY <1>5, <1>pc DEF ForceKill, Goto
  <2>2. group' \in [Procs -> BOOLEAN]
    BY <1>5, <1>group DEF ForceKill, Goto
  <2>3. leader' \in [Procs -> {"unborn", "run", "exited", "reaped"}]
    BY <1>5, <1>leader DEF ForceKill, Goto
  <2>4. by' \in [Procs -> {"none", "clean", "crash", "signal", "cancel"}]
    BY <1>5, <1>by DEF ForceKill, Goto
  <2> QED BY <1>g, <1>5, <2>1, <2>2, <2>4 DEF TypeOK, ForceKill, waitVars, downVars
<1>6. ASSUME NEW b \in Actors, StartFails(b) PROVE TypeOK'
  <2>1. pc' \in [Actors -> {"idle", "untrack", "signal", "wait", "kill", "last", "spawn", "track"}]
    BY <1>6, <1>pc DEF StartFails, Goto
  <2>2. startMu' \in Starters \cup {Nobody}
    BY <1>6, <1>startMu DEF StartFails, Goto
  <2> QED BY <1>g, <1>6, <2>1 DEF TypeOK, StartFails, procVars, waitVars, downVars
<1>7. ASSUME NEW b \in Actors, Spawn(b) PROVE TypeOK'
  <2>1. born' \in 0 .. MaxProcs
    BY <1>7, <1>born DEF Spawn, Goto
  <2>2. rule' \in [Procs -> Rules]
    BY <1>7, <1>rule, <1>want, <1>born DEF Spawn, Goto
  <2>3. starter' \in [Procs -> Starters]
    BY <1>7, <1>starter, <1>born, <1>g DEF Spawn, Goto, LockHeld
  <2>4. leader' \in [Procs -> {"unborn", "run", "exited", "reaped"}]
    BY <1>7, <1>leader DEF Spawn, Goto
  <2>5. group' \in [Procs -> BOOLEAN]
    BY <1>7, <1>group DEF Spawn, Goto
  <2>6. victim' \in [Actors -> 0 .. MaxProcs]
    BY <1>7, <1>victim, <1>procs, <1>want, <1>born DEF Spawn, Goto
  <2>7. pc' \in [Actors -> {"idle", "untrack", "signal", "wait", "kill", "last", "spawn", "track"}]
    BY <1>7, <1>pc DEF Spawn, Goto
  <2> QED BY <1>g, <1>7, <2>3, <2>5, <2>6, <2>7 DEF TypeOK, Spawn, waitVars, downVars
<1>8. ASSUME NEW b \in Actors, Track(b) PROVE TypeOK'
  <2>1. procs' \in [Rules -> 0 .. MaxProcs]
    BY <1>8, <1>procs, <1>want, <1>rule, <1>victim DEF Track, Goto
  <2>2. wait' \in [Procs -> {"unborn", "wait", "pipes", "cleanup", "report", "gone"}]
    BY <1>8, <1>wait DEF Track, Goto
  <2>3. victim' \in [Actors -> 0 .. MaxProcs]
    BY <1>8, <1>victim, <1>procs, <1>want, <1>born DEF Track, Goto
  <2>4. pc' \in [Actors -> {"idle", "untrack", "signal", "wait", "kill", "last", "spawn", "track"}]
    BY <1>8, <1>pc DEF Track, Goto
  <2>5. startMu' \in Starters \cup {Nobody}
    BY <1>8, <1>startMu DEF Track, Goto
  <2> QED BY <1>g, <1>8, <2>3, <2>4 DEF TypeOK, Track, procVars, downVars
<1>9. ASSUME NEW b \in Starters, NEW s \in Rules, Begin(b, s) PROVE TypeOK'
  <2>1. startMu' \in Starters \cup {Nobody}
    BY <1>9, <1>startMu DEF Begin, Goto
  <2>2. want' \in [Actors -> Rules]
    BY <1>9, <1>want DEF Begin, Goto
  <2>3. pc' \in [Actors -> {"idle", "untrack", "signal", "wait", "kill", "last", "spawn", "track"}]
    BY <1>9, <1>pc DEF Begin, Goto
  <2> QED BY <1>g, <1>9, <2>3 DEF TypeOK, Begin, procVars, waitVars, downVars
<1>10. ASSUME NEW q \in Procs, Exit(q) PROVE TypeOK'
  <2>1. leader' \in [Procs -> {"unborn", "run", "exited", "reaped"}]
    BY <1>10, <1>leader DEF Exit
  <2>2. by' \in [Procs -> {"none", "clean", "crash", "signal", "cancel"}]
    BY <1>10, <1>by DEF Exit
  <2> QED BY <1>g, <1>10, <2>1, <2>2 DEF TypeOK, Exit, vars, actorVars, procVars, waitVars, downVars
<1>11. ASSUME NEW q \in Procs, CancelKill(q) PROVE TypeOK'
  <2>1. leader' \in [Procs -> {"unborn", "run", "exited", "reaped"}]
    BY <1>11, <1>leader DEF CancelKill
  <2>2. by' \in [Procs -> {"none", "clean", "crash", "signal", "cancel"}]
    BY <1>11, <1>by DEF CancelKill
  <2> QED BY <1>g, <1>11, <2>1, <2>2 DEF TypeOK, CancelKill, vars, actorVars, procVars, waitVars,
     downVars
<1>12. ASSUME NEW q \in Procs, GroupExit(q) PROVE TypeOK'
  <2>1. group' \in [Procs -> BOOLEAN]
    BY <1>12, <1>group DEF GroupExit
  <2> QED BY <1>g, <1>12, <2>1 DEF TypeOK, GroupExit, vars, actorVars, procVars, waitVars, downVars
<1>13. ASSUME NEW q \in Procs, Reap(q) PROVE TypeOK'
  <2>1. leader' \in [Procs -> {"unborn", "run", "exited", "reaped"}]
    BY <1>13, <1>leader DEF Reap
  <2>2. wait' \in [Procs -> {"unborn", "wait", "pipes", "cleanup", "report", "gone"}]
    BY <1>13, <1>wait DEF Reap
  <2> QED BY <1>g, <1>13, <2>1, <2>2 DEF TypeOK, Reap, vars, actorVars, procVars, waitVars, downVars
<1>14. ASSUME NEW q \in Procs, PipesClosed(q) PROVE TypeOK'
  <2>1. done' \in [Procs -> BOOLEAN]
    BY <1>14, <1>done DEF PipesClosed
  <2>2. wait' \in [Procs -> {"unborn", "wait", "pipes", "cleanup", "report", "gone"}]
    BY <1>14, <1>wait DEF PipesClosed
  <2> QED BY <1>g, <1>14, <2>1, <2>2 DEF TypeOK, PipesClosed, vars, actorVars, procVars, waitVars,
     downVars
<1>15. ASSUME NEW q \in Procs, Cleanup(q) PROVE TypeOK'
  <2>1. procs' \in [Rules -> 0 .. MaxProcs]
    BY <1>15, <1>procs, <1>want, <1>rule, <1>victim DEF Cleanup
  <2>2. wait' \in [Procs -> {"unborn", "wait", "pipes", "cleanup", "report", "gone"}]
    BY <1>15, <1>wait DEF Cleanup
  <2> QED BY <1>g, <1>15, <2>1, <2>2 DEF TypeOK, Cleanup, vars, actorVars, procVars, waitVars,
     downVars
<1>16. ASSUME NEW q \in Procs, Report(q) PROVE TypeOK'
  <2>1. reported' \in SUBSET Procs
    BY <1>16, <1>reported DEF Report
  <2>2. wait' \in [Procs -> {"unborn", "wait", "pipes", "cleanup", "report", "gone"}]
    BY <1>16, <1>wait DEF Report
  <2> QED BY <1>g, <1>16, <2>1, <2>2 DEF TypeOK, Report, vars, actorVars, procVars, waitVars,
     downVars
<1>17. CASE Quit
  <2>1. cancelled' \in BOOLEAN
    BY <1>17, <1>cancelled DEF Quit
  <2> QED BY <1>g, <1>17, <2>1 DEF TypeOK, Quit, vars, actorVars, procVars, waitVars, downVars
<1>18. CASE ClearCallbacks
  <2>1. callback' \in BOOLEAN
    BY <1>18, <1>callback DEF ClearCallbacks
  <2>2. main' \in {"run", "cleared", "cancelled", "stopall", "down"}
    BY <1>18, <1>main DEF ClearCallbacks
  <2> QED BY <1>g, <1>18, <2>1, <2>2 DEF TypeOK, ClearCallbacks, vars, actorVars, procVars,
     waitVars, downVars
<1>19. CASE Cancel
  <2>1. cancelled' \in BOOLEAN
    BY <1>19, <1>cancelled DEF Cancel
  <2>2. main' \in {"run", "cleared", "cancelled", "stopall", "down"}
    BY <1>19, <1>main DEF Cancel
  <2> QED BY <1>g, <1>19, <2>1, <2>2 DEF TypeOK, Cancel, vars, actorVars, procVars, waitVars,
     downVars
<1>20. CASE StopAll
  <2>1. todo' \in SUBSET Rules
    BY <1>20, <1>todo DEF StopAll
  <2>2. main' \in {"run", "cleared", "cancelled", "stopall", "down"}
    BY <1>20, <1>main DEF StopAll
  <2> QED BY <1>g, <1>20, <2>1, <2>2 DEF TypeOK, StopAll, vars, actorVars, procVars, waitVars,
     downVars
<1>21. CASE AllStopped
  <2>1. main' \in {"run", "cleared", "cancelled", "stopall", "down"}
    BY <1>21, <1>main DEF AllStopped
  <2> QED BY <1>g, <1>21, <2>1 DEF TypeOK, AllStopped, vars, actorVars, procVars, waitVars, downVars
<1>22. ASSUME NEW s \in Rules, StopNext(s) PROVE TypeOK'
  <2>1. todo' \in SUBSET Rules
    BY <1>22, <1>todo DEF StopNext, Goto
  <2>2. want' \in [Actors -> Rules]
    BY <1>22, <1>want DEF StopNext, Goto
  <2>3. pc' \in [Actors -> {"idle", "untrack", "signal", "wait", "kill", "last", "spawn", "track"}]
    BY <1>22, <1>pc DEF StopNext, Goto
  <2> QED BY <1>g, <1>22, <2>3 DEF TypeOK, StopNext, procVars, waitVars
<1>23. CASE UNCHANGED vars
  BY <1>g, <1>23 DEF TypeOK, vars, actorVars, procVars, waitVars, downVars
<1> QED
  BY <1>1, <1>2, <1>3, <1>4, <1>5, <1>6, <1>7, <1>8, <1>9, <1>10, <1>11, <1>12, <1>13, <1>14, <1>15,
     <1>16, <1>17, <1>18, <1>19, <1>20, <1>21, <1>22, <1>23 DEF Next, ActorStep, WaitStep

(* startMu is held through every StartProcess, and shutdown is in order.   *)
LEMMA LockStep ==
    ASSUME IInv, [Next]_vars
    PROVE  LockHeld'
<1> USE ManagerAssumption DEF Actors, Procs
<1>g. LockHeld
  BY DEF IInv
<1>pc. pc \in [Actors -> {"idle", "untrack", "signal", "wait", "kill", "last", "spawn", "track"}]
  BY DEF IInv, TypeOK
<1>1. ASSUME NEW b \in Actors, Untrack(b) PROVE LockHeld'
  BY <1>g, <1>1, <1>pc DEF LockHeld, Untrack, Stopped, Goto, downVars
<1>2. ASSUME NEW b \in Actors, Interrupt(b) PROVE LockHeld'
  BY <1>g, <1>2, <1>pc DEF LockHeld, Interrupt, Goto, vars, actorVars, procVars, waitVars, downVars
<1>3. ASSUME NEW b \in Actors, StopDone(b) PROVE LockHeld'
  BY <1>g, <1>3 DEF LockHeld, StopDone, Stopped, Goto, downVars
<1>4. ASSUME NEW b \in Actors, StopTimeout(b) PROVE LockHeld'
  BY <1>g, <1>4, <1>pc DEF LockHeld, StopTimeout, Goto, vars, actorVars, procVars, waitVars,
     downVars
<1>5. ASSUME NEW b \in Actors, ForceKill(b) PROVE LockHeld'
  BY <1>g, <1>5, <1>pc DEF LockHeld, ForceKill, Goto, vars, actorVars, procVars, waitVars, downVars
<1>6. ASSUME NEW b \in Actors, StartFails(b) PROVE LockHeld'
  BY <1>g, <1>6, <1>pc DEF LockHeld, StartFails, Goto, vars, actorVars, procVars, waitVars, downVars
<1>7. ASSUME NEW b \in Actors, Spawn(b) PROVE LockHeld'
  BY <1>g, <1>7, <1>pc DEF LockHeld, Spawn, Goto, vars, actorVars, procVars, waitVars, downVars
<1>8. ASSUME NEW b \in Actors, Track(b) PROVE LockHeld'
  BY <1>g, <1>8, <1>pc DEF LockHeld, Track, Goto, vars, actorVars, procVars, waitVars, downVars
<1>9. ASSUME NEW b \in Starters, NEW s \in Rules, Begin(b, s) PROVE LockHeld'
  BY <1>g, <1>9, <1>pc DEF LockHeld, Begin, Goto, vars, actorVars, procVars, waitVars, downVars
<1>10. ASSUME NEW q \in Procs, Exit(q) PROVE LockHeld'
  BY <1>g, <1>10 DEF LockHeld, Exit, vars, actorVars, procVars, waitVars, downVars
<1>11. ASSUME NEW q \in Procs, CancelKill(q) PROVE LockHeld'
  BY <1>g, <1>11 DEF LockHeld, CancelKill, vars, actorVars, procVars, waitVars, downVars
<1>12. ASSUME NEW q \in Procs, GroupExit(q) PROVE LockHeld'
  BY <1>g, <1>12 DEF LockHeld, GroupExit, vars, actorVars, procVars, waitVars, downVars
<1>13. ASSUME NEW q \in Procs, Reap(q) PROVE LockHeld'
  BY <1>g, <1>13 DEF LockHeld, Reap, vars, actorVars, procVars, waitVars, downVars
<1>14. ASSUME NEW q \in Procs, PipesClosed(q) PROVE LockHeld'
  BY <1>g, <1>14 DEF LockHeld, PipesClosed, vars, actorVars, procVars, waitVars, downVars
<1>15. ASSUME NEW q \in Procs, Cleanup(q) PROVE LockHeld'
  BY <1>g, <1>15 DEF LockHeld, Cleanup, vars, actorVars, procVars, waitVars, downVars
<1>16. ASSUME NEW q \in Procs, Report(q) PROVE LockHeld'
  BY <1>g, <1>16 DEF LockHeld, Report, vars, actorVars, procVars, waitVars, downVars
<1>17. CASE Quit
  BY <1>g, <1>17 DEF LockHeld, Quit, vars, actorVars, procVars, waitVars, downVars
<1>18. CASE ClearCallbacks
  BY <1>g, <1>18 DEF LockHeld, ClearCallbacks, vars, actorVars, procVars, waitVars, downVars
<1>19. CASE Cancel
  BY <1>g, <1>19 DEF LockHeld, Cancel, vars, actorVars, procVars, waitVars, downVars
<1>20. CASE StopAll
  BY <1>g, <1>20 DEF LockHeld, StopAll, vars, actorVars, procVars, waitVars, downVars
<1>21. CASE AllStopped
  BY <1>g, <1>21 DEF LockHeld, AllStopped, vars, actorVars, procVars, waitVars, downVars
<1>22. ASSUME NEW s \in Rules, StopNext(s) PROVE LockHeld'
  BY <1>g, <1>22, <1>pc DEF LockHeld, StopNext, Goto, vars, actorVars, procVars, waitVars, downVars
<1>23. CASE UNCHANGED vars
  BY <1>g, <1>23 DEF LockHeld, vars, actorVars, procVars, waitVars, downVars
<1> QED
  BY <1>1, <1>2, <1>3, <1>4, <1>5, <1>6, <1>7, <1>8, <1>9, <1>10, <1>11, <1>12, <1>13, <1>14, <1>15,
     <1>16, <1>17, <1>18, <1>19, <1>20, <1>21, <1>22, <1>23 DEF Next, ActorStep, WaitStep

(* What a goroutine has in hand stays untracked until it lets go of it.    *)
LEMMA HandStep ==
    ASSUME IInv, [Next]_vars, NEW a \in Actors
    PROVE  InHand(a)'
<1> USE ManagerAssumption DEF Actors, Procs
<1>g. InHand(a)
  BY DEF IInv
<1>procs. procs \in [Rules -> 0 .. MaxProcs]
  BY DEF IInv, TypeOK
<1>pc. pc \in [Actors -> {"idle", "untrack", "signal", "wait", "kill", "last", "spawn", "track"}]
  BY DEF IInv, TypeOK
<1>want. want \in [Actors -> Rules]
  BY DEF IInv, TypeOK
<1>victim. victim \in [Actors -> 0 .. MaxProcs]
  BY DEF IInv, TypeOK
<1>born. born \in 0 .. MaxProcs
  BY DEF IInv, TypeOK
<1>rule. rule \in [Procs -> Rules]
  BY DEF IInv, TypeOK
<1>starter. starter \in [Procs -> Starters]
  BY DEF IInv, TypeOK
<1>by. by \in [Procs -> {"none", "clean", "crash", "signal", "cancel"}]
  BY DEF IInv, TypeOK
<1>intr. intr \in [Procs -> BOOLEAN]
  BY DEF IInv, TypeOK
<1>wait. wait \in [Procs -> {"unborn", "wait", "pipes", "cleanup", "report", "gone"}]
  BY DEF IInv, TypeOK
<1>1. ASSUME NEW b \in Actors, Untrack(b) PROVE InHand(a)'
  <2>1. InHand(b) /\ Tracked(want[b])
    BY <1>1, <1>born, <1>pc, <1>victim, <1>procs, <1>want DEF IInv
  <2> QED BY <1>g, <1>1, <2>1, <1>pc, <1>victim, <1>procs, <1>want DEF InHand, Untouched, Tracked,
     Untrack, Stopped, Goto, procVars, waitVars
<1>2. ASSUME NEW b \in Actors, Interrupt(b) PROVE InHand(a)'
  <2>1. InHand(b)
    BY <1>2, <1>born, <1>pc, <1>intr DEF IInv
  <2> QED BY <1>g, <1>2, <2>1 DEF InHand, Untouched, Interrupt, Goto, waitVars
<1>3. ASSUME NEW b \in Actors, StopDone(b) PROVE InHand(a)'
  <2>1. InHand(b)
    BY <1>3, <1>born, <1>pc, <1>victim DEF IInv
  <2> QED BY <1>g, <1>3, <1>pc, <1>victim DEF InHand, Untouched, StopDone, Stopped, Goto, procVars,
     waitVars
<1>4. ASSUME NEW b \in Actors, StopTimeout(b) PROVE InHand(a)'
  BY <1>g, <1>4 DEF InHand, Untouched, StopTimeout, Goto, procVars, waitVars
<1>5. ASSUME NEW b \in Actors, ForceKill(b) PROVE InHand(a)'
  <2>1. InHand(b)
    BY <1>5, <1>born, <1>pc, <1>by DEF IInv
  <2> QED BY <1>g, <1>5, <2>1, <1>born, <1>by DEF InHand, Untouched, ForceKill, Goto, waitVars
<1>6. ASSUME NEW b \in Actors, StartFails(b) PROVE InHand(a)'
  BY <1>g, <1>6 DEF InHand, Untouched, StartFails, Goto, procVars, waitVars
<1>7. ASSUME NEW b \in Actors, Spawn(b) PROVE InHand(a)'
  <2>1. Tracked(want[b]) /\ WaitInOrder(born + 1)
    BY <1>7, <1>born, <1>rule, <1>starter, <1>victim, <1>pc, <1>want DEF IInv, Spawn
  <2> QED BY <1>g, <1>7, <2>1, <1>born, <1>rule, <1>starter, <1>victim, <1>pc DEF InHand, Untouched,
     Tracked, WaitInOrder, Spawn, Goto, waitVars
<1>8. ASSUME NEW b \in Actors, Track(b) PROVE InHand(a)'
  <2>1. InHand(b) /\ LockHeld
    BY <1>8, <1>born, <1>procs, <1>wait, <1>victim, <1>pc DEF IInv
  <2> QED BY <1>g, <1>8, <2>1, <1>victim, <1>pc DEF InHand, LockHeld, Track, Goto, procVars
<1>9. ASSUME NEW b \in Starters, NEW s \in Rules, Begin(b, s) PROVE InHand(a)'
  <2>1. InHand(b)
    BY <1>9, <1>born, <1>want, <1>pc DEF IInv
  <2> QED BY <1>g, <1>9 DEF InHand, Untouched, Begin, Goto, procVars, waitVars
<1>10. ASSUME NEW q \in Procs, Exit(q) PROVE InHand(a)'
  BY <1>g, <1>10 DEF InHand, Untouched, Exit, actorVars, waitVars
<1>11. ASSUME NEW q \in Procs, CancelKill(q) PROVE InHand(a)'
  BY <1>g, <1>11 DEF InHand, Untouched, CancelKill, actorVars, waitVars
<1>12. ASSUME NEW q \in Procs, GroupExit(q) PROVE InHand(a)'
  BY <1>g, <1>12 DEF InHand, Untouched, GroupExit, actorVars, waitVars
<1>13. ASSUME NEW q \in Procs, Reap(q) PROVE InHand(a)'
  BY <1>g, <1>13 DEF InHand, Untouched, Reap, actorVars
<1>14. ASSUME NEW q \in Procs, PipesClosed(q) PROVE InHand(a)'
  BY <1>g, <1>14 DEF InHand, Untouched, PipesClosed, actorVars, procVars
<1>15. ASSUME NEW q \in Procs, Cleanup(q) PROVE InHand(a)'
  BY <1>g, <1>15 DEF InHand, Untouched, Cleanup, actorVars, procVars
<1>16. ASSUME NEW q \in Procs, Report(q) PROVE InHand(a)'
  BY <1>g, <1>16 DEF InHand, Untouched, Report, actorVars, procVars
<1>17. CASE Quit
  BY <1>g, <1>17 DEF InHand, Untouched, Quit, actorVars, procVars, waitVars
<1>18. CASE ClearCallbacks
  BY <1>g, <1>18 DEF InHand, Untouched, ClearCallbacks, actorVars, procVars, waitVars
<1>19. CASE Cancel
  BY <1>g, <1>19 DEF InHand, Untouched, Cancel, actorVars, procVars, waitVars
<1>20. CASE StopAll
  BY <1>g, <1>20 DEF InHand, Untouched, StopAll, actorVars, procVars, waitVars
<1>21. CASE AllStopped
  BY <1>g, <1>21 DEF InHand, Untouched, AllStopped, actorVars, procVars, waitVars
<1>22. ASSUME NEW s \in Rules, StopNext(s) PROVE InHand(a)'
  BY <1>g, <1>22 DEF InHand, Untouched, StopNext, Goto, procVars, waitVars
<1>23. CASE UNCHANGED vars
  BY <1>g, <1>23 DEF InHand, Untouched, vars, actorVars, procVars, waitVars
<1> QED
  BY <1>1, <1>2, <1>3, <1>4, <1>5, <1>6, <1>7, <1>8, <1>9, <1>10, <1>11, <1>12, <1>13, <1>14, <1>15,
     <1>16, <1>17, <1>18, <1>19, <1>20, <1>21, <1>22, <1>23 DEF Next, ActorStep, WaitStep

(* Only the holder of startMu enters a process.                            *)
LEMMA VacantStep ==
    ASSUME IInv, [Next]_vars, NEW a \in Starters
    PROVE  Vacant(a)'
<1> USE ManagerAssumption DEF Actors, Procs
<1>g. Vacant(a)
  BY DEF IInv
<1>procs. procs \in [Rules -> 0 .. MaxProcs]
  BY DEF IInv, TypeOK
<1>pc. pc \in [Actors -> {"idle", "untrack", "signal", "wait", "kill", "last", "spawn", "track"}]
  BY DEF IInv, TypeOK
<1>want. want \in [Actors -> Rules]
  BY DEF IInv, TypeOK
<1>born. born \in 0 .. MaxProcs
  BY DEF IInv, TypeOK
<1>1. ASSUME NEW b \in Actors, Untrack(b) PROVE Vacant(a)'
  BY <1>g, <1>1, <1>pc, <1>procs, <1>want DEF Vacant, Untrack, Stopped, Goto
<1>2. ASSUME NEW b \in Actors, Interrupt(b) PROVE Vacant(a)'
  BY <1>g, <1>2 DEF Vacant, Interrupt, Goto
<1>3. ASSUME NEW b \in Actors, StopDone(b) PROVE Vacant(a)'
  BY <1>g, <1>3 DEF Vacant, StopDone, Stopped, Goto
<1>4. ASSUME NEW b \in Actors, StopTimeout(b) PROVE Vacant(a)'
  BY <1>g, <1>4 DEF Vacant, StopTimeout, Goto
<1>5. ASSUME NEW b \in Actors, ForceKill(b) PROVE Vacant(a)'
  BY <1>g, <1>5 DEF Vacant, ForceKill, Goto
<1>6. ASSUME NEW b \in Actors, StartFails(b) PROVE Vacant(a)'
  BY <1>g, <1>6 DEF Vacant, StartFails, Goto
<1>7. ASSUME NEW b \in Actors, Spawn(b) PROVE Vacant(a)'
  BY <1>g, <1>7 DEF Vacant, Spawn, Goto
<1>8. ASSUME NEW b \in Actors, Track(b) PROVE Vacant(a)'
  <2>1. LockHeld
    BY <1>8, <1>born, <1>procs, <1>pc DEF IInv
  <2> QED BY <1>8, <2>1, <1>pc DEF Vacant, LockHeld, Track, Goto
<1>9. ASSUME NEW b \in Starters, NEW s \in Rules, Begin(b, s) PROVE Vacant(a)'
  BY <1>g, <1>9 DEF Vacant, Begin, Goto
<1>10. ASSUME NEW q \in Procs, Exit(q) PROVE Vacant(a)'
  BY <1>g, <1>10 DEF Vacant, LockHeld, Exit, vars, actorVars, procVars, waitVars, downVars
<1>11. ASSUME NEW q \in Procs, CancelKill(q) PROVE Vacant(a)'
  BY <1>g, <1>11 DEF Vacant, LockHeld, CancelKill, vars, actorVars, procVars, waitVars, downVars
<1>12. ASSUME NEW q \in Procs, GroupExit(q) PROVE Vacant(a)'
  BY <1>g, <1>12 DEF Vacant, LockHeld, GroupExit, vars, actorVars, procVars, waitVars, downVars
<1>13. ASSUME NEW q \in Procs, Reap(q) PROVE Vacant(a)'
  BY <1>g, <1>13 DEF Vacant, LockHeld, Reap, vars, actorVars, procVars, waitVars, downVars
<1>14. ASSUME NEW q \in Procs, PipesClosed(q) PROVE Vacant(a)'
  BY <1>g, <1>14 DEF Vacant, LockHeld, PipesClosed, vars, actorVars, procVars, waitVars, downVars
<1>15. ASSUME NEW q \in Procs, Cleanup(q) PROVE Vacant(a)'
  BY <1>g, <1>15 DEF Vacant, Cleanup, actorVars
<1>16. ASSUME NEW q \in Procs, Report(q) PROVE Vacant(a)'
  BY <1>g, <1>16 DEF Vacant, LockHeld, Report, vars, actorVars, procVars, waitVars, downVars
<1>17. CASE Quit
  BY <1>g, <1>17 DEF Vacant, LockHeld, Quit, vars, actorVars, procVars, waitVars, downVars
<1>18. CASE ClearCallbacks
  BY <1>g, <1>18 DEF Vacant, LockHeld, ClearCallbacks, vars, actorVars, procVars, waitVars, downVars
<1>19. CASE Cancel
  BY <1>g, <1>19 DEF Vacant, LockHeld, Cancel, vars, actorVars, procVars, waitVars, downVars
<1>20. CASE StopAll
  BY <1>g, <1>20 DEF Vacant, LockHeld, StopAll, vars, actorVars, procVars, waitVars, downVars
<1>21. CASE AllStopped
  BY <1>g, <1>21 DEF Vacant, LockHeld, AllStopped, vars, actorVars, procVars, waitVars, downVars
<1>22. ASSUME NEW s \in Rules, StopNext(s) PROVE Vacant(a)'
  BY <1>g, <1>22 DEF Vacant, StopNext, Goto
<1>23. CASE UNCHANGED vars
  BY <1>g, <1>23 DEF Vacant, LockHeld, vars, actorVars, procVars, waitVars, downVars
<1> QED
  BY <1>1, <1>2, <1>3, <1>4, <1>5, <1>6, <1>7, <1>8, <1>9, <1>10, <1>11, <1>12, <1>13, <1>14, <1>15,
     <1>16, <1>17, <1>18, <1>19, <1>20, <1>21, <1>22, <1>23 DEF Next, ActorStep, WaitStep

(* A tracked process is the one its rule names, and nobody has touched it. *)
LEMMA TrackedStep ==
    ASSUME IInv, [Next]_vars, NEW r \in Rules
    PROVE  Tracked(r)'
<1> USE ManagerAssumption DEF Actors, Procs
<1>g. Tracked(r)
  BY DEF IInv
<1>procs. procs \in [Rules -> 0 .. MaxProcs]
  BY DEF IInv, TypeOK
<1>want. want \in [Actors -> Rules]
  BY DEF IInv, TypeOK
<1>born. born \in 0 .. MaxProcs
  BY DEF IInv, TypeOK
<1>by. by \in [Procs -> {"none", "clean", "crash", "signal", "cancel"}]
  BY DEF IInv, TypeOK
<1>intr. intr \in [Procs -> BOOLEAN]
  BY DEF IInv, TypeOK
<1>wait. wait \in [Procs -> {"unborn", "wait", "pipes", "cleanup", "report", "gone"}]
  BY DEF IInv, TypeOK
<1>1. ASSUME NEW b \in Actors, Untrack(b) PROVE Tracked(r)'
  <2>1. InHand(b)
    BY <1>1, <1>born, <1>procs, <1>want DEF IInv
  <2> QED BY <1>g, <1>1 DEF Tracked, Untouched, Untrack, procVars, waitVars
<1>2. ASSUME NEW b \in Actors, Interrupt(b) PROVE Tracked(r)'
  <2>1. InHand(b)
    BY <1>2, <1>born, <1>intr DEF IInv
  <2> QED BY <1>g, <1>2, <2>1 DEF Tracked, Untouched, InHand, Interrupt, waitVars
<1>3. ASSUME NEW b \in Actors, StopDone(b) PROVE Tracked(r)'
  BY <1>g, <1>3 DEF Tracked, Untouched, StopDone, procVars, waitVars
<1>4. ASSUME NEW b \in Actors, StopTimeout(b) PROVE Tracked(r)'
  BY <1>g, <1>4 DEF Tracked, Untouched, StopTimeout, procVars, waitVars
<1>5. ASSUME NEW b \in Actors, ForceKill(b) PROVE Tracked(r)'
  <2>1. InHand(b)
    BY <1>5, <1>born, <1>by DEF IInv
  <2> QED BY <1>g, <1>5, <2>1, <1>born, <1>by DEF Tracked, Untouched, InHand, ForceKill, waitVars
<1>6. ASSUME NEW b \in Actors, StartFails(b) PROVE Tracked(r)'
  BY <1>g, <1>6 DEF Tracked, Untouched, StartFails, procVars, waitVars
<1>7. ASSUME NEW b \in Actors, Spawn(b) PROVE Tracked(r)'
  BY <1>g, <1>7, <1>born DEF Tracked, Untouched, Spawn, waitVars
<1>8. ASSUME NEW b \in Actors, Track(b) PROVE Tracked(r)'
  <2>1. InHand(b)
    BY <1>8, <1>born, <1>procs, <1>wait DEF IInv
  <2> QED BY <1>g, <1>8, <2>1, <1>born, <1>wait DEF Tracked, Untouched, InHand, Track, procVars
<1>9. ASSUME NEW b \in Starters, NEW s \in Rules, Begin(b, s) PROVE Tracked(r)'
  BY <1>g, <1>9 DEF Tracked, Untouched, Begin, procVars, waitVars
<1>10. ASSUME NEW q \in Procs, Exit(q) PROVE Tracked(r)'
  BY <1>g, <1>10 DEF Tracked, Untouched, Exit, waitVars
<1>11. ASSUME NEW q \in Procs, CancelKill(q) PROVE Tracked(r)'
  BY <1>g, <1>11 DEF Tracked, Untouched, CancelKill, waitVars
<1>12. ASSUME NEW q \in Procs, GroupExit(q) PROVE Tracked(r)'
  BY <1>g, <1>12 DEF Tracked, Untouched, InHand, GroupExit, vars, actorVars, procVars, waitVars,
     downVars
<1>13. ASSUME NEW q \in Procs, Reap(q) PROVE Tracked(r)'
  BY <1>g, <1>13 DEF Tracked, Untouched, Reap
<1>14. ASSUME NEW q \in Procs, PipesClosed(q) PROVE Tracked(r)'
  BY <1>g, <1>14 DEF Tracked, Untouched, PipesClosed, procVars
<1>15. ASSUME NEW q \in Procs, Cleanup(q) PROVE Tracked(r)'
  BY <1>g, <1>15 DEF Tracked, Untouched, Cleanup, procVars
<1>16. ASSUME NEW q \in Procs, Report(q) PROVE Tracked(r)'
  BY <1>g, <1>16 DEF Tracked, Untouched, Report, procVars
<1>17. CASE Quit
  BY <1>g, <1>17 DEF Tracked, Untouched, InHand, Quit, vars, actorVars, procVars, waitVars, downVars
<1>18. CASE ClearCallbacks
  BY <1>g, <1>18 DEF Tracked, Untouched, InHand, ClearCallbacks, vars, actorVars, procVars,
     waitVars, downVars
<1>19. CASE Cancel
  BY <1>g, <1>19 DEF Tracked, Untouched, InHand, Cancel, vars, actorVars, procVars, waitVars,
     downVars
<1>20. CASE StopAll
  BY <1>g, <1>20 DEF Tracked, Untouched, InHand, StopAll, vars, actorVars, procVars, waitVars,
     downVars
<1>21. CASE AllStopped
  BY <1>g, <1>21 DEF Tracked, Untouched, InHand, AllStopped, vars, actorVars, procVars, waitVars,
     downVars
<1>22. ASSUME NEW s \in Rules, StopNext(s) PROVE Tracked(r)'
  BY <1>g, <1>22 DEF Tracked, Untouched, StopNext, procVars, waitVars
<1>23. CASE UNCHANGED vars
  BY <1>g, <1>23 DEF Tracked, Untouched, InHand, vars, actorVars, procVars, waitVars, downVars
<1> QED
  BY <1>1, <1>2, <1>3, <1>4, <1>5, <1>6, <1>7, <1>8, <1>9, <1>10, <1>11, <1>12, <1>13, <1>14, <1>15,
     <1>16, <1>17, <1>18, <1>19, <1>20, <1>21, <1>22, <1>23 DEF Next, ActorStep, WaitStep

(* The Wait goroutine follows its process.                                 *)
LEMMA WaitOrderStep ==
    ASSUME IInv, [Next]_vars, NEW p \in Procs
    PROVE  WaitInOrder(p)'
<1> USE ManagerAssumption DEF Actors, Procs
<1>g. WaitInOrder(p)
  BY DEF IInv
<1>born. born \in 0 .. MaxProcs
  BY DEF IInv, TypeOK
<1>rule. rule \in [Procs -> Rules]
  BY DEF IInv, TypeOK
<1>leader. leader \in [Procs -> {"unborn", "run", "exited", "reaped"}]
  BY DEF IInv, TypeOK
<1>by. by \in [Procs -> {"none", "clean", "crash", "signal", "cancel"}]
  BY DEF IInv, TypeOK
<1>intr. intr \in [Procs -> BOOLEAN]
  BY DEF IInv, TypeOK
<1>wait. wait \in [Procs -> {"unborn", "wait", "pipes", "cleanup", "report", "gone"}]
  BY DEF IInv, TypeOK
<1>1. ASSUME NEW b \in Actors, Untrack(b) PROVE WaitInOrder(p)'
  BY <1>g, <1>1 DEF WaitInOrder, Untouched, Untrack, procVars, waitVars
<1>2. ASSUME NEW b \in Actors, Interrupt(b) PROVE WaitInOrder(p)'
  <2>1. InHand(b)
    BY <1>2, <1>born, <1>rule, <1>intr DEF IInv
  <2> QED BY <1>g, <1>2, <2>1, <1>intr DEF WaitInOrder, Untouched, InHand, Interrupt, waitVars
<1>3. ASSUME NEW b \in Actors, StopDone(b) PROVE WaitInOrder(p)'
  BY <1>g, <1>3 DEF WaitInOrder, Untouched, StopDone, procVars, waitVars
<1>4. ASSUME NEW b \in Actors, StopTimeout(b) PROVE WaitInOrder(p)'
  BY <1>g, <1>4 DEF WaitInOrder, Untouched, StopTimeout, procVars, waitVars
<1>5. ASSUME NEW b \in Actors, ForceKill(b) PROVE WaitInOrder(p)'
  <2>1. InHand(b)
    BY <1>5, <1>born, <1>rule, <1>leader, <1>by DEF IInv
  <2> QED BY <1>g, <1>5, <2>1, <1>leader, <1>by DEF WaitInOrder, Untouched, InHand, ForceKill,
     waitVars
<1>6. ASSUME NEW b \in Actors, StartFails(b) PROVE WaitInOrder(p)'
  BY <1>g, <1>6 DEF WaitInOrder, Untouched, StartFails, procVars, waitVars
<1>7. ASSUME NEW b \in Actors, Spawn(b) PROVE WaitInOrder(p)'
  BY <1>g, <1>7, <1>born, <1>leader DEF WaitInOrder, Untouched, Spawn, waitVars
<1>8. ASSUME NEW b \in Actors, Track(b) PROVE WaitInOrder(p)'
  <2>1. InHand(b)
    BY <1>8, <1>born, <1>rule, <1>wait DEF IInv
  <2> QED BY <1>g, <1>8, <2>1, <1>born DEF WaitInOrder, Untouched, InHand, Track, procVars
<1>9. ASSUME NEW b \in Starters, NEW s \in Rules, Begin(b, s) PROVE WaitInOrder(p)'
  BY <1>g, <1>9 DEF WaitInOrder, Untouched, Begin, procVars, waitVars
<1>10. ASSUME NEW q \in Procs, Exit(q) PROVE WaitInOrder(p)'
  BY <1>g, <1>10 DEF WaitInOrder, Untouched, Exit, waitVars
<1>11. ASSUME NEW q \in Procs, CancelKill(q) PROVE WaitInOrder(p)'
  BY <1>g, <1>11 DEF WaitInOrder, Untouched, CancelKill, waitVars
<1>12. ASSUME NEW q \in Procs, GroupExit(q) PROVE WaitInOrder(p)'
  BY <1>g, <1>12 DEF WaitInOrder, Untouched, GroupExit, waitVars
<1>13. ASSUME NEW q \in Procs, Reap(q) PROVE WaitInOrder(p)'
  BY <1>g, <1>13, <1>leader DEF WaitInOrder, Untouched, Reap
<1>14. ASSUME NEW q \in Procs, PipesClosed(q) PROVE WaitInOrder(p)'
  BY <1>g, <1>14 DEF WaitInOrder, Untouched, PipesClosed, procVars
<1>15. ASSUME NEW q \in Procs, Cleanup(q) PROVE WaitInOrder(p)'
  <2>1. rule[q] \in Rules /\ Tracked(rule[q])
    BY <1>15, <1>born, <1>rule, <1>wait DEF IInv
  <2> QED BY <1>g, <1>15, <2>1 DEF WaitInOrder, Untouched, Tracked, Cleanup, procVars
<1>16. ASSUME NEW q \in Procs, Report(q) PROVE WaitInOrder(p)'
  BY <1>g, <1>16 DEF WaitInOrder, Untouched, Report, procVars
<1>17. CASE Quit
  BY <1>g, <1>17 DEF WaitInOrder, Untouched, Quit, procVars, waitVars
<1>18. CASE ClearCallbacks
  BY <1>g, <1>18 DEF WaitInOrder, Untouched, ClearCallbacks, procVars, waitVars
<1>19. CASE Cancel
  BY <1>g, <1>19 DEF WaitInOrder, Untouched, Cancel, procVars, waitVars
<1>20. CASE StopAll
  BY <1>g, <1>20 DEF WaitInOrder, Untouched, StopAll, procVars, waitVars
<1>21. CASE AllStopped
  BY <1>g, <1>21 DEF WaitInOrder, Untouched, AllStopped, procVars, waitVars
<1>22. ASSUME NEW s \in Rules, StopNext(s) PROVE WaitInOrder(p)'
  BY <1>g, <1>22 DEF WaitInOrder, Untouched, StopNext, procVars, waitVars
<1>23. CASE UNCHANGED vars
  BY <1>g, <1>23 DEF WaitInOrder, Untouched, InHand, Tracked, vars, actorVars, procVars, waitVars,
     downVars
<1> QED
  BY <1>1, <1>2, <1>3, <1>4, <1>5, <1>6, <1>7, <1>8, <1>9, <1>10, <1>11, <1>12, <1>13, <1>14, <1>15,
     <1>16, <1>17, <1>18, <1>19, <1>20, <1>21, <1>22, <1>23 DEF Next, ActorStep, WaitStep

(* The scheduler has exited before StopAll makes its list.                 *)
LEMMA ListingStep ==
    ASSUME IInv, [Next]_vars
    PROVE  Listing'
<1> USE ManagerAssumption DEF Actors, Procs
<1>g. Listing
  BY DEF IInv
<1>pc. pc \in [Actors -> {"idle", "untrack", "signal", "wait", "kill", "last", "spawn", "track"}]
  BY DEF IInv, TypeOK
<1>1. ASSUME NEW b \in Actors, Untrack(b) PROVE Listing'
  BY <1>g, <1>1, <1>pc DEF Listing, Untrack, Stopped, Goto, downVars
<1>2. ASSUME NEW b \in Actors, Interrupt(b) PROVE Listing'
  BY <1>g, <1>2, <1>pc DEF Listing, Interrupt, Goto, vars, actorVars, procVars, waitVars, downVars
<1>3. ASSUME NEW b \in Actors, StopDone(b) PROVE Listing'
  BY <1>g, <1>3 DEF Listing, StopDone, Stopped, Goto, downVars
<1>4. ASSUME NEW b \in Actors, StopTimeout(b) PROVE Listing'
  BY <1>g, <1>4, <1>pc DEF Listing, StopTimeout, Goto, vars, actorVars, procVars, waitVars, downVars
<1>5. ASSUME NEW b \in Actors, ForceKill(b) PROVE Listing'
  BY <1>g, <1>5, <1>pc DEF Listing, ForceKill, Goto, vars, actorVars, procVars, waitVars, downVars
<1>6. ASSUME NEW b \in Actors, StartFails(b) PROVE Listing'
  BY <1>g, <1>6, <1>pc DEF Listing, StartFails, Goto, vars, actorVars, procVars, waitVars, downVars
<1>7. ASSUME NEW b \in Actors, Spawn(b) PROVE Listing'
  BY <1>g, <1>7, <1>pc DEF Listing, Spawn, Goto, vars, actorVars, procVars, waitVars, downVars
<1>8. ASSUME NEW b \in Actors, Track(b) PROVE Listing'
  BY <1>g, <1>8, <1>pc DEF Listing, Track, Goto, vars, actorVars, procVars, waitVars, downVars
<1>9. ASSUME NEW b \in Starters, NEW s \in Rules, Begin(b, s) PROVE Listing'
  BY <1>g, <1>9, <1>pc DEF Listing, Begin, Goto, vars, actorVars, procVars, waitVars, downVars
<1>10. ASSUME NEW q \in Procs, Exit(q) PROVE Listing'
  BY <1>g, <1>10 DEF Listing, Exit, vars, actorVars, procVars, waitVars, downVars
<1>11. ASSUME NEW q \in Procs, CancelKill(q) PROVE Listing'
  BY <1>g, <1>11 DEF Listing, CancelKill, vars, actorVars, procVars, waitVars, downVars
<1>12. ASSUME NEW q \in Procs, GroupExit(q) PROVE Listing'
  BY <1>g, <1>12 DEF Listing, GroupExit, vars, actorVars, procVars, waitVars, downVars
<1>13. ASSUME NEW q \in Procs, Reap(q) PROVE Listing'
  BY <1>g, <1>13 DEF Listing, Reap, vars, actorVars, procVars, waitVars, downVars
<1>14. ASSUME NEW q \in Procs, PipesClosed(q) PROVE Listing'
  BY <1>g, <1>14 DEF Listing, PipesClosed, vars, actorVars, procVars, waitVars, downVars
<1>15. ASSUME NEW q \in Procs, Cleanup(q) PROVE Listing'
  BY <1>g, <1>15 DEF Listing, Cleanup, vars, actorVars, procVars, waitVars, downVars
<1>16. ASSUME NEW q \in Procs, Report(q) PROVE Listing'
  BY <1>g, <1>16 DEF Listing, Report, vars, actorVars, procVars, waitVars, downVars
<1>17. CASE Quit
  BY <1>g, <1>17 DEF Listing, Quit, vars, actorVars, procVars, waitVars, downVars
<1>18. CASE ClearCallbacks
  BY <1>g, <1>18 DEF Listing, ClearCallbacks, vars, actorVars, procVars, waitVars, downVars
<1>19. CASE Cancel
  BY <1>g, <1>19 DEF Listing, Cancel, vars, actorVars, procVars, waitVars, downVars
<1>20. CASE StopAll
  BY <1>g, <1>20 DEF Listing, StopAll, vars, actorVars, procVars, waitVars, downVars
<1>21. CASE AllStopped
  BY <1>g, <1>21 DEF Listing, AllStopped, vars, actorVars, procVars, waitVars, downVars
<1>22. ASSUME NEW s \in Rules, StopNext(s) PROVE Listing'
  BY <1>g, <1>22, <1>pc DEF Listing, StopNext, Goto, vars, actorVars, procVars, waitVars, downVars
<1>23. CASE UNCHANGED vars
  BY <1>g, <1>23 DEF Listing, vars, actorVars, procVars, waitVars, downVars
<1> QED
  BY <1>1, <1>2, <1>3, <1>4, <1>5, <1>6, <1>7, <1>8, <1>9, <1>10, <1>11, <1>12, <1>13, <1>14, <1>15,
     <1>16, <1>17, <1>18, <1>19, <1>20, <1>21, <1>22, <1>23 DEF Next, ActorStep, WaitStep

(* StopAll's list stays complete.                                          *)
LEMMA ListedStep ==
    ASSUME IInv, [Next]_vars, NEW r \in Rules
    PROVE  Listed(r)'
<1> USE ManagerAssumption DEF Actors, Procs
<1>g. Listed(r)
  BY DEF IInv
<1>procs. procs \in [Rules -> 0 .. MaxProcs]
  BY DEF IInv, TypeOK
<1>pc. pc \in [Actors -> {"idle", "untrack", "signal", "wait", "kill", "last", "spawn", "track"}]
  BY DEF IInv, TypeOK
<1>want. want \in [Actors -> Rules]
  BY DEF IInv, TypeOK
<1>born. born \in 0 .. MaxProcs
  BY DEF IInv, TypeOK
<1>starter. starter \in [Procs -> Starters]
  BY DEF IInv, TypeOK
<1>1. ASSUME NEW b \in Actors, Untrack(b) PROVE Listed(r)'
  BY <1>g, <1>1, <1>pc, <1>procs DEF Listed, Untrack, Stopped, Goto, procVars, downVars
<1>2. ASSUME NEW b \in Actors, Interrupt(b) PROVE Listed(r)'
  BY <1>g, <1>2 DEF Listed, Interrupt, Goto, downVars
<1>3. ASSUME NEW b \in Actors, StopDone(b) PROVE Listed(r)'
  BY <1>g, <1>3 DEF Listed, StopDone, Stopped, Goto, procVars, downVars
<1>4. ASSUME NEW b \in Actors, StopTimeout(b) PROVE Listed(r)'
  BY <1>g, <1>4 DEF Listed, StopTimeout, Goto, procVars, downVars
<1>5. ASSUME NEW b \in Actors, ForceKill(b) PROVE Listed(r)'
  BY <1>g, <1>5 DEF Listed, ForceKill, Goto, downVars
<1>6. ASSUME NEW b \in Actors, StartFails(b) PROVE Listed(r)'
  BY <1>g, <1>6 DEF Listed, StartFails, Goto, procVars, downVars
<1>7. ASSUME NEW b \in Actors, Spawn(b) PROVE Listed(r)'
  <2>1. LockHeld
    BY <1>7, <1>born, <1>starter, <1>pc DEF IInv, Spawn
  <2> QED BY <1>7, <2>1 DEF Listed, LockHeld, Spawn, downVars
<1>8. ASSUME NEW b \in Actors, Track(b) PROVE Listed(r)'
  <2>1. InHand(b) /\ Listing
    BY <1>8, <1>born, <1>procs, <1>pc DEF IInv
  <2> QED BY <1>g, <1>8, <2>1 DEF Listed, Listing, InHand, Track, Goto, procVars, downVars
<1>9. ASSUME NEW b \in Starters, NEW s \in Rules, Begin(b, s) PROVE Listed(r)'
  BY <1>g, <1>9 DEF Listed, Begin, Goto, procVars, downVars
<1>10. ASSUME NEW q \in Procs, Exit(q) PROVE Listed(r)'
  BY <1>g, <1>10 DEF Listed, Exit, actorVars, downVars
<1>11. ASSUME NEW q \in Procs, CancelKill(q) PROVE Listed(r)'
  BY <1>g, <1>11 DEF Listed, CancelKill, actorVars, downVars
<1>12. ASSUME NEW q \in Procs, GroupExit(q) PROVE Listed(r)'
  BY <1>g, <1>12 DEF Listed, GroupExit, actorVars, downVars
<1>13. ASSUME NEW q \in Procs, Reap(q) PROVE Listed(r)'
  BY <1>g, <1>13 DEF Listed, Reap, actorVars, downVars
<1>14. ASSUME NEW q \in Procs, PipesClosed(q) PROVE Listed(r)'
  BY <1>g, <1>14 DEF Listed, PipesClosed, actorVars, procVars, downVars
<1>15. ASSUME NEW q \in Procs, Cleanup(q) PROVE Listed(r)'
  BY <1>g, <1>15 DEF Listed, Cleanup, actorVars, procVars, downVars
<1>16. ASSUME NEW q \in Procs, Report(q) PROVE Listed(r)'
  BY <1>g, <1>16 DEF Listed, Report, actorVars, procVars, downVars
<1>17. CASE Quit
  BY <1>17 DEF Listed, Quit
<1>18. CASE ClearCallbacks
  BY <1>18 DEF Listed, ClearCallbacks
<1>19. CASE Cancel
  BY <1>19 DEF Listed, Cancel
<1>20. CASE StopAll
  BY <1>20 DEF Listed, StopAll
<1>21. CASE AllStopped
  BY <1>g, <1>21 DEF Listed, AllStopped, procVars
<1>22. ASSUME NEW s \in Rules, StopNext(s) PROVE Listed(r)'
  BY <1>g, <1>22, <1>want, <1>pc DEF Listed, StopNext, Goto, procVars
<1>23. CASE UNCHANGED vars
  BY <1>g, <1>23 DEF Listed, vars, actorVars, procVars, downVars
<1> QED
  BY <1>1, <1>2, <1>3, <1>4, <1>5, <1>6, <1>7, <1>8, <1>9, <1>10, <1>11, <1>12, <1>13, <1>14, <1>15,
     <1>16, <1>17, <1>18, <1>19, <1>20, <1>21, <1>22, <1>23 DEF Next, ActorStep, WaitStep

(* A running process goes from hand to hand, or is tracked.                *)
LEMMA LostStep ==
    ASSUME IInv, [Next]_vars, NEW p \in Procs
    PROVE  NotLost(p)'
<1> USE ManagerAssumption DEF Actors, Procs
<1>g. NotLost(p)
  BY DEF IInv
<1>procs. procs \in [Rules -> 0 .. MaxProcs]
  BY DEF IInv, TypeOK
<1>want. want \in [Actors -> Rules]
  BY DEF IInv, TypeOK
<1>victim. victim \in [Actors -> 0 .. MaxProcs]
  BY DEF IInv, TypeOK
<1>born. born \in 0 .. MaxProcs
  BY DEF IInv, TypeOK
<1>rule. rule \in [Procs -> Rules]
  BY DEF IInv, TypeOK
<1>leader. leader \in [Procs -> {"unborn", "run", "exited", "reaped"}]
  BY DEF IInv, TypeOK
<1>1. ASSUME NEW b \in Actors, Untrack(b) PROVE NotLost(p)'
  <2>1. InHand(b)
    BY <1>1, <1>born, <1>rule, <1>victim, <1>procs, <1>want DEF IInv
  <2> QED BY <1>g, <1>1, <2>1, <1>victim DEF NotLost, InHand, Untrack, procVars
<1>2. ASSUME NEW b \in Actors, Interrupt(b) PROVE NotLost(p)'
  BY <1>g, <1>2 DEF NotLost, Interrupt
<1>3. ASSUME NEW b \in Actors, StopDone(b) PROVE NotLost(p)'
  <2>1. InHand(b) /\ WaitInOrder(p)
    BY <1>3, <1>born, <1>rule, <1>victim DEF IInv
  <2> QED BY <1>g, <1>3, <2>1 DEF NotLost, WaitInOrder, StopDone, procVars
<1>4. ASSUME NEW b \in Actors, StopTimeout(b) PROVE NotLost(p)'
  BY <1>g, <1>4 DEF NotLost, StopTimeout, procVars
<1>5. ASSUME NEW b \in Actors, ForceKill(b) PROVE NotLost(p)'
  BY <1>g, <1>5, <1>leader DEF NotLost, ForceKill
<1>6. ASSUME NEW b \in Actors, StartFails(b) PROVE NotLost(p)'
  BY <1>g, <1>6 DEF NotLost, StartFails, procVars
<1>7. ASSUME NEW b \in Actors, Spawn(b) PROVE NotLost(p)'
  <2>1. InHand(b)
    BY <1>7, <1>born, <1>rule, <1>leader, <1>victim DEF IInv, Spawn
  <2> QED BY <1>g, <1>7, <2>1, <1>victim DEF NotLost, InHand, Spawn
<1>8. ASSUME NEW b \in Actors, Track(b) PROVE NotLost(p)'
  <2>1. LockHeld /\ InHand(b) /\ (b \in Starters => Vacant(b))
    BY <1>8, <1>born, <1>rule, <1>procs, <1>victim DEF IInv
  <2> QED BY <1>g, <1>8, <2>1, <1>rule, <1>procs DEF NotLost, InHand, Vacant, LockHeld, Track,
     procVars
<1>9. ASSUME NEW b \in Starters, NEW s \in Rules, Begin(b, s) PROVE NotLost(p)'
  BY <1>g, <1>9 DEF NotLost, Begin, procVars
<1>10. ASSUME NEW q \in Procs, Exit(q) PROVE NotLost(p)'
  BY <1>g, <1>10 DEF NotLost, Exit, actorVars
<1>11. ASSUME NEW q \in Procs, CancelKill(q) PROVE NotLost(p)'
  BY <1>g, <1>11 DEF NotLost, CancelKill, actorVars
<1>12. ASSUME NEW q \in Procs, GroupExit(q) PROVE NotLost(p)'
  BY <1>g, <1>12 DEF NotLost, GroupExit, actorVars
<1>13. ASSUME NEW q \in Procs, Reap(q) PROVE NotLost(p)'
  BY <1>g, <1>13 DEF NotLost, Reap, actorVars
<1>14. ASSUME NEW q \in Procs, PipesClosed(q) PROVE NotLost(p)'
  BY <1>g, <1>14 DEF NotLost, PipesClosed, actorVars, procVars
<1>15. ASSUME NEW q \in Procs, Cleanup(q) PROVE NotLost(p)'
  <2>1. WaitInOrder(q)
    BY <1>15, <1>born, <1>rule, <1>procs DEF IInv
  <2> QED BY <1>g, <1>15, <2>1 DEF NotLost, WaitInOrder, Cleanup, actorVars, procVars
<1>16. ASSUME NEW q \in Procs, Report(q) PROVE NotLost(p)'
  BY <1>g, <1>16 DEF NotLost, Report, actorVars, procVars
<1>17. CASE Quit
  BY <1>g, <1>17 DEF NotLost, Quit, actorVars, procVars
<1>18. CASE ClearCallbacks
  BY <1>g, <1>18 DEF NotLost, ClearCallbacks, actorVars, procVars
<1>19. CASE Cancel
  BY <1>g, <1>19 DEF NotLost, Cancel, actorVars, procVars
<1>20. CASE StopAll
  BY <1>g, <1>20 DEF NotLost, StopAll, actorVars, procVars
<1>21. CASE AllStopped
  BY <1>g, <1>21 DEF NotLost, AllStopped, actorVars, procVars
<1>22. ASSUME NEW s \in Rules, StopNext(s) PROVE NotLost(p)'
  BY <1>g, <1>22 DEF NotLost, StopNext, procVars
<1>23. CASE UNCHANGED vars
  BY <1>g, <1>23 DEF NotLost, vars, actorVars, procVars
<1> QED
  BY <1>1, <1>2, <1>3, <1>4, <1>5, <1>6, <1>7, <1>8, <1>9, <1>10, <1>11, <1>12, <1>13, <1>14, <1>15,
     <1>16, <1>17, <1>18, <1>19, <1>20, <1>21, <1>22, <1>23 DEF Next, ActorStep, WaitStep

(* Nothing of the rule runs when StartProcess is about to spawn: it would  *)
(* be tracked, or in the hands of Main, which stops processes only after   *)
(* the context is cancelled.                                               *)
LEMMA FreshRule ==
    ASSUME IInv, NEW b \in Actors, pc[b] = "spawn", ~cancelled,
           NEW p \in Procs, leader[p] = "run"
    PROVE  rule[p] # want[b]
<1> USE ManagerAssumption DEF Actors, Procs
<1>1. LockHeld /\ b \in Starters
  BY DEF IInv, LockHeld
<1>2. procs[want[b]] = 0 /\ p # 0
  BY <1>1 DEF IInv, Vacant
<1>3. ASSUME NEW a \in Actors, victim[a] = p PROVE FALSE
  <2>1. InHand(a) /\ InHand(b)
    BY DEF IInv
  <2>2. pc[a] # "idle" /\ a # b
    BY <1>2, <1>3, <2>1 DEF InHand
  <2> QED BY <1>1, <2>2 DEF LockHeld
<1>4. NotLost(p)
  BY DEF IInv
<1> QED BY <1>2, <1>3, <1>4 DEF NotLost

(* Two leaders of one rule never run.                                      *)
LEMMA ApartStep ==
    ASSUME IInv, [Next]_vars, NEW p \in Procs, NEW t \in Procs
    PROVE  Apart(p, t)'
<1> USE ManagerAssumption DEF Actors, Procs
<1>g. Apart(p, t)
  BY DEF IInv
<1>born. born \in 0 .. MaxProcs
  BY DEF IInv, TypeOK
<1>rule. rule \in [Procs -> Rules]
  BY DEF IInv, TypeOK
<1>leader. leader \in [Procs -> {"unborn", "run", "exited", "reaped"}]
  BY DEF IInv, TypeOK
<1>1. ASSUME NEW b \in Actors, Untrack(b) PROVE Apart(p, t)'
  BY <1>g, <1>1 DEF Apart, Untrack, Stopped, Goto, vars, actorVars, procVars, waitVars, downVars
<1>2. ASSUME NEW b \in Actors, Interrupt(b) PROVE Apart(p, t)'
  BY <1>g, <1>2 DEF Apart, Interrupt, Goto, vars, actorVars, procVars, waitVars, downVars
<1>3. ASSUME NEW b \in Actors, StopDone(b) PROVE Apart(p, t)'
  BY <1>g, <1>3 DEF Apart, StopDone, Stopped, Goto, vars, actorVars, procVars, waitVars, downVars
<1>4. ASSUME NEW b \in Actors, StopTimeout(b) PROVE Apart(p, t)'
  BY <1>g, <1>4 DEF Apart, StopTimeout, Goto, vars, actorVars, procVars, waitVars, downVars
<1>5. ASSUME NEW b \in Actors, ForceKill(b) PROVE Apart(p, t)'
  BY <1>g, <1>5, <1>leader DEF Apart, ForceKill
<1>6. ASSUME NEW b \in Actors, StartFails(b) PROVE Apart(p, t)'
  BY <1>g, <1>6 DEF Apart, StartFails, Goto, vars, actorVars, procVars, waitVars, downVars
<1>7. ASSUME NEW b \in Actors, Spawn(b) PROVE Apart(p, t)'
  <2>1. \A x \in Procs : leader[x] = "run" => rule[x] # want[b]
    BY <1>7, FreshRule DEF Spawn
  <2> QED BY <1>g, <1>7, <2>1, <1>born, <1>rule, <1>leader DEF Apart, Spawn
<1>8. ASSUME NEW b \in Actors, Track(b) PROVE Apart(p, t)'
  BY <1>g, <1>8 DEF Apart, Track, Goto, vars, actorVars, procVars, waitVars, downVars
<1>9. ASSUME NEW b \in Starters, NEW s \in Rules, Begin(b, s) PROVE Apart(p, t)'
  BY <1>g, <1>9 DEF Apart, Begin, Goto, vars, actorVars, procVars, waitVars, downVars
<1>10. ASSUME NEW q \in Procs, Exit(q) PROVE Apart(p, t)'
  BY <1>g, <1>10 DEF Apart, Exit
<1>11. ASSUME NEW q \in Procs, CancelKill(q) PROVE Apart(p, t)'
  BY <1>g, <1>11 DEF Apart, CancelKill
<1>12. ASSUME NEW q \in Procs, GroupExit(q) PROVE Apart(p, t)'
  BY <1>g, <1>12 DEF Apart, GroupExit, vars, actorVars, procVars, waitVars, downVars
<1>13. ASSUME NEW q \in Procs, Reap(q) PROVE Apart(p, t)'
  BY <1>g, <1>13 DEF Apart, Reap
<1>14. ASSUME NEW q \in Procs, PipesClosed(q) PROVE Apart(p, t)'
  BY <1>g, <1>14 DEF Apart, PipesClosed, vars, actorVars, procVars, waitVars, downVars
<1>15. ASSUME NEW q \in Procs, Cleanup(q) PROVE Apart(p, t)'
  BY <1>g, <1>15 DEF Apart, Cleanup, vars, actorVars, procVars, waitVars, downVars
<1>16. ASSUME NEW q \in Procs, Report(q) PROVE Apart(p, t)'
  BY <1>g, <1>16 DEF Apart, Report, vars, actorVars, procVars, waitVars, downVars
<1>17. CASE Quit
  BY <1>g, <1>17 DEF Apart, Quit, vars, actorVars, procVars, waitVars, downVars
<1>18. CASE ClearCallbacks
  BY <1>g, <1>18 DEF Apart, ClearCallbacks, vars, actorVars, procVars, waitVars, downVars
<1>19. CASE Cancel
  BY <1>g, <1>19 DEF Apart, Cancel, vars, actorVars, procVars, waitVars, downVars
<1>20. CASE StopAll
  BY <1>g, <1>20 DEF Apart, StopAll, vars, actorVars, procVars, waitVars, downVars
<1>21. CASE AllStopped
  BY <1>g, <1>21 DEF Apart, AllStopped, vars, actorVars, procVars, waitVars, downVars
<1>22. ASSUME NEW s \in Rules, StopNext(s) PROVE Apart(p, t)'
  BY <1>g, <1>22 DEF Apart, StopNext, Goto, vars, actorVars, procVars, waitVars, downVars
<1>23. CASE UNCHANGED vars
  BY <1>g, <1>23 DEF Apart, vars, actorVars, procVars, waitVars, downVars
<1> QED
  BY <1>1, <1>2, <1>3, <1>4, <1>5, <1>6, <1>7, <1>8, <1>9, <1>10, <1>11, <1>12, <1>13, <1>14, <1>15,
     <1>16, <1>17, <1>18, <1>19, <1>20, <1>21, <1>22, <1>23 DEF Next, ActorStep, WaitStep

(* Every reachable state satisfies the inductive invariant.                *)
THEOREM Invariance == Spec => []IInv
<1>1. IInv /\ [Next]_vars => IInv'
  <2> SUFFICES ASSUME IInv, [Next]_vars PROVE IInv'
    OBVIOUS
  <2>1. TypeOK' /\ LockHeld' /\ Listing'
    BY TypeStep, LockStep, ListingStep
  <2>2. \A a \in Actors : InHand(a)'
    BY HandStep
  <2>3. \A a \in Starters : Vacant(a)'
    BY VacantStep
  <2>4. \A r \in Rules : Tracked(r)' /\ Listed(r)'
    BY TrackedStep, ListedStep
  <2>5. \A p \in Procs : WaitInOrder(p)' /\ NotLost(p)'
    BY WaitOrderStep, LostStep
  <2>6. \A p, q \in Procs : Apart(p, q)'
    BY ApartStep
  <2> QED BY <2>1, <2>2, <2>3, <2>4, <2>5, <2>6 DEF IInv, Actors, Procs
<1> QED BY <1>1, InitOK, PTL DEF Spec

(* Every variable of the process manager always has its type.              *)
THEOREM TypeCorrect == Spec => []TypeOK
BY Invariance, PTL DEF IInv

(* One process at most runs under a rule, and none is forgotten.           *)
THEOREM OneTrackedLeader == Spec => [](OneLeader /\ NoLostProcess)
<1>1. IInv => OneLeader /\ NoLostProcess
  BY DEF IInv, Apart, NotLost, OneLeader, NoLostProcess
<1> QED BY <1>1, Invariance, PTL

(* What hamr stopped is not reported as a build error.                     *)
THEOREM StopsAreSilent == Spec => []StoppedIsNotReported
<1>1. ASSUME IInv, NEW p \in reported PROVE by[p] # "signal" /\ ~intr[p]
  <2>1. p \in Procs
    BY <1>1 DEF IInv, TypeOK
  <2> QED BY <1>1, <2>1 DEF IInv, WaitInOrder, Untouched
<1>2. IInv => StoppedIsNotReported
  BY <1>1 DEF StoppedIsNotReported
<1> QED BY <1>2, Invariance, PTL

(* Nothing the scheduler started outlives StopAll, but for what another    *)
(* goroutine is busy stopping.                                             *)
THEOREM NothingIsLeft == Spec => []LeadersGone
<1>1. ASSUME IInv, main = "down", NEW p \in Procs, starter[p] = Scheduler, leader[p] = "run"
      PROVE  \E a \in Starters \ {Scheduler} : victim[a] = p
  <2>1. p # 0 /\ rule[p] \in Rules
    BY <1>1 DEF IInv, TypeOK, Procs
  <2>2. Listing /\ Listed(rule[p]) /\ NotLost(p)
    BY <1>1, <2>1 DEF IInv
  <2>3. procs[rule[p]] # p
    BY <1>1, <2>1, <2>2 DEF Listing, Listed
  <2>4. PICK a \in Actors : victim[a] = p
    BY <1>1, <2>2, <2>3 DEF NotLost
  <2>5. InHand(Main) /\ InHand(Scheduler)
    BY <1>1, ManagerAssumption DEF IInv, Actors
  <2>6. a # Main /\ a # Scheduler
    BY <1>1, <2>1, <2>2, <2>4, <2>5 DEF Listing, InHand
  <2> QED BY <2>4, <2>6 DEF Actors
<1>2. IInv => LeadersGone
  BY <1>1 DEF LeadersGone
<1> QED BY <1>2, Invariance, PTL

(* The invariant the runs check: all of its parts.                         *)
THEOREM ManagerIsSafe == Spec => []Inv
BY TypeCorrect, OneTrackedLeader, StopsAreSilent, NothingIsLeft, PTL DEF Inv

-----------------------------------------------------------------------------
(* What Append and Tail do to a channel.                                   *)

(* An append keeps what is there and puts the new element last.            *)
LEMMA AppendFacts ==
    ASSUME NEW S1, NEW q \in Seq(S1), NEW e \in S1
    PROVE  /\ Append(q, e) \in Seq(S1) /\ Len(q) \in Nat /\ Len(Append(q, e)) = Len(q) + 1
           /\ Append(q, e)[Len(q) + 1] = e /\ Append(q, e) # <<>>
           /\ \A i \in 1 .. Len(q) : Append(q, e)[i] = q[i]
OBVIOUS

(* An empty channel.                                                       *)
LEMMA EmptyFacts ==
    ASSUME NEW S1, NEW q \in Seq(S1), q = <<>>
    PROVE  Len(q) = 0
OBVIOUS

(* Taking the head out moves the others up.                                *)
LEMMA TailFacts ==
    ASSUME NEW S1, NEW q \in Seq(S1), q # <<>>
    PROVE  /\ Head(q) = q[1] /\ q[1] \in S1 /\ Len(q) \in Nat \ {0}
           /\ Tail(q) \in Seq(S1) /\ Len(Tail(q)) = Len(q) - 1
           /\ Tail(q) = <<>> => Len(q) = 1
           /\ \A i \in 1 .. Len(q) - 1 : Tail(q)[i] = q[i + 1]
<1>1. Tail(q) \in Seq(S1) /\ Len(Tail(q)) = Len(q) - 1 /\ Len(q) \in Nat
  OBVIOUS
<1>2. Tail(q) = <<>> => Len(Tail(q)) = 0
  BY <1>1, EmptyFacts
<1> QED  BY <1>1, <1>2

-----------------------------------------------------------------------------
(* The events for the browser.                                             *)

(* Where a client or a sender can be, and what a sender has in hand.       *)
TabLabels == {"out", "new", "on", "gone"}
SenderLabels == {"idle", "store", "announce", "next", "evict", "retry"}
Serving == {"next", "evict", "retry"}
Evicting == {"evict", "retry"}
Blank == {[id |-> 0, type |-> "none", on |-> b] : b \in BOOLEAN}

(* The types, with the channel as a sequence.                              *)
BrokerTyped ==
    /\ client \in [Tabs -> TabLabels] /\ buf \in [Tabs -> Seq(B!Event)] /\ open \in SUBSET Tabs
    /\ send \in [Tabs -> B!Senders \cup {Nobody}] /\ seen \in [Tabs -> BOOLEAN]
    /\ last \in [Tabs -> 0 .. MaxEvents] /\ spc \in [B!Senders -> SenderLabels]
    /\ evt \in [B!Senders -> B!Event \cup Blank] /\ left \in [B!Senders -> SUBSET Tabs]
    /\ to \in [B!Senders -> Tabs] /\ dark \in BOOLEAN /\ emitted \in 0 .. MaxEvents
    /\ noise \in BOOLEAN /\ raced \in BOOLEAN /\ crashed \in BOOLEAN

(* Who evicts holds the client's send mutex, so that once it has evicted   *)
(* there is room; and a queue never holds more than it may.                *)
SendLock ==
    /\ \A s \in B!Senders : spc[s] \in Evicting => send[to[s]] = s
    /\ \A s \in B!Senders : spc[s] = "retry" => Len(buf[to[s]]) < QueueCap
    /\ \A c \in Tabs : Len(buf[c]) <= QueueCap

(* A sender serves clients whose channel is open, each once, and those are *)
(* the registered ones.                                                    *)
ServesOpen ==
    /\ ~crashed /\ open = B!Registered
    /\ \A s \in B!Senders : spc[s] \in Serving => left[s] \subseteq open
    /\ \A s \in B!Senders : spc[s] \in Evicting => to[s] \in open /\ to[s] \notin left[s]

(* A sender has an event to send, and evicts only for one that may.        *)
EventInHand ==
    /\ \A s \in B!Senders : spc[s] \in Serving => evt[s] \in B!Event
    /\ \A s \in B!Senders : spc[s] \in Evicting => B!Evictable(evt[s])
    /\ \A s \in B!Senders : spc[s] \in {"store", "announce"} => s \in Togglers

(* Nothing is in the queue of a client that has not subscribed.            *)
NothingYet == \A c \in Tabs : client[c] = "out" => buf[c] = <<>> /\ last[c] = 0

(* The inductive invariant, for any number of goroutines in handleDark.    *)
BrokerIInv == BrokerTyped /\ SendLock /\ ServesOpen /\ EventInHand /\ NothingYet /\ B!LastStateKept

(* Without other events, all that is queued is about the filter.           *)
OnlyDark ==
    /\ \A s \in B!Senders : spc[s] # "idle" => s \in Togglers
    /\ \A s \in B!Senders : spc[s] \in Serving => evt[s].type = "dark"
    /\ \A c \in Tabs : \A i \in 1 .. Len(buf[c]) : buf[c][i].type = "dark"

(* A toggle that began alone is alone, and announces what it stored.       *)
OneToggler ==
    /\ \A x, y \in Togglers : spc[x] # "idle" /\ spc[y] # "idle" => x = y
    /\ \A s \in B!Senders : spc[s] \in Serving \cup {"announce"} => evt[s].on = dark

(* A client shows the filter once it has received what is queued for it,   *)
(* or is yet to be served.                                                 *)
WillShow(c) ==
    IF buf[c] = <<>> THEN client[c] = "on" => seen[c] = dark ELSE buf[c][Len(buf[c])].on = dark
(* The announcement of the filter has yet to come to a client.             *)
ToServe(s, c) ==
    \/ spc[s] \in {"store", "announce"}
    \/ spc[s] \in Serving /\ c \in left[s]
    \/ spc[s] \in Evicting /\ c = to[s]
(* Every client shows the filter, or will.                                 *)
FilterOnItsWay == \A c \in B!Registered : WillShow(c) \/ \E s \in Togglers : ToServe(s, c)

(* Of no interest once anything else was broadcast.                        *)
FilterIInv == ~noise => OnlyDark /\ (~raced => OneToggler /\ FilterOnItsWay)

(* The three outcomes of an attempt to send: it fits, it is dropped, or    *)
(* room has to be made.                                                    *)
LEMMA TrySendCases ==
    ASSUME BrokerIInv, NEW s \in B!Senders, NEW c \in Tabs, B!TrySend(s, c)
    PROVE  /\ spc[s] = "next" /\ c \in left[s] /\ send[c] = Nobody /\ evt[s] \in B!Event
           /\ left' = [left EXCEPT ![s] = left[s] \ {c}] /\ to' = [to EXCEPT ![s] = c]
           /\ UNCHANGED <<client, open, seen, evt, dark, noise, raced>>
           /\ \/ /\ Len(buf[c]) < QueueCap
                 /\ buf' = [buf EXCEPT ![c] = Append(buf[c], evt[s])]
                 /\ last' = [last EXCEPT ![c] = IF B!Evictable(evt[s]) THEN evt[s].id ELSE last[c]]
                 /\ send' = [send EXCEPT ![c] = Nobody] /\ spc' = [spc EXCEPT ![s] = "next"]
              \/ /\ ~B!Evictable(evt[s]) /\ UNCHANGED <<buf, last>>
                 /\ send' = [send EXCEPT ![c] = Nobody] /\ spc' = [spc EXCEPT ![s] = "next"]
              \/ /\ B!Evictable(evt[s]) /\ UNCHANGED <<buf, last>>
                 /\ send' = [send EXCEPT ![c] = s] /\ spc' = [spc EXCEPT ![s] = "evict"]
<1> USE EventAssumption
<1>1. spc[s] = "next" /\ evt[s] \in B!Event
  BY DEF B!TrySend, BrokerIInv, EventInHand, Serving
<1>2. Len(buf[c]) \in Nat /\ last \in [Tabs -> 0 .. MaxEvents]
  BY DEF BrokerIInv, BrokerTyped
<1>3. CASE Len(buf[c]) < QueueCap
  BY <1>1, <1>3 DEF B!TrySend, B!Put, B!Served, B!clientVars
<1>4. CASE Len(buf[c]) >= QueueCap /\ ~B!Evictable(evt[s])
  <2>1. last' = last
    BY <1>2, <1>4 DEF B!TrySend, B!Served
  <2> QED  BY <1>1, <1>2, <1>4, <2>1 DEF B!TrySend, B!Served, B!clientVars
<1>5. CASE ~(Len(buf[c]) < QueueCap) /\ B!Evictable(evt[s])
  BY <1>1, <1>5 DEF B!TrySend, B!clientVars
<1> QED  BY <1>2, <1>3, <1>4, <1>5

(* After an eviction the event always fits, and it is a state event.       *)
LEMMA RetryPuts ==
    ASSUME BrokerIInv, NEW s \in B!Senders, B!Retry(s)
    PROVE  /\ spc[s] = "retry" /\ spc' = [spc EXCEPT ![s] = "next"] /\ to' = to
           /\ evt[s] \in B!Event /\ to[s] \in open
           /\ last' = [last EXCEPT ![to[s]] = evt[s].id]
           /\ buf' = [buf EXCEPT ![to[s]] = Append(buf[to[s]], evt[s])]
           /\ UNCHANGED <<client, open, seen, evt, left, dark, noise, raced>>
<1>1. spc[s] = "retry"
  BY DEF B!Retry
<1>2. evt[s] \in B!Event /\ B!Evictable(evt[s]) /\ to[s] \in open /\ Len(buf[to[s]]) < QueueCap
  BY <1>1 DEF BrokerIInv, EventInHand, Serving, Evicting, ServesOpen, SendLock
<1> QED  BY <1>1, <1>2 DEF B!Retry, B!Put, B!Served, B!clientVars

(* While the send mutex of a client is free nobody evicts from its queue.  *)
LEMMA SendLockHeld ==
    ASSUME BrokerIInv, NEW c \in Tabs, send[c] = Nobody, NEW s \in B!Senders, spc[s] \in Evicting
    PROVE  to[s] # c
BY EventAssumption DEF BrokerIInv, SendLock

(* An event that is put does not push the last state event out.            *)
LEMMA KeptWhenPut ==
    ASSUME NEW c \in Tabs, NEW e \in B!Event, B!LastStateKept, c \in B!Registered, ~B!Replacing(c),
           buf \in [Tabs -> Seq(B!Event)], last \in [Tabs -> 0 .. MaxEvents],
           buf' = [buf EXCEPT ![c] = Append(buf[c], e)],
           last' = [last EXCEPT ![c] = IF B!Evictable(e) THEN e.id ELSE last[c]], last'[c] # 0
    PROVE  \E i \in 1 .. Len(buf'[c]) : buf'[c][i].id = last'[c]
<1>1. /\ Len(buf'[c]) = Len(buf[c]) + 1 /\ buf'[c][Len(buf[c]) + 1] = e /\ Len(buf[c]) \in Nat
      /\ \A i \in 1 .. Len(buf[c]) : buf'[c][i] = buf[c][i]
  BY AppendFacts
<1>2. CASE B!Evictable(e)
  <2>1. last'[c] = e.id /\ Len(buf[c]) + 1 \in 1 .. Len(buf'[c])
    BY <1>1, <1>2
  <2> QED  BY <1>1, <2>1
<1>3. CASE ~B!Evictable(e)
  <2>1. last'[c] = last[c]
    BY <1>3
  <2>2. PICK i \in 1 .. Len(buf[c]) : buf[c][i].id = last[c]
    BY <2>1 DEF B!LastStateKept
  <2>3. i \in 1 .. Len(buf'[c])
    BY <1>1, <2>2
  <2> QED  BY <1>1, <2>1, <2>2, <2>3
<1> QED  BY <1>2, <1>3

(* Every step of the broker keeps every variable in its type.              *)
LEMMA BrokerTypeStep ==
    ASSUME BrokerIInv, B!Next PROVE BrokerTyped'
<1> USE EventAssumption
<1>g. BrokerTyped
  BY DEF BrokerIInv
<1>client. client \in [Tabs -> TabLabels]
  BY <1>g DEF BrokerTyped, TabLabels, SenderLabels
<1>buf. buf \in [Tabs -> Seq(B!Event)]
  BY <1>g DEF BrokerTyped, TabLabels, SenderLabels
<1>open. open \in SUBSET Tabs
  BY <1>g DEF BrokerTyped, TabLabels, SenderLabels
<1>send. send \in [Tabs -> B!Senders \cup {Nobody}]
  BY <1>g DEF BrokerTyped, TabLabels, SenderLabels
<1>seen. seen \in [Tabs -> BOOLEAN]
  BY <1>g DEF BrokerTyped, TabLabels, SenderLabels
<1>last. last \in [Tabs -> 0 .. MaxEvents]
  BY <1>g DEF BrokerTyped, TabLabels, SenderLabels
<1>spc. spc \in [B!Senders -> SenderLabels]
  BY <1>g DEF BrokerTyped, TabLabels, SenderLabels
<1>evt. evt \in [B!Senders -> B!Event \cup Blank]
  BY <1>g DEF BrokerTyped, TabLabels, SenderLabels
<1>left. left \in [B!Senders -> SUBSET Tabs]
  BY <1>g DEF BrokerTyped, TabLabels, SenderLabels
<1>to. to \in [B!Senders -> Tabs]
  BY <1>g DEF BrokerTyped, TabLabels, SenderLabels
<1>dark. dark \in BOOLEAN
  BY <1>g DEF BrokerTyped, TabLabels, SenderLabels
<1>emitted. emitted \in 0 .. MaxEvents
  BY <1>g DEF BrokerTyped, TabLabels, SenderLabels
<1>noise. noise \in BOOLEAN
  BY <1>g DEF BrokerTyped, TabLabels, SenderLabels
<1>crashed. crashed \in BOOLEAN
  BY <1>g DEF BrokerTyped, TabLabels, SenderLabels
<1>1. ASSUME NEW c \in Tabs, B!Subscribe(c) PROVE BrokerTyped'
  <2>1. client' \in [Tabs -> TabLabels]
    BY <1>1, <1>client DEF B!Subscribe, B!queueVars, B!sendVars, TabLabels, SenderLabels
  <2>2. open' \in SUBSET Tabs
    BY <1>1, <1>open DEF B!Subscribe, B!queueVars, B!sendVars
  <2> QED BY <1>g, <1>1, <2>1, <2>2 DEF BrokerTyped, B!Subscribe, B!queueVars, B!sendVars
<1>2. ASSUME NEW c \in Tabs, B!Greet(c) PROVE BrokerTyped'
  <2>1. client' \in [Tabs -> TabLabels]
    BY <1>2, <1>client DEF B!Greet, B!queueVars, B!sendVars, TabLabels, SenderLabels
  <2>2. seen' \in [Tabs -> BOOLEAN]
    BY <1>2, <1>seen, <1>dark, <1>buf DEF B!Greet, B!queueVars, B!sendVars, TabLabels, SenderLabels
  <2> QED BY <1>g, <1>2, <2>1, <2>2 DEF BrokerTyped, B!Greet, B!queueVars, B!sendVars
<1>3. ASSUME NEW c \in Tabs, B!Receive(c) PROVE BrokerTyped'
  <2>1. buf' \in [Tabs -> Seq(B!Event)]
    BY <1>3, <1>buf DEF B!Receive, B!sendVars
  <2>2. seen' \in [Tabs -> BOOLEAN]
    <3>1. seen' = seen \/ seen' = [seen EXCEPT ![c] = buf[c][1].on]
      <4>1. buf[c] # <<>> /\ Head(buf[c]) = buf[c][1]
        BY <1>3, <1>buf, TailFacts DEF B!Receive
      <4>2. seen' = [seen EXCEPT ![c] = IF Head(buf[c]).type = "dark" THEN Head(buf[c]).on ELSE seen[c]]
        BY <1>3 DEF B!Receive
      <4> QED  BY <4>1, <4>2, <1>seen
    <3>2. buf[c][1] \in B!Event
      BY <1>3, <1>buf, TailFacts DEF B!Receive
    <3>3. buf[c][1].on \in BOOLEAN
      BY <3>2 DEF B!Event
    <3> QED  BY <1>seen, <3>1, <3>3
  <2>3. last' \in [Tabs -> 0 .. MaxEvents]
    BY <1>3, <1>last DEF B!Receive, B!sendVars
  <2> QED BY <1>g, <1>3, <2>1, <2>2, <2>3 DEF BrokerTyped, B!Receive, B!sendVars
<1>4. ASSUME NEW c \in Tabs, B!Unsubscribe(c) PROVE BrokerTyped'
  <2>1. client' \in [Tabs -> TabLabels]
    BY <1>4, <1>client DEF B!Unsubscribe, B!queueVars, B!sendVars, TabLabels, SenderLabels
  <2>2. open' \in SUBSET Tabs
    BY <1>4, <1>open DEF B!Unsubscribe, B!queueVars, B!sendVars
  <2> QED BY <1>g, <1>4, <2>1, <2>2 DEF BrokerTyped, B!Unsubscribe, B!queueVars, B!sendVars
<1>5. ASSUME NEW s \in B!Senders, B!Announce(s) PROVE BrokerTyped'
  <2>1. spc' \in [B!Senders -> SenderLabels]
    BY <1>5, <1>spc DEF B!Announce, B!Broadcast, B!clientVars, B!queueVars, TabLabels, SenderLabels
  <2>2. evt' \in [B!Senders -> B!Event \cup Blank]
    BY <1>5, <1>evt, <1>emitted DEF B!Announce, B!Broadcast, B!Event
  <2>3. left' \in [B!Senders -> SUBSET Tabs]
    BY <1>5, <1>left DEF B!Announce, B!Broadcast, B!Registered
  <2>4. emitted' \in 0 .. MaxEvents
    BY <1>5, <1>emitted DEF B!Announce, B!Broadcast, B!clientVars, B!queueVars
  <2>5. noise' \in BOOLEAN
    BY <1>5, <1>noise DEF B!Announce, B!Broadcast, B!clientVars, B!queueVars
  <2> QED BY <1>g, <1>5, <2>1, <2>2, <2>3, <2>4 DEF BrokerTyped, B!Announce, B!clientVars,
     B!queueVars
<1>6. ASSUME NEW s \in B!Senders, B!LoadDark(s) PROVE BrokerTyped'
  <2>1. spc' \in [B!Senders -> SenderLabels]
    BY <1>6, <1>spc DEF B!LoadDark, B!NoEvent, B!clientVars, B!queueVars, TabLabels, SenderLabels
  <2>2. evt' \in [B!Senders -> B!Event \cup Blank]
    BY <1>6, <1>evt DEF B!LoadDark, B!NoEvent, Blank
  <2>3. raced' \in BOOLEAN
    BY <1>6 DEF B!LoadDark
  <2> QED BY <1>g, <1>6, <2>1, <2>2, <2>3 DEF BrokerTyped, B!LoadDark, B!NoEvent, B!clientVars,
     B!queueVars
<1>7. ASSUME NEW s \in B!Senders, B!StoreDark(s) PROVE BrokerTyped'
  <2>1. spc' \in [B!Senders -> SenderLabels]
    BY <1>7, <1>spc DEF B!StoreDark, B!clientVars, B!queueVars, TabLabels, SenderLabels
  <2>2. dark' \in BOOLEAN
    BY <1>7, <1>evt DEF B!StoreDark, Blank, B!Event
  <2> QED BY <1>g, <1>7, <2>1, <2>2 DEF BrokerTyped, B!StoreDark, B!clientVars, B!queueVars
<1>8. ASSUME NEW s \in B!Senders, B!AnnounceDark(s) PROVE BrokerTyped'
  <2>1. spc' \in [B!Senders -> SenderLabels]
    BY <1>8, <1>spc DEF B!AnnounceDark, B!Broadcast, B!clientVars, B!queueVars, TabLabels,
       SenderLabels
  <2>2. evt' \in [B!Senders -> B!Event \cup Blank]
    BY <1>8, <1>evt, <1>emitted DEF B!AnnounceDark, B!Broadcast, Blank, B!Event
  <2>3. left' \in [B!Senders -> SUBSET Tabs]
    BY <1>8, <1>left DEF B!AnnounceDark, B!Broadcast, B!Registered
  <2>4. emitted' \in 0 .. MaxEvents
    BY <1>8, <1>emitted DEF B!AnnounceDark, B!Broadcast, B!clientVars, B!queueVars
  <2> QED BY <1>g, <1>8, <2>1, <2>2, <2>3, <2>4 DEF BrokerTyped, B!AnnounceDark, B!Broadcast,
     B!clientVars, B!queueVars
<1>9. ASSUME NEW s \in B!Senders, NEW c \in Tabs, B!TrySend(s, c) PROVE BrokerTyped'
  <2>1. buf' \in [Tabs -> Seq(B!Event)]
    <3>1. buf' = buf \/ buf' = [buf EXCEPT ![c] = Append(buf[c], evt[s])]
      BY <1>9, TrySendCases
    <3>2. Append(buf[c], evt[s]) \in Seq(B!Event)
      BY <1>9, <1>buf, TrySendCases, AppendFacts
    <3> QED  BY <1>buf, <3>1, <3>2
  <2>2. send' \in [Tabs -> B!Senders \cup {Nobody}]
    BY <1>9, <1>send DEF B!TrySend, B!Put, B!Served, B!clientVars
  <2>3. last' \in [Tabs -> 0 .. MaxEvents]
    <3>1. last' = last \/ last' = [last EXCEPT ![c] = evt[s].id]
      BY <1>9, <1>last, TrySendCases
    <3>2. evt[s].id \in 0 .. MaxEvents
      BY <1>9, TrySendCases DEF B!Event
    <3> QED  BY <1>last, <3>1, <3>2
  <2>4. spc' \in [B!Senders -> SenderLabels]
    BY <1>9, <1>spc DEF B!TrySend, B!Put, B!Served, B!clientVars, TabLabels, SenderLabels
  <2>5. left' \in [B!Senders -> SUBSET Tabs]
    BY <1>9, <1>left DEF B!TrySend, B!Put, B!Served, B!clientVars
  <2>6. to' \in [B!Senders -> Tabs]
    BY <1>9, <1>to DEF B!TrySend, B!Put, B!Served, B!clientVars
  <2>7. crashed' \in BOOLEAN
    BY <1>9, <1>crashed DEF B!TrySend, B!Put, B!Served, B!clientVars
  <2> QED BY <1>g, <1>9, <2>1, <2>2, <2>3, <2>4, <2>7 DEF BrokerTyped, B!TrySend, B!clientVars
<1>10. ASSUME NEW s \in B!Senders, B!Evict(s) PROVE BrokerTyped'
  <2>1. buf' \in [Tabs -> Seq(B!Event)]
    BY <1>10, <1>buf, <1>evt, <1>to DEF B!Evict, B!clientVars, TabLabels, SenderLabels
  <2>2. spc' \in [B!Senders -> SenderLabels]
    BY <1>10, <1>spc DEF B!Evict, B!clientVars, TabLabels, SenderLabels
  <2> QED BY <1>g, <1>10, <2>1, <2>2 DEF BrokerTyped, B!Evict, B!clientVars
<1>11. ASSUME NEW s \in B!Senders, B!Retry(s) PROVE BrokerTyped'
  <2>1. buf' \in [Tabs -> Seq(B!Event)]
    <3>1. buf' = [buf EXCEPT ![to[s]] = Append(buf[to[s]], evt[s])] /\ evt[s] \in B!Event
      BY <1>11, RetryPuts
    <3>2. Append(buf[to[s]], evt[s]) \in Seq(B!Event)
      BY <1>buf, <1>to, <3>1, AppendFacts
    <3> QED  BY <1>buf, <3>1, <3>2
  <2>2. send' \in [Tabs -> B!Senders \cup {Nobody}]
    BY <1>11, <1>send DEF B!Retry, B!Put, B!Served, B!clientVars
  <2>3. last' \in [Tabs -> 0 .. MaxEvents]
    BY <1>11, <1>last, <1>evt, <1>to DEF B!Retry, B!Served, Blank, B!Event
  <2>4. spc' \in [B!Senders -> SenderLabels]
    BY <1>11, <1>spc DEF B!Retry, B!Put, B!Served, B!clientVars, TabLabels, SenderLabels
  <2>5. crashed' \in BOOLEAN
    BY <1>11, <1>crashed DEF B!Retry, B!Put, B!Served, B!clientVars
  <2> QED BY <1>g, <1>11, <2>1, <2>2, <2>3, <2>4, <2>5 DEF BrokerTyped, B!Retry, B!clientVars
<1>12. ASSUME NEW s \in B!Senders, B!Return(s) PROVE BrokerTyped'
  <2>1. spc' \in [B!Senders -> SenderLabels]
    BY <1>12, <1>spc DEF B!Return, B!NoEvent, B!clientVars, B!queueVars, TabLabels, SenderLabels
  <2>2. evt' \in [B!Senders -> B!Event \cup Blank]
    BY <1>12, <1>evt DEF B!Return, B!NoEvent, Blank
  <2> QED BY <1>g, <1>12, <2>1, <2>2 DEF BrokerTyped, B!Return, B!NoEvent, B!clientVars, B!queueVars
<1> QED
  BY <1>1, <1>2, <1>3, <1>4, <1>5, <1>6, <1>7, <1>8, <1>9, <1>10, <1>11, <1>12 DEF B!Next,
     B!SendStep

(* Evicting is done under the client's mutex.                              *)
LEMMA SendLockStep ==
    ASSUME BrokerIInv, B!Next PROVE SendLock'
<1> USE EventAssumption
<1>i. SendLock
  BY DEF BrokerIInv
<1>buf. buf \in [Tabs -> Seq(B!Event)]
  BY DEF BrokerIInv, BrokerTyped, TabLabels, SenderLabels
<1>send. send \in [Tabs -> B!Senders \cup {Nobody}]
  BY DEF BrokerIInv, BrokerTyped, TabLabels, SenderLabels
<1>spc. spc \in [B!Senders -> SenderLabels]
  BY DEF BrokerIInv, BrokerTyped, TabLabels, SenderLabels
<1>to. to \in [B!Senders -> Tabs]
  BY DEF BrokerIInv, BrokerTyped, TabLabels, SenderLabels
<1>1. ASSUME NEW c \in Tabs, B!Subscribe(c) PROVE SendLock'
  BY <1>i, <1>1 DEF SendLock, Evicting, B!Subscribe, B!queueVars, B!sendVars
<1>2. ASSUME NEW c \in Tabs, B!Greet(c) PROVE SendLock'
  BY <1>i, <1>2 DEF SendLock, Evicting, B!Greet, B!queueVars, B!sendVars
<1>3. ASSUME NEW c \in Tabs, B!Receive(c) PROVE SendLock'
  BY <1>i, <1>3 DEF SendLock, Evicting, B!Receive, B!sendVars
<1>4. ASSUME NEW c \in Tabs, B!Unsubscribe(c) PROVE SendLock'
  BY <1>i, <1>4 DEF SendLock, Evicting, B!Unsubscribe, B!queueVars, B!sendVars
<1>5. ASSUME NEW s \in B!Senders, B!Announce(s) PROVE SendLock'
  BY <1>i, <1>5 DEF SendLock, Evicting, B!Announce, B!Broadcast, B!clientVars, B!queueVars
<1>6. ASSUME NEW s \in B!Senders, B!LoadDark(s) PROVE SendLock'
  BY <1>i, <1>6 DEF SendLock, Evicting, B!LoadDark, B!NoEvent, B!clientVars, B!queueVars
<1>7. ASSUME NEW s \in B!Senders, B!StoreDark(s) PROVE SendLock'
  BY <1>i, <1>7 DEF SendLock, Evicting, B!StoreDark, B!clientVars, B!queueVars
<1>8. ASSUME NEW s \in B!Senders, B!AnnounceDark(s) PROVE SendLock'
  BY <1>i, <1>8 DEF SendLock, Evicting, B!AnnounceDark, B!Broadcast, B!clientVars, B!queueVars
<1>9. ASSUME NEW s \in B!Senders, NEW c \in Tabs, B!TrySend(s, c) PROVE SendLock'
  <2>1. spc[s] = "next" /\ send[c] = Nobody
    BY <1>9, TrySendCases
  <2>2. \A x \in B!Senders : x # s => spc'[x] = spc[x] /\ to'[x] = to[x]
    BY <1>9, <1>spc, <1>to, TrySendCases
  <2>3. \A x \in B!Senders : x # s /\ spc[x] \in Evicting => to[x] # c
    BY <1>i, <2>1 DEF SendLock
  <2>4. ASSUME NEW d \in Tabs, d # c PROVE buf'[d] = buf[d] /\ send'[d] = send[d]
    BY <1>9, <1>buf, <1>send, <2>4, TrySendCases
  <2>5. CASE spc'[s] = "next"
    <3>1. Len(buf'[c]) <= QueueCap
      <4>1. CASE buf' = buf
        BY <1>i, <4>1 DEF SendLock
      <4>2. CASE buf' # buf
        BY <1>9, <1>buf, <4>2, TrySendCases, AppendFacts
      <4> QED  BY <4>1, <4>2
    <3> QED  BY <1>i, <1>to, <2>2, <2>3, <2>4, <2>5, <3>1 DEF SendLock, Evicting
  <2>6. CASE spc'[s] # "next"
    <3>1. spc'[s] = "evict" /\ buf' = buf /\ to'[s] = c /\ send'[c] = s
      BY <1>9, <1>spc, <1>to, <1>send, <2>6, TrySendCases
    <3> QED  BY <1>i, <1>to, <2>2, <2>3, <2>4, <3>1 DEF SendLock, Evicting
  <2> QED  BY <2>5, <2>6
<1>10. ASSUME NEW s \in B!Senders, B!Evict(s) PROVE SendLock'
  BY <1>i, <1>10, <1>buf, <1>to DEF SendLock, Evicting, B!Evict
<1>11. ASSUME NEW s \in B!Senders, B!Retry(s) PROVE SendLock'
  <2>1. /\ spc[s] = "retry" /\ spc' = [spc EXCEPT ![s] = "next"] /\ to' = to
        /\ send' = [send EXCEPT ![to[s]] = Nobody]
    BY <1>11 DEF B!Retry, B!Served, B!sendVars
  <2>2. \A x \in B!Senders : x # s /\ spc[x] \in Evicting => to[x] # to[s]
    BY <1>i, <2>1 DEF SendLock, Evicting
  <2>3. buf' = [buf EXCEPT ![to[s]] = Append(buf[to[s]], evt[s])] /\ evt[s] \in B!Event
    BY <1>11, RetryPuts
  <2>4. Len(buf'[to[s]]) <= QueueCap
    BY <1>11, <1>i, <1>buf, <1>to, <2>1, <2>3, AppendFacts DEF SendLock
  <2>5. \A d \in Tabs : d # to[s] => buf'[d] = buf[d]
    BY <1>buf, <2>3
  <2> QED  BY <1>i, <1>spc, <1>to, <1>send, <2>1, <2>2, <2>4, <2>5 DEF SendLock, Evicting
<1>12. ASSUME NEW s \in B!Senders, B!Return(s) PROVE SendLock'
  BY <1>i, <1>12 DEF SendLock, Evicting, B!Return, B!NoEvent, B!clientVars, B!queueVars
<1> QED
  BY <1>1, <1>2, <1>3, <1>4, <1>5, <1>6, <1>7, <1>8, <1>9, <1>10, <1>11, <1>12 DEF B!Next,
     B!SendStep

(* A sender serves registered clients only.                                *)
LEMMA ServesOpenStep ==
    ASSUME BrokerIInv, B!Next PROVE ServesOpen'
<1> USE EventAssumption
<1>i. ServesOpen
  BY DEF BrokerIInv
<1>client. client \in [Tabs -> TabLabels]
  BY DEF BrokerIInv, BrokerTyped, TabLabels, SenderLabels
<1>spc. spc \in [B!Senders -> SenderLabels]
  BY DEF BrokerIInv, BrokerTyped, TabLabels, SenderLabels
<1>left. left \in [B!Senders -> SUBSET Tabs]
  BY DEF BrokerIInv, BrokerTyped, TabLabels, SenderLabels
<1>to. to \in [B!Senders -> Tabs]
  BY DEF BrokerIInv, BrokerTyped, TabLabels, SenderLabels
<1>1. ASSUME NEW c \in Tabs, B!Subscribe(c) PROVE ServesOpen'
  BY <1>i, <1>1, <1>client DEF ServesOpen, B!Registered, B!Subscribe, B!sendVars
<1>2. ASSUME NEW c \in Tabs, B!Greet(c) PROVE ServesOpen'
  BY <1>i, <1>2 DEF ServesOpen, Evicting, Serving, B!Registered, B!Greet, B!queueVars, B!sendVars
<1>3. ASSUME NEW c \in Tabs, B!Receive(c) PROVE ServesOpen'
  BY <1>i, <1>3 DEF ServesOpen, Evicting, Serving, B!Registered, B!Receive, B!sendVars
<1>4. ASSUME NEW c \in Tabs, B!Unsubscribe(c) PROVE ServesOpen'
  BY <1>i, <1>4, <1>client DEF ServesOpen, Evicting, Serving, B!Registered, B!Unsubscribe,
     B!sendVars, B!ReadLocked
<1>5. ASSUME NEW s \in B!Senders, B!Announce(s) PROVE ServesOpen'
  BY <1>i, <1>5, <1>left DEF ServesOpen, Evicting, B!Registered, B!Announce, B!Broadcast,
     B!clientVars
<1>6. ASSUME NEW s \in B!Senders, B!LoadDark(s) PROVE ServesOpen'
  BY <1>i, <1>6 DEF ServesOpen, Evicting, Serving, B!Registered, B!LoadDark, B!NoEvent,
     B!clientVars, B!queueVars
<1>7. ASSUME NEW s \in B!Senders, B!StoreDark(s) PROVE ServesOpen'
  BY <1>i, <1>7 DEF ServesOpen, Evicting, Serving, B!Registered, B!StoreDark, B!clientVars,
     B!queueVars
<1>8. ASSUME NEW s \in B!Senders, B!AnnounceDark(s) PROVE ServesOpen'
  BY <1>i, <1>8, <1>left DEF ServesOpen, Evicting, B!Registered, B!AnnounceDark, B!Broadcast,
     B!clientVars
<1>9. ASSUME NEW s \in B!Senders, NEW c \in Tabs, B!TrySend(s, c) PROVE ServesOpen'
  BY <1>i, <1>9, <1>spc, <1>left, <1>to DEF ServesOpen, Serving, B!Registered, B!TrySend, B!Put,
     B!Served, B!clientVars
<1>10. ASSUME NEW s \in B!Senders, B!Evict(s) PROVE ServesOpen'
  BY <1>i, <1>10 DEF ServesOpen, Evicting, Serving, B!Registered, B!Evict, B!clientVars
<1>11. ASSUME NEW s \in B!Senders, B!Retry(s) PROVE ServesOpen'
  BY <1>i, <1>11, <1>spc DEF ServesOpen, Evicting, Serving, B!Registered, B!Retry, B!Put, B!Served,
     B!clientVars
<1>12. ASSUME NEW s \in B!Senders, B!Return(s) PROVE ServesOpen'
  BY <1>i, <1>12 DEF ServesOpen, Evicting, Serving, B!Registered, B!Return, B!NoEvent, B!clientVars,
     B!queueVars
<1> QED
  BY <1>1, <1>2, <1>3, <1>4, <1>5, <1>6, <1>7, <1>8, <1>9, <1>10, <1>11, <1>12 DEF B!Next,
     B!SendStep

(* A sender sends what it has.                                             *)
LEMMA EventInHandStep ==
    ASSUME BrokerIInv, B!Next PROVE EventInHand'
<1> USE EventAssumption
<1>i. EventInHand
  BY DEF BrokerIInv
<1>spc. spc \in [B!Senders -> SenderLabels]
  BY DEF BrokerIInv, BrokerTyped, TabLabels, SenderLabels
<1>evt. evt \in [B!Senders -> B!Event \cup Blank]
  BY DEF BrokerIInv, BrokerTyped, TabLabels, SenderLabels
<1>emitted. emitted \in 0 .. MaxEvents
  BY DEF BrokerIInv, BrokerTyped, TabLabels, SenderLabels
<1>1. ASSUME NEW c \in Tabs, B!Subscribe(c) PROVE EventInHand'
  BY <1>i, <1>1 DEF EventInHand, Evicting, Serving, B!Subscribe, B!queueVars, B!sendVars
<1>2. ASSUME NEW c \in Tabs, B!Greet(c) PROVE EventInHand'
  BY <1>i, <1>2 DEF EventInHand, Evicting, Serving, B!Greet, B!queueVars, B!sendVars
<1>3. ASSUME NEW c \in Tabs, B!Receive(c) PROVE EventInHand'
  BY <1>i, <1>3 DEF EventInHand, Evicting, Serving, B!Receive, B!sendVars
<1>4. ASSUME NEW c \in Tabs, B!Unsubscribe(c) PROVE EventInHand'
  BY <1>i, <1>4 DEF EventInHand, Evicting, Serving, B!Unsubscribe, B!queueVars, B!sendVars
<1>5. ASSUME NEW s \in B!Senders, B!Announce(s) PROVE EventInHand'
  BY <1>i, <1>5, <1>evt, <1>emitted DEF EventInHand, Evicting, B!Announce, B!Broadcast, B!Event
<1>6. ASSUME NEW s \in B!Senders, B!LoadDark(s) PROVE EventInHand'
  BY <1>i, <1>6 DEF EventInHand, Evicting, Serving, B!LoadDark, B!NoEvent, B!clientVars, B!queueVars
<1>7. ASSUME NEW s \in B!Senders, B!StoreDark(s) PROVE EventInHand'
  BY <1>i, <1>7 DEF EventInHand, Evicting, Serving, B!StoreDark, B!clientVars, B!queueVars
<1>8. ASSUME NEW s \in B!Senders, B!AnnounceDark(s) PROVE EventInHand'
  BY <1>i, <1>8, <1>evt, <1>emitted DEF EventInHand, B!AnnounceDark, B!Broadcast, Blank, B!Event,
     B!Evictable
<1>9. ASSUME NEW s \in B!Senders, NEW c \in Tabs, B!TrySend(s, c) PROVE EventInHand'
  BY <1>i, <1>9, <1>spc DEF EventInHand, Serving, B!TrySend, B!Served
<1>10. ASSUME NEW s \in B!Senders, B!Evict(s) PROVE EventInHand'
  BY <1>i, <1>10 DEF EventInHand, Evicting, Serving, B!Evict, B!clientVars
<1>11. ASSUME NEW s \in B!Senders, B!Retry(s) PROVE EventInHand'
  BY <1>i, <1>11 DEF EventInHand, Evicting, Serving, B!Retry, B!Put, B!Served, B!clientVars
<1>12. ASSUME NEW s \in B!Senders, B!Return(s) PROVE EventInHand'
  BY <1>i, <1>12, <1>spc DEF EventInHand, Evicting, Serving, B!Return
<1> QED
  BY <1>1, <1>2, <1>3, <1>4, <1>5, <1>6, <1>7, <1>8, <1>9, <1>10, <1>11, <1>12 DEF B!Next,
     B!SendStep

(* Nobody sends to a client that has not subscribed.                       *)
LEMMA NothingYetStep ==
    ASSUME BrokerIInv, B!Next PROVE NothingYet'
<1> USE EventAssumption
<1>i. NothingYet
  BY DEF BrokerIInv
<1>so. ServesOpen
  BY DEF BrokerIInv
<1>buf. buf \in [Tabs -> Seq(B!Event)]
  BY DEF BrokerIInv, BrokerTyped, TabLabels, SenderLabels
<1>last. last \in [Tabs -> 0 .. MaxEvents]
  BY DEF BrokerIInv, BrokerTyped, TabLabels, SenderLabels
<1>1. ASSUME NEW c \in Tabs, B!Subscribe(c) PROVE NothingYet'
  BY <1>i, <1>1 DEF NothingYet, B!Subscribe, B!queueVars, B!sendVars
<1>2. ASSUME NEW c \in Tabs, B!Greet(c) PROVE NothingYet'
  BY <1>i, <1>2 DEF NothingYet, B!Greet, B!queueVars, B!sendVars
<1>3. ASSUME NEW c \in Tabs, B!Receive(c) PROVE NothingYet'
  BY <1>i, <1>3 DEF NothingYet, B!Receive, B!sendVars
<1>4. ASSUME NEW c \in Tabs, B!Unsubscribe(c) PROVE NothingYet'
  BY <1>i, <1>4 DEF NothingYet, B!Unsubscribe, B!queueVars, B!sendVars
<1>5. ASSUME NEW s \in B!Senders, B!Announce(s) PROVE NothingYet'
  BY <1>i, <1>5 DEF NothingYet, B!Announce, B!Broadcast, B!clientVars, B!queueVars
<1>6. ASSUME NEW s \in B!Senders, B!LoadDark(s) PROVE NothingYet'
  BY <1>i, <1>6 DEF NothingYet, B!LoadDark, B!NoEvent, B!clientVars, B!queueVars
<1>7. ASSUME NEW s \in B!Senders, B!StoreDark(s) PROVE NothingYet'
  BY <1>i, <1>7 DEF NothingYet, B!StoreDark, B!clientVars, B!queueVars
<1>8. ASSUME NEW s \in B!Senders, B!AnnounceDark(s) PROVE NothingYet'
  BY <1>i, <1>8 DEF NothingYet, B!AnnounceDark, B!Broadcast, B!clientVars, B!queueVars
<1>9. ASSUME NEW s \in B!Senders, NEW c \in Tabs, B!TrySend(s, c) PROVE NothingYet'
  BY <1>i, <1>9, <1>buf, <1>last, <1>so DEF NothingYet, B!TrySend, B!Put, B!Served, B!clientVars,
     ServesOpen, Serving, B!Registered
<1>10. ASSUME NEW s \in B!Senders, B!Evict(s) PROVE NothingYet'
  BY <1>i, <1>10 DEF NothingYet, B!Evict, B!clientVars
<1>11. ASSUME NEW s \in B!Senders, B!Retry(s) PROVE NothingYet'
  BY <1>i, <1>11, <1>buf, <1>so DEF NothingYet, B!Retry, B!Put, B!Served, B!clientVars, ServesOpen,
     Evicting, B!Registered
<1>12. ASSUME NEW s \in B!Senders, B!Return(s) PROVE NothingYet'
  BY <1>i, <1>12 DEF NothingYet, B!Return, B!NoEvent, B!clientVars, B!queueVars
<1> QED
  BY <1>1, <1>2, <1>3, <1>4, <1>5, <1>6, <1>7, <1>8, <1>9, <1>10, <1>11, <1>12 DEF B!Next,
     B!SendStep

(* The last state event stays in the queue.                                *)
LEMMA LastStateStep ==
    ASSUME BrokerIInv, B!Next PROVE B!LastStateKept'
<1> USE EventAssumption
<1>i. B!LastStateKept
  BY DEF BrokerIInv
<1>ny. NothingYet
  BY DEF BrokerIInv
<1>client. client \in [Tabs -> TabLabels]
  BY DEF BrokerIInv, BrokerTyped, TabLabels, SenderLabels
<1>buf. buf \in [Tabs -> Seq(B!Event)]
  BY DEF BrokerIInv, BrokerTyped, TabLabels, SenderLabels
<1>last. last \in [Tabs -> 0 .. MaxEvents]
  BY DEF BrokerIInv, BrokerTyped, TabLabels, SenderLabels
<1>spc. spc \in [B!Senders -> SenderLabels]
  BY DEF BrokerIInv, BrokerTyped, TabLabels, SenderLabels
<1>to. to \in [B!Senders -> Tabs]
  BY DEF BrokerIInv, BrokerTyped, TabLabels, SenderLabels
<1>1. ASSUME NEW c \in Tabs, B!Subscribe(c) PROVE B!LastStateKept'
  BY <1>i, <1>1, <1>client, <1>ny DEF B!LastStateKept, B!Replacing, B!Registered, B!Subscribe,
     B!queueVars, B!sendVars, NothingYet
<1>2. ASSUME NEW c \in Tabs, B!Greet(c) PROVE B!LastStateKept'
  BY <1>i, <1>2 DEF B!LastStateKept, B!Replacing, B!Registered, B!Greet, B!queueVars, B!sendVars
<1>3. ASSUME NEW c \in Tabs, B!Receive(c) PROVE B!LastStateKept'
  <2>1. /\ buf[c] # <<>> /\ buf' = [buf EXCEPT ![c] = Tail(buf[c])] /\ UNCHANGED <<client, spc, to>>
        /\ last' = [last EXCEPT ![c] = IF Head(buf[c]).id = last[c] THEN 0 ELSE last[c]]
    BY <1>3 DEF B!Receive, B!sendVars
  <2> SUFFICES ASSUME NEW d \in B!Registered, last'[d] # 0, ~B!Replacing(d)
               PROVE  \E i \in 1 .. Len(buf'[d]) : buf'[d][i].id = last'[d]
    BY <2>1 DEF B!LastStateKept, B!Registered, B!Replacing
  <2>2. d \in Tabs
    BY DEF B!Registered
  <2>3. CASE d # c
    BY <1>i, <1>buf, <1>last, <2>1, <2>2, <2>3 DEF B!LastStateKept
  <2>4. CASE d = c
    <3>1. last'[c] = last[c] /\ last[c] # 0 /\ Head(buf[c]).id # last[c]
      BY <1>last, <2>1, <2>4
    <3>2. PICK i \in 1 .. Len(buf[c]) : buf[c][i].id = last[c]
      BY <1>i, <2>4, <3>1 DEF B!LastStateKept
    <3>3. /\ Head(buf[c]) = buf[c][1] /\ Len(Tail(buf[c])) = Len(buf[c]) - 1 /\ Len(buf[c]) \in Nat
          /\ \A j \in 1 .. Len(buf[c]) - 1 : Tail(buf[c])[j] = buf[c][j + 1]
      BY <1>buf, <2>1, TailFacts
    <3>4. i # 1
      BY <3>1, <3>2, <3>3
    <3>5. i - 1 \in 1 .. Len(buf[c]) - 1 /\ buf[c][(i - 1) + 1] = buf[c][i]
      BY <3>2, <3>3, <3>4
    <3>6. Tail(buf[c])[i - 1].id = last[c] /\ i - 1 \in 1 .. Len(Tail(buf[c]))
      BY <3>2, <3>3, <3>5
    <3> QED  BY <1>buf, <2>1, <2>4, <3>1, <3>6
  <2> QED  BY <2>3, <2>4
<1>4. ASSUME NEW c \in Tabs, B!Unsubscribe(c) PROVE B!LastStateKept'
  BY <1>i, <1>4 DEF B!LastStateKept, B!Replacing, B!Registered, B!Unsubscribe, B!queueVars,
     B!sendVars
<1>5. ASSUME NEW s \in B!Senders, B!Announce(s) PROVE B!LastStateKept'
  BY <1>i, <1>5 DEF B!LastStateKept, B!Replacing, B!Registered, B!Announce, B!Broadcast,
     B!clientVars, B!queueVars
<1>6. ASSUME NEW s \in B!Senders, B!LoadDark(s) PROVE B!LastStateKept'
  BY <1>i, <1>6 DEF B!LastStateKept, B!Replacing, B!Registered, B!LoadDark, B!NoEvent, B!clientVars,
     B!queueVars
<1>7. ASSUME NEW s \in B!Senders, B!StoreDark(s) PROVE B!LastStateKept'
  BY <1>i, <1>7 DEF B!LastStateKept, B!Replacing, B!Registered, B!StoreDark, B!clientVars,
     B!queueVars
<1>8. ASSUME NEW s \in B!Senders, B!AnnounceDark(s) PROVE B!LastStateKept'
  BY <1>i, <1>8 DEF B!LastStateKept, B!Replacing, B!Registered, B!AnnounceDark, B!Broadcast,
     B!clientVars, B!queueVars
<1>9. ASSUME NEW s \in B!Senders, NEW c \in Tabs, B!TrySend(s, c) PROVE B!LastStateKept'
  <2>1. spc[s] = "next"
    BY <1>9, TrySendCases
  <2>2. UNCHANGED client /\ \A x \in B!Senders : x # s => spc'[x] = spc[x] /\ to'[x] = to[x]
    BY <1>9, <1>spc, <1>to, TrySendCases
  <2> SUFFICES ASSUME NEW d \in B!Registered, last'[d] # 0, ~B!Replacing(d)'
               PROVE  \E i \in 1 .. Len(buf'[d]) : buf'[d][i].id = last'[d]
    BY <2>2 DEF B!LastStateKept, B!Registered
  <2>3. d \in Tabs
    BY DEF B!Registered
  <2>4. CASE d # c
    <3>1. buf'[d] = buf[d] /\ last'[d] = last[d]
      <4>1. buf' = buf \/ buf' = [buf EXCEPT ![c] = Append(buf[c], evt[s])]
        BY <1>9, TrySendCases
      <4>2. last' = last \/ last' = [last EXCEPT ![c] = evt[s].id]
        BY <1>9, <1>last, TrySendCases
      <4> QED  BY <1>buf, <1>last, <2>3, <2>4, <4>1, <4>2
    <3>2. ~B!Replacing(d)
      BY <2>2, <2>4, <2>1 DEF B!Replacing
    <3> QED  BY <1>i, <3>1, <3>2 DEF B!LastStateKept
  <2>5. CASE d = c
    <3>1. spc'[s] = "next"
      <4>1. spc'[s] = "evict" => to'[s] = c
        BY <1>9, <1>to, TrySendCases
      <4> QED  BY <1>9, <1>spc, <2>5, <4>1, TrySendCases DEF B!Replacing
    <3>2. ~B!Replacing(c)
      BY <1>9, <2>1, <2>5, SendLockHeld, TrySendCases DEF B!Replacing, Evicting
    <3>3. CASE buf' = buf
      <4>1. last'[c] = last[c]
        <5>1. Append(buf[c], evt[s]) # buf[c]
          BY <1>9, <1>buf, TrySendCases, AppendFacts
        <5>2. buf' # [buf EXCEPT ![c] = Append(buf[c], evt[s])]
          BY <1>buf, <3>3, <5>1
        <5> QED  BY <1>9, <5>2, TrySendCases
      <4> QED  BY <1>i, <2>5, <3>2, <3>3, <4>1 DEF B!LastStateKept
    <3>4. CASE buf' # buf
      <4>1. /\ buf' = [buf EXCEPT ![c] = Append(buf[c], evt[s])] /\ evt[s] \in B!Event
            /\ last' = [last EXCEPT ![c] = IF B!Evictable(evt[s]) THEN evt[s].id ELSE last[c]]
        BY <1>9, <3>4, TrySendCases
      <4> QED  BY <1>i, <1>buf, <1>last, <2>5, <3>2, <4>1, KeptWhenPut
    <3> QED  BY <3>3, <3>4
  <2> QED  BY <2>4, <2>5
<1>10. ASSUME NEW s \in B!Senders, B!Evict(s) PROVE B!LastStateKept'
  BY <1>i, <1>10 DEF B!LastStateKept, B!Replacing, B!Registered, B!Evict, B!clientVars
<1>11. ASSUME NEW s \in B!Senders, B!Retry(s) PROVE B!LastStateKept'
  <2>1. /\ spc[s] = "retry" /\ spc' = [spc EXCEPT ![s] = "next"] /\ to' = to
        /\ last' = [last EXCEPT ![to[s]] = evt[s].id]
        /\ buf' = [buf EXCEPT ![to[s]] = Append(buf[to[s]], evt[s])] /\ evt[s] \in B!Event
    BY <1>11, RetryPuts
  <2>2. UNCHANGED client /\ \A x \in B!Senders : x # s => spc'[x] = spc[x] /\ to'[x] = to[x]
    BY <1>11, <1>spc, <2>1 DEF B!Retry, B!clientVars
  <2> SUFFICES ASSUME NEW d \in B!Registered, last'[d] # 0, ~B!Replacing(d)'
               PROVE  \E i \in 1 .. Len(buf'[d]) : buf'[d][i].id = last'[d]
    BY <2>2 DEF B!LastStateKept, B!Registered
  <2>3. d \in Tabs
    BY DEF B!Registered
  <2>4. CASE d # to[s]
    <3>1. buf'[d] = buf[d] /\ last'[d] = last[d]
      BY <1>buf, <1>last, <2>1, <2>3, <2>4
    <3>2. ~B!Replacing(d)
      BY <2>2, <2>4, <2>1 DEF B!Replacing
    <3> QED  BY <1>i, <3>1, <3>2 DEF B!LastStateKept
  <2>5. CASE d = to[s]
    <3>1. Len(buf'[d]) = Len(buf[d]) + 1 /\ buf'[d][Len(buf[d]) + 1] = evt[s] /\ Len(buf[d]) \in Nat
      BY <1>buf, <1>to, <2>1, <2>5, AppendFacts
    <3>2. last'[d] = evt[s].id /\ Len(buf[d]) + 1 \in 1 .. Len(buf'[d])
      BY <1>last, <1>to, <2>1, <2>5, <3>1
    <3> QED  BY <3>1, <3>2
  <2> QED  BY <2>4, <2>5
<1>12. ASSUME NEW s \in B!Senders, B!Return(s) PROVE B!LastStateKept'
  BY <1>i, <1>12 DEF B!LastStateKept, B!Replacing, B!Registered, B!Return, B!NoEvent, B!clientVars,
     B!queueVars
<1> QED
  BY <1>1, <1>2, <1>3, <1>4, <1>5, <1>6, <1>7, <1>8, <1>9, <1>10, <1>11, <1>12 DEF B!Next,
     B!SendStep

(* A state in which nothing but the filter was ever broadcast, and no two  *)
(* toggles are under way.                                                  *)
FilterState == BrokerIInv /\ OnlyDark /\ OneToggler /\ FilterOnItsWay

(* An event about the filter leaves the queue one of such events.          *)
LEMMA DarkWhenPut ==
    ASSUME NEW c \in Tabs, NEW e \in B!Event, e.type = "dark", buf \in [Tabs -> Seq(B!Event)],
           \A d \in Tabs : \A i \in 1 .. Len(buf[d]) : buf[d][i].type = "dark",
           buf' = [buf EXCEPT ![c] = Append(buf[c], e)]
    PROVE  /\ \A d \in Tabs : \A i \in 1 .. Len(buf'[d]) : buf'[d][i].type = "dark"
           /\ buf'[c] # <<>> /\ buf'[c][Len(buf'[c])] = e
<1>1. /\ Len(buf'[c]) = Len(buf[c]) + 1 /\ buf'[c][Len(buf[c]) + 1] = e /\ Len(buf[c]) \in Nat
      /\ buf'[c] # <<>> /\ \A i \in 1 .. Len(buf[c]) : buf'[c][i] = buf[c][i]
  BY AppendFacts
<1>2. ASSUME NEW d \in Tabs, NEW i \in 1 .. Len(buf'[d]) PROVE buf'[d][i].type = "dark"
  <2>1. CASE d # c
    BY <1>2, <2>1
  <2>2. CASE d = c /\ i = Len(buf[c]) + 1
    BY <1>1, <2>2
  <2>3. CASE d = c /\ i # Len(buf[c]) + 1
    <3>1. i \in 1 .. Len(buf[c])
      BY <1>1, <1>2, <2>3
    <3> QED  BY <1>1, <2>3, <3>1
  <2> QED  BY <2>1, <2>2, <2>3
<1> QED  BY <1>1, <1>2

(* What is queued is about the filter.                                     *)
LEMMA OnlyDarkStep ==
    ASSUME BrokerIInv, OnlyDark, B!Next, ~noise' PROVE OnlyDark'
<1> USE EventAssumption
<1>i. OnlyDark
  OBVIOUS
<1>buf. buf \in [Tabs -> Seq(B!Event)]
  BY DEF BrokerIInv, BrokerTyped, TabLabels, SenderLabels
<1>spc. spc \in [B!Senders -> SenderLabels]
  BY DEF BrokerIInv, BrokerTyped, TabLabels, SenderLabels
<1>evt. evt \in [B!Senders -> B!Event \cup Blank]
  BY DEF BrokerIInv, BrokerTyped, TabLabels, SenderLabels
<1>to. to \in [B!Senders -> Tabs]
  BY DEF BrokerIInv, BrokerTyped, TabLabels, SenderLabels
<1>1. ASSUME NEW c \in Tabs, B!Subscribe(c) PROVE OnlyDark'
  BY <1>i, <1>1 DEF OnlyDark, Serving, B!Subscribe, B!queueVars, B!sendVars
<1>2. ASSUME NEW c \in Tabs, B!Greet(c) PROVE OnlyDark'
  BY <1>i, <1>2 DEF OnlyDark, Serving, B!Greet, B!queueVars, B!sendVars
<1>3. ASSUME NEW c \in Tabs, B!Receive(c) PROVE OnlyDark'
  BY <1>i, <1>3 DEF OnlyDark, Serving, B!Receive, B!sendVars
<1>4. ASSUME NEW c \in Tabs, B!Unsubscribe(c) PROVE OnlyDark'
  BY <1>i, <1>4 DEF OnlyDark, Serving, B!Unsubscribe, B!queueVars, B!sendVars
<1>5. ASSUME NEW s \in B!Senders, B!Announce(s) PROVE OnlyDark'
  BY <1>i, <1>5 DEF OnlyDark, Serving, B!Announce, B!Broadcast, B!clientVars, B!queueVars
<1>6. ASSUME NEW s \in B!Senders, B!LoadDark(s) PROVE OnlyDark'
  BY <1>i, <1>6 DEF OnlyDark, Serving, B!LoadDark, B!NoEvent, B!clientVars, B!queueVars
<1>7. ASSUME NEW s \in B!Senders, B!StoreDark(s) PROVE OnlyDark'
  BY <1>i, <1>7 DEF OnlyDark, Serving, B!StoreDark, B!clientVars, B!queueVars
<1>8. ASSUME NEW s \in B!Senders, B!AnnounceDark(s) PROVE OnlyDark'
  BY <1>i, <1>8, <1>evt DEF OnlyDark, B!AnnounceDark, B!Broadcast, B!queueVars
<1>9. ASSUME NEW s \in B!Senders, NEW c \in Tabs, B!TrySend(s, c) PROVE OnlyDark'
  <2>1. BrokerIInv
    OBVIOUS
  <2>2. spc[s] = "next" /\ evt[s] \in B!Event /\ UNCHANGED <<evt, dark>>
    BY <1>9, <2>1, TrySendCases
  <2>3. \A x \in B!Senders : spc'[x] = spc[x] \/ (x = s /\ spc'[x] \in Serving)
    BY <1>9, <1>spc, <2>1, TrySendCases DEF Serving
  <2>4. evt[s].type = "dark" /\ spc[s] \in Serving
    BY <1>i, <2>2 DEF OnlyDark, Serving
  <2>5. buf' = buf \/ buf' = [buf EXCEPT ![c] = Append(buf[c], evt[s])]
    BY <1>9, <2>1, TrySendCases
  <2>6. \A d \in Tabs : \A i \in 1 .. Len(buf'[d]) : buf'[d][i].type = "dark"
    BY <1>i, <1>buf, <2>2, <2>4, <2>5, DarkWhenPut DEF OnlyDark
  <2> QED  BY <1>i, <2>2, <2>3, <2>4, <2>6 DEF OnlyDark
<1>10. ASSUME NEW s \in B!Senders, B!Evict(s) PROVE OnlyDark'
  <2>1. /\ spc[s] = "evict" /\ evt' = evt
        /\ \A x \in B!Senders : spc'[x] = spc[x] \/ (x = s /\ spc'[x] \in Serving)
    BY <1>10, <1>spc DEF Serving, B!Evict
  <2>2. ASSUME NEW d \in Tabs, NEW i \in 1 .. Len(buf'[d]) PROVE buf'[d][i].type = "dark"
    <3>1. buf'[d] = buf[d] \/ (buf[d] # <<>> /\ buf'[d] = Tail(buf[d]))
      BY <1>10, <1>buf DEF B!Evict
    <3>2. CASE buf'[d] = buf[d]
      BY <1>i, <2>2, <3>2 DEF OnlyDark
    <3>3. CASE buf[d] # <<>> /\ buf'[d] = Tail(buf[d])
      <4>1. /\ Len(Tail(buf[d])) = Len(buf[d]) - 1 /\ Len(buf[d]) \in Nat
            /\ \A j \in 1 .. Len(buf[d]) - 1 : Tail(buf[d])[j] = buf[d][j + 1]
        BY <1>buf, <3>3, TailFacts
      <4>2. i + 1 \in 1 .. Len(buf[d]) /\ buf'[d][i] = buf[d][i + 1]
        BY <2>2, <3>3, <4>1
      <4> QED  BY <1>i, <4>2 DEF OnlyDark
    <3> QED  BY <3>1, <3>2, <3>3
  <2>3. \A x \in B!Senders : spc'[x] # "idle" => x \in Togglers
    BY <1>i, <2>1 DEF OnlyDark
  <2>4. \A x \in B!Senders : spc'[x] \in Serving => evt'[x].type = "dark"
    BY <1>i, <2>1 DEF OnlyDark, Serving
  <2> QED  BY <2>2, <2>3, <2>4 DEF OnlyDark
<1>11. ASSUME NEW s \in B!Senders, B!Retry(s) PROVE OnlyDark'
  <2>1. BrokerIInv
    OBVIOUS
  <2>2. /\ spc[s] = "retry" /\ spc' = [spc EXCEPT ![s] = "next"] /\ evt[s] \in B!Event
        /\ UNCHANGED <<evt, dark>> /\ to[s] \in Tabs
        /\ buf' = [buf EXCEPT ![to[s]] = Append(buf[to[s]], evt[s])]
    BY <1>11, <1>to, <2>1, RetryPuts
  <2>3. \A x \in B!Senders : spc'[x] = spc[x] \/ (x = s /\ spc'[x] \in Serving)
    BY <1>spc, <2>2 DEF Serving
  <2>4. evt[s].type = "dark" /\ spc[s] \in Serving
    BY <1>i, <2>2 DEF OnlyDark, Serving
  <2>5. \A d \in Tabs : \A i \in 1 .. Len(buf'[d]) : buf'[d][i].type = "dark"
    BY <1>i, <1>buf, <2>2, <2>4, DarkWhenPut DEF OnlyDark
  <2> QED  BY <1>i, <2>2, <2>3, <2>4, <2>5 DEF OnlyDark
<1>12. ASSUME NEW s \in B!Senders, B!Return(s) PROVE OnlyDark'
  BY <1>i, <1>12, <1>spc DEF OnlyDark, Serving, B!Return, B!queueVars
<1> QED
  BY <1>1, <1>2, <1>3, <1>4, <1>5, <1>6, <1>7, <1>8, <1>9, <1>10, <1>11, <1>12 DEF B!Next,
     B!SendStep

(* A toggle that began alone stays alone until another begins.             *)
LEMMA OneTogglerStep ==
    ASSUME FilterState, B!Next, \A s \in B!Senders : ~B!LoadDark(s), ~noise' PROVE OneToggler'
<1>i. OneToggler /\ OnlyDark
  BY DEF FilterState
<1>b. BrokerIInv
  BY DEF FilterState
<1>spc. spc \in [B!Senders -> SenderLabels]
  BY <1>b DEF BrokerIInv, BrokerTyped
<1>evt. evt \in [B!Senders -> B!Event \cup Blank]
  BY <1>b DEF BrokerIInv, BrokerTyped
<1>1. ASSUME NEW c \in Tabs, B!Subscribe(c) \/ B!Greet(c) \/ B!Receive(c) \/ B!Unsubscribe(c)
      PROVE  OneToggler'
  BY <1>i, <1>1 DEF OneToggler, B!Subscribe, B!Greet, B!Receive, B!Unsubscribe, B!queueVars, B!sendVars
<1>2. ASSUME NEW s \in B!Senders, B!Announce(s) PROVE OneToggler'
  BY <1>2 DEF B!Announce
<1>3. ASSUME NEW s \in B!Senders, B!StoreDark(s) PROVE OneToggler'
  BY <1>i, <1>3, <1>spc DEF OneToggler, OnlyDark, Serving, B!StoreDark, B!Senders
<1>4. ASSUME NEW s \in B!Senders, B!AnnounceDark(s) PROVE OneToggler'
  BY <1>i, <1>4, <1>spc, <1>evt DEF OneToggler, Serving, B!AnnounceDark, B!Broadcast, B!Senders
<1>5. ASSUME NEW s \in B!Senders, UNCHANGED <<evt, dark>>,
             \A x \in B!Senders : spc'[x] = spc[x] \/ (x = s /\ spc'[x] \in Serving),
             spc[s] \in Serving
      PROVE  OneToggler'
  BY <1>i, <1>5 DEF OneToggler, Serving, B!Senders
<1>6. ASSUME NEW s \in B!Senders, NEW c \in Tabs, B!TrySend(s, c) PROVE OneToggler'
  BY <1>5, <1>6, <1>b, <1>spc, TrySendCases DEF Serving
<1>7. ASSUME NEW s \in B!Senders, B!Evict(s) PROVE OneToggler'
  BY <1>5, <1>7, <1>spc DEF Serving, B!Evict, B!clientVars
<1>8. ASSUME NEW s \in B!Senders, B!Retry(s) PROVE OneToggler'
  BY <1>5, <1>8, <1>b, <1>spc, RetryPuts DEF Serving
<1>9. ASSUME NEW s \in B!Senders, B!Return(s) PROVE OneToggler'
  BY <1>i, <1>9, <1>spc, <1>evt DEF OneToggler, Serving, B!Return, B!Senders
<1> QED
  BY <1>1, <1>2, <1>3, <1>4, <1>6, <1>7, <1>8, <1>9 DEF B!Next, B!SendStep

(* A toggle that begins alone will tell every client.                      *)
LEMMA LoadAlone ==
    ASSUME BrokerIInv, OnlyDark, NEW s \in B!Senders, B!LoadDark(s), ~raced'
    PROVE  OneToggler' /\ FilterOnItsWay'
<1>1. /\ s \in Togglers /\ spc' = [spc EXCEPT ![s] = "store"]
      /\ \A x \in Togglers \ {s} : spc[x] = "idle"
  BY DEF B!LoadDark
<1>2. \A x \in B!Senders \ {s} : spc[x] = "idle"
  BY <1>1 DEF OnlyDark
<1>3. spc'[s] = "store" /\ \A x \in B!Senders \ {s} : spc'[x] = "idle"
  BY <1>1, <1>2 DEF BrokerIInv, BrokerTyped
<1>4. OneToggler'
  BY <1>3 DEF OneToggler, Serving, B!Senders
<1>5. FilterOnItsWay'
  BY <1>1, <1>3 DEF FilterOnItsWay, ToServe
<1> QED  BY <1>4, <1>5

(* A client shows the filter, or is yet to be told.                        *)
LEMMA FilterStep ==
    ASSUME FilterState, B!Next, \A s \in B!Senders : ~B!LoadDark(s), ~noise' PROVE FilterOnItsWay'
<1> USE EventAssumption DEF OneToggler
<1>i. FilterOnItsWay
  BY DEF FilterState, BrokerIInv
<1>od. OnlyDark /\ OneToggler
  BY DEF FilterState
<1>fw. FilterOnItsWay
  BY DEF FilterState, BrokerIInv
<1>ny. NothingYet
  BY DEF FilterState, BrokerIInv
<1>buf. buf \in [Tabs -> Seq(B!Event)]
  BY DEF FilterState, BrokerIInv, BrokerTyped, TabLabels, SenderLabels
<1>seen. seen \in [Tabs -> BOOLEAN]
  BY DEF FilterState, BrokerIInv, BrokerTyped, TabLabels, SenderLabels
<1>spc. spc \in [B!Senders -> SenderLabels]
  BY DEF FilterState, BrokerIInv, BrokerTyped, TabLabels, SenderLabels
<1>left. left \in [B!Senders -> SUBSET Tabs]
  BY DEF FilterState, BrokerIInv, BrokerTyped, TabLabels, SenderLabels
<1>to. to \in [B!Senders -> Tabs]
  BY DEF FilterState, BrokerIInv, BrokerTyped, TabLabels, SenderLabels
<1>1. ASSUME NEW c \in Tabs, B!Subscribe(c) PROVE FilterOnItsWay'
  BY <1>1, <1>fw, <1>ny DEF FilterOnItsWay, WillShow, ToServe, B!Registered, B!Subscribe,
     B!queueVars, B!sendVars, NothingYet
<1>2. ASSUME NEW c \in Tabs, B!Greet(c) PROVE FilterOnItsWay'
  BY <1>i, <1>2, <1>seen DEF FilterOnItsWay, WillShow, ToServe, B!Registered, B!Greet, B!queueVars,
     B!sendVars
<1>3. ASSUME NEW c \in Tabs, B!Receive(c) PROVE FilterOnItsWay'
  <2>1. /\ buf[c] # <<>> /\ buf' = [buf EXCEPT ![c] = Tail(buf[c])]
        /\ seen' = [seen EXCEPT ![c] = IF Head(buf[c]).type = "dark" THEN Head(buf[c]).on ELSE seen[c]]
        /\ UNCHANGED <<client, spc, left, to, dark>>
    BY <1>3 DEF B!Receive, B!sendVars
  <2>2. ASSUME NEW d \in Tabs, d # c, WillShow(d) PROVE WillShow(d)'
    <3>1. buf'[d] = buf[d]
      BY <1>buf, <2>1, <2>2
    <3>2. seen'[d] = seen[d]
      BY <1>seen, <2>1, <2>2
    <3> QED  BY <2>1, <2>2, <3>1, <3>2 DEF WillShow
  <2>3. ASSUME WillShow(c) PROVE WillShow(c)'
    <3>1. /\ Head(buf[c]) = buf[c][1] /\ Len(Tail(buf[c])) = Len(buf[c]) - 1 /\ Len(buf[c]) \in Nat \ {0}
          /\ \A j \in 1 .. Len(buf[c]) - 1 : Tail(buf[c])[j] = buf[c][j + 1]
          /\ Tail(buf[c]) \in Seq(B!Event)
      BY <1>buf, <2>1, TailFacts
    <3>2. buf[c][Len(buf[c])].on = dark /\ buf[c][1].type = "dark"
      BY <1>od, <2>1, <2>3, <3>1 DEF WillShow, OnlyDark
    <3>3. CASE Tail(buf[c]) = <<>>
      <4>1. Len(buf[c]) = 1
        BY <1>buf, <2>1, <3>3, TailFacts
      <4>2. seen'[c] = dark
        BY <1>seen, <2>1, <3>1, <3>2, <4>1
      <4>3. buf'[c] = <<>> /\ dark' = dark
        BY <1>buf, <2>1, <3>3
      <4> QED  BY <4>2, <4>3 DEF WillShow
    <3>4. CASE Tail(buf[c]) # <<>>
      <4>1. Len(buf[c]) - 1 \in 1 .. Len(buf[c]) - 1 /\ (Len(buf[c]) - 1) + 1 = Len(buf[c])
        BY <3>1, <3>4
      <4>2. Tail(buf[c])[Len(Tail(buf[c]))] = buf[c][Len(buf[c])]
        BY <3>1, <4>1
      <4>3. buf'[c] = Tail(buf[c]) /\ dark' = dark
        BY <1>buf, <2>1
      <4> QED  BY <3>2, <3>4, <4>2, <4>3 DEF WillShow
    <3> QED  BY <3>3, <3>4
  <2> QED  BY <1>i, <2>1, <2>2, <2>3 DEF FilterOnItsWay, ToServe, B!Registered
<1>4. ASSUME NEW c \in Tabs, B!Unsubscribe(c) PROVE FilterOnItsWay'
  BY <1>i, <1>4 DEF FilterOnItsWay, WillShow, ToServe, B!Registered, Serving, Evicting,
     B!Unsubscribe, B!queueVars, B!sendVars
<1>5. ASSUME NEW s \in B!Senders, B!Announce(s) PROVE FilterOnItsWay'
  BY <1>5 DEF B!Announce
<1>6. ASSUME NEW s \in B!Senders, B!LoadDark(s) PROVE FilterOnItsWay'
  BY <1>6
<1>7. ASSUME NEW s \in B!Senders, B!StoreDark(s) PROVE FilterOnItsWay'
  BY <1>7, <1>spc, <1>od DEF FilterOnItsWay, ToServe, B!StoreDark, OnlyDark
<1>8. ASSUME NEW s \in B!Senders, B!AnnounceDark(s) PROVE FilterOnItsWay'
  BY <1>i, <1>8, <1>left DEF FilterOnItsWay, WillShow, ToServe, B!Registered, Serving,
     B!AnnounceDark, B!Broadcast, B!clientVars, B!queueVars
<1>9. ASSUME NEW s \in B!Senders, NEW c \in Tabs, B!TrySend(s, c) PROVE FilterOnItsWay'
  <2>1. BrokerIInv
    BY DEF FilterState, BrokerIInv
  <2>2. /\ spc[s] = "next" /\ evt[s] \in B!Event /\ left' = [left EXCEPT ![s] = left[s] \ {c}]
        /\ to' = [to EXCEPT ![s] = c] /\ UNCHANGED <<client, seen, dark>>
    BY <1>9, <2>1, TrySendCases
  <2>3. s \in Togglers /\ evt[s].type = "dark" /\ evt[s].on = dark
    BY <1>od, <2>2 DEF OnlyDark, OneToggler, Serving
  <2>4. ASSUME NEW d \in Tabs, d # c, WillShow(d) PROVE WillShow(d)'
    <3>1. buf' = buf \/ buf' = [buf EXCEPT ![c] = Append(buf[c], evt[s])]
      BY <1>9, <2>1, TrySendCases
    <3>2. buf'[d] = buf[d]
      BY <1>buf, <2>4, <3>1
    <3> QED  BY <2>2, <2>4, <3>2 DEF WillShow
  <2>5. ASSUME NEW x \in Togglers, NEW d \in Tabs, d # c, ToServe(x, d) PROVE ToServe(x, d)'
    <3>1. x = s /\ d \in left[s]
      BY <1>od, <2>2, <2>3, <2>5 DEF ToServe, Evicting, Serving, OneToggler
    <3>2. spc'[s] \in Serving /\ d \in left'[s]
      BY <1>9, <1>spc, <1>left, <2>1, <2>2, <2>5, <3>1, TrySendCases DEF Serving
    <3> QED  BY <3>1, <3>2 DEF ToServe
  <2>6. WillShow(c)' \/ ToServe(s, c)'
    <3>1. CASE buf' = [buf EXCEPT ![c] = Append(buf[c], evt[s])]
      <4>1. buf'[c] # <<>> /\ buf'[c][Len(buf'[c])] = evt[s]
        BY <1>od, <1>buf, <2>2, <2>3, <3>1, DarkWhenPut DEF OnlyDark
      <4> QED  BY <2>2, <2>3, <4>1 DEF WillShow
    <3>2. CASE buf' # [buf EXCEPT ![c] = Append(buf[c], evt[s])]
      <4>1. B!Evictable(evt[s])
        BY <2>3 DEF B!Evictable
      <4>2. spc'[s] = "evict" /\ to'[s] = c
        BY <1>9, <1>spc, <1>to, <2>1, <3>2, <4>1, TrySendCases
      <4> QED  BY <4>2 DEF ToServe, Evicting
    <3> QED  BY <3>1, <3>2
  <2> QED  BY <1>i, <2>2, <2>3, <2>4, <2>5, <2>6 DEF FilterOnItsWay, B!Registered
<1>10. ASSUME NEW s \in B!Senders, B!Evict(s) PROVE FilterOnItsWay'
  BY <1>10, <1>od, <1>fw DEF FilterOnItsWay, WillShow, ToServe, B!Registered, Serving, Evicting,
     B!Evict, B!clientVars, OnlyDark, B!Senders
<1>11. ASSUME NEW s \in B!Senders, B!Retry(s) PROVE FilterOnItsWay'
  <2>1. BrokerIInv
    BY DEF FilterState, BrokerIInv
  <2>2. /\ spc[s] = "retry" /\ spc' = [spc EXCEPT ![s] = "next"] /\ evt[s] \in B!Event
        /\ UNCHANGED <<client, seen, left, to, dark>> /\ to[s] \in Tabs
        /\ buf' = [buf EXCEPT ![to[s]] = Append(buf[to[s]], evt[s])]
    BY <1>11, <1>to, <2>1, RetryPuts
  <2>3. s \in Togglers /\ evt[s].type = "dark" /\ evt[s].on = dark
    BY <1>od, <2>2 DEF OnlyDark, OneToggler, Serving
  <2>4. ASSUME NEW d \in Tabs, d # to[s], WillShow(d) PROVE WillShow(d)'
    <3>1. buf'[d] = buf[d]
      BY <1>buf, <2>2, <2>4
    <3> QED  BY <2>2, <2>4, <3>1 DEF WillShow
  <2>5. ASSUME NEW x \in Togglers, NEW d \in Tabs, d # to[s], ToServe(x, d) PROVE ToServe(x, d)'
    <3>1. x = s /\ d \in left[s]
      BY <1>od, <2>2, <2>3, <2>5 DEF ToServe, Evicting, Serving, OneToggler
    <3>2. spc'[s] \in Serving /\ d \in left'[s]
      BY <1>spc, <2>2, <3>1 DEF Serving
    <3> QED  BY <3>1, <3>2 DEF ToServe
  <2>6. WillShow(to[s])'
    <3>1. buf'[to[s]] # <<>> /\ buf'[to[s]][Len(buf'[to[s]])] = evt[s]
      BY <1>od, <1>buf, <2>2, <2>3, DarkWhenPut DEF OnlyDark
    <3> QED  BY <2>2, <2>3, <3>1 DEF WillShow
  <2> QED  BY <1>i, <2>2, <2>4, <2>5, <2>6 DEF FilterOnItsWay, B!Registered
<1>12. ASSUME NEW s \in B!Senders, B!Return(s) PROVE FilterOnItsWay'
  BY <1>i, <1>12 DEF FilterOnItsWay, WillShow, ToServe, B!Registered, Evicting, B!Return,
     B!clientVars, B!queueVars
<1> QED
  BY <1>1, <1>2, <1>3, <1>4, <1>5, <1>6, <1>7, <1>8, <1>9, <1>10, <1>11, <1>12 DEF B!Next,
     B!SendStep

(* At the start nobody has subscribed and nobody sends.                    *)
LEMMA BrokerInitOK == B!Init => BrokerIInv /\ FilterIInv
<1> SUFFICES ASSUME B!Init PROVE BrokerIInv /\ FilterIInv  OBVIOUS
<1> USE EventAssumption DEF B!Init
<1>1. B!NoEvent \in Blank
  BY DEF B!NoEvent, Blank
<1>2. (CHOOSE c \in Tabs : TRUE) \in Tabs /\ \A c \in Tabs : buf[c] = <<>> /\ Len(buf[c]) = 0
  OBVIOUS
<1>3. BrokerTyped
  <2>1. /\ client \in [Tabs -> TabLabels] /\ spc \in [B!Senders -> SenderLabels]
        /\ send \in [Tabs -> B!Senders \cup {Nobody}] /\ left \in [B!Senders -> SUBSET Tabs]
    BY DEF TabLabels, SenderLabels
  <2>2. 0 \in 0 .. MaxEvents
    OBVIOUS
  <2>3. last \in [Tabs -> 0 .. MaxEvents] /\ emitted \in 0 .. MaxEvents
    BY <2>2
  <2>4. seen \in [Tabs -> BOOLEAN] /\ dark \in BOOLEAN /\ noise \in BOOLEAN
        /\ raced \in BOOLEAN /\ crashed \in BOOLEAN
    OBVIOUS
  <2>5. buf \in [Tabs -> Seq(B!Event)] /\ open \in SUBSET Tabs
    OBVIOUS
  <2>6. to \in [B!Senders -> Tabs]
    BY <1>2
  <2>7. evt \in [B!Senders -> B!Event \cup Blank]
    BY <1>1
  <2> QED  BY <2>1, <2>3, <2>4, <2>5, <2>6, <2>7 DEF BrokerTyped
<1>4. SendLock /\ EventInHand
  BY <1>2 DEF SendLock, EventInHand, Serving, Evicting
<1>5. ServesOpen /\ NothingYet
  BY DEF ServesOpen, NothingYet, B!Registered, Serving, Evicting
<1>6. B!LastStateKept /\ FilterOnItsWay
  BY <1>2 DEF B!LastStateKept, B!Registered, FilterOnItsWay
<1>7. OneToggler
  BY DEF OneToggler, Serving, B!Senders
<1>8. OnlyDark
  BY <1>2 DEF OnlyDark, Serving
<1> QED  BY <1>3, <1>4, <1>5, <1>6, <1>7, <1>8 DEF BrokerIInv, FilterIInv

(* A step of the composition is one of the broker, or leaves it alone.     *)
LEMMA BrokerMoves == [MCNext]_mcvars => B!Next \/ UNCHANGED eventVars
BY DEF MCNext, mcvars

(* The others leave the broker alone.                                      *)
LEMMA BrokerStays ==
    ASSUME UNCHANGED eventVars
    PROVE  (BrokerIInv => BrokerIInv') /\ (FilterIInv => FilterIInv')
<1> USE DEF eventVars
<1>1. BrokerTyped => BrokerTyped'
  BY DEF BrokerTyped
<1>2. SendLock /\ ServesOpen /\ EventInHand => (SendLock /\ ServesOpen /\ EventInHand)'
  BY DEF SendLock, ServesOpen, EventInHand, B!Registered
<1>3. NothingYet /\ B!LastStateKept => (NothingYet /\ B!LastStateKept)'
  BY DEF NothingYet, B!LastStateKept, B!Registered, B!Replacing
<1>4. FilterIInv => FilterIInv'
  BY DEF FilterIInv, OnlyDark, OneToggler, FilterOnItsWay, WillShow, ToServe, B!Registered
<1> QED  BY <1>1, <1>2, <1>3, <1>4 DEF BrokerIInv

(* Every step keeps the invariant.                                         *)
LEMMA BrokerStep == BrokerIInv /\ [MCNext]_mcvars => BrokerIInv'
<1> SUFFICES ASSUME BrokerIInv, [MCNext]_mcvars PROVE BrokerIInv'  OBVIOUS
<1>1. CASE UNCHANGED eventVars
  BY <1>1, BrokerStays
<1>2. CASE B!Next
  BY <1>2, BrokerTypeStep, SendLockStep, ServesOpenStep, EventInHandStep, NothingYetStep,
     LastStateStep DEF BrokerIInv
<1> QED  BY <1>1, <1>2, BrokerMoves

(* The types of the broker, as the runs check them.                        *)
LEMMA BrokerTypes == BrokerIInv => B!TypeOK
<1> SUFFICES ASSUME BrokerIInv PROVE B!TypeOK  OBVIOUS
<1>1. BrokerTyped /\ \A c \in Tabs : Len(buf[c]) <= QueueCap
  BY DEF BrokerIInv, SendLock
<1>2. \A c \in Tabs : \A i \in 1 .. Len(buf[c]) : buf[c][i] \in B!Event
  BY <1>1 DEF BrokerTyped
<1>3. Blank = {[B!NoEvent EXCEPT !.on = b] : b \in BOOLEAN}
  BY DEF Blank, B!NoEvent
<1> QED  BY <1>1, <1>2, <1>3 DEF B!TypeOK, BrokerTyped, TabLabels, SenderLabels

(* No send on a closed channel, however clients come and go, and the last  *)
(* state event delivered to a client reaches it or a newer one does        *)
(* (sse.go 97-103, 267-268).                                               *)
THEOREM BrokerIsSafe == MCSpec => [](B!Inv /\ B!LastStateKept)
<1>1. MCInit => BrokerIInv
  BY BrokerInitOK DEF MCInit
<1>2. BrokerIInv => B!Inv /\ B!LastStateKept
  BY BrokerTypes DEF BrokerIInv, ServesOpen, B!Inv, B!NoSendOnClosed
<1> QED  BY <1>1, <1>2, BrokerStep, PTL DEF MCSpec

(* A step keeps the filter on its way.                                     *)
LEMMA FilterKept ==
    ASSUME BrokerIInv, FilterIInv, [MCNext]_mcvars
    PROVE  FilterIInv'
<1>1. CASE UNCHANGED eventVars
  BY <1>1, BrokerStays
<1>2. CASE B!Next
  <2>1. noise => noise'
    BY <1>2 DEF B!Next, B!SendStep, B!Subscribe, B!Greet, B!Receive, B!Unsubscribe, B!Announce,
       B!LoadDark, B!StoreDark, B!AnnounceDark, B!TrySend, B!Evict, B!Retry, B!Return
  <2> SUFFICES ASSUME ~noise' PROVE OnlyDark' /\ (~raced' => OneToggler' /\ FilterOnItsWay')
    BY DEF FilterIInv
  <2>2. OnlyDark /\ (~raced => OneToggler /\ FilterOnItsWay)
    BY <2>1 DEF FilterIInv
  <2>3. OnlyDark'
    BY <1>2, <2>2, OnlyDarkStep
  <2>4. ASSUME NEW s \in B!Senders, B!LoadDark(s), ~raced' PROVE OneToggler' /\ FilterOnItsWay'
    BY <2>2, <2>4, LoadAlone
  <2>5. ASSUME \A s \in B!Senders : ~B!LoadDark(s), ~raced' PROVE OneToggler' /\ FilterOnItsWay'
    <3>1. raced' = raced
      BY <1>2, <2>5 DEF B!Next, B!SendStep, B!Subscribe, B!Greet, B!Receive, B!Unsubscribe,
         B!Announce, B!StoreDark, B!AnnounceDark, B!TrySend, B!Evict, B!Retry, B!Return
    <3>2. FilterState
      BY <2>2, <2>5, <3>1 DEF FilterState
    <3> QED  BY <1>2, <2>5, <3>2, OneTogglerStep, FilterStep
  <2> QED  BY <2>3, <2>4, <2>5
<1> QED  BY <1>1, <1>2, BrokerMoves

(* When all is quiet a client that has received everything shows the dark  *)
(* filter as the broker holds it (actions.go 123-126).                     *)
LEMMA FilterShown == BrokerIInv /\ FilterIInv => B!BrowserShowsFilter
<1> SUFFICES ASSUME BrokerIInv, FilterIInv, ~noise, ~raced, \A s \in B!Senders : spc[s] = "idle",
                    NEW c \in Tabs, client[c] = "on", buf[c] = <<>>
             PROVE  seen[c] = dark
  BY DEF B!BrowserShowsFilter
<1>1. c \in B!Registered
  BY DEF B!Registered
<1>2. \A s \in Togglers : ~ToServe(s, c)
  BY DEF ToServe, Serving, Evicting, B!Senders
<1> QED  BY <1>1, <1>2 DEF FilterIInv, FilterOnItsWay, WillShow

-----------------------------------------------------------------------------
(* The file watcher.                                                       *)

(* The events in the channel.                                              *)
Queued == {events[i] : i \in 1 .. Len(events)}
(* None is there twice.                                                    *)
Distinct == \A i, j \in 1 .. Len(events) : events[i] = events[j] => i = j

(* The types, with the channel as a sequence.                              *)
WatcherTyped ==
    /\ saves \in [Watched -> 0 .. MaxSaves] /\ noted \in [Watched -> 0 .. MaxSaves]
    /\ debounce \in [Watched -> 0 .. MaxSaves] /\ fired \in SUBSET W!Events
    /\ sending \in SUBSET W!Events /\ events \in Seq(W!Events)
    /\ heard \in [Watched -> SUBSET (1 .. MaxSaves)] /\ ctx \in {"on", "done"} /\ over \in BOOLEAN

(* The loop is never ahead of the saves, nor a timer or an event of the    *)
(* loop; and the channel holds no more than it may.                        *)
NotAhead ==
    /\ \A r \in Watched : noted[r] <= saves[r] /\ debounce[r] <= noted[r]
    /\ \A r \in Watched, v \in 1 .. MaxSaves : <<r, v>> \in fired \cup sending \cup Queued => v <= noted[r]
    /\ Len(events) <= FeedCap

(* A save is in one place on its way to the dev loop.                      *)
OnePlace ==
    /\ \A r \in Watched : <<r, debounce[r]>> \notin fired \cup sending \cup Queued
    /\ fired \cap sending = {} /\ (fired \cup sending) \cap Queued = {} /\ Distinct

(* The inductive invariant.                                                *)
WatcherIInv == WatcherTyped /\ NotAhead /\ OnePlace

(* What is in the channel is an event, and stays while nobody touches it.  *)
LEMMA QueuedKept ==
    /\ events \in Seq(W!Events) => Queued \subseteq W!Events
    /\ events' = events => Queued' = Queued /\ Distinct' = Distinct
BY DEF Queued, Distinct

(* What a send adds to the channel.                                        *)
LEMMA QueuedSent ==
    ASSUME events \in Seq(W!Events), NEW e \in W!Events, events' = Append(events, e)
    PROVE  Queued' = Queued \cup {e} /\ (Distinct /\ e \notin Queued => Distinct')
<1>1. /\ Len(events') = Len(events) + 1 /\ events'[Len(events) + 1] = e /\ Len(events) \in Nat
      /\ \A i \in 1 .. Len(events) : events'[i] = events[i]
  BY AppendFacts
<1>2. \A i : i \in 1 .. Len(events') <=> i \in 1 .. Len(events) \/ i = Len(events) + 1
  BY <1>1
<1>3. Len(events) + 1 \notin 1 .. Len(events)
  BY <1>1
<1>4. Queued' = Queued \cup {e}
  BY <1>1, <1>2 DEF Queued
<1>5. ASSUME Distinct, e \notin Queued PROVE Distinct'
  <2> SUFFICES ASSUME NEW i \in 1 .. Len(events'), NEW j \in 1 .. Len(events'), events'[i] = events'[j]
               PROVE  i = j
    BY DEF Distinct
  <2>1. CASE i \in 1 .. Len(events) /\ j \in 1 .. Len(events)
    BY <1>1, <1>5, <2>1 DEF Distinct
  <2>2. CASE i \in 1 .. Len(events) /\ j = Len(events) + 1
    BY <1>1, <1>5, <2>2 DEF Queued
  <2>3. CASE j \in 1 .. Len(events) /\ i = Len(events) + 1
    BY <1>1, <1>5, <2>3 DEF Queued
  <2> QED  BY <1>2, <2>1, <2>2, <2>3
<1> QED  BY <1>4, <1>5

(* What a receive takes out.                                               *)
LEMMA QueuedTaken ==
    ASSUME events \in Seq(W!Events), events # <<>>, Distinct, events' = Tail(events)
    PROVE  /\ Head(events) \in Queued /\ Head(events) \in W!Events
           /\ Queued' = Queued \ {Head(events)} /\ Distinct'
<1> DEFINE n == Len(events)
<1>1. /\ Head(events) = events[1] /\ events[1] \in W!Events /\ n \in Nat \ {0} /\ Len(events') = n - 1
      /\ \A i \in 1 .. n - 1 : events'[i] = events[i + 1]
  BY TailFacts
<1>2. 1 \in 1 .. n /\ \A i : i \in 1 .. n <=> i = 1 \/ (i \in Int /\ i - 1 \in 1 .. n - 1)
  BY <1>1
<1>3. \A i \in 1 .. n - 1 : i + 1 \in 1 .. n /\ i + 1 # 1 /\ i \in Int
  BY <1>1
<1>4. Distinct'
  <2> SUFFICES ASSUME NEW i \in 1 .. Len(events'), NEW j \in 1 .. Len(events'), events'[i] = events'[j]
               PROVE  i = j
    BY DEF Distinct
  <2>1. events[i + 1] = events[j + 1] /\ i + 1 \in 1 .. n /\ j + 1 \in 1 .. n
    BY <1>1, <1>3
  <2>2. i + 1 = j + 1
    BY <2>1 DEF Distinct
  <2> QED  BY <1>1, <1>3, <2>2
<1>5. ASSUME NEW x \in Queued' PROVE x \in Queued \ {Head(events)}
  <2>1. PICK i \in 1 .. n - 1 : x = events[i + 1]
    BY <1>1, <1>5 DEF Queued
  <2> QED  BY <1>1, <1>2, <1>3, <2>1 DEF Queued, Distinct
<1>6. ASSUME NEW x \in Queued, x # Head(events) PROVE x \in Queued'
  <2>1. PICK i \in 1 .. n : x = events[i]
    BY DEF Queued
  <2>2. i # 1
    BY <1>1, <1>6, <2>1
  <2>3. i - 1 \in 1 .. n - 1 /\ (i - 1) + 1 = i
    BY <1>2, <2>2
  <2>4. events'[i - 1] = x
    BY <1>1, <2>1, <2>3
  <2> QED  BY <1>1, <2>3, <2>4 DEF Queued
<1>7. Head(events) \in Queued
  BY <1>1, <1>2 DEF Queued
<1> QED  BY <1>1, <1>4, <1>5, <1>6, <1>7

(* Every step of the watcher keeps every variable in its type.             *)
LEMMA WatcherTypeStep ==
    ASSUME WatcherIInv, W!Next PROVE WatcherTyped'
<1> USE WatcherAssumption
<1>g. WatcherTyped
  BY DEF WatcherIInv
<1>saves. saves \in [Watched -> 0 .. MaxSaves]
  BY <1>g DEF WatcherTyped
<1>noted. noted \in [Watched -> 0 .. MaxSaves]
  BY <1>g DEF WatcherTyped
<1>debounce. debounce \in [Watched -> 0 .. MaxSaves]
  BY <1>g DEF WatcherTyped
<1>fired. fired \in SUBSET W!Events
  BY <1>g DEF WatcherTyped
<1>sending. sending \in SUBSET W!Events
  BY <1>g DEF WatcherTyped
<1>events. events \in Seq(W!Events)
  BY <1>g DEF WatcherTyped
<1>heard. heard \in [Watched -> SUBSET (1 .. MaxSaves)]
  BY <1>g DEF WatcherTyped
<1>ctx. ctx \in {"on", "done"}
  BY <1>g DEF WatcherTyped
<1>over. over \in BOOLEAN
  BY <1>g DEF WatcherTyped
<1>1. ASSUME NEW r \in Watched, W!Save(r) PROVE WatcherTyped'
  <2>1. saves' \in [Watched -> 0 .. MaxSaves]
    BY <1>1, <1>saves DEF W!Save
  <2> QED BY <1>g, <1>1, <2>1 DEF WatcherTyped, W!Save
<1>2. ASSUME NEW r \in Watched, W!LoopEvent(r) PROVE WatcherTyped'
  <2>1. noted' \in [Watched -> 0 .. MaxSaves]
    BY <1>2, <1>noted, <1>saves, <1>debounce, <1>fired, <1>sending, <1>events, <1>heard, <1>ctx,
       <1>over DEF W!LoopEvent
  <2>2. debounce' \in [Watched -> 0 .. MaxSaves]
    BY <1>2, <1>debounce, <1>saves, <1>noted, <1>fired, <1>sending, <1>events, <1>heard, <1>ctx,
       <1>over DEF W!LoopEvent
  <2> QED BY <1>g, <1>2, <2>1, <2>2 DEF WatcherTyped, W!LoopEvent
<1>3. ASSUME NEW r \in Watched, W!Fire(r) PROVE WatcherTyped'
  <2>1. debounce' \in [Watched -> 0 .. MaxSaves]
    BY <1>3, <1>debounce DEF W!Fire
  <2>2. fired' \in SUBSET W!Events
    BY <1>3, <1>fired, <1>debounce DEF W!Fire, W!Events
  <2> QED BY <1>g, <1>3, <2>1, <2>2 DEF WatcherTyped, W!Fire
<1>4. ASSUME NEW e \in W!Events, W!LookAtDone(e) PROVE WatcherTyped'
  <2>1. fired' \in SUBSET W!Events
    BY <1>4, <1>fired DEF W!LookAtDone
  <2>2. sending' \in SUBSET W!Events
    BY <1>4, <1>sending DEF W!LookAtDone
  <2> QED BY <1>g, <1>4, <2>1, <2>2 DEF WatcherTyped, W!LookAtDone
<1>5. ASSUME NEW e \in W!Events, W!Send(e) PROVE WatcherTyped'
  <2>1. sending' \in SUBSET W!Events
    BY <1>5, <1>sending DEF W!Send
  <2>2. events' \in Seq(W!Events)
    BY <1>5, <1>events DEF W!Send
  <2> QED BY <1>g, <1>5, <2>1, <2>2 DEF WatcherTyped, W!Send
<1>6. ASSUME NEW e \in W!Events, W!GiveUp(e) PROVE WatcherTyped'
  <2>1. sending' \in SUBSET W!Events
    BY <1>6, <1>sending DEF W!GiveUp
  <2> QED BY <1>g, <1>6, <2>1 DEF WatcherTyped, W!GiveUp
<1>7. CASE W!LoopExit
  <2>1. debounce' \in [Watched -> 0 .. MaxSaves]
    BY <1>7, <1>debounce DEF W!LoopExit
  <2>2. over' \in BOOLEAN
    BY <1>7, <1>over DEF W!LoopExit
  <2> QED BY <1>g, <1>7, <2>1, <2>2 DEF WatcherTyped, W!LoopExit
<1>8. CASE W!Receive
  <2>1. events' \in Seq(W!Events)
    BY <1>8, <1>events DEF W!Receive
  <2>2. heard' \in [Watched -> SUBSET (1 .. MaxSaves)]
    BY <1>8, <1>heard, <1>events DEF W!Receive, W!Events
  <2> QED BY <1>g, <1>8, <2>1, <2>2 DEF WatcherTyped, W!Receive
<1>9. CASE W!Cancel
  <2>1. ctx' \in {"on", "done"}
    BY <1>9, <1>ctx DEF W!Cancel
  <2> QED BY <1>g, <1>9, <2>1 DEF WatcherTyped, W!Cancel
<1> QED
  BY <1>1, <1>2, <1>3, <1>4, <1>5, <1>6, <1>7, <1>8, <1>9 DEF W!Next, W!TimerStep

(* Nothing gets ahead of the saves.                                        *)
LEMMA NotAheadStep ==
    ASSUME WatcherIInv, W!Next PROVE NotAhead'
<1> USE WatcherAssumption
<1>i. NotAhead
  BY DEF WatcherIInv
<1>op. OnePlace
  BY DEF WatcherIInv
<1>saves. saves \in [Watched -> 0 .. MaxSaves]
  BY DEF WatcherIInv, WatcherTyped
<1>noted. noted \in [Watched -> 0 .. MaxSaves]
  BY DEF WatcherIInv, WatcherTyped
<1>debounce. debounce \in [Watched -> 0 .. MaxSaves]
  BY DEF WatcherIInv, WatcherTyped
<1>events. events \in Seq(W!Events)
  BY DEF WatcherIInv, WatcherTyped
<1>1. ASSUME NEW r \in Watched, W!Save(r) PROVE NotAhead'
  <2>1. /\ saves' = [saves EXCEPT ![r] = saves[r] + 1] /\ UNCHANGED <<noted, debounce, fired, sending, events>>
        /\ Queued' = Queued
    BY <1>1, QueuedKept DEF W!Save
  <2>2. ASSUME NEW x \in Watched PROVE noted[x] <= saves'[x]
    <3>1. noted[x] \in Nat /\ saves[x] \in Nat /\ noted[x] <= saves[x]
      BY <1>i, <1>saves, <1>noted DEF NotAhead
    <3>2. saves'[x] = saves[x] \/ saves'[x] = saves[x] + 1
      BY <1>saves, <2>1
    <3> QED  BY <3>1, <3>2
  <2> QED  BY <1>i, <2>1, <2>2 DEF NotAhead
<1>2. ASSUME NEW r \in Watched, W!LoopEvent(r) PROVE NotAhead'
  <2>1. /\ noted' = [noted EXCEPT ![r] = noted[r] + 1] /\ debounce' = [debounce EXCEPT ![r] = noted[r] + 1]
        /\ noted[r] < saves[r] /\ UNCHANGED <<saves, fired, sending, events>> /\ Queued' = Queued
    BY <1>2, <1>noted, QueuedKept DEF W!LoopEvent
  <2>2. ASSUME NEW x \in Watched
        PROVE  noted'[x] <= saves[x] /\ debounce'[x] <= noted'[x] /\ noted[x] <= noted'[x]
               /\ noted[x] \in Nat /\ noted'[x] \in Nat
    <3>1. noted[x] \in Nat /\ saves[x] \in Nat /\ noted[x] <= saves[x] /\ debounce[x] <= noted[x]
      BY <1>i, <1>saves, <1>noted DEF NotAhead
    <3>2. CASE x = r
      BY <1>noted, <1>debounce, <2>1, <3>1, <3>2
    <3>3. CASE x # r
      BY <1>noted, <1>debounce, <2>1, <3>1, <3>3
    <3> QED  BY <3>2, <3>3
  <2>3. ASSUME NEW x \in Watched, NEW v \in 1 .. MaxSaves, <<x, v>> \in fired' \cup sending' \cup Queued'
        PROVE  v <= noted'[x]
    <3>1. v <= noted[x]
      BY <1>i, <2>1, <2>3 DEF NotAhead
    <3> QED  BY <2>2, <3>1
  <2> QED  BY <1>i, <2>1, <2>2, <2>3 DEF NotAhead
<1>3. ASSUME NEW r \in Watched, W!Fire(r) PROVE NotAhead'
  <2>1. /\ fired' = fired \cup {<<r, debounce[r]>>} /\ debounce' = [debounce EXCEPT ![r] = 0]
        /\ UNCHANGED <<saves, noted, sending, events>> /\ Queued' = Queued
    BY <1>3, QueuedKept DEF W!Fire
  <2>2. ASSUME NEW x \in Watched PROVE debounce'[x] <= noted'[x]
    <3>1. debounce'[x] = debounce[x] \/ debounce'[x] = 0
      BY <1>debounce, <2>1
    <3>2. debounce[x] <= noted[x] /\ noted[x] \in Nat /\ noted'[x] = noted[x]
      BY <1>i, <1>noted, <2>1 DEF NotAhead
    <3> QED  BY <3>1, <3>2
  <2> QED  BY <1>i, <2>1, <2>2 DEF NotAhead
<1>4. ASSUME NEW e \in W!Events, W!LookAtDone(e) PROVE NotAhead'
  <2>1. /\ fired' \cup sending' \subseteq fired \cup sending /\ UNCHANGED <<saves, noted, debounce, events>>
        /\ Queued' = Queued
    BY <1>4, QueuedKept DEF W!LookAtDone
  <2> QED  BY <1>i, <2>1 DEF NotAhead
<1>5. ASSUME NEW e \in W!Events, W!Send(e) PROVE NotAhead'
  <2>1. /\ e \in sending /\ sending' = sending \ {e} /\ Len(events) < FeedCap /\ events' = Append(events, e)
        /\ UNCHANGED <<saves, noted, debounce, fired>>
    BY <1>5 DEF W!Send
  <2>2. Queued' = Queued \cup {e} /\ Len(events') = Len(events) + 1 /\ Len(events) \in Nat
    BY <1>events, <2>1, QueuedSent, AppendFacts
  <2>3. Len(events') <= FeedCap
    BY <2>1, <2>2
  <2> QED  BY <1>i, <2>1, <2>2, <2>3 DEF NotAhead
<1>6. ASSUME NEW e \in W!Events, W!GiveUp(e) PROVE NotAhead'
  <2>1. /\ fired' \cup sending' \subseteq fired \cup sending /\ UNCHANGED <<saves, noted, debounce, events>>
        /\ Queued' = Queued
    BY <1>6, QueuedKept DEF W!GiveUp
  <2> QED  BY <1>i, <2>1 DEF NotAhead
<1>7. CASE W!LoopExit
  <2>1. /\ debounce' = [r \in Watched |-> 0] /\ UNCHANGED <<saves, noted, fired, sending, events>>
        /\ Queued' = Queued
    BY <1>7, QueuedKept DEF W!LoopExit
  <2>2. \A r \in Watched : debounce'[r] <= noted'[r]
    BY <1>noted, <2>1
  <2> QED  BY <1>i, <2>1, <2>2 DEF NotAhead
<1>8. CASE W!Receive
  <2>1. events # <<>> /\ events' = Tail(events) /\ UNCHANGED <<saves, noted, debounce, fired, sending>>
    BY <1>8 DEF W!Receive
  <2>2. Queued' \subseteq Queued /\ Len(events') = Len(events) - 1 /\ Len(events) \in Nat
    BY <1>op, <1>events, <2>1, QueuedTaken, TailFacts DEF OnePlace
  <2>3. Len(events') <= FeedCap
    BY <1>i, <2>2 DEF NotAhead
  <2> QED  BY <1>i, <2>1, <2>2, <2>3 DEF NotAhead
<1>9. CASE W!Cancel
  <2>1. UNCHANGED <<saves, noted, debounce, fired, sending, events>> /\ Queued' = Queued
    BY <1>9, QueuedKept DEF W!Cancel
  <2> QED  BY <1>i, <2>1 DEF NotAhead
<1> QED
  BY <1>1, <1>2, <1>3, <1>4, <1>5, <1>6, <1>7, <1>8, <1>9 DEF W!Next, W!TimerStep

(* A save stays in one place.                                              *)
LEMMA OnePlaceStep ==
    ASSUME WatcherIInv, W!Next PROVE OnePlace'
<1> USE WatcherAssumption
<1>i. OnePlace
  BY DEF WatcherIInv
<1>na. NotAhead
  BY DEF WatcherIInv
<1>saves. saves \in [Watched -> 0 .. MaxSaves]
  BY DEF WatcherIInv, WatcherTyped
<1>noted. noted \in [Watched -> 0 .. MaxSaves]
  BY DEF WatcherIInv, WatcherTyped
<1>debounce. debounce \in [Watched -> 0 .. MaxSaves]
  BY DEF WatcherIInv, WatcherTyped
<1>fired. fired \in SUBSET W!Events
  BY DEF WatcherIInv, WatcherTyped
<1>sending. sending \in SUBSET W!Events
  BY DEF WatcherIInv, WatcherTyped
<1>events. events \in Seq(W!Events)
  BY DEF WatcherIInv, WatcherTyped
<1>1. ASSUME NEW r \in Watched, W!Save(r) PROVE OnePlace'
  <2>1. UNCHANGED <<debounce, fired, sending>> /\ Queued' = Queued /\ Distinct' = Distinct
    BY <1>1, QueuedKept DEF W!Save
  <2> QED  BY <1>i, <2>1 DEF OnePlace
<1>2. ASSUME NEW r \in Watched, W!LoopEvent(r) PROVE OnePlace'
  <2>1. /\ debounce' = [debounce EXCEPT ![r] = noted[r] + 1] /\ noted[r] < saves[r]
        /\ UNCHANGED <<fired, sending>> /\ Queued' = Queued /\ Distinct' = Distinct
    BY <1>2, <1>noted, QueuedKept DEF W!LoopEvent
  <2>2. noted[r] + 1 \in 1 .. MaxSaves /\ ~(noted[r] + 1 <= noted[r])
    BY <1>noted, <1>saves, <2>1
  <2>3. <<r, noted[r] + 1>> \notin fired \cup sending \cup Queued
    BY <1>na, <2>2 DEF NotAhead
  <2>4. ASSUME NEW x \in Watched PROVE <<x, debounce'[x]>> \notin fired \cup sending \cup Queued
    <3>1. CASE x = r
      BY <1>debounce, <2>1, <2>3, <3>1
    <3>2. CASE x # r
      BY <1>i, <1>debounce, <2>1, <3>2 DEF OnePlace
    <3> QED  BY <3>1, <3>2
  <2> QED  BY <1>i, <2>1, <2>4 DEF OnePlace
<1>3. ASSUME NEW r \in Watched, W!Fire(r) PROVE OnePlace'
  <2>1. /\ fired' = fired \cup {<<r, debounce[r]>>} /\ debounce' = [debounce EXCEPT ![r] = 0]
        /\ UNCHANGED sending /\ Queued' = Queued /\ Distinct' = Distinct /\ debounce[r] # 0
    BY <1>3, QueuedKept DEF W!Fire
  <2>2. <<r, 0>> \notin fired \cup sending \cup Queued
    BY <1>fired, <1>sending, <1>events, QueuedKept DEF W!Events
  <2>3. ASSUME NEW x \in Watched PROVE <<x, debounce'[x]>> \notin fired' \cup sending \cup Queued
    <3>1. CASE x = r
      <4>1. debounce'[x] = 0
        BY <1>debounce, <2>1, <3>1
      <4>2. <<r, 0>> # <<r, debounce[r]>>
        BY <2>1
      <4> QED  BY <2>1, <2>2, <3>1, <4>1, <4>2
    <3>2. CASE x # r
      <4>1. debounce'[x] = debounce[x]
        BY <1>debounce, <2>1, <3>2
      <4>2. <<x, debounce[x]>> # <<r, debounce[r]>>
        BY <3>2
      <4> QED  BY <1>i, <2>1, <4>1, <4>2 DEF OnePlace
    <3> QED  BY <3>1, <3>2
  <2> QED  BY <1>i, <2>1, <2>3 DEF OnePlace
<1>4. ASSUME NEW e \in W!Events, W!LookAtDone(e) PROVE OnePlace'
  <2>1. /\ fired' \cup sending' \subseteq fired \cup sending /\ fired' \cap sending' = {}
        /\ UNCHANGED debounce /\ Queued' = Queued /\ Distinct' = Distinct
    BY <1>i, <1>4, QueuedKept DEF W!LookAtDone, OnePlace
  <2> QED  BY <1>i, <2>1 DEF OnePlace
<1>5. ASSUME NEW e \in W!Events, W!Send(e) PROVE OnePlace'
  <2>1. /\ e \in sending /\ sending' = sending \ {e} /\ events' = Append(events, e)
        /\ UNCHANGED <<debounce, fired>>
    BY <1>5 DEF W!Send
  <2>2. e \notin Queued /\ e \notin fired /\ Distinct
    BY <1>i, <2>1 DEF OnePlace
  <2>3. Queued' = Queued \cup {e} /\ Distinct'
    BY <1>events, <2>1, <2>2, QueuedSent
  <2> QED  BY <1>i, <2>1, <2>2, <2>3 DEF OnePlace
<1>6. ASSUME NEW e \in W!Events, W!GiveUp(e) PROVE OnePlace'
  <2>1. /\ fired' \cup sending' \subseteq fired \cup sending /\ fired' \cap sending' = {}
        /\ UNCHANGED debounce /\ Queued' = Queued /\ Distinct' = Distinct
    BY <1>i, <1>6, QueuedKept DEF W!GiveUp, OnePlace
  <2> QED  BY <1>i, <2>1 DEF OnePlace
<1>7. CASE W!LoopExit
  <2>1. /\ debounce' = [r \in Watched |-> 0] /\ UNCHANGED <<fired, sending>>
        /\ Queued' = Queued /\ Distinct' = Distinct
    BY <1>7, QueuedKept DEF W!LoopExit
  <2>2. \A r \in Watched : <<r, 0>> \notin fired \cup sending \cup Queued
    BY <1>fired, <1>sending, <1>events, QueuedKept DEF W!Events
  <2> QED  BY <1>i, <2>1, <2>2 DEF OnePlace
<1>8. CASE W!Receive
  <2>1. events # <<>> /\ events' = Tail(events) /\ UNCHANGED <<debounce, fired, sending>>
    BY <1>8 DEF W!Receive
  <2>2. Queued' \subseteq Queued /\ Distinct'
    BY <1>i, <1>events, <2>1, QueuedTaken DEF OnePlace
  <2> QED  BY <1>i, <2>1, <2>2 DEF OnePlace
<1>9. CASE W!Cancel
  <2>1. UNCHANGED <<debounce, fired, sending>> /\ Queued' = Queued /\ Distinct' = Distinct
    BY <1>9, QueuedKept DEF W!Cancel
  <2> QED  BY <1>i, <2>1 DEF OnePlace
<1> QED
  BY <1>1, <1>2, <1>3, <1>4, <1>5, <1>6, <1>7, <1>8, <1>9 DEF W!Next, W!TimerStep

(* At the start nothing is saved.                                          *)
LEMMA WatcherInitOK == W!Init => WatcherIInv
<1> SUFFICES ASSUME W!Init PROVE WatcherIInv  OBVIOUS
<1> USE WatcherAssumption DEF W!Init
<1>1. events \in Seq(W!Events) /\ Len(events) = 0 /\ Queued = {}
  BY DEF Queued
<1>2. WatcherTyped
  <2>1. 0 \in 0 .. MaxSaves
    OBVIOUS
  <2>2. saves \in [Watched -> 0 .. MaxSaves] /\ noted \in [Watched -> 0 .. MaxSaves]
        /\ debounce \in [Watched -> 0 .. MaxSaves]
    BY <2>1
  <2>3. heard \in [Watched -> SUBSET (1 .. MaxSaves)]
    OBVIOUS
  <2>4. over \in BOOLEAN /\ ctx \in {"on", "done"}
    OBVIOUS
  <2> QED  BY <1>1, <2>2, <2>3, <2>4 DEF WatcherTyped
<1>3. NotAhead
  BY <1>1 DEF NotAhead
<1>4. OnePlace
  BY <1>1 DEF OnePlace, Distinct
<1> QED  BY <1>2, <1>3, <1>4 DEF WatcherIInv

(* A step of the composition is one of the watcher, or leaves it alone.    *)
LEMMA WatcherMoves == [MCNext]_mcvars => W!Next \/ UNCHANGED watchVars
BY DEF MCNext, mcvars

(* Every step keeps the invariant.                                         *)
LEMMA FeedStep == WatcherIInv /\ [MCNext]_mcvars => WatcherIInv'
<1> SUFFICES ASSUME WatcherIInv, [MCNext]_mcvars PROVE WatcherIInv'  OBVIOUS
<1>1. CASE UNCHANGED watchVars
  <2>1. Queued' = Queued /\ Distinct' = Distinct
    BY <1>1, QueuedKept DEF watchVars
  <2> QED  BY <1>1, <2>1 DEF watchVars, WatcherIInv, WatcherTyped, NotAhead, OnePlace
<1>2. CASE W!Next
  BY <1>2, WatcherTypeStep, NotAheadStep, OnePlaceStep DEF WatcherIInv
<1> QED  BY <1>1, <1>2, WatcherMoves

(* The types of the watcher, as the run checks them.                       *)
LEMMA WatcherTypes == WatcherIInv => W!TypeOK
<1> SUFFICES ASSUME WatcherIInv PROVE W!TypeOK  OBVIOUS
<1>1. \A i \in 1 .. Len(events) : events[i] \in W!Events
  BY DEF WatcherIInv, WatcherTyped
<1> QED  BY <1>1 DEF W!TypeOK, WatcherIInv, WatcherTyped, NotAhead

(***************************************************************************)
(* The watcher implements ChangeFeed.  A save is owed from its write until *)
(* the dev loop receives it: it is not seen yet, or in a timer, in a timer *)
(* goroutine, or in the channel.                                           *)
(***************************************************************************)
LEMMA OwedSaves ==
    ASSUME NEW r \in Watched, NEW v
    PROVE  v \in W!OnTheirWay(r) <=>
               /\ v \in 1 .. saves[r]
               /\ v > noted[r] \/ v = debounce[r] \/ <<r, v>> \in fired \cup sending \cup Queued
BY DEF W!OnTheirWay, Queued

(* What a step does to the saves owed, in the terms of ChangeFeed.         *)
LEMMA SavesOwed ==
    ASSUME WatcherIInv, NEW r \in Watched, W!Save(r)
    PROVE  W!Feed!Save(r)
<1> USE WatcherAssumption
<1>1. /\ saves' = [saves EXCEPT ![r] = saves[r] + 1] /\ saves[r] < MaxSaves
      /\ UNCHANGED <<noted, debounce, fired, sending, events, heard, over>>
  BY DEF W!Save
<1>2. /\ saves \in [Watched -> 0 .. MaxSaves] /\ noted[r] \in Nat /\ noted[r] <= saves[r]
      /\ saves'[r] = saves[r] + 1
  BY <1>1 DEF WatcherIInv, WatcherTyped, NotAhead
<1>3. ASSUME NEW x \in Watched, x # r PROVE W!OnTheirWay(x)' = W!OnTheirWay(x)
  <2>1. saves'[x] = saves[x]
    BY <1>1, <1>2, <1>3
  <2> QED  BY <1>1, <2>1 DEF W!OnTheirWay
<1>4. W!OnTheirWay(r)' = W!OnTheirWay(r) \cup {saves'[r]}
  <2>1. ASSUME NEW v PROVE v \in 1 .. saves[r] + 1 <=> v \in 1 .. saves[r] \/ v = saves[r] + 1
    BY <1>2
  <2>2. saves[r] + 1 > noted[r]
    BY <1>2
  <2> QED  BY <1>1, <1>2, <2>1, <2>2 DEF W!OnTheirWay
<1> QED  BY <1>1, <1>2, <1>3, <1>4 DEF W!Feed!Save

(* The loop re-arms a timer: its save is replaced by the newer one.        *)
LEMMA LoopEventOwed ==
    ASSUME WatcherIInv, NEW r \in Watched, W!LoopEvent(r)
    PROVE  W!Feed!Replace(r) \/ UNCHANGED W!Feed!vars
<1> USE WatcherAssumption
<1>1. /\ noted' = [noted EXCEPT ![r] = noted[r] + 1] /\ debounce' = [debounce EXCEPT ![r] = noted[r] + 1]
      /\ noted[r] < saves[r] /\ UNCHANGED <<saves, fired, sending, events, heard, over>>
  BY DEF W!LoopEvent, WatcherIInv, WatcherTyped
<1>2. /\ noted[r] \in Nat /\ saves[r] \in Nat /\ debounce[r] \in Nat /\ debounce[r] <= noted[r]
      /\ noted'[r] = noted[r] + 1 /\ debounce'[r] = noted[r] + 1
  BY <1>1 DEF WatcherIInv, WatcherTyped, NotAhead
<1>3. ASSUME NEW x \in Watched, x # r PROVE W!OnTheirWay(x)' = W!OnTheirWay(x)
  <2>1. noted'[x] = noted[x] /\ debounce'[x] = debounce[x]
    BY <1>1, <1>3 DEF WatcherIInv, WatcherTyped
  <2> QED  BY <1>1, <2>1 DEF W!OnTheirWay
<1>4. <<r, debounce[r]>> \notin fired \cup sending \cup Queued
  BY DEF WatcherIInv, OnePlace
<1>5. Queued' = Queued
  BY <1>1, QueuedKept
<1>6. ASSUME NEW v
      PROVE  v \in W!OnTheirWay(r)' <=> v \in W!OnTheirWay(r) /\ v # debounce[r]
  <2>1. v \in W!OnTheirWay(r)' <=>
            v \in 1 .. saves[r] /\ (v > noted[r] + 1 \/ v = noted[r] + 1
                                       \/ <<r, v>> \in fired \cup sending \cup Queued)
    BY <1>1, <1>2, <1>5 DEF W!OnTheirWay, Queued
  <2>2. v \in W!OnTheirWay(r) <=>
            v \in 1 .. saves[r] /\ (v > noted[r] \/ v = debounce[r]
                                       \/ <<r, v>> \in fired \cup sending \cup Queued)
    BY OwedSaves
  <2>3. v \in 1 .. saves[r] =>
            /\ v > noted[r] <=> v > noted[r] + 1 \/ v = noted[r] + 1
            /\ v > noted[r] => v # debounce[r]
    BY <1>2
  <2> QED  BY <1>4, <2>1, <2>2, <2>3
<1>7. CASE debounce[r] \in W!OnTheirWay(r)
  <2>1. W!OnTheirWay(r)' = W!OnTheirWay(r) \ {debounce[r]}
    BY <1>6
  <2>2. noted[r] + 1 \in W!OnTheirWay(r) /\ debounce[r] < noted[r] + 1
    <3>1. noted[r] + 1 \in 1 .. saves[r] /\ noted[r] + 1 > noted[r] /\ debounce[r] < noted[r] + 1
      BY <1>1, <1>2
    <3> QED  BY <3>1, OwedSaves
  <2> QED  BY <1>1, <1>3, <1>7, <2>1, <2>2 DEF W!Feed!Replace
<1>8. CASE debounce[r] \notin W!OnTheirWay(r)
  <2>1. W!OnTheirWay(r)' = W!OnTheirWay(r)
    BY <1>6, <1>8
  <2> QED  BY <1>1, <1>3, <2>1 DEF W!Feed!vars
<1> QED  BY <1>7, <1>8

(* The dev loop receives an event: it is told of a save that is owed, and  *)
(* that nobody will tell it of again.                                      *)
LEMMA ReceiveOwed ==
    ASSUME WatcherIInv, W!Receive
    PROVE  \E r \in Watched : W!Feed!Tell(r)
<1>1. events # <<>> /\ events' = Tail(events) /\ UNCHANGED <<saves, noted, debounce, fired, sending, over>>
  BY DEF W!Receive
<1>2. /\ Head(events) \in Queued /\ Head(events) \in W!Events /\ Queued' = Queued \ {Head(events)}
      /\ (fired \cup sending) \cap Queued = {}
  BY <1>1, QueuedTaken DEF WatcherIInv, WatcherTyped, OnePlace
<1>3. PICK r \in Watched, v \in 1 .. MaxSaves : Head(events) = <<r, v>>
  BY <1>2 DEF W!Events
<1>4. heard' = [heard EXCEPT ![r] = heard[r] \cup {v}]
  <2>1. heard' = [heard EXCEPT ![Head(events)[1]] = heard[Head(events)[1]] \cup {Head(events)[2]}]
    BY DEF W!Receive
  <2>2. Head(events)[1] = r /\ Head(events)[2] = v
    BY <1>3
  <2> QED  BY <2>1, <2>2
<1>5. v <= noted[r] /\ v # debounce[r] /\ v \in 1 .. saves[r] /\ <<r, v>> \notin fired \cup sending
  <2>1. v <= noted[r] /\ noted[r] <= saves[r] /\ v \in Nat \ {0}
    <3>1. <<r, v>> \in Queued
      BY <1>2, <1>3
    <3> QED  BY <3>1 DEF WatcherIInv, NotAhead
  <2>2. saves[r] \in Nat /\ noted[r] \in Nat
    BY WatcherAssumption DEF WatcherIInv, WatcherTyped
  <2>3. v # debounce[r]
    BY <1>2, <1>3 DEF WatcherIInv, OnePlace
  <2> QED  BY <1>2, <1>3, <2>1, <2>2, <2>3
<1>6. v \in W!OnTheirWay(r)
  BY <1>2, <1>3, <1>5, OwedSaves
<1>7. ASSUME NEW x \in Watched, NEW w
      PROVE  w \in W!OnTheirWay(x)' <=> w \in W!OnTheirWay(x) /\ <<x, w>> # <<r, v>>
  <2>1. w \in W!OnTheirWay(x)' <=>
            w \in 1 .. saves[x] /\ (w > noted[x] \/ w = debounce[x]
                                       \/ <<x, w>> \in fired \cup sending \cup Queued')
    BY <1>1 DEF W!OnTheirWay, Queued
  <2>2. <<x, w>> = <<r, v>> => ~(w > noted[x]) /\ w # debounce[x]
    <3>1. noted[r] \in Nat /\ v \in Nat
      BY WatcherAssumption DEF WatcherIInv, WatcherTyped
    <3> QED  BY <1>5, <3>1
  <2> QED  BY <1>2, <1>3, <1>5, <2>1, <2>2, OwedSaves
<1>8. W!OnTheirWay(r)' = W!OnTheirWay(r) \ {v}
  BY <1>7
<1>9. ASSUME NEW x \in Watched, x # r PROVE W!OnTheirWay(x)' = W!OnTheirWay(x)
  BY <1>7, <1>9
<1> QED  BY <1>1, <1>4, <1>6, <1>8, <1>9 DEF W!Feed!Tell

(* A save that moves on is still owed.                                     *)
LEMMA MovesOwed ==
    ASSUME WatcherIInv, UNCHANGED <<saves, noted, heard, over>>,
           \A r \in Watched, v \in 1 .. MaxSaves :
               (v = debounce[r] \/ <<r, v>> \in fired \cup sending \cup Queued) <=>
               (v = debounce'[r] \/ <<r, v>> \in fired' \cup sending' \cup Queued')
    PROVE  UNCHANGED W!Feed!vars
<1>1. ASSUME NEW r \in Watched, NEW v PROVE v \in W!OnTheirWay(r)' <=> v \in W!OnTheirWay(r)
  <2>1. v \in 1 .. saves[r] => v \in 1 .. MaxSaves
    BY WatcherAssumption DEF WatcherIInv, WatcherTyped
  <2>2. v \in W!OnTheirWay(r)' <=>
            v \in 1 .. saves[r] /\ (v > noted[r] \/ v = debounce'[r]
                                       \/ <<r, v>> \in fired' \cup sending' \cup Queued')
    BY DEF W!OnTheirWay, Queued
  <2> QED  BY <2>1, <2>2, OwedSaves
<1>2. \A r \in Watched : W!OnTheirWay(r)' = W!OnTheirWay(r)
  BY <1>1
<1> QED  BY <1>2 DEF W!Feed!vars

(* A save that is given up was not promised any more, for the watcher is   *)
(* done.                                                                   *)
LEMMA DropsOwed ==
    ASSUME WatcherIInv, UNCHANGED <<saves, noted, heard>>, over',
           \A r \in Watched, v \in 1 .. MaxSaves :
               (v = debounce'[r] \/ <<r, v>> \in fired' \cup sending' \cup Queued') =>
               (v = debounce[r] \/ <<r, v>> \in fired \cup sending \cup Queued)
    PROVE  W!Feed!Drop
<1>1. ASSUME NEW r \in Watched, NEW v, v \in W!OnTheirWay(r)' PROVE v \in W!OnTheirWay(r)
  <2>1. v \in 1 .. saves[r] => v \in 1 .. MaxSaves
    BY WatcherAssumption DEF WatcherIInv, WatcherTyped
  <2>2. v \in 1 .. saves[r] /\ (v > noted[r] \/ v = debounce'[r]
                                       \/ <<r, v>> \in fired' \cup sending' \cup Queued')
    BY <1>1 DEF W!OnTheirWay, Queued
  <2> QED  BY <2>1, <2>2, OwedSaves
<1>2. \A r \in Watched : W!OnTheirWay(r)' \subseteq W!OnTheirWay(r)
  BY <1>1
<1> QED  BY <1>2 DEF W!Feed!Drop

(* One step of the watcher is one of ChangeFeed, or none.                  *)
LEMMA FeedStepOwed ==
    ASSUME WatcherIInv, [MCNext]_mcvars
    PROVE  [W!Feed!Next]_(W!Feed!vars)
<1>q. /\ events \in Seq(W!Events) /\ fired \subseteq W!Events /\ Distinct
      /\ debounce \in [Watched -> 0 .. MaxSaves]
  BY DEF WatcherIInv, WatcherTyped, OnePlace
<1>1. CASE UNCHANGED watchVars
  BY <1>1 DEF watchVars, W!Feed!vars, W!OnTheirWay
<1>2. ASSUME NEW r \in Watched, W!Save(r) PROVE W!Feed!Next
  BY <1>2, SavesOwed DEF W!Feed!Next
<1>3. ASSUME NEW r \in Watched, W!LoopEvent(r) PROVE W!Feed!Next \/ UNCHANGED W!Feed!vars
  BY <1>3, LoopEventOwed DEF W!Feed!Next
<1>4. ASSUME NEW r \in Watched, W!Fire(r) PROVE UNCHANGED W!Feed!vars
  <2>1. /\ fired' = fired \cup {<<r, debounce[r]>>} /\ debounce' = [debounce EXCEPT ![r] = 0]
        /\ UNCHANGED <<saves, noted, heard, over, sending, events>> /\ Queued' = Queued
    BY <1>4, QueuedKept DEF W!Fire
  <2>2. ASSUME NEW x \in Watched, NEW v \in 1 .. MaxSaves
        PROVE  (v = debounce[x] \/ <<x, v>> \in fired) <=> (v = debounce'[x] \/ <<x, v>> \in fired')
    <3>1. CASE x = r
      <4>1. debounce'[x] = 0 /\ v # 0
        BY <1>q, <2>1, <3>1
      <4> QED  BY <2>1, <3>1, <4>1
    <3>2. CASE x # r
      <4>1. debounce'[x] = debounce[x]
        BY <1>q, <2>1, <3>2
      <4> QED  BY <2>1, <3>2, <4>1
    <3> QED  BY <3>1, <3>2
  <2> QED  BY <2>1, <2>2, MovesOwed
<1>5. ASSUME NEW e \in W!Events, W!LookAtDone(e) PROVE W!Feed!Next \/ UNCHANGED W!Feed!vars
  <2>1. /\ e \in fired /\ fired' = fired \ {e} /\ sending' = IF over THEN sending ELSE sending \cup {e}
        /\ UNCHANGED <<saves, noted, debounce, heard, over, events>> /\ Queued' = Queued
    BY <1>5, QueuedKept DEF W!LookAtDone
  <2>2. CASE over
    BY <2>1, <2>2, DropsOwed DEF W!Feed!Next
  <2>3. CASE ~over
    BY <2>1, <2>3, MovesOwed
  <2> QED  BY <2>2, <2>3
<1>6. ASSUME NEW e \in W!Events, W!Send(e) PROVE UNCHANGED W!Feed!vars
  <2>1. /\ e \in sending /\ sending' = sending \ {e} /\ events' = Append(events, e)
        /\ UNCHANGED <<saves, noted, debounce, fired, heard, over>>
    BY <1>6 DEF W!Send
  <2>2. Queued' = Queued \cup {e}
    BY <1>q, <2>1, QueuedSent
  <2> QED  BY <2>1, <2>2, MovesOwed
<1>7. ASSUME NEW e \in W!Events, W!GiveUp(e) PROVE W!Feed!Next
  <2>1. /\ sending' = sending \ {e} /\ over'
        /\ UNCHANGED <<saves, noted, debounce, fired, heard, over, events>> /\ Queued' = Queued
    BY <1>7, QueuedKept DEF W!GiveUp
  <2> QED  BY <2>1, DropsOwed DEF W!Feed!Next
<1>8. ASSUME W!LoopExit PROVE W!Feed!Next
  <2>1. /\ over' /\ debounce' = [r \in Watched |-> 0]
        /\ UNCHANGED <<saves, noted, fired, sending, heard, events>> /\ Queued' = Queued
    BY <1>8, QueuedKept DEF W!LoopExit
  <2>2. \A r \in Watched, v \in 1 .. MaxSaves : v # debounce'[r]
    BY <2>1
  <2> QED  BY <2>1, <2>2, DropsOwed DEF W!Feed!Next
<1>9. ASSUME W!Receive PROVE W!Feed!Next
  BY <1>9, ReceiveOwed DEF W!Feed!Next
<1>10. ASSUME W!Cancel PROVE UNCHANGED W!Feed!vars
  BY <1>10 DEF W!Cancel, W!Feed!vars, W!OnTheirWay
<1> QED
  BY <1>1, <1>2, <1>3, <1>4, <1>5, <1>6, <1>7, <1>8, <1>9, <1>10, WatcherMoves DEF W!Next,
     W!TimerStep

(* However the loop, the timers, their goroutines and the channel          *)
(* interleave, the watcher is a ChangeFeed: no save is told twice or       *)
(* invented, only a newer one of its rule replaces one, and none is        *)
(* dropped before the watcher is done.  (That what is owed is told in the  *)
(* end is the other half of KeepsThePromise, which the run checks.)        *)
THEOREM WatcherIsAChangeFeed == MCSpec => W!Feed!Init /\ [][W!Feed!Next]_(W!Feed!vars)
<1>1. MCInit => WatcherIInv
  BY WatcherInitOK DEF MCInit
<1>2. MCInit => W!Feed!Init
  <2> SUFFICES ASSUME W!Init PROVE W!Feed!Init
    BY DEF MCInit
  <2>1. \A r \in Watched : W!OnTheirWay(r) = {}
    BY DEF W!Init, W!OnTheirWay
  <2> QED  BY <2>1 DEF W!Init, W!Feed!Init
<1> QED  BY <1>1, <1>2, FeedStep, FeedStepOwed, PTL DEF MCSpec

(* What the run checks of the broker and of the watcher's types, for any    *)
(* number of goroutines in handleDark: toggles that overlap may leave a    *)
(* browser wrong, and the next one that begins alone puts it right.        *)
THEOREM EventsArrive == MCSpec => []BrokerInv
<1>1. MCInit => BrokerIInv /\ FilterIInv /\ WatcherIInv
  BY BrokerInitOK, WatcherInitOK DEF MCInit
<1>2. BrokerIInv /\ FilterIInv /\ WatcherIInv /\ [MCNext]_mcvars => (BrokerIInv /\ FilterIInv /\ WatcherIInv)'
  BY BrokerStep, FilterKept, FeedStep
<1>3. BrokerIInv /\ FilterIInv /\ WatcherIInv => BrokerInv
  BY BrokerTypes, FilterShown, WatcherTypes DEF BrokerIInv, ServesOpen, B!Inv, B!NoSendOnClosed,
     BrokerInv
<1> QED  BY <1>1, <1>2, <1>3, PTL DEF MCSpec

-----------------------------------------------------------------------------
(* The tunnel.                                                             *)

(* Where an agent of the tunnel can be.                                    *)
TunnelLabels == {"idle", "stop", "start", "await", "track", "url", "env", "tell", "release",
                 "watch", "close", "poll"}
(* The steps of a toggle, and what holds busy.                             *)
Steps == {"stop", "start", "await", "track", "url", "env", "tell"}
Guarded == Steps \cup {"release"}

(* busy is a lock: who toggles or resets is alone.                         *)
OneToggle ==
    /\ \A a, b \in T!Agents : tpc[a] \in Guarded /\ tpc[b] \in Guarded => a = b
    /\ busy <=> \E a \in T!Agents : tpc[a] \in Guarded

(* The watcher of a tunnel has the guard, or polls for it.                 *)
Left(p) == tpc[p] \in {"close", "poll"}
(* The env has the URL that is up, and that is of the tunnel unless its    *)
(* exit is being dealt with.                                               *)
UpToDate == ~ctxDone => url = public /\ (url # 0 => link = url \/ Left(url))

(* What a toggle has taken, started and found so far.                      *)
Presser(x) ==
    /\ tpc[x] \notin {"watch", "close", "poll"}
    /\ tpc[x] \in {"stop", "start", "await", "track"} => link = 0
    /\ tpc[x] = "start" => mine[x] = 0
    /\ tpc[x] \in {"await", "track"} => mine[x] \in 1 .. launched /\ tpc[mine[x]] = "idle"
    /\ tpc[x] \in {"await", "track"} /\ ~ctxDone => mine[x] \in listening
    /\ tpc[x] \in {"url", "env", "tell"} => aim[x] <= launched /\ (aim[x] = 0 \/ tpc[aim[x]] =
       "idle")
    /\ tpc[x] \in {"start", "await", "track"} => UpToDate

(* A tunnel that a toggle stops or brings up.                              *)
InHands(p) == \E x \in Pressers : mine[x] = p /\ tpc[x] \in {"stop", "await", "track"}

(* The goroutine that waits for the exit of a tunnel; what runs or listens *)
(* is the tunnel or in hand.                                               *)
ExitWatcher(p) ==
    /\ tpc[p] \notin {"stop", "start", "await", "track"}
    /\ tpc[p] \in {"url", "env", "tell"} => aim[p] = 0
    /\ p > launched => tpc[p] = "idle"
    /\ link = p => p <= launched /\ tpc[p] \in {"idle", "watch"}
    /\ link = p /\ ~ctxDone => p \in listening
    /\ p \in up => p = link \/ InHands(p)
    /\ p \in listening => p = link \/ tpc[p] = "close" \/ InHands(p)

(* applyState does its steps in order.                                     *)
Applying(a) ==
    /\ tpc[a] \in {"url", "env", "tell"} /\ ~ctxDone => link = aim[a]
    /\ tpc[a] \in {"env", "tell"} => url = aim[a]
    /\ tpc[a] = "tell" => public = aim[a]

(* When nobody toggles, the tunnel, the env and the UI agree.              *)
Agreed ==
    ~ctxDone /\ (\A a \in T!Agents : tpc[a] \notin Steps) =>
        /\ UpToDate
        /\ link # 0 => url = link /\ told = link /\ tpc[link] = "watch"
        /\ told \in {0, url}

(* The inductive invariant.                                                *)
TunnelIInv ==
    /\ T!TypeOK /\ OneToggle /\ Agreed
    /\ \A x \in Pressers : Presser(x)
    /\ \A p \in T!Tunnels : ExitWatcher(p)
    /\ \A a \in T!Agents : Applying(a)

(* Every step of the tunnel keeps every variable in its type.              *)
LEMMA TunnelTypeStep ==
    ASSUME TunnelIInv, T!Next PROVE T!TypeOK'
<1> USE TunnelAssumption DEF T!Agents, T!Tunnels
<1>g. T!TypeOK
  BY DEF TunnelIInv
<1>busy. busy \in BOOLEAN
  BY <1>g DEF T!TypeOK, TunnelLabels
<1>link. link \in 0 .. MaxTunnels
  BY <1>g DEF T!TypeOK, TunnelLabels
<1>url. url \in 0 .. MaxTunnels
  BY <1>g DEF T!TypeOK, TunnelLabels
<1>public. public \in 0 .. MaxTunnels
  BY <1>g DEF T!TypeOK, TunnelLabels
<1>told. told \in T!Changing .. MaxTunnels
  BY <1>g DEF T!TypeOK, TunnelLabels
<1>tpc. tpc \in [T!Agents -> TunnelLabels]
  BY <1>g DEF T!TypeOK, TunnelLabels
<1>aim. aim \in [T!Agents -> 0 .. MaxTunnels]
  BY <1>g DEF T!TypeOK, TunnelLabels
<1>mine. mine \in [Pressers -> 0 .. MaxTunnels]
  BY <1>g DEF T!TypeOK, TunnelLabels
<1>launched. launched \in 0 .. MaxTunnels
  BY <1>g DEF T!TypeOK, TunnelLabels
<1>up. up \in SUBSET (1 .. launched)
  BY <1>g DEF T!TypeOK, TunnelLabels
<1>listening. listening \in SUBSET (1 .. launched)
  BY <1>g DEF T!TypeOK, TunnelLabels
<1>ctxDone. ctxDone \in BOOLEAN
  BY <1>g DEF T!TypeOK, TunnelLabels
<1>closed. closed \in BOOLEAN
  BY <1>g DEF T!TypeOK, TunnelLabels
<1>1. ASSUME NEW b \in Pressers, T!Press(b) PROVE T!TypeOK'
  <2>1. busy' \in BOOLEAN
    BY <1>1, <1>busy DEF T!Press, T!Changing, T!Goto, T!childVars, T!downVars
  <2>2. link' \in 0 .. MaxTunnels
    BY <1>1, <1>link DEF T!Press, T!Changing, T!Goto, T!childVars, T!downVars
  <2>3. told' \in T!Changing .. MaxTunnels
    BY <1>1, <1>told DEF T!Press, T!Changing, T!Goto, T!childVars, T!downVars
  <2>4. tpc' \in [T!Agents -> TunnelLabels]
    BY <1>1, <1>tpc DEF T!Press, T!Changing, T!Goto, T!childVars, T!downVars, TunnelLabels
  <2>5. mine' \in [Pressers -> 0 .. MaxTunnels]
    BY <1>1, <1>mine, <1>link, <1>launched DEF T!Press, T!Changing, T!Goto, T!childVars, T!downVars
  <2> QED BY <1>g, <1>1, <2>3 DEF T!TypeOK, T!Press, T!Goto, T!childVars, T!downVars
<1>2. ASSUME NEW b \in Pressers, T!StopTunnel(b) PROVE T!TypeOK'
  <2>1. tpc' \in [T!Agents -> TunnelLabels]
    BY <1>2, <1>tpc DEF T!StopTunnel, T!Goto, T!downVars, T!state, TunnelLabels
  <2>2. aim' \in [T!Agents -> 0 .. MaxTunnels]
    BY <1>2, <1>aim DEF T!StopTunnel, T!Goto, T!downVars, T!state
  <2>3. up' \in SUBSET (1 .. launched')
    BY <1>2, <1>up DEF T!StopTunnel, T!Goto, T!downVars, T!state
  <2>4. listening' \in SUBSET (1 .. launched')
    BY <1>2, <1>listening DEF T!StopTunnel, T!Goto, T!downVars, T!state
  <2> QED BY <1>g, <1>2, <2>1, <2>2, <2>3, <2>4 DEF T!TypeOK, T!StopTunnel, T!Goto, T!downVars,
     T!state
<1>3. ASSUME NEW b \in Pressers, T!Launch(b) PROVE T!TypeOK'
  <2>1. tpc' \in [T!Agents -> TunnelLabels]
    BY <1>3, <1>tpc DEF T!Launch, T!Goto, T!downVars, T!state, TunnelLabels
  <2>2. mine' \in [Pressers -> 0 .. MaxTunnels]
    BY <1>3, <1>mine, <1>link, <1>launched DEF T!Launch, T!Goto, T!downVars, T!state
  <2>3. launched' \in 0 .. MaxTunnels
    BY <1>3, <1>launched DEF T!Launch, T!Goto, T!downVars, T!state
  <2>4. up' \in SUBSET (1 .. launched')
    BY <1>3, <1>up, <1>launched, <1>mine, <1>link DEF T!Launch, T!Goto, T!downVars, T!state
  <2>5. listening' \in SUBSET (1 .. launched')
    BY <1>3, <1>listening, <1>launched, <1>mine, <1>link DEF T!Launch, T!Goto, T!downVars, T!state
  <2> QED BY <1>g, <1>3 DEF T!TypeOK, T!Launch, T!Goto, T!downVars, T!state
<1>4. ASSUME NEW b \in Pressers, T!StartFails(b) PROVE T!TypeOK'
  <2>1. told' \in T!Changing .. MaxTunnels
    BY <1>4, <1>told, <1>aim DEF T!StartFails, T!Goto, T!downVars, T!Changing
  <2>2. tpc' \in [T!Agents -> TunnelLabels]
    BY <1>4, <1>tpc DEF T!StartFails, T!Goto, T!downVars, TunnelLabels
  <2>3. up' \in SUBSET (1 .. launched')
    BY <1>4, <1>up DEF T!StartFails, T!Goto, T!downVars
  <2>4. listening' \in SUBSET (1 .. launched')
    BY <1>4, <1>listening DEF T!StartFails, T!Goto, T!downVars
  <2> QED BY <1>g, <1>4, <2>1, <2>2, <2>3, <2>4 DEF T!TypeOK, T!StartFails, T!Goto, T!downVars
<1>5. ASSUME NEW b \in Pressers, T!FoundURL(b) PROVE T!TypeOK'
  <2>1. tpc' \in [T!Agents -> TunnelLabels]
    BY <1>5, <1>tpc DEF T!FoundURL, T!Goto, T!childVars, T!downVars, T!state, TunnelLabels
  <2> QED BY <1>g, <1>5, <2>1 DEF T!TypeOK, T!FoundURL, T!Goto, T!childVars, T!downVars, T!state
<1>6. ASSUME NEW b \in Pressers, T!Track(b) PROVE T!TypeOK'
  <2>1. link' \in 0 .. MaxTunnels
    BY <1>6, <1>link, <1>mine DEF T!Track, T!Goto, T!childVars, T!downVars
  <2>2. tpc' \in [T!Agents -> TunnelLabels]
    BY <1>6, <1>tpc DEF T!Track, T!Goto, T!childVars, T!downVars, TunnelLabels
  <2>3. aim' \in [T!Agents -> 0 .. MaxTunnels]
    BY <1>6, <1>aim, <1>mine DEF T!Track, T!Goto, T!childVars, T!downVars
  <2> QED BY <1>g, <1>6, <2>1, <2>2, <2>3 DEF T!TypeOK, T!Track, T!Goto, T!childVars, T!downVars
<1>7. ASSUME NEW b \in T!Agents, T!ApplyURL(b) PROVE T!TypeOK'
  <2>1. url' \in 0 .. MaxTunnels
    BY <1>7, <1>url, <1>aim DEF T!ApplyURL, T!Goto, T!childVars, T!downVars
  <2>2. tpc' \in [T!Agents -> TunnelLabels]
    BY <1>7, <1>tpc DEF T!ApplyURL, T!Goto, T!childVars, T!downVars, TunnelLabels
  <2> QED BY <1>g, <1>7, <2>1, <2>2 DEF T!TypeOK, T!ApplyURL, T!Goto, T!childVars, T!downVars
<1>8. ASSUME NEW b \in T!Agents, T!ApplyEnv(b) PROVE T!TypeOK'
  <2>1. public' \in 0 .. MaxTunnels
    BY <1>8, <1>public, <1>aim DEF T!ApplyEnv, T!Goto, T!childVars, T!downVars
  <2>2. tpc' \in [T!Agents -> TunnelLabels]
    BY <1>8, <1>tpc DEF T!ApplyEnv, T!Goto, T!childVars, T!downVars, TunnelLabels
  <2> QED BY <1>g, <1>8, <2>1, <2>2 DEF T!TypeOK, T!ApplyEnv, T!Goto, T!childVars, T!downVars
<1>9. ASSUME NEW b \in T!Agents, T!Tell(b) PROVE T!TypeOK'
  <2>1. told' \in T!Changing .. MaxTunnels
    BY <1>9, <1>told, <1>aim DEF T!Tell, T!childVars, T!downVars, T!Changing
  <2>2. tpc' \in [T!Agents -> TunnelLabels]
    BY <1>9, <1>tpc DEF T!Tell, T!childVars, T!downVars, TunnelLabels
  <2> QED BY <1>g, <1>9, <2>1, <2>2 DEF T!TypeOK, T!Tell, T!childVars, T!downVars
<1>10. ASSUME NEW b \in T!Agents, T!Release(b) PROVE T!TypeOK'
  <2>1. busy' \in BOOLEAN
    BY <1>10, <1>busy DEF T!Release, T!Goto, T!childVars, T!downVars
  <2>2. tpc' \in [T!Agents -> TunnelLabels]
    BY <1>10, <1>tpc DEF T!Release, T!Goto, T!childVars, T!downVars, TunnelLabels
  <2> QED BY <1>g, <1>10, <2>1, <2>2 DEF T!TypeOK, T!Release, T!Goto, T!childVars, T!downVars
<1>11. ASSUME NEW b \in T!Tunnels, T!ChildDies(b) PROVE T!TypeOK'
  <2>1. up' \in SUBSET (1 .. launched')
    BY <1>11, <1>up DEF T!ChildDies, T!downVars, T!state
  <2> QED BY <1>g, <1>11, <2>1 DEF T!TypeOK, T!ChildDies, T!downVars, T!state
<1>12. ASSUME NEW b \in T!Tunnels, T!Notice(b) PROVE T!TypeOK'
  <2>1. link' \in 0 .. MaxTunnels
    BY <1>12, <1>link DEF T!Notice, T!Goto, T!childVars, T!downVars
  <2>2. tpc' \in [T!Agents -> TunnelLabels]
    BY <1>12, <1>tpc DEF T!Notice, T!Goto, T!childVars, T!downVars, TunnelLabels
  <2> QED BY <1>g, <1>12, <2>1, <2>2 DEF T!TypeOK, T!Notice, T!Goto, T!childVars, T!downVars
<1>13. ASSUME NEW b \in T!Tunnels, T!CloseListener(b) PROVE T!TypeOK'
  <2>1. tpc' \in [T!Agents -> TunnelLabels]
    BY <1>13, <1>tpc DEF T!CloseListener, T!Goto, T!downVars, T!state, TunnelLabels
  <2>2. listening' \in SUBSET (1 .. launched')
    BY <1>13, <1>listening DEF T!CloseListener, T!Goto, T!downVars, T!state
  <2> QED BY <1>g, <1>13, <2>1, <2>2 DEF T!TypeOK, T!CloseListener, T!Goto, T!downVars, T!state
<1>14. ASSUME NEW b \in T!Tunnels, T!TakeGuard(b) PROVE T!TypeOK'
  <2>1. busy' \in BOOLEAN
    BY <1>14, <1>busy DEF T!TakeGuard, T!Goto, T!childVars, T!downVars
  <2>2. tpc' \in [T!Agents -> TunnelLabels]
    BY <1>14, <1>tpc DEF T!TakeGuard, T!Goto, T!childVars, T!downVars, TunnelLabels
  <2>3. aim' \in [T!Agents -> 0 .. MaxTunnels]
    BY <1>14, <1>aim DEF T!TakeGuard, T!Goto, T!childVars, T!downVars
  <2> QED BY <1>g, <1>14, <2>1, <2>2, <2>3 DEF T!TypeOK, T!TakeGuard, T!Goto, T!childVars,
     T!downVars
<1>15. CASE T!Cancel
  <2>1. ctxDone' \in BOOLEAN
    BY <1>15, <1>ctxDone DEF T!Cancel, T!childVars, T!state
  <2> QED BY <1>g, <1>15, <2>1 DEF T!TypeOK, T!Cancel, T!childVars, T!state
<1>16. CASE T!Close
  <2>1. link' \in 0 .. MaxTunnels
    BY <1>16, <1>link DEF T!Close
  <2>2. up' \in SUBSET (1 .. launched')
    BY <1>16, <1>up DEF T!Close
  <2>3. listening' \in SUBSET (1 .. launched')
    BY <1>16, <1>listening DEF T!Close
  <2>4. closed' \in BOOLEAN
    BY <1>16, <1>closed DEF T!Close
  <2> QED BY <1>g, <1>16, <2>1, <2>2, <2>3, <2>4 DEF T!TypeOK, T!Close
<1> QED
  BY <1>1, <1>2, <1>3, <1>4, <1>5, <1>6, <1>7, <1>8, <1>9, <1>10, <1>11, <1>12, <1>13, <1>14, <1>15,
     <1>16 DEF T!Next, T!ToggleStep, T!ApplyStep, T!WatchStep

(* busy stays the lock of one toggle or reset.                             *)
LEMMA ToggleStep ==
    ASSUME TunnelIInv, T!Next PROVE OneToggle'
<1> USE TunnelAssumption DEF T!Agents, T!Tunnels
<1>i. OneToggle
  BY DEF TunnelIInv
<1>busy. busy \in BOOLEAN
  BY DEF TunnelIInv, T!TypeOK, TunnelLabels
<1>tpc. tpc \in [T!Agents -> TunnelLabels]
  BY DEF TunnelIInv, T!TypeOK, TunnelLabels
<1>1. ASSUME NEW b \in Pressers, T!Press(b) PROVE OneToggle'
  BY <1>i, <1>1, <1>tpc DEF OneToggle, Guarded, Steps, T!Press, T!Goto
<1>2. ASSUME NEW b \in Pressers, T!StopTunnel(b) PROVE OneToggle'
  BY <1>i, <1>2 DEF OneToggle, Guarded, Steps, T!StopTunnel, T!Goto, T!downVars, T!state
<1>3. ASSUME NEW b \in Pressers, T!Launch(b) PROVE OneToggle'
  BY <1>i, <1>3 DEF OneToggle, Guarded, Steps, T!Launch, T!Goto, T!downVars, T!state
<1>4. ASSUME NEW b \in Pressers, T!StartFails(b) PROVE OneToggle'
  BY <1>i, <1>4 DEF OneToggle, Guarded, Steps, T!StartFails, T!Goto, T!downVars
<1>5. ASSUME NEW b \in Pressers, T!FoundURL(b) PROVE OneToggle'
  BY <1>i, <1>5 DEF OneToggle, Guarded, Steps, T!FoundURL, T!Goto, T!childVars, T!downVars, T!state
<1>6. ASSUME NEW b \in Pressers, T!Track(b) PROVE OneToggle'
  BY <1>i, <1>6 DEF OneToggle, Guarded, Steps, T!Track, T!Goto, T!childVars, T!downVars
<1>7. ASSUME NEW b \in T!Agents, T!ApplyURL(b) PROVE OneToggle'
  BY <1>i, <1>7 DEF OneToggle, Guarded, Steps, T!ApplyURL, T!Goto, T!childVars, T!downVars
<1>8. ASSUME NEW b \in T!Agents, T!ApplyEnv(b) PROVE OneToggle'
  BY <1>i, <1>8 DEF OneToggle, Guarded, Steps, T!ApplyEnv, T!Goto, T!childVars, T!downVars
<1>9. ASSUME NEW b \in T!Agents, T!Tell(b) PROVE OneToggle'
  BY <1>i, <1>9 DEF OneToggle, Guarded, Steps, T!Tell, T!childVars, T!downVars
<1>10. ASSUME NEW b \in T!Agents, T!Release(b) PROVE OneToggle'
  BY <1>i, <1>10, <1>busy, <1>tpc DEF OneToggle, Guarded, Steps, T!Release, T!Goto, T!childVars,
     T!downVars
<1>11. ASSUME NEW b \in T!Tunnels, T!ChildDies(b) PROVE OneToggle'
  BY <1>i, <1>11 DEF OneToggle, Guarded, Steps, T!ChildDies, T!downVars, T!state
<1>12. ASSUME NEW b \in T!Tunnels, T!Notice(b) PROVE OneToggle'
  BY <1>i, <1>12, <1>tpc DEF OneToggle, Guarded, Steps, T!Notice, T!Goto, T!childVars, T!downVars
<1>13. ASSUME NEW b \in T!Tunnels, T!CloseListener(b) PROVE OneToggle'
  BY <1>i, <1>13 DEF OneToggle, Guarded, Steps, T!CloseListener, T!Goto, T!downVars, T!state
<1>14. ASSUME NEW b \in T!Tunnels, T!TakeGuard(b) PROVE OneToggle'
  BY <1>i, <1>14, <1>busy, <1>tpc DEF OneToggle, Guarded, Steps, T!TakeGuard, T!Goto, T!childVars,
     T!downVars
<1>15. CASE T!Cancel
  BY <1>i, <1>15 DEF OneToggle, Guarded, Steps, T!Cancel, T!childVars, T!state
<1>16. CASE T!Close
  BY <1>i, <1>16 DEF OneToggle, Guarded, Steps, T!Close
<1> QED
  BY <1>1, <1>2, <1>3, <1>4, <1>5, <1>6, <1>7, <1>8, <1>9, <1>10, <1>11, <1>12, <1>13, <1>14, <1>15,
     <1>16 DEF T!Next, T!ToggleStep, T!ApplyStep, T!WatchStep

(* What a toggle has in hand stays what it took or launched.               *)
LEMMA PresserStep ==
    ASSUME TunnelIInv, T!Next, NEW x \in Pressers PROVE Presser(x)'
<1> USE TunnelAssumption DEF T!Agents, T!Tunnels
<1>i. Presser(x)
  BY DEF TunnelIInv
<1>g. OneToggle
  BY DEF TunnelIInv
<1>d. Agreed
  BY DEF TunnelIInv
<1>x. \A y \in Pressers : Presser(y)
  BY DEF TunnelIInv
<1>p. \A q \in T!Tunnels : ExitWatcher(q)
  BY DEF TunnelIInv
<1>public. public \in 0 .. MaxTunnels
  BY DEF TunnelIInv, T!TypeOK, TunnelLabels
<1>tpc. tpc \in [T!Agents -> TunnelLabels]
  BY DEF TunnelIInv, T!TypeOK, TunnelLabels
<1>aim. aim \in [T!Agents -> 0 .. MaxTunnels]
  BY DEF TunnelIInv, T!TypeOK, TunnelLabels
<1>mine. mine \in [Pressers -> 0 .. MaxTunnels]
  BY DEF TunnelIInv, T!TypeOK, TunnelLabels
<1>launched. launched \in 0 .. MaxTunnels
  BY DEF TunnelIInv, T!TypeOK, TunnelLabels
<1>1. ASSUME NEW b \in Pressers, T!Press(b) PROVE Presser(x)'
  BY <1>i, <1>1, <1>mine, <1>g, <1>d DEF Presser, UpToDate, Left, T!Press, T!Goto, T!downVars,
     OneToggle, Guarded, Steps, Agreed
<1>2. ASSUME NEW b \in Pressers, T!StopTunnel(b) PROVE Presser(x)'
  BY <1>2, <1>tpc, <1>aim, <1>launched, <1>g, <1>x DEF Presser, T!StopTunnel, T!Goto, OneToggle,
     Guarded, Steps
<1>3. ASSUME NEW b \in Pressers, T!Launch(b) PROVE Presser(x)'
  BY <1>i, <1>3, <1>tpc, <1>aim, <1>mine, <1>launched, <1>p DEF Presser, UpToDate, Left, T!Launch,
     T!Goto, T!state, ExitWatcher
<1>4. ASSUME NEW b \in Pressers, T!StartFails(b) PROVE Presser(x)'
  BY <1>i, <1>4, <1>tpc, <1>g DEF Presser, T!StartFails, T!Goto, OneToggle, Guarded, Steps
<1>5. ASSUME NEW b \in Pressers, T!FoundURL(b) PROVE Presser(x)'
  BY <1>i, <1>5 DEF Presser, UpToDate, Left, T!FoundURL, T!Goto, T!childVars, T!downVars, T!state
<1>6. ASSUME NEW b \in Pressers, T!Track(b) PROVE Presser(x)'
  BY <1>i, <1>6, <1>tpc, <1>aim, <1>g DEF Presser, T!Track, T!Goto, T!childVars, OneToggle, Guarded,
     Steps
<1>7. ASSUME NEW b \in T!Agents, T!ApplyURL(b) PROVE Presser(x)'
  BY <1>i, <1>7, <1>g DEF Presser, T!ApplyURL, T!Goto, T!childVars, OneToggle, Guarded, Steps
<1>8. ASSUME NEW b \in T!Agents, T!ApplyEnv(b) PROVE Presser(x)'
  BY <1>i, <1>8, <1>g DEF Presser, T!ApplyEnv, T!Goto, T!childVars, OneToggle, Guarded, Steps
<1>9. ASSUME NEW b \in T!Agents, T!Tell(b) PROVE Presser(x)'
  BY <1>9, <1>aim, <1>g, <1>x DEF Presser, T!Tell, OneToggle, Guarded, Steps
<1>10. ASSUME NEW b \in T!Agents, T!Release(b) PROVE Presser(x)'
  BY <1>i, <1>10 DEF Presser, UpToDate, Left, T!Release, T!Goto, T!childVars, T!downVars
<1>11. ASSUME NEW b \in T!Tunnels, T!ChildDies(b) PROVE Presser(x)'
  BY <1>i, <1>11 DEF Presser, UpToDate, Left, T!ChildDies, T!downVars, T!state
<1>12. ASSUME NEW b \in T!Tunnels, T!Notice(b) PROVE Presser(x)'
  BY <1>12, <1>public, <1>tpc, <1>aim, <1>launched, <1>x DEF Presser, UpToDate, Left, T!Notice,
     T!Goto, T!childVars, T!downVars
<1>13. ASSUME NEW b \in T!Tunnels, T!CloseListener(b) PROVE Presser(x)'
  BY <1>i, <1>13 DEF Presser, UpToDate, Left, T!CloseListener, T!Goto, T!downVars, T!state
<1>14. ASSUME NEW b \in T!Tunnels, T!TakeGuard(b) PROVE Presser(x)'
  BY <1>i, <1>14, <1>tpc, <1>g DEF Presser, T!TakeGuard, T!Goto, OneToggle, Guarded, Steps
<1>15. CASE T!Cancel
  BY <1>i, <1>15 DEF Presser, UpToDate, Left, T!Cancel, T!childVars, T!state
<1>16. CASE T!Close
  BY <1>i, <1>16 DEF Presser, UpToDate, Left, T!Close
<1> QED
  BY <1>1, <1>2, <1>3, <1>4, <1>5, <1>6, <1>7, <1>8, <1>9, <1>10, <1>11, <1>12, <1>13, <1>14, <1>15,
     <1>16 DEF T!Next, T!ToggleStep, T!ApplyStep, T!WatchStep

(* A tunnel that runs or listens stays tracked, or in the hands of a toggle. *)
LEMMA WatcherStep ==
    ASSUME TunnelIInv, T!Next, NEW p \in T!Tunnels PROVE ExitWatcher(p)'
<1> USE TunnelAssumption DEF T!Agents, T!Tunnels
<1>i. ExitWatcher(p)
  BY DEF TunnelIInv
<1>x. \A y \in Pressers : Presser(y)
  BY DEF TunnelIInv
<1>p. \A q \in T!Tunnels : ExitWatcher(q)
  BY DEF TunnelIInv
<1>link. link \in 0 .. MaxTunnels
  BY DEF TunnelIInv, T!TypeOK, TunnelLabels
<1>tpc. tpc \in [T!Agents -> TunnelLabels]
  BY DEF TunnelIInv, T!TypeOK, TunnelLabels
<1>aim. aim \in [T!Agents -> 0 .. MaxTunnels]
  BY DEF TunnelIInv, T!TypeOK, TunnelLabels
<1>mine. mine \in [Pressers -> 0 .. MaxTunnels]
  BY DEF TunnelIInv, T!TypeOK, TunnelLabels
<1>launched. launched \in 0 .. MaxTunnels
  BY DEF TunnelIInv, T!TypeOK, TunnelLabels
<1>1. ASSUME NEW b \in Pressers, T!Press(b) PROVE ExitWatcher(p)'
  BY <1>i, <1>1, <1>tpc, <1>mine DEF ExitWatcher, InHands, T!Press, T!Goto, T!childVars
<1>2. ASSUME NEW b \in Pressers, T!StopTunnel(b) PROVE ExitWatcher(p)'
  BY <1>i, <1>2, <1>x DEF ExitWatcher, InHands, T!StopTunnel, T!Goto, T!state, Presser
<1>3. ASSUME NEW b \in Pressers, T!Launch(b) PROVE ExitWatcher(p)'
  BY <1>i, <1>3, <1>tpc, <1>mine, <1>launched DEF ExitWatcher, InHands, T!Launch, T!Goto, T!state
<1>4. ASSUME NEW b \in Pressers, T!StartFails(b) PROVE ExitWatcher(p)'
  BY <1>i, <1>4, <1>x DEF ExitWatcher, InHands, T!StartFails, T!Goto, Presser
<1>5. ASSUME NEW b \in Pressers, T!FoundURL(b) PROVE ExitWatcher(p)'
  BY <1>i, <1>5 DEF ExitWatcher, InHands, T!FoundURL, T!Goto, T!childVars, T!downVars, T!state
<1>6. ASSUME NEW b \in Pressers, T!Track(b) PROVE ExitWatcher(p)'
  BY <1>i, <1>6, <1>x DEF ExitWatcher, InHands, T!Track, T!Goto, T!childVars, T!downVars, Presser
<1>7. ASSUME NEW b \in T!Agents, T!ApplyURL(b) PROVE ExitWatcher(p)'
  BY <1>i, <1>7 DEF ExitWatcher, InHands, T!ApplyURL, T!Goto, T!childVars, T!downVars
<1>8. ASSUME NEW b \in T!Agents, T!ApplyEnv(b) PROVE ExitWatcher(p)'
  BY <1>i, <1>8 DEF ExitWatcher, InHands, T!ApplyEnv, T!Goto, T!childVars, T!downVars
<1>9. ASSUME NEW b \in T!Agents, T!Tell(b) PROVE ExitWatcher(p)'
  BY <1>9, <1>launched, <1>x, <1>p DEF ExitWatcher, InHands, T!Tell, T!childVars, T!downVars,
     Presser
<1>10. ASSUME NEW b \in T!Agents, T!Release(b) PROVE ExitWatcher(p)'
  BY <1>i, <1>10 DEF ExitWatcher, InHands, T!Release, T!Goto, T!childVars, T!downVars
<1>11. ASSUME NEW b \in T!Tunnels, T!ChildDies(b) PROVE ExitWatcher(p)'
  BY <1>i, <1>11 DEF ExitWatcher, InHands, T!ChildDies, T!downVars, T!state
<1>12. ASSUME NEW b \in T!Tunnels, T!Notice(b) PROVE ExitWatcher(p)'
  BY <1>i, <1>12, <1>link, <1>tpc DEF ExitWatcher, InHands, T!Notice, T!Goto, T!childVars,
     T!downVars
<1>13. ASSUME NEW b \in T!Tunnels, T!CloseListener(b) PROVE ExitWatcher(p)'
  BY <1>i, <1>13 DEF ExitWatcher, InHands, T!CloseListener, T!Goto, T!downVars, T!state
<1>14. ASSUME NEW b \in T!Tunnels, T!TakeGuard(b) PROVE ExitWatcher(p)'
  BY <1>i, <1>14, <1>tpc, <1>aim DEF ExitWatcher, InHands, T!TakeGuard, T!Goto, T!childVars,
     T!downVars
<1>15. CASE T!Cancel
  BY <1>i, <1>15 DEF ExitWatcher, InHands, T!Cancel, T!childVars, T!state
<1>16. CASE T!Close
  BY <1>i, <1>16 DEF ExitWatcher, InHands, T!Close
<1> QED
  BY <1>1, <1>2, <1>3, <1>4, <1>5, <1>6, <1>7, <1>8, <1>9, <1>10, <1>11, <1>12, <1>13, <1>14, <1>15,
     <1>16 DEF T!Next, T!ToggleStep, T!ApplyStep, T!WatchStep

(* What is applied stays what is tracked.                                  *)
LEMMA ApplyingStep ==
    ASSUME TunnelIInv, T!Next, NEW a \in T!Agents PROVE Applying(a)'
<1> USE TunnelAssumption DEF T!Agents, T!Tunnels
<1>i. Applying(a)
  BY DEF TunnelIInv
<1>g. OneToggle
  BY DEF TunnelIInv
<1>x. \A y \in Pressers : Presser(y)
  BY DEF TunnelIInv
<1>p. \A q \in T!Tunnels : ExitWatcher(q)
  BY DEF TunnelIInv
<1>tpc. tpc \in [T!Agents -> TunnelLabels]
  BY DEF TunnelIInv, T!TypeOK, TunnelLabels
<1>aim. aim \in [T!Agents -> 0 .. MaxTunnels]
  BY DEF TunnelIInv, T!TypeOK, TunnelLabels
<1>1. ASSUME NEW b \in Pressers, T!Press(b) PROVE Applying(a)'
  BY <1>1, <1>g DEF Applying, T!Press, T!Goto, OneToggle, Guarded, Steps
<1>2. ASSUME NEW b \in Pressers, T!StopTunnel(b) PROVE Applying(a)'
  BY <1>i, <1>2, <1>aim, <1>x DEF Applying, T!StopTunnel, T!Goto, T!downVars, T!state, Presser
<1>3. ASSUME NEW b \in Pressers, T!Launch(b) PROVE Applying(a)'
  BY <1>i, <1>3 DEF Applying, T!Launch, T!Goto, T!downVars, T!state
<1>4. ASSUME NEW b \in Pressers, T!StartFails(b) PROVE Applying(a)'
  BY <1>i, <1>4 DEF Applying, T!StartFails, T!Goto, T!downVars
<1>5. ASSUME NEW b \in Pressers, T!FoundURL(b) PROVE Applying(a)'
  BY <1>i, <1>5 DEF Applying, T!FoundURL, T!Goto, T!childVars, T!downVars, T!state
<1>6. ASSUME NEW b \in Pressers, T!Track(b) PROVE Applying(a)'
  BY <1>6, <1>aim, <1>g DEF Applying, T!Track, T!Goto, OneToggle, Guarded, Steps
<1>7. ASSUME NEW b \in T!Agents, T!ApplyURL(b) PROVE Applying(a)'
  BY <1>i, <1>7, <1>g DEF Applying, T!ApplyURL, T!Goto, T!downVars, OneToggle, Guarded, Steps
<1>8. ASSUME NEW b \in T!Agents, T!ApplyEnv(b) PROVE Applying(a)'
  BY <1>i, <1>8, <1>g DEF Applying, T!ApplyEnv, T!Goto, T!downVars, OneToggle, Guarded, Steps
<1>9. ASSUME NEW b \in T!Agents, T!Tell(b) PROVE Applying(a)'
  BY <1>i, <1>9 DEF Applying, T!Tell, T!childVars, T!downVars
<1>10. ASSUME NEW b \in T!Agents, T!Release(b) PROVE Applying(a)'
  BY <1>i, <1>10 DEF Applying, T!Release, T!Goto, T!childVars, T!downVars
<1>11. ASSUME NEW b \in T!Tunnels, T!ChildDies(b) PROVE Applying(a)'
  BY <1>i, <1>11 DEF Applying, T!ChildDies, T!downVars, T!state
<1>12. ASSUME NEW b \in T!Tunnels, T!Notice(b) PROVE Applying(a)'
  BY <1>i, <1>12, <1>tpc, <1>x, <1>p DEF Applying, T!Notice, T!Goto, T!downVars, Presser,
     ExitWatcher
<1>13. ASSUME NEW b \in T!Tunnels, T!CloseListener(b) PROVE Applying(a)'
  BY <1>i, <1>13 DEF Applying, T!CloseListener, T!Goto, T!downVars, T!state
<1>14. ASSUME NEW b \in T!Tunnels, T!TakeGuard(b) PROVE Applying(a)'
  BY <1>i, <1>14, <1>tpc, <1>aim DEF Applying, T!TakeGuard, T!Goto, T!childVars, T!downVars
<1>15. CASE T!Cancel
  BY <1>i, <1>15 DEF Applying, T!Cancel, T!childVars, T!state
<1>16. CASE T!Close
  BY <1>i, <1>16 DEF Applying, T!Close
<1> QED
  BY <1>1, <1>2, <1>3, <1>4, <1>5, <1>6, <1>7, <1>8, <1>9, <1>10, <1>11, <1>12, <1>13, <1>14, <1>15,
     <1>16 DEF T!Next, T!ToggleStep, T!ApplyStep, T!WatchStep

(* When nobody changes it, all agree on what is tracked.                   *)
LEMMA AgreedStep ==
    ASSUME TunnelIInv, T!Next PROVE Agreed'
<1> USE TunnelAssumption DEF T!Agents, T!Tunnels
<1>i. Agreed
  BY DEF TunnelIInv
<1>x. \A y \in Pressers : Presser(y)
  BY DEF TunnelIInv
<1>p. \A q \in T!Tunnels : ExitWatcher(q)
  BY DEF TunnelIInv
<1>a. \A c \in T!Agents : Applying(c)
  BY DEF TunnelIInv
<1>public. public \in 0 .. MaxTunnels
  BY DEF TunnelIInv, T!TypeOK, TunnelLabels
<1>tpc. tpc \in [T!Agents -> TunnelLabels]
  BY DEF TunnelIInv, T!TypeOK, TunnelLabels
<1>1. ASSUME NEW b \in Pressers, T!Press(b) PROVE Agreed'
  BY <1>1, <1>tpc DEF Agreed, Steps, T!Press, T!Goto
<1>2. ASSUME NEW b \in Pressers, T!StopTunnel(b) PROVE Agreed'
  BY <1>i, <1>2 DEF Agreed, UpToDate, Left, Steps, T!StopTunnel, T!Goto, T!downVars, T!state
<1>3. ASSUME NEW b \in Pressers, T!Launch(b) PROVE Agreed'
  BY <1>i, <1>3 DEF Agreed, UpToDate, Left, Steps, T!Launch, T!Goto, T!downVars, T!state
<1>4. ASSUME NEW b \in Pressers, T!StartFails(b) PROVE Agreed'
  BY <1>4, <1>x DEF Agreed, UpToDate, Left, T!StartFails, T!Goto, T!downVars, Presser
<1>5. ASSUME NEW b \in Pressers, T!FoundURL(b) PROVE Agreed'
  BY <1>i, <1>5 DEF Agreed, UpToDate, Left, Steps, T!FoundURL, T!Goto, T!childVars, T!downVars,
     T!state
<1>6. ASSUME NEW b \in Pressers, T!Track(b) PROVE Agreed'
  BY <1>i, <1>6 DEF Agreed, UpToDate, Left, Steps, T!Track, T!Goto, T!childVars, T!downVars
<1>7. ASSUME NEW b \in T!Agents, T!ApplyURL(b) PROVE Agreed'
  BY <1>i, <1>7 DEF Agreed, UpToDate, Left, Steps, T!ApplyURL, T!Goto, T!childVars, T!downVars
<1>8. ASSUME NEW b \in T!Agents, T!ApplyEnv(b) PROVE Agreed'
  BY <1>i, <1>8 DEF Agreed, UpToDate, Left, Steps, T!ApplyEnv, T!Goto, T!childVars, T!downVars
<1>9. ASSUME NEW b \in T!Agents, T!Tell(b) PROVE Agreed'
  BY <1>9, <1>public, <1>p, <1>a DEF Agreed, UpToDate, T!Tell, T!downVars, ExitWatcher, Applying
<1>10. ASSUME NEW b \in T!Agents, T!Release(b) PROVE Agreed'
  BY <1>i, <1>10 DEF Agreed, UpToDate, Left, Steps, T!Release, T!Goto, T!childVars, T!downVars
<1>11. ASSUME NEW b \in T!Tunnels, T!ChildDies(b) PROVE Agreed'
  BY <1>i, <1>11 DEF Agreed, UpToDate, Left, Steps, T!ChildDies, T!downVars, T!state
<1>12. ASSUME NEW b \in T!Tunnels, T!Notice(b) PROVE Agreed'
  BY <1>i, <1>12, <1>public, <1>tpc DEF Agreed, UpToDate, Left, Steps, T!Notice, T!Goto, T!downVars
<1>13. ASSUME NEW b \in T!Tunnels, T!CloseListener(b) PROVE Agreed'
  BY <1>i, <1>13 DEF Agreed, UpToDate, Left, Steps, T!CloseListener, T!Goto, T!downVars, T!state
<1>14. ASSUME NEW b \in T!Tunnels, T!TakeGuard(b) PROVE Agreed'
  BY <1>i, <1>14, <1>public, <1>tpc DEF Agreed, UpToDate, Steps, T!TakeGuard, T!Goto, T!downVars
<1>15. CASE T!Cancel
  BY <1>i, <1>15 DEF Agreed, UpToDate, Left, Steps, T!Cancel, T!childVars, T!state
<1>16. CASE T!Close
  BY <1>i, <1>16 DEF Agreed, UpToDate, Left, Steps, T!Close
<1> QED
  BY <1>1, <1>2, <1>3, <1>4, <1>5, <1>6, <1>7, <1>8, <1>9, <1>10, <1>11, <1>12, <1>13, <1>14, <1>15,
     <1>16 DEF T!Next, T!ToggleStep, T!ApplyStep, T!WatchStep

(* No tunnel has been started yet.                                         *)
LEMMA TunnelInitOK == T!Init => TunnelIInv
<1> SUFFICES ASSUME T!Init PROVE TunnelIInv  OBVIOUS
<1> USE TunnelAssumption DEF T!Init
<1>1. T!TypeOK
  <2>1. busy \in BOOLEAN /\ ctxDone \in BOOLEAN /\ closed \in BOOLEAN
    OBVIOUS
  <2>2. /\ link \in 0 .. MaxTunnels /\ url \in 0 .. MaxTunnels /\ public \in 0 .. MaxTunnels
        /\ launched \in 0 .. MaxTunnels /\ told \in T!Changing .. MaxTunnels
    BY DEF T!Changing
  <2>3. tpc \in [T!Agents -> TunnelLabels]
    BY DEF TunnelLabels
  <2>4. aim \in [T!Agents -> 0 .. MaxTunnels] /\ mine \in [Pressers -> 0 .. MaxTunnels]
    OBVIOUS
  <2>5. up \subseteq 1 .. launched /\ listening \subseteq 1 .. launched
    OBVIOUS
  <2> QED  BY <2>1, <2>2, <2>3, <2>4, <2>5 DEF T!TypeOK, TunnelLabels
<1>2. OneToggle
  BY DEF OneToggle, Guarded, Steps
<1>3. Agreed
  BY DEF Agreed, UpToDate
<1>4. ASSUME NEW x \in Pressers PROVE Presser(x)
  BY DEF Presser, T!Agents
<1>5. ASSUME NEW p \in T!Tunnels PROVE ExitWatcher(p)
  BY DEF ExitWatcher, T!Agents, T!Tunnels
<1>6. ASSUME NEW a \in T!Agents PROVE Applying(a)
  BY DEF Applying
<1> QED  BY <1>1, <1>2, <1>3, <1>4, <1>5, <1>6 DEF TunnelIInv

(* A step of the composition is one of the tunnel, or leaves it alone.     *)
LEMMA TunnelMoves == [MCNext]_mcvars => T!Next \/ UNCHANGED tunnelVars
BY DEF MCNext, mcvars

(* The others leave the tunnel alone.                                      *)
LEMMA TunnelStays ==
    ASSUME TunnelIInv, UNCHANGED tunnelVars
    PROVE  TunnelIInv'
<1> USE DEF tunnelVars, TunnelIInv
<1>1. T!TypeOK'
  BY DEF T!TypeOK
<1>2. OneToggle'
  BY DEF OneToggle
<1>3. Agreed'
  BY DEF Agreed, UpToDate, Left
<1>4. ASSUME NEW x \in Pressers PROVE Presser(x)'
  BY DEF Presser, UpToDate, Left
<1>5. ASSUME NEW p \in T!Tunnels PROVE ExitWatcher(p)'
  BY DEF ExitWatcher, InHands
<1>6. ASSUME NEW a \in T!Agents PROVE Applying(a)'
  BY DEF Applying
<1> QED  BY <1>1, <1>2, <1>3, <1>4, <1>5, <1>6

(* The invariant holds in every behaviour.                                 *)
LEMMA TunnelInvariance == MCSpec => []TunnelIInv
<1>1. MCInit => TunnelIInv
  BY TunnelInitOK DEF MCInit
<1>2. TunnelIInv /\ [MCNext]_mcvars => TunnelIInv'
  <2> SUFFICES ASSUME TunnelIInv, [MCNext]_mcvars PROVE TunnelIInv'  OBVIOUS
  <2>1. CASE UNCHANGED tunnelVars
    BY <2>1, TunnelStays
  <2>2. CASE T!Next
    <3>1. T!TypeOK' /\ OneToggle' /\ Agreed'
      BY <2>2, TunnelTypeStep, ToggleStep, AgreedStep
    <3>2. \A x \in Pressers : Presser(x)'
      BY <2>2, PresserStep
    <3>3. \A p \in T!Tunnels : ExitWatcher(p)'
      BY <2>2, WatcherStep
    <3>4. \A a \in T!Agents : Applying(a)'
      BY <2>2, ApplyingStep
    <3> QED  BY <3>1, <3>2, <3>3, <3>4 DEF TunnelIInv
  <2> QED  BY <2>1, <2>2, TunnelMoves
<1> QED  BY <1>1, <1>2, PTL DEF MCSpec

(* The tunnel counts as the theorems about finite sets do.                 *)
LEMMA SameCardinality == \A s : T!Cardinality(s) = Cardinality(s)
BY DEF T!Cardinality, Cardinality

(* Only the tracked tunnel runs, or the one a toggle has in hand, and they *)
(* are never two.                                                          *)
LEMMA AtMostOneTunnel ==
    ASSUME TunnelIInv
    PROVE  T!OneTunnel
<1> USE TunnelAssumption DEF T!Agents, T!Tunnels
<1>1. ASSUME NEW p \in up, NEW q \in up PROVE p = q
  <2>1. p \in T!Tunnels /\ q \in T!Tunnels
    BY DEF TunnelIInv, T!TypeOK
  <2>2. (p = link \/ InHands(p)) /\ (q = link \/ InHands(q))
    BY <2>1 DEF TunnelIInv, ExitWatcher
  <2>3. ASSUME NEW x \in Pressers, tpc[x] \in {"stop", "await", "track"} PROVE link = 0
    BY <2>3 DEF TunnelIInv, Presser
  <2>4. CASE InHands(p)
    <3>1. PICK x \in Pressers : mine[x] = p /\ tpc[x] \in {"stop", "await", "track"}
      BY <2>4 DEF InHands
    <3>2. InHands(q)
      BY <2>1, <2>2, <2>3, <3>1
    <3>3. PICK y \in Pressers : mine[y] = q /\ tpc[y] \in {"stop", "await", "track"}
      BY <3>2 DEF InHands
    <3>4. x = y
      BY <3>1, <3>3 DEF TunnelIInv, OneToggle, Guarded, Steps
    <3> QED  BY <3>1, <3>3, <3>4
  <2>5. CASE p = link /\ q = link
    BY <2>5
  <2>6. CASE p = link /\ InHands(q)
    BY <2>1, <2>3, <2>6 DEF InHands
  <2> QED  BY <2>2, <2>4, <2>5, <2>6
<1>2. CASE up = {}
  BY <1>2, FS_EmptySet, SameCardinality DEF T!OneTunnel
<1>3. CASE up # {}
  <2>1. PICK p \in up : up = {p}
    BY <1>1, <1>3
  <2> QED  BY <2>1, FS_Singleton, SameCardinality DEF T!OneTunnel
<1> QED  BY <1>2, <1>3

(* With nobody busy, the env, the status line and the page say what runs.  *)
LEMMA SettledAgrees ==
    ASSUME TunnelIInv
    PROVE  T!EveryoneAgrees
<1> SUFFICES ASSUME T!Settled PROVE T!EveryoneAgrees!2  BY DEF T!EveryoneAgrees
<1> USE TunnelAssumption DEF T!Agents, T!Tunnels
<1>1. ~busy /\ ~ctxDone /\ \A a \in T!Agents : tpc[a] = "idle" \/ (tpc[a] = "watch" /\ a \in up)
  BY DEF T!Settled
<1>2. \A a \in T!Agents : tpc[a] \notin Steps
  BY <1>1 DEF Steps
<1>3. /\ link \in 0 .. MaxTunnels /\ url \in 0 .. MaxTunnels
      /\ up \subseteq T!Tunnels /\ listening \subseteq T!Tunnels
  BY DEF TunnelIInv, T!TypeOK
<1>4. /\ url = public /\ (url # 0 => link = url \/ Left(url))
      /\ link # 0 => url = link /\ told = link /\ tpc[link] = "watch"
      /\ told \in {0, url}
  BY <1>1, <1>2 DEF TunnelIInv, Agreed, UpToDate
<1>5. \A p \in T!Tunnels : ~InHands(p)
  BY <1>1 DEF InHands
<1>6. url = link
  BY <1>1, <1>3, <1>4 DEF Left
<1>7. link # 0 => link \in up /\ link \in listening
  BY <1>1, <1>3, <1>4 DEF TunnelIInv, ExitWatcher
<1>8. \A p \in up \cup listening : p = link
  BY <1>1, <1>3, <1>5 DEF TunnelIInv, ExitWatcher
<1>9. up = {link} \ {0} /\ listening = {link} \ {0}
  <2>1. 0 \notin up \cup listening
    BY <1>3
  <2>2. CASE link = 0
    BY <1>8, <2>1, <2>2
  <2>3. CASE link # 0
    BY <1>7, <1>8, <2>3
  <2> QED  BY <2>2, <2>3
<1>10. told = link
  BY <1>4, <1>6
<1> QED  BY <1>4, <1>6, <1>9, <1>10

(* The tunnel's invariant: one tunnel at most, however T is pressed while  *)
(* one starts, stops or dies; and when all is quiet the env, the status    *)
(* line and the page agree with it (tunnel.go 254-277).                    *)
THEOREM TunnelIsSafe == MCSpec => []TunnelInv
<1>1. TunnelIInv => TunnelInv
  BY AtMostOneTunnel, SettledAgrees DEF TunnelInv, T!Inv, TunnelIInv
<1> QED  BY <1>1, TunnelInvariance, PTL

-----------------------------------------------------------------------------
(* The environment.                                                        *)

(* Who is between stopping a process and starting one holds startMu, and   *)
(* its name is down.                                                       *)
EnvLock ==
    \A a \in E!Actors : /\ apc[a] \in {"env", "start"} <=> envMu = a
                        /\ apc[a] \in {"env", "start"} => given[wanted[a]] = NotRunning

(* The env of the process manager is the merge of the layers, and no       *)
(* process and no start in hand is ahead of it.                            *)
EnvOrder ==
    /\ injected = layers
    /\ \A f \in Features : demanded[f] <= layers[f]
    /\ \A n \in E!Names, f \in Features : newest[n][f] <= layers[f]
    /\ \A a \in E!Actors, f \in Features : got[a][f] <= layers[f]

(* What runs under a name was started last.                                *)
RunsNewest == \A n \in E!Names : given[n] # NotRunning => given[n] = newest[n]

(* A start in hand is no older than what it replaces, and has the layer of *)
(* the feature that asks for it.                                           *)
StartsNewer ==
    \A a \in E!Actors : apc[a] = "start" =>
        /\ \A f \in Features : newest[wanted[a]][f] <= got[a][f]
        /\ a \in Features => got[a][a] = layers[a]

(* A feature starts processes only in its loop over the apps.              *)
InLoop == \A f \in Features : apc[f] # "idle" => next[f] # 0 /\ wanted[f] = Apps[next[f]]

(* The loop of a feature has yet to come to a name.                        *)
ToCome(f, n) == next[f] # 0 /\ \E j \in next[f] .. Len(Apps) : Apps[j] = n

(* What runs, or is about to, has the layer of every feature whose loop is *)
(* past it; but for a name a loop has found down while it was brought up.  *)
FreshOrToCome ==
    \A n \in E!Names \ skipped, f \in Features :
        /\ given[n] # NotRunning => demanded[f] <= given[n][f] \/ ToCome(f, n)
        /\ \A a \in E!Actors : apc[a] = "start" /\ wanted[a] = n =>
               demanded[f] <= got[a][f] \/ ToCome(f, n)

(* Where a feature or the rebuilder can be.                                *)
EnvLabels == {"idle", "lock", "env", "start"}

(* The inductive invariant.                                                *)
EnvIInv ==
    /\ E!TypeOK /\ EnvLock /\ EnvOrder /\ RunsNewest /\ StartsNewer /\ InLoop
    /\ FreshOrToCome

(* The positions of the apps.                                              *)
LEMMA AppsFacts ==
    /\ Len(Apps) \in Nat \ {0} /\ \A i \in 1 .. Len(Apps) : Apps[i] \in E!Names
    /\ \A n \in E!Names : \E i \in 1 .. Len(Apps) : Apps[i] = n
    /\ \A f \in Features : next[f] \in 0 .. Len(Apps) =>
           E!After(f) \in 0 .. Len(Apps) /\ (E!After(f) = 0 \/ E!After(f) = next[f] + 1)
BY EnvAssumption DEF E!Names, E!After

(* Every step of the layers keeps every variable in its type.              *)
LEMMA EnvTypeStep ==
    ASSUME EnvIInv, E!Next PROVE E!TypeOK'
<1> USE EnvAssumption, AppsFacts DEF E!Actors
<1>g. E!TypeOK
  BY DEF EnvIInv
<1>layers. layers \in E!Env
  BY <1>g DEF E!TypeOK, EnvLabels
<1>injected. injected \in E!Env
  BY <1>g DEF E!TypeOK, EnvLabels
<1>demanded. demanded \in E!Env
  BY <1>g DEF E!TypeOK, EnvLabels
<1>given. given \in [E!Names -> E!Env \cup {NotRunning}]
  BY <1>g DEF E!TypeOK, EnvLabels
<1>newest. newest \in [E!Names -> E!Env]
  BY <1>g DEF E!TypeOK, EnvLabels
<1>envMu. envMu \in E!Actors \cup {Nobody}
  BY <1>g DEF E!TypeOK, EnvLabels
<1>apc. apc \in [E!Actors -> EnvLabels]
  BY <1>g DEF E!TypeOK, EnvLabels
<1>wanted. wanted \in [E!Actors -> E!Names]
  BY <1>g DEF E!TypeOK, EnvLabels
<1>got. got \in [E!Actors -> E!Env]
  BY <1>g DEF E!TypeOK, EnvLabels
<1>next. next \in [Features -> 0 .. Len(Apps)]
  BY <1>g DEF E!TypeOK, EnvLabels
<1>skipped. skipped \in SUBSET E!Names
  BY <1>g DEF E!TypeOK, EnvLabels
<1>1. ASSUME NEW f \in Features, NEW r \in BOOLEAN, E!SetLayer(f, r) PROVE E!TypeOK'
  <2>1. layers' \in E!Env
    BY <1>1, <1>layers DEF E!SetLayer, E!Env
  <2>2. injected' \in E!Env
    BY <1>1, <2>1 DEF E!SetLayer
  <2>3. demanded' \in E!Env
    <3>1. demanded' = [demanded EXCEPT ![f] = IF r THEN layers'[f] ELSE demanded[f]]
      BY <1>1 DEF E!SetLayer
    <3>2. layers'[f] \in 0 .. MaxSets /\ demanded[f] \in 0 .. MaxSets
      BY <2>1, <1>demanded DEF E!Env
    <3> QED  BY <1>demanded, <3>1, <3>2 DEF E!Env
  <2>4. next' \in [Features -> 0 .. Len(Apps)]
    BY <1>1, <1>next DEF E!SetLayer
  <2> QED BY <1>g, <1>1, <2>1, <2>2, <2>3, <2>4 DEF E!TypeOK, E!SetLayer
<1>2. ASSUME NEW f \in Features, E!CheckRunning(f) PROVE E!TypeOK'
  <2>1. apc' \in [E!Actors -> EnvLabels]
    BY <1>2, <1>apc DEF E!CheckRunning, EnvLabels
  <2>2. wanted' \in [E!Actors -> E!Names]
    <3>1. wanted' = wanted \/ wanted' = [wanted EXCEPT ![f] = Apps[next[f]]]
      BY <1>2 DEF E!CheckRunning
    <3>2. Apps[next[f]] \in E!Names
      BY <1>2, <1>next DEF E!CheckRunning
    <3> QED  BY <1>wanted, <3>1, <3>2
  <2>3. next' \in [Features -> 0 .. Len(Apps)]
    BY <1>2, <1>next DEF E!CheckRunning
  <2>4. skipped' \in SUBSET E!Names
    <3>1. skipped' = skipped \/ skipped' = skipped \cup {Apps[next[f]]}
      BY <1>2 DEF E!CheckRunning
    <3>2. Apps[next[f]] \in E!Names
      BY <1>2, <1>next DEF E!CheckRunning
    <3> QED  BY <1>skipped, <3>1, <3>2
  <2> QED BY <1>g, <1>2, <2>1, <2>2, <2>3, <2>4 DEF E!TypeOK, E!CheckRunning
<1>3. ASSUME NEW b \in Rebuilders, NEW n \in E!Names, E!Rebuild(b, n) PROVE E!TypeOK'
  <2>1. apc' \in [E!Actors -> EnvLabels]
    BY <1>3, <1>apc DEF E!Rebuild, EnvLabels
  <2>2. wanted' \in [E!Actors -> E!Names]
    BY <1>3, <1>wanted DEF E!Rebuild
  <2> QED BY <1>g, <1>3, <2>1, <2>2 DEF E!TypeOK, E!Rebuild
<1>4. ASSUME NEW a \in E!Actors, E!LockAndStop(a) PROVE E!TypeOK'
  <2>1. given' \in [E!Names -> E!Env \cup {NotRunning}]
    BY <1>4, <1>given DEF E!LockAndStop
  <2>2. envMu' \in E!Actors \cup {Nobody}
    BY <1>4, <1>envMu DEF E!LockAndStop
  <2>3. apc' \in [E!Actors -> EnvLabels]
    BY <1>4, <1>apc DEF E!LockAndStop, EnvLabels
  <2> QED BY <1>g, <1>4, <2>1, <2>2, <2>3 DEF E!TypeOK, E!LockAndStop
<1>5. ASSUME NEW a \in E!Actors, E!ReadEnv(a) PROVE E!TypeOK'
  <2>1. apc' \in [E!Actors -> EnvLabels]
    BY <1>5, <1>apc DEF E!ReadEnv, EnvLabels
  <2>2. got' \in [E!Actors -> E!Env]
    BY <1>5, <1>got, <1>injected DEF E!ReadEnv, EnvLabels
  <2> QED BY <1>g, <1>5, <2>1, <2>2 DEF E!TypeOK, E!ReadEnv
<1>6. ASSUME NEW a \in E!Actors, E!Started(a) PROVE E!TypeOK'
  <2>1. given' \in [E!Names -> E!Env \cup {NotRunning}]
    BY <1>6, <1>given, <1>got, <1>wanted DEF E!Started, E!Return, EnvLabels
  <2>2. newest' \in [E!Names -> E!Env]
    BY <1>6, <1>newest, <1>got, <1>wanted DEF E!Started, E!Return, EnvLabels
  <2>3. envMu' \in E!Actors \cup {Nobody}
    BY <1>6, <1>envMu DEF E!Started, E!Return
  <2>4. apc' \in [E!Actors -> EnvLabels]
    BY <1>6, <1>apc DEF E!Started, E!Return, EnvLabels
  <2>5. next' \in [Features -> 0 .. Len(Apps)]
    BY <1>6, <1>next DEF E!Started, E!Return
  <2> QED BY <1>g, <1>6, <2>1, <2>2, <2>3, <2>4, <2>5 DEF E!TypeOK, E!Started, E!Return
<1>7. ASSUME NEW a \in E!Actors, E!StartFailed(a) PROVE E!TypeOK'
  <2>1. envMu' \in E!Actors \cup {Nobody}
    BY <1>7, <1>envMu DEF E!StartFailed, E!Return
  <2>2. apc' \in [E!Actors -> EnvLabels]
    BY <1>7, <1>apc DEF E!StartFailed, E!Return, EnvLabels
  <2>3. next' \in [Features -> 0 .. Len(Apps)]
    BY <1>7, <1>next DEF E!StartFailed, E!Return
  <2> QED BY <1>g, <1>7, <2>1, <2>2, <2>3 DEF E!TypeOK, E!StartFailed, E!Return
<1>8. ASSUME NEW n \in E!Names, E!Dies(n) PROVE E!TypeOK'
  <2>1. given' \in [E!Names -> E!Env \cup {NotRunning}]
    BY <1>8, <1>given DEF E!Dies
  <2> QED BY <1>g, <1>8, <2>1 DEF E!TypeOK, E!Dies
<1> QED
  BY <1>1, <1>2, <1>3, <1>4, <1>5, <1>6, <1>7, <1>8 DEF E!Next, E!StartStep

(* startMu makes a start one step.                                         *)
LEMMA EnvLockStep ==
    ASSUME EnvIInv, E!Next PROVE EnvLock'
<1> USE EnvAssumption, AppsFacts DEF E!Actors
<1>i. EnvLock
  BY DEF EnvIInv
<1>given. given \in [E!Names -> E!Env \cup {NotRunning}]
  BY DEF EnvIInv, E!TypeOK, EnvLabels
<1>envMu. envMu \in E!Actors \cup {Nobody}
  BY DEF EnvIInv, E!TypeOK, EnvLabels
<1>apc. apc \in [E!Actors -> EnvLabels]
  BY DEF EnvIInv, E!TypeOK, EnvLabels
<1>wanted. wanted \in [E!Actors -> E!Names]
  BY DEF EnvIInv, E!TypeOK, EnvLabels
<1>1. ASSUME NEW f \in Features, NEW r \in BOOLEAN, E!SetLayer(f, r) PROVE EnvLock'
  BY <1>i, <1>1 DEF EnvLock, E!SetLayer
<1>2. ASSUME NEW f \in Features, E!CheckRunning(f) PROVE EnvLock'
  <2>1. /\ apc' = apc \/ (apc' = [apc EXCEPT ![f] = "lock"] /\ apc[f] = "idle")
        /\ wanted' = wanted \/ (wanted' = [wanted EXCEPT ![f] = Apps[next[f]]] /\ apc' = [apc EXCEPT ![f] = "lock"])
        /\ UNCHANGED <<envMu, given>>
    BY <1>2 DEF E!CheckRunning
  <2>2. ASSUME NEW a \in E!Actors, a # f
        PROVE  apc'[a] = apc[a] /\ wanted'[a] = wanted[a]
    BY <2>1, <2>2, <1>apc, <1>wanted
  <2>3. apc'[f] = apc[f] \/ (apc[f] = "idle" /\ apc'[f] = "lock")
    BY <2>1, <1>apc
  <2>4. apc'[f] = apc[f] => apc'[f] \notin {"env", "start"}
    BY <1>2 DEF E!CheckRunning
  <2> QED  BY <1>i, <2>1, <2>2, <2>3, <2>4 DEF EnvLock
<1>3. ASSUME NEW b \in Rebuilders, NEW n \in E!Names, E!Rebuild(b, n) PROVE EnvLock'
  BY <1>i, <1>3 DEF EnvLock, E!Rebuild
<1>4. ASSUME NEW a \in E!Actors, E!LockAndStop(a) PROVE EnvLock'
  BY <1>i, <1>4, <1>given, <1>envMu, <1>apc, <1>wanted DEF EnvLock, E!LockAndStop, EnvLabels
<1>5. ASSUME NEW a \in E!Actors, E!ReadEnv(a) PROVE EnvLock'
  BY <1>i, <1>5 DEF EnvLock, E!ReadEnv
<1>6. ASSUME NEW a \in E!Actors, E!Started(a) PROVE EnvLock'
  BY <1>i, <1>6, <1>given, <1>envMu, <1>apc DEF EnvLock, E!Started, E!Return, EnvLabels
<1>7. ASSUME NEW a \in E!Actors, E!StartFailed(a) PROVE EnvLock'
  BY <1>i, <1>7, <1>envMu, <1>apc DEF EnvLock, E!StartFailed, E!Return, EnvLabels
<1>8. ASSUME NEW n \in E!Names, E!Dies(n) PROVE EnvLock'
  BY <1>i, <1>8 DEF EnvLock, E!Dies
<1> QED
  BY <1>1, <1>2, <1>3, <1>4, <1>5, <1>6, <1>7, <1>8 DEF E!Next, E!StartStep

(* Nothing gets ahead of the layers.                                       *)
LEMMA EnvOrderStep ==
    ASSUME EnvIInv, E!Next PROVE EnvOrder'
<1> USE EnvAssumption, AppsFacts DEF E!Actors
<1>i. EnvOrder
  BY DEF EnvIInv
<1>layers. layers \in E!Env
  BY DEF EnvIInv, E!TypeOK, EnvLabels
<1>demanded. demanded \in E!Env
  BY DEF EnvIInv, E!TypeOK, EnvLabels
<1>newest. newest \in [E!Names -> E!Env]
  BY DEF EnvIInv, E!TypeOK, EnvLabels
<1>got. got \in [E!Actors -> E!Env]
  BY DEF EnvIInv, E!TypeOK, EnvLabels
<1>1. ASSUME NEW f \in Features, NEW r \in BOOLEAN, E!SetLayer(f, r) PROVE EnvOrder'
  <2>1. layers' = [layers EXCEPT ![f] = layers[f] + 1] /\ injected' = layers'
        /\ demanded' = [demanded EXCEPT ![f] = IF r THEN layers'[f] ELSE demanded[f]]
        /\ UNCHANGED <<newest, got>>
    BY <1>1 DEF E!SetLayer
  <2>2. ASSUME NEW h \in Features
        PROVE  layers[h] <= layers'[h] /\ layers[h] \in Nat /\ layers'[h] \in Nat
    BY <1>layers, <2>1 DEF E!Env
  <2>3. ASSUME NEW h \in Features PROVE demanded'[h] <= layers'[h]
    <3>1. demanded[h] \in Nat /\ demanded[h] <= layers[h]
      BY <1>i, <1>demanded DEF EnvOrder, E!Env
    <3>2. demanded'[h] = demanded[h] \/ demanded'[h] = layers'[h]
      BY <2>1, <1>demanded DEF E!Env
    <3> QED  BY <2>2, <3>1, <3>2
  <2>4. ASSUME NEW n \in E!Names, NEW h \in Features PROVE newest'[n][h] <= layers'[h]
    <3>1. newest[n][h] \in Nat /\ newest[n][h] <= layers[h]
      BY <1>i, <1>newest DEF EnvOrder, E!Env
    <3>2. newest'[n][h] = newest[n][h] /\ layers[h] <= layers'[h]
      BY <2>1, <2>2
    <3>3. layers[h] \in Nat /\ layers'[h] \in Nat
      BY <2>2
    <3> HIDE EnvAssumption, AppsFacts
    <3> QED  BY <3>1, <3>2, <3>3
  <2>5. ASSUME NEW a \in E!Actors, NEW h \in Features PROVE got'[a][h] <= layers'[h]
    <3>1. got[a][h] \in Nat /\ got[a][h] <= layers[h]
      BY <1>i, <1>got DEF EnvOrder, E!Env
    <3>2. got'[a][h] = got[a][h] /\ layers[h] <= layers'[h]
      BY <2>1, <2>2
    <3>3. layers[h] \in Nat /\ layers'[h] \in Nat
      BY <2>2
    <3> HIDE EnvAssumption, AppsFacts
    <3> QED  BY <3>1, <3>2, <3>3
  <2> QED  BY <2>1, <2>3, <2>4, <2>5 DEF EnvOrder
<1>2. ASSUME NEW f \in Features, E!CheckRunning(f) PROVE EnvOrder'
  BY <1>i, <1>2 DEF EnvOrder, E!CheckRunning
<1>3. ASSUME NEW b \in Rebuilders, NEW n \in E!Names, E!Rebuild(b, n) PROVE EnvOrder'
  BY <1>i, <1>3 DEF EnvOrder, E!Rebuild
<1>4. ASSUME NEW a \in E!Actors, E!LockAndStop(a) PROVE EnvOrder'
  BY <1>i, <1>4 DEF EnvOrder, E!LockAndStop
<1>5. ASSUME NEW a \in E!Actors, E!ReadEnv(a) PROVE EnvOrder'
  <2>1. got' = [got EXCEPT ![a] = injected] /\ UNCHANGED <<layers, injected, demanded, newest>>
    BY <1>5 DEF E!ReadEnv
  <2>2. ASSUME NEW c \in E!Actors, NEW h \in Features PROVE got'[c][h] <= layers'[h]
    <3>1. layers[h] \in Nat
      BY <1>layers DEF E!Env
    <3>2. got'[c] = got[c] \/ got'[c] = layers
      BY <1>i, <1>got, <2>1 DEF EnvOrder
    <3> QED  BY <1>i, <2>1, <3>1, <3>2 DEF EnvOrder
  <2> QED  BY <1>i, <2>1, <2>2 DEF EnvOrder
<1>6. ASSUME NEW a \in E!Actors, E!Started(a) PROVE EnvOrder'
  BY <1>i, <1>6 DEF EnvOrder, E!Started, E!Return
<1>7. ASSUME NEW a \in E!Actors, E!StartFailed(a) PROVE EnvOrder'
  BY <1>i, <1>7 DEF EnvOrder, E!StartFailed, E!Return
<1>8. ASSUME NEW n \in E!Names, E!Dies(n) PROVE EnvOrder'
  BY <1>i, <1>8 DEF EnvOrder, E!Dies
<1> QED
  BY <1>1, <1>2, <1>3, <1>4, <1>5, <1>6, <1>7, <1>8 DEF E!Next, E!StartStep

(* What runs stays what was started last.                                  *)
LEMMA RunsNewestStep ==
    ASSUME EnvIInv, E!Next PROVE RunsNewest'
<1> USE EnvAssumption, AppsFacts DEF E!Actors
<1>i. RunsNewest
  BY DEF EnvIInv
<1>given. given \in [E!Names -> E!Env \cup {NotRunning}]
  BY DEF EnvIInv, E!TypeOK, EnvLabels
<1>newest. newest \in [E!Names -> E!Env]
  BY DEF EnvIInv, E!TypeOK, EnvLabels
<1>1. ASSUME NEW f \in Features, NEW r \in BOOLEAN, E!SetLayer(f, r) PROVE RunsNewest'
  BY <1>i, <1>1 DEF RunsNewest, E!SetLayer
<1>2. ASSUME NEW f \in Features, E!CheckRunning(f) PROVE RunsNewest'
  BY <1>i, <1>2 DEF RunsNewest, E!CheckRunning
<1>3. ASSUME NEW b \in Rebuilders, NEW n \in E!Names, E!Rebuild(b, n) PROVE RunsNewest'
  BY <1>i, <1>3 DEF RunsNewest, E!Rebuild
<1>4. ASSUME NEW a \in E!Actors, E!LockAndStop(a) PROVE RunsNewest'
  BY <1>i, <1>4 DEF RunsNewest, E!LockAndStop
<1>5. ASSUME NEW a \in E!Actors, E!ReadEnv(a) PROVE RunsNewest'
  BY <1>i, <1>5 DEF RunsNewest, E!ReadEnv
<1>6. ASSUME NEW a \in E!Actors, E!Started(a) PROVE RunsNewest'
  BY <1>i, <1>6, <1>given, <1>newest DEF RunsNewest, E!Started, E!Return, EnvLabels
<1>7. ASSUME NEW a \in E!Actors, E!StartFailed(a) PROVE RunsNewest'
  BY <1>i, <1>7 DEF RunsNewest, E!StartFailed, E!Return
<1>8. ASSUME NEW n \in E!Names, E!Dies(n) PROVE RunsNewest'
  BY <1>i, <1>8 DEF RunsNewest, E!Dies
<1> QED
  BY <1>1, <1>2, <1>3, <1>4, <1>5, <1>6, <1>7, <1>8 DEF E!Next, E!StartStep

(* A start stays newer than what it replaces.                              *)
LEMMA StartsNewerStep ==
    ASSUME EnvIInv, E!Next PROVE StartsNewer'
<1> USE EnvAssumption, AppsFacts DEF E!Actors
<1>i. StartsNewer
  BY DEF EnvIInv
<1>lk. EnvLock
  BY DEF EnvIInv
<1>or. EnvOrder
  BY DEF EnvIInv
<1>il. InLoop
  BY DEF EnvIInv
<1>layers. layers \in E!Env
  BY DEF EnvIInv, E!TypeOK, EnvLabels
<1>apc. apc \in [E!Actors -> EnvLabels]
  BY DEF EnvIInv, E!TypeOK, EnvLabels
<1>wanted. wanted \in [E!Actors -> E!Names]
  BY DEF EnvIInv, E!TypeOK, EnvLabels
<1>got. got \in [E!Actors -> E!Env]
  BY DEF EnvIInv, E!TypeOK, EnvLabels
<1>1. ASSUME NEW f \in Features, NEW r \in BOOLEAN, E!SetLayer(f, r) PROVE StartsNewer'
  <2>1. /\ next[f] = 0 /\ layers' = [layers EXCEPT ![f] = layers[f] + 1]
        /\ UNCHANGED <<newest, apc, wanted, got>>
    BY <1>1 DEF E!SetLayer
  <2>2. apc[f] # "start"
    BY <1>il, <2>1 DEF InLoop
  <2>3. ASSUME NEW a \in E!Actors, apc[a] = "start", a \in Features PROVE layers'[a] = layers[a]
    BY <1>layers, <2>1, <2>2, <2>3 DEF E!Env
  <2> QED  BY <1>i, <2>1, <2>3 DEF StartsNewer
<1>2. ASSUME NEW f \in Features, E!CheckRunning(f) PROVE StartsNewer'
  <2>1. UNCHANGED <<newest, got, layers>>
    BY <1>2 DEF E!CheckRunning
  <2>2. ASSUME NEW a \in E!Actors, apc'[a] = "start" PROVE apc[a] = "start" /\ wanted'[a] = wanted[a]
    BY <1>2, <1>apc, <1>wanted, <2>2 DEF E!CheckRunning
  <2> QED  BY <1>i, <2>1, <2>2 DEF StartsNewer
<1>3. ASSUME NEW b \in Rebuilders, NEW n \in E!Names, E!Rebuild(b, n) PROVE StartsNewer'
  BY <1>i, <1>3 DEF StartsNewer, E!Rebuild
<1>4. ASSUME NEW a \in E!Actors, E!LockAndStop(a) PROVE StartsNewer'
  BY <1>i, <1>4 DEF StartsNewer, E!LockAndStop
<1>5. ASSUME NEW a \in E!Actors, E!ReadEnv(a) PROVE StartsNewer'
  BY <1>i, <1>5, <1>apc, <1>wanted, <1>got, <1>or DEF StartsNewer, E!ReadEnv, EnvOrder
<1>6. ASSUME NEW a \in E!Actors, E!Started(a) PROVE StartsNewer'
  <2>1. /\ apc[a] = "start" /\ apc' = [apc EXCEPT ![a] = "idle"]
        /\ newest' = [newest EXCEPT ![wanted[a]] = got[a]] /\ UNCHANGED <<layers, wanted, got>>
    BY <1>6 DEF E!Started, E!Return
  <2>2. ASSUME NEW c \in E!Actors PROVE apc'[c] # "start"
    BY <1>lk, <2>1, <1>apc DEF EnvLock
  <2> QED  BY <2>2 DEF StartsNewer
<1>7. ASSUME NEW a \in E!Actors, E!StartFailed(a) PROVE StartsNewer'
  BY <1>i, <1>7 DEF StartsNewer, E!StartFailed, E!Return
<1>8. ASSUME NEW n \in E!Names, E!Dies(n) PROVE StartsNewer'
  BY <1>i, <1>8 DEF StartsNewer, E!Dies
<1> QED
  BY <1>1, <1>2, <1>3, <1>4, <1>5, <1>6, <1>7, <1>8 DEF E!Next, E!StartStep

(* A feature stays in its loop while it starts a process.                  *)
LEMMA InLoopStep ==
    ASSUME EnvIInv, E!Next PROVE InLoop'
<1> USE EnvAssumption, AppsFacts DEF E!Actors
<1>i. InLoop
  BY DEF EnvIInv
<1>apc. apc \in [E!Actors -> EnvLabels]
  BY DEF EnvIInv, E!TypeOK, EnvLabels
<1>wanted. wanted \in [E!Actors -> E!Names]
  BY DEF EnvIInv, E!TypeOK, EnvLabels
<1>next. next \in [Features -> 0 .. Len(Apps)]
  BY DEF EnvIInv, E!TypeOK, EnvLabels
<1>1. ASSUME NEW f \in Features, NEW r \in BOOLEAN, E!SetLayer(f, r) PROVE InLoop'
  BY <1>i, <1>1 DEF InLoop, E!SetLayer
<1>2. ASSUME NEW f \in Features, E!CheckRunning(f) PROVE InLoop'
  <2>1. CASE given[Apps[next[f]]] = NotRunning
    BY <1>2, <1>i, <2>1, <1>next, <1>apc DEF InLoop, E!CheckRunning
  <2>2. CASE given[Apps[next[f]]] # NotRunning
    <3>1. apc' = [apc EXCEPT ![f] = "lock"] /\ wanted' = [wanted EXCEPT ![f] = Apps[next[f]]]
          /\ next' = next /\ next[f] # 0
      BY <1>2, <2>2 DEF E!CheckRunning
    <3> QED  BY <1>i, <3>1, <1>apc, <1>wanted DEF InLoop
  <2> QED  BY <2>1, <2>2
<1>3. ASSUME NEW b \in Rebuilders, NEW n \in E!Names, E!Rebuild(b, n) PROVE InLoop'
  BY <1>i, <1>3 DEF InLoop, E!Rebuild
<1>4. ASSUME NEW a \in E!Actors, E!LockAndStop(a) PROVE InLoop'
  BY <1>i, <1>4 DEF InLoop, E!LockAndStop
<1>5. ASSUME NEW a \in E!Actors, E!ReadEnv(a) PROVE InLoop'
  BY <1>i, <1>5 DEF InLoop, E!ReadEnv
<1>6. ASSUME NEW a \in E!Actors, E!Started(a) PROVE InLoop'
  BY <1>i, <1>6, <1>apc, <1>next DEF InLoop, E!Started, E!Return, EnvLabels
<1>7. ASSUME NEW a \in E!Actors, E!StartFailed(a) PROVE InLoop'
  BY <1>i, <1>7, <1>apc, <1>next DEF InLoop, E!StartFailed, E!Return, EnvLabels
<1>8. ASSUME NEW n \in E!Names, E!Dies(n) PROVE InLoop'
  BY <1>i, <1>8 DEF InLoop, E!Dies
<1> QED
  BY <1>1, <1>2, <1>3, <1>4, <1>5, <1>6, <1>7, <1>8 DEF E!Next, E!StartStep

(* What runs has what was asked for, or is still to be restarted.          *)
LEMMA FreshStep ==
    ASSUME EnvIInv, E!Next PROVE FreshOrToCome'
<1> USE EnvAssumption, AppsFacts DEF E!Actors
<1>i. FreshOrToCome
  BY DEF EnvIInv
<1>lk. EnvLock
  BY DEF EnvIInv
<1>or. EnvOrder
  BY DEF EnvIInv
<1>sn. StartsNewer
  BY DEF EnvIInv
<1>il. InLoop
  BY DEF EnvIInv
<1>demanded. demanded \in E!Env
  BY DEF EnvIInv, E!TypeOK, EnvLabels
<1>given. given \in [E!Names -> E!Env \cup {NotRunning}]
  BY DEF EnvIInv, E!TypeOK, EnvLabels
<1>apc. apc \in [E!Actors -> EnvLabels]
  BY DEF EnvIInv, E!TypeOK, EnvLabels
<1>wanted. wanted \in [E!Actors -> E!Names]
  BY DEF EnvIInv, E!TypeOK, EnvLabels
<1>got. got \in [E!Actors -> E!Env]
  BY DEF EnvIInv, E!TypeOK, EnvLabels
<1>next. next \in [Features -> 0 .. Len(Apps)]
  BY DEF EnvIInv, E!TypeOK, EnvLabels
<1>1. ASSUME NEW f \in Features, NEW r \in BOOLEAN, E!SetLayer(f, r) PROVE FreshOrToCome'
  <2>1. /\ next[f] = 0 /\ layers' = [layers EXCEPT ![f] = layers[f] + 1]
        /\ next' = [next EXCEPT ![f] = IF r THEN 1 ELSE 0]
        /\ demanded' = [demanded EXCEPT ![f] = IF r THEN layers'[f] ELSE demanded[f]]
        /\ UNCHANGED <<given, apc, wanted, got, skipped>>
    BY <1>1 DEF E!SetLayer
  <2>2. ASSUME NEW n \in E!Names, NEW h \in Features
        PROVE  (demanded'[h] = demanded[h] /\ (ToCome(h, n) => ToCome(h, n)')) \/ ToCome(h, n)'
    <3>1. CASE h # f
      BY <2>1, <3>1, <1>demanded, <1>next DEF ToCome, E!Env
    <3>2. CASE h = f /\ r
      BY <2>1, <3>2, <1>next DEF ToCome
    <3>3. CASE h = f /\ ~r
      BY <2>1, <3>3, <1>demanded, <1>next DEF ToCome, E!Env
    <3> QED  BY <3>1, <3>2, <3>3
  <2> QED  BY <1>i, <2>1, <2>2 DEF FreshOrToCome
<1>2. ASSUME NEW f \in Features, E!CheckRunning(f) PROVE FreshOrToCome'
  <2> DEFINE m == Apps[next[f]]
  <2>0. /\ next[f] # 0 /\ next[f] \in 1 .. Len(Apps) /\ apc[f] = "idle"
        /\ UNCHANGED <<given, got, demanded>>
    BY <1>2, <1>next DEF E!CheckRunning
  <2>1. CASE given[m] # NotRunning
    <3>1. /\ apc' = [apc EXCEPT ![f] = "lock"] /\ wanted' = [wanted EXCEPT ![f] = m]
          /\ UNCHANGED <<next, skipped>>
      BY <1>2, <2>1 DEF E!CheckRunning
    <3>2. ASSUME NEW a \in E!Actors, apc'[a] = "start" PROVE apc[a] = "start" /\ wanted'[a] = wanted[a]
      BY <3>1, <3>2, <1>apc, <1>wanted
    <3>3. ASSUME NEW n \in E!Names, NEW h \in Features, ToCome(h, n) PROVE ToCome(h, n)'
      BY <3>1, <3>3 DEF ToCome
    <3>4. ASSUME NEW n \in E!Names \ skipped', NEW h \in Features, given'[n] # NotRunning
          PROVE  demanded'[h] <= given'[n][h] \/ ToCome(h, n)'
      BY <1>i, <2>0, <3>1, <3>3, <3>4 DEF FreshOrToCome
    <3>5. ASSUME NEW n \in E!Names \ skipped', NEW h \in Features, NEW a \in E!Actors,
                 apc'[a] = "start", wanted'[a] = n
          PROVE  demanded'[h] <= got'[a][h] \/ ToCome(h, n)'
      BY <1>i, <2>0, <3>1, <3>2, <3>3, <3>5 DEF FreshOrToCome
    <3> QED  BY <3>4, <3>5 DEF FreshOrToCome
  <2>2. CASE given[m] = NotRunning
    <3>1. /\ next' = [next EXCEPT ![f] = E!After(f)] /\ UNCHANGED <<apc, wanted>>
          /\ skipped' = IF E!Starting(m) THEN skipped \cup {m} ELSE skipped
      BY <1>2, <2>2 DEF E!CheckRunning
    <3>2. ASSUME NEW n \in E!Names, n # m, NEW h \in Features, ToCome(h, n) PROVE ToCome(h, n)'
      <4>1. CASE h # f
        BY <3>1, <3>2, <4>1, <1>next DEF ToCome
      <4>2. CASE h = f
        <5>1. PICK j \in next[f] .. Len(Apps) : Apps[j] = n
          BY <3>2, <4>2 DEF ToCome
        <5>2. j \in next[f] + 1 .. Len(Apps)
          <6>1. j # next[f]
            BY <3>2, <5>1
          <6>2. j \in Int /\ next[f] <= j /\ j <= Len(Apps) /\ next[f] \in Int
            BY <2>0, <5>1
          <6> QED  BY <6>1, <6>2
        <5>3. next'[f] = next[f] + 1
          BY <2>0, <3>1, <5>2, <1>next DEF E!After
        <5>4. next'[f] # 0 /\ j \in next'[f] .. Len(Apps)
          BY <2>0, <5>2, <5>3
        <5> QED  BY <4>2, <5>1, <5>4 DEF ToCome
      <4> QED  BY <4>1, <4>2
    <3>3. m \in skipped' \/ \A a \in E!Actors : ~(apc[a] = "start" /\ wanted[a] = m)
      BY <3>1 DEF E!Starting
    <3>4. skipped \subseteq skipped'
      BY <3>1
    <3>5. ASSUME NEW n \in E!Names \ skipped', NEW h \in Features, given'[n] # NotRunning
          PROVE  demanded'[h] <= given'[n][h] \/ ToCome(h, n)'
      BY <1>i, <2>0, <2>2, <3>2, <3>4, <3>5 DEF FreshOrToCome
    <3>6. ASSUME NEW n \in E!Names \ skipped', NEW h \in Features, NEW a \in E!Actors,
                 apc'[a] = "start", wanted'[a] = n
          PROVE  demanded'[h] <= got'[a][h] \/ ToCome(h, n)'
      <4>1. n # m /\ n \notin skipped
        BY <3>1, <3>3, <3>4, <3>6
      <4> QED  BY <1>i, <2>0, <3>1, <3>2, <3>6, <4>1 DEF FreshOrToCome
    <3> QED  BY <3>5, <3>6 DEF FreshOrToCome
  <2> QED  BY <2>1, <2>2
<1>3. ASSUME NEW b \in Rebuilders, NEW n \in E!Names, E!Rebuild(b, n) PROVE FreshOrToCome'
  BY <1>i, <1>3 DEF FreshOrToCome, ToCome, E!Rebuild
<1>4. ASSUME NEW a \in E!Actors, E!LockAndStop(a) PROVE FreshOrToCome'
  BY <1>i, <1>4 DEF FreshOrToCome, ToCome, E!LockAndStop
<1>5. ASSUME NEW a \in E!Actors, E!ReadEnv(a) PROVE FreshOrToCome'
  <2>1. /\ got' = [got EXCEPT ![a] = injected] /\ apc' = [apc EXCEPT ![a] = "start"]
        /\ UNCHANGED <<given, demanded, wanted, next, skipped>>
    BY <1>5 DEF E!ReadEnv
  <2>2. ASSUME NEW h \in Features PROVE demanded[h] <= got'[a][h]
    BY <1>or, <2>1, <1>got DEF EnvOrder
  <2>3. ASSUME NEW c \in E!Actors, c # a PROVE apc'[c] = apc[c] /\ got'[c] = got[c]
    BY <2>1, <2>3, <1>apc, <1>got
  <2>4. ASSUME NEW n \in E!Names, NEW h \in Features, ToCome(h, n) PROVE ToCome(h, n)'
    BY <2>1, <2>4 DEF ToCome
  <2> QED  BY <1>i, <2>1, <2>2, <2>3, <2>4 DEF FreshOrToCome
<1>6. ASSUME NEW a \in E!Actors, E!Started(a) PROVE FreshOrToCome'
  <2> DEFINE m == wanted[a]
  <2>0. m \in E!Names
    BY <1>wanted
  <2>1. /\ apc[a] = "start" /\ apc' = [apc EXCEPT ![a] = "idle"]
        /\ next' = IF a \in Features THEN [next EXCEPT ![a] = E!After(a)] ELSE next
        /\ UNCHANGED <<demanded, wanted, got, skipped>>
    BY <1>6 DEF E!Started, E!Return
  <2>2. given' = [given EXCEPT ![m] = got[a]]
    BY <1>6 DEF E!Started
  <2>3. ASSUME NEW c \in E!Actors PROVE apc'[c] # "start"
    BY <1>lk, <2>1, <1>apc DEF EnvLock
  <2>4. ASSUME NEW n \in E!Names, NEW h \in Features, ToCome(h, n), n # m \/ h # a PROVE ToCome(h, n)'
    <3>1. CASE h # a
      BY <2>1, <2>4, <3>1, <1>next DEF ToCome
    <3>2. CASE h = a
      <4>1. /\ m = Apps[next[a]] /\ next[a] \in 1 .. Len(Apps)
        BY <2>1, <3>2, <1>il, <1>next DEF InLoop
      <4>2. PICK j \in next[a] .. Len(Apps) : Apps[j] = n
        BY <2>4, <3>2 DEF ToCome
      <4>3. j \in next[a] + 1 .. Len(Apps)
        <5>1. j # next[a]
          BY <2>4, <3>2, <4>1, <4>2
        <5>2. Len(Apps) \in Nat
          BY AppsFacts
        <5> HIDE EnvAssumption, AppsFacts
        <5>3. j \in Int /\ next[a] <= j /\ j <= Len(Apps) /\ next[a] \in Int
          BY <4>1, <4>2, <5>2
        <5> QED  BY <5>1, <5>3
      <4>4. next'[a] = next[a] + 1
        BY <2>1, <3>2, <4>1, <4>3, <1>next DEF E!After
      <4>5. next'[a] # 0 /\ j \in next'[a] .. Len(Apps)
        BY <4>1, <4>3, <4>4
      <4> QED  BY <3>2, <4>2, <4>5 DEF ToCome
    <3> QED  BY <3>1, <3>2
  <2>5. ASSUME NEW h \in Features PROVE demanded[h] <= got[a][h] \/ (ToCome(h, m) /\ h # a) \/ m \in skipped
    <3>1. CASE h # a
      BY <1>i, <2>0, <2>1, <3>1 DEF FreshOrToCome
    <3>2. CASE h = a
      BY <1>sn, <1>or, <2>1, <3>2 DEF StartsNewer, EnvOrder
    <3> QED  BY <3>1, <3>2
  <2>6. given'[m] = got[a] /\ \A n \in E!Names \ {m} : given'[n] = given[n]
    BY <2>0, <2>2, <1>given
  <2> QED  BY <1>i, <2>1, <2>3, <2>4, <2>5, <2>6 DEF FreshOrToCome
<1>7. ASSUME NEW a \in E!Actors, E!StartFailed(a) PROVE FreshOrToCome'
  <2> DEFINE m == wanted[a]
  <2>0. m \in E!Names
    BY <1>wanted
  <2>1. /\ apc[a] = "start" /\ apc' = [apc EXCEPT ![a] = "idle"]
        /\ next' = IF a \in Features THEN [next EXCEPT ![a] = E!After(a)] ELSE next
        /\ UNCHANGED <<demanded, wanted, got, skipped>>
    BY <1>7 DEF E!StartFailed, E!Return
  <2>2. given' = given
    BY <1>7 DEF E!StartFailed
  <2>3. ASSUME NEW c \in E!Actors PROVE apc'[c] # "start"
    BY <1>lk, <2>1, <1>apc DEF EnvLock
  <2>4. ASSUME NEW n \in E!Names, NEW h \in Features, ToCome(h, n), n # m \/ h # a PROVE ToCome(h, n)'
    <3>1. CASE h # a
      BY <2>1, <2>4, <3>1, <1>next DEF ToCome
    <3>2. CASE h = a
      <4>1. /\ m = Apps[next[a]] /\ next[a] \in 1 .. Len(Apps)
        BY <2>1, <3>2, <1>il, <1>next DEF InLoop
      <4>2. PICK j \in next[a] .. Len(Apps) : Apps[j] = n
        BY <2>4, <3>2 DEF ToCome
      <4>3. j \in next[a] + 1 .. Len(Apps)
        <5>1. j # next[a]
          BY <2>4, <3>2, <4>1, <4>2
        <5>2. Len(Apps) \in Nat
          BY AppsFacts
        <5> HIDE EnvAssumption, AppsFacts
        <5>3. j \in Int /\ next[a] <= j /\ j <= Len(Apps) /\ next[a] \in Int
          BY <4>1, <4>2, <5>2
        <5> QED  BY <5>1, <5>3
      <4>4. next'[a] = next[a] + 1
        BY <2>1, <3>2, <4>1, <4>3, <1>next DEF E!After
      <4>5. next'[a] # 0 /\ j \in next'[a] .. Len(Apps)
        BY <4>1, <4>3, <4>4
      <4> QED  BY <3>2, <4>2, <4>5 DEF ToCome
    <3> QED  BY <3>1, <3>2
  <2>5. given[m] = NotRunning
    BY <1>lk, <2>1 DEF EnvLock
  <2> QED  BY <1>i, <2>1, <2>2, <2>3, <2>4, <2>5 DEF FreshOrToCome
<1>8. ASSUME NEW n \in E!Names, E!Dies(n) PROVE FreshOrToCome'
  BY <1>i, <1>8 DEF FreshOrToCome, ToCome, E!Dies
<1> QED
  BY <1>1, <1>2, <1>3, <1>4, <1>5, <1>6, <1>7, <1>8 DEF E!Next, E!StartStep

(* At the start nothing was asked for, and what runs has the base layer.   *)
LEMMA EnvInitOK == E!Init => EnvIInv
<1> SUFFICES ASSUME E!Init PROVE EnvIInv  OBVIOUS
<1> USE EnvAssumption, AppsFacts DEF E!Init
<1>0. E!NoSets \in E!Env /\ \A f \in Features : E!NoSets[f] = 0
  BY DEF E!NoSets, E!Env
<1>1. E!TypeOK
  BY <1>0 DEF E!TypeOK
<1>2. EnvLock
  BY DEF EnvLock, E!Actors
<1>3. EnvOrder
  BY <1>0 DEF EnvOrder
<1>4. RunsNewest
  BY <1>0 DEF RunsNewest
<1>5. StartsNewer /\ InLoop
  BY DEF StartsNewer, InLoop, E!Actors
<1>6. FreshOrToCome
  BY <1>0 DEF FreshOrToCome
<1> QED  BY <1>1, <1>2, <1>3, <1>4, <1>5, <1>6 DEF EnvIInv

(* A step of the composition is one of the layers, or leaves them alone.   *)
LEMMA EnvMoves == [MCNext]_mcvars => E!Next \/ UNCHANGED envVars
BY DEF MCNext, mcvars

(* The others leave the layers alone.                                      *)
LEMMA EnvStays ==
    ASSUME EnvIInv, UNCHANGED envVars
    PROVE  EnvIInv'
<1> USE DEF envVars, EnvIInv
<1>1. E!TypeOK'
  BY DEF E!TypeOK
<1>2. EnvLock' /\ EnvOrder'
  BY DEF EnvLock, EnvOrder
<1>3. RunsNewest' /\ StartsNewer' /\ InLoop'
  BY DEF RunsNewest, StartsNewer, InLoop
<1>4. FreshOrToCome'
  BY DEF FreshOrToCome, ToCome
<1> QED  BY <1>1, <1>2, <1>3, <1>4

(* Every step keeps it.                                                    *)
LEMMA EnvStep == EnvIInv /\ [MCNext]_mcvars => EnvIInv'
<1> SUFFICES ASSUME EnvIInv, [MCNext]_mcvars PROVE EnvIInv'  OBVIOUS
<1>1. CASE UNCHANGED envVars
  BY <1>1, EnvStays
<1>2. CASE E!Next
  BY <1>2, EnvTypeStep, EnvLockStep, EnvOrderStep, RunsNewestStep, StartsNewerStep, InLoopStep,
     FreshStep DEF EnvIInv
<1> QED  BY <1>1, <1>2, EnvMoves

(* The invariant holds in every behaviour.                                 *)
LEMMA EnvInvariance == MCSpec => []EnvIInv
<1>1. MCInit => EnvIInv
  BY EnvInitOK DEF MCInit
<1> QED  BY <1>1, EnvStep, PTL DEF MCSpec

(* What runs has every layer that was set with a restart, once all is      *)
(* quiet (envlayers.go 49-52), but for a name found down while another     *)
(* goroutine was starting it.                                              *)
THEOREM EnvIsFresh == MCSpec => []EnvInv
<1>1. ASSUME EnvIInv PROVE E!FreshUnlessSkipped
  <2> SUFFICES ASSUME E!Quiet, NEW n \in E!Names \ skipped, given[n] # NotRunning
               PROVE  E!Older(demanded, given[n])
    BY DEF E!FreshUnlessSkipped
  <2>1. ASSUME NEW f \in Features PROVE ~ToCome(f, n)
    BY DEF E!Quiet, E!Actors, ToCome
  <2> QED  BY <1>1, <2>1 DEF E!Older, EnvIInv, FreshOrToCome
<1>2. EnvIInv => EnvInv
  BY <1>1 DEF EnvInv, E!Inv, EnvIInv
<1> QED  BY <1>2, EnvInvariance, PTL

(* The process of a name is never replaced by one with an older env: the   *)
(* stop, the reading of the env and the start are one step under startMu   *)
(* (process.go 102-106).                                                   *)
THEOREM EnvOnlyGrows == MCSpec => EnvNeverGoesBack
<1> DEFINE Grows == \A n \in E!Names : E!Older(newest[n], newest'[n])
<1>1. ASSUME EnvIInv, [MCNext]_mcvars PROVE [Grows]_(E!vars)
  <2> USE EnvAssumption
  <2>1. /\ newest \in [E!Names -> E!Env] /\ wanted \in [E!Actors -> E!Names]
    BY <1>1 DEF EnvIInv, E!TypeOK
  <2>2. ASSUME newest' = newest PROVE Grows
    BY <2>1, <2>2 DEF E!Older, E!Env
  <2>3. ASSUME NEW a \in E!Actors, E!Started(a) PROVE Grows
    <3>1. apc[a] = "start" /\ newest' = [newest EXCEPT ![wanted[a]] = got[a]]
      BY <2>3 DEF E!Started
    <3>2. \A f \in Features : newest[wanted[a]][f] <= got[a][f]
      BY <1>1, <3>1 DEF EnvIInv, StartsNewer
    <3>3. ASSUME NEW n \in E!Names PROVE E!Older(newest[n], newest'[n])
      <4>1. CASE n = wanted[a]
        BY <2>1, <3>1, <3>2, <4>1 DEF E!Older
      <4>2. CASE n # wanted[a]
        BY <2>1, <3>1, <4>2 DEF E!Older, E!Env
      <4> QED  BY <4>1, <4>2
    <3> QED  BY <3>3
  <2>4. CASE E!Next
    <3>1. newest' = newest \/ \E a \in E!Actors : E!Started(a)
      BY <2>4 DEF E!Next, E!StartStep, E!SetLayer, E!CheckRunning, E!Rebuild, E!LockAndStop,
         E!ReadEnv, E!StartFailed, E!Dies
    <3> QED  BY <2>2, <2>3, <3>1
  <2>5. CASE UNCHANGED envVars
    BY <2>2, <2>5 DEF envVars
  <2> QED  BY <1>1, <2>4, <2>5, EnvMoves
<1> QED  BY <1>1, EnvInvariance, PTL DEF MCSpec, EnvNeverGoesBack, E!EnvNeverGoesBack

-----------------------------------------------------------------------------
(* The Stripe switch.                                                      *)

(* Where an agent of the switch can be; and what holds switchMu.           *)
StripeLabels == {"off", "idle", "locked", "swap", "stop", "read", "start", "commit", "env", "tell",
                 "watch", "open", "drop", "unlock"}
Switching == {"swap", "stop", "read", "start", "commit", "env", "tell", "unlock"}
(* Whoever holds switchMu is there.                                        *)
At(labels) == switchMu # Nobody /\ mpc[switchMu] \in labels

(* Who switches holds switchMu, and everyone else is where he belongs; the *)
(* goroutine that watches .env is not there before boot has returned.      *)
SwitchLock ==
    /\ \A a \in S!Agents : mpc[a] \in Switching <=> switchMu = a
    /\ \A a \in S!Agents : mpc[a] \in {"open", "drop"} => a = Dotenv
    /\ \A a \in S!Agents : mpc[a] = "watch" => a \in S!Listeners
    /\ \A a \in S!Agents : mpc[a] = "idle" => a \in Users \cup {Dotenv}
    /\ \A p \in S!Listeners : p > forked => mpc[p] = "off"
    /\ switchMu = Boot => mpc[Dotenv] = "off"

(* What a switch has taken, stopped and started so far.                    *)
SwitchOrder ==
    /\ switchMu # Nobody => target # ""
    /\ mode # "listen" => secret = 0
    /\ ~At({"stop", "read", "start", "commit"}) =>
           (mode = "listen" <=> listener # 0) /\ secret = listener
    /\ switchMu = Nobody \/ At({"swap", "unlock"}) => shown = mode
    /\ At({"stop", "read", "start", "commit"}) =>
           listener = 0 /\ prev = mode /\ (old # 0 <=> prev = "listen")
    /\ At({"stop"}) => old # 0
    /\ At({"start"}) => newProc = 0 /\ target = "listen"
    /\ At({"commit", "env", "tell"}) =>
           /\ target = "listen" <=> newProc # 0
           /\ newProc # 0 => newProc <= forked /\ mpc[newProc] = "off"
    /\ At({"env", "tell"}) => mode = target /\ listener = newProc /\ key = newKey

(* What runs is the listener, the one taken out to be stopped, or the one  *)
(* that is coming up.                                                      *)
OnlyListener ==
    \A q \in alive :
        q = listener \/ (At({"stop"}) /\ q = old) \/ (At({"commit"}) /\ q = newProc)

(* Somebody watches the listener's exit, or is dealing with it.            *)
ExitWatched ==
    listener # 0 /\ ~At({"env", "tell"}) =>
        mpc[listener] = "watch" \/ (switchMu = listener /\ mpc[listener] = "swap")

(* An edit of .env that was heard of and is not dealt with.                *)
Pending == event \/ timer \/ mpc[Dotenv] = "drop"

(* The key a switch has read is the one in .env, or an edit is pending.    *)
KeyFresh ==
    At({"start", "commit", "env", "tell"}) => newKey = dotKey \/ Pending \/ unheard

(* In listen mode the app is given the listener's secret and the key.      *)
ListenEnv ==
    (switchMu = Nobody \/ At({"tell", "unlock"})) /\ mode = "listen" /\ ~Pending /\ ~unheard =>
        key = dotKey /\ layer = S!EnvLayer("listen", secret, key)

(* As long as .env is left alone the layer is that of the mode.            *)
Unedited ==
    edits = 0 => /\ ~event /\ ~timer /\ mpc[Dotenv] # "drop"
                 /\ ~At({"env"}) => layer = S!EnvLayer(mode, secret, key)

(* The inductive invariant.                                                *)
StripeIInv ==
    /\ S!TypeOK /\ SwitchLock /\ SwitchOrder /\ OnlyListener /\ ExitWatched
    /\ KeyFresh /\ ListenEnv /\ Unedited

(* A layer has the mode, the secret and the key it is made of.             *)
LEMMA LayerTyped ==
    ASSUME NEW m \in S!Modes, NEW s \in 0 .. MaxListeners, NEW k \in Keys \cup {NoKey}
    PROVE  S!EnvLayer(m, s, k) \in [mode : S!Modes, secret : 0 .. MaxListeners, key : Keys \cup
       {NoKey}]
BY DEF S!EnvLayer

(* Every step of the switch keeps every variable in its type.              *)
LEMMA StripeTypeStep ==
    ASSUME StripeIInv, S!Next PROVE S!TypeOK'
<1> USE StripeAssumption DEF S!Agents, S!Listeners
<1>g. S!TypeOK
  BY DEF StripeIInv
<1>switchMu. switchMu \in S!Agents \cup {Nobody}
  BY <1>g DEF S!TypeOK, StripeLabels
<1>mode. mode \in S!Modes
  BY <1>g DEF S!TypeOK, StripeLabels
<1>listener. listener \in 0 .. MaxListeners
  BY <1>g DEF S!TypeOK, StripeLabels
<1>key. key \in Keys \cup {NoKey}
  BY <1>g DEF S!TypeOK, StripeLabels
<1>secret. secret \in 0 .. MaxListeners
  BY <1>g DEF S!TypeOK, StripeLabels
<1>layer. layer \in [mode : S!Modes, secret : 0 .. MaxListeners, key : Keys \cup {NoKey}]
  BY <1>g DEF S!TypeOK, StripeLabels
<1>shown. shown \in S!Modes \cup {"switching"}
  BY <1>g DEF S!TypeOK, StripeLabels
<1>mpc. mpc \in [S!Agents -> StripeLabels]
  BY <1>g DEF S!TypeOK, StripeLabels
<1>target. target \in S!Modes
  BY <1>g DEF S!TypeOK, StripeLabels
<1>prev. prev \in S!Modes
  BY <1>g DEF S!TypeOK, StripeLabels
<1>old. old \in 0 .. MaxListeners
  BY <1>g DEF S!TypeOK, StripeLabels
<1>newKey. newKey \in Keys
  BY <1>g DEF S!TypeOK, StripeLabels
<1>newProc. newProc \in 0 .. MaxListeners
  BY <1>g DEF S!TypeOK, StripeLabels
<1>forked. forked \in 0 .. MaxListeners
  BY <1>g DEF S!TypeOK, StripeLabels
<1>alive. alive \in SUBSET (1 .. forked)
  BY <1>g DEF S!TypeOK, StripeLabels
<1>dotKey. dotKey \in Keys
  BY <1>g DEF S!TypeOK, StripeLabels
<1>event. event \in BOOLEAN
  BY <1>g DEF S!TypeOK, StripeLabels
<1>timer. timer \in BOOLEAN
  BY <1>g DEF S!TypeOK, StripeLabels
<1>stale. stale \in 0 .. MaxListeners
  BY <1>g DEF S!TypeOK, StripeLabels
<1>edits. edits \in 0 .. MaxEdits
  BY <1>g DEF S!TypeOK, StripeLabels
<1>unheard. unheard \in BOOLEAN
  BY <1>g DEF S!TypeOK, StripeLabels
<1>1. ASSUME NEW a \in S!Agents, S!Swap(a) PROVE S!TypeOK'
  <2>1. listener' \in 0 .. MaxListeners
    BY <1>1, <1>listener DEF S!Swap, S!Goto, S!dotVars
  <2>2. shown' \in S!Modes \cup {"switching"}
    BY <1>1, <1>shown DEF S!Swap, S!Goto, S!dotVars
  <2>3. mpc' \in [S!Agents -> StripeLabels]
    BY <1>1, <1>mpc DEF S!Swap, S!Goto, S!dotVars, StripeLabels
  <2>4. prev' \in S!Modes
    BY <1>1, <1>prev, <1>mode DEF S!Swap, S!Goto, S!dotVars, StripeLabels
  <2>5. old' \in 0 .. MaxListeners
    BY <1>1, <1>old, <1>listener DEF S!Swap, S!Goto, S!dotVars, StripeLabels
  <2> QED BY <1>g, <1>1, <2>1, <2>2, <2>3, <2>4, <2>5 DEF S!TypeOK, S!Swap, S!Goto, S!dotVars
<1>2. ASSUME NEW a \in S!Agents, S!StopOld(a) PROVE S!TypeOK'
  <2>1. mpc' \in [S!Agents -> StripeLabels]
    BY <1>2, <1>mpc DEF S!StopOld, S!Goto, S!dotVars, S!fields, S!locals, StripeLabels
  <2>2. alive' \in SUBSET (1 .. forked)
    BY <1>2, <1>alive DEF S!StopOld, S!Goto, S!dotVars, S!fields, S!locals
  <2> QED BY <1>g, <1>2, <2>1, <2>2 DEF S!TypeOK, S!StopOld, S!Goto, S!dotVars, S!fields, S!locals
<1>3. ASSUME NEW a \in S!Agents, S!ReadKey(a) PROVE S!TypeOK'
  <2>1. mpc' \in [S!Agents -> StripeLabels]
    BY <1>3, <1>mpc DEF S!ReadKey, S!Goto, S!dotVars, S!fields, StripeLabels
  <2>2. newKey' \in Keys
    BY <1>3, <1>newKey, <1>dotKey DEF S!ReadKey, S!Goto, S!dotVars, S!fields, StripeLabels
  <2>3. newProc' \in 0 .. MaxListeners
    BY <1>3, <1>newProc DEF S!ReadKey, S!Goto, S!dotVars, S!fields
  <2> QED BY <1>g, <1>3, <2>1, <2>2, <2>3 DEF S!TypeOK, S!ReadKey, S!Goto, S!dotVars, S!fields
<1>4. ASSUME NEW a \in S!Agents, S!StartListener(a) PROVE S!TypeOK'
  <2>1. mpc' \in [S!Agents -> StripeLabels]
    BY <1>4, <1>mpc DEF S!StartListener, S!Goto, S!dotVars, S!fields, StripeLabels
  <2>2. newProc' \in 0 .. MaxListeners
    BY <1>4, <1>newProc, <1>forked DEF S!StartListener, S!Goto, S!dotVars, S!fields, StripeLabels
  <2>3. forked' \in 0 .. MaxListeners
    BY <1>4, <1>forked DEF S!StartListener, S!Goto, S!dotVars, S!fields
  <2>4. alive' \in SUBSET (1 .. forked')
    BY <1>4, <1>alive, <1>forked DEF S!StartListener, S!Goto, S!dotVars, S!fields, StripeLabels
  <2> QED BY <1>g, <1>4, <2>1, <2>2, <2>3, <2>4 DEF S!TypeOK, S!StartListener, S!Goto, S!dotVars,
     S!fields
<1>5. ASSUME NEW a \in S!Agents, S!StartFails(a) PROVE S!TypeOK'
  <2>1. shown' \in S!Modes \cup {"switching"}
    BY <1>5, <1>shown, <1>target, <1>prev, <1>mode DEF S!StartFails, S!Goto, S!dotVars, S!fields,
       StripeLabels
  <2>2. mpc' \in [S!Agents -> StripeLabels]
    BY <1>5, <1>mpc DEF S!StartFails, S!Goto, S!dotVars, S!fields, StripeLabels
  <2>3. target' \in S!Modes
    BY <1>5, <1>target DEF S!StartFails, S!Modes
  <2> QED BY <1>g, <1>5, <2>1, <2>2, <2>3 DEF S!TypeOK, S!StartFails, S!Goto, S!dotVars, S!fields
<1>6. ASSUME NEW a \in S!Agents, S!Commit(a) PROVE S!TypeOK'
  <2>1. mode' \in S!Modes
    BY <1>6, <1>mode, <1>target DEF S!Commit, S!Goto, S!dotVars, S!locals, StripeLabels
  <2>2. listener' \in 0 .. MaxListeners
    BY <1>6, <1>listener, <1>newProc, <1>target DEF S!Commit, S!Goto, S!dotVars, S!locals,
       StripeLabels
  <2>3. key' \in Keys \cup {NoKey}
    BY <1>6, <1>key, <1>newKey DEF S!Commit, S!Goto, S!dotVars, S!locals, StripeLabels
  <2>4. secret' \in 0 .. MaxListeners
    BY <1>6, <1>secret, <1>newProc DEF S!Commit, S!Goto, S!dotVars, S!locals, StripeLabels
  <2>5. mpc' \in [S!Agents -> StripeLabels]
    BY <1>6, <1>mpc DEF S!Commit, S!Goto, S!dotVars, S!locals, StripeLabels
  <2> QED BY <1>g, <1>6 DEF S!TypeOK, S!Commit, S!Goto, S!dotVars, S!locals
<1>7. ASSUME NEW a \in S!Agents, S!SetEnv(a) PROVE S!TypeOK'
  <2>1. layer' \in [mode : S!Modes, secret : 0 .. MaxListeners, key : Keys \cup {NoKey}]
    BY <1>7, LayerTyped, <1>target, <1>newProc, <1>newKey DEF S!SetEnv
  <2>2. mpc' \in [S!Agents -> StripeLabels]
    BY <1>7, <1>mpc DEF S!SetEnv, S!Goto, S!dotVars, S!fields, S!locals, StripeLabels
  <2> QED BY <1>g, <1>7, <2>1, <2>2 DEF S!TypeOK, S!SetEnv, S!Goto, S!dotVars, S!fields, S!locals
<1>8. ASSUME NEW a \in S!Agents, S!Tell(a) PROVE S!TypeOK'
  <2>1. shown' \in S!Modes \cup {"switching"}
    BY <1>8, <1>shown, <1>target, <1>prev, <1>mode DEF S!Tell, S!dotVars, S!fields, S!locals,
       StripeLabels
  <2>2. mpc' \in [S!Agents -> StripeLabels]
    BY <1>8, <1>mpc DEF S!Tell, S!dotVars, S!fields, S!locals, StripeLabels
  <2> QED BY <1>g, <1>8, <2>1, <2>2 DEF S!TypeOK, S!Tell, S!dotVars, S!fields, S!locals
<1>9. ASSUME NEW a \in S!Agents, S!Unlock(a) PROVE S!TypeOK'
  <2>1. switchMu' \in S!Agents \cup {Nobody}
    BY <1>9, <1>switchMu DEF S!Unlock, S!dotVars, S!fields, S!locals
  <2>2. mpc' \in [S!Agents -> StripeLabels]
    BY <1>9, <1>mpc DEF S!Unlock, S!dotVars, S!fields, S!locals, StripeLabels
  <2> QED BY <1>g, <1>9, <2>1, <2>2 DEF S!TypeOK, S!Unlock, S!dotVars, S!fields, S!locals
<1>10. ASSUME NEW u \in Users, NEW m \in {"mock", "listen"}, S!Set(u, m) PROVE S!TypeOK'
  <2>1. switchMu' \in S!Agents \cup {Nobody}
    BY <1>10, <1>switchMu DEF S!Set, S!Goto, S!dotVars, S!fields
  <2>2. mpc' \in [S!Agents -> StripeLabels]
    BY <1>10, <1>mpc DEF S!Set, S!Goto, S!dotVars, S!fields, StripeLabels
  <2>3. target' \in S!Modes
    BY <1>10 DEF S!Set, S!Modes
  <2> QED BY <1>g, <1>10, <2>1, <2>2, <2>3 DEF S!TypeOK, S!Set, S!Goto, S!dotVars, S!fields
<1>11. ASSUME NEW p \in S!Listeners, S!WatchExit(p) PROVE S!TypeOK'
  <2>1. switchMu' \in S!Agents \cup {Nobody}
    BY <1>11, <1>switchMu DEF S!WatchExit, S!Goto, S!dotVars, S!fields
  <2>2. mpc' \in [S!Agents -> StripeLabels]
    BY <1>11, <1>mpc DEF S!WatchExit, S!Goto, S!dotVars, S!fields, StripeLabels
  <2>3. target' \in S!Modes
    BY <1>11, <1>target DEF S!WatchExit, S!Modes
  <2> QED BY <1>g, <1>11, <2>1, <2>2, <2>3 DEF S!TypeOK, S!WatchExit, S!Goto, S!dotVars, S!fields
<1>12. ASSUME NEW p \in S!Listeners, S!ListenerDies(p) PROVE S!TypeOK'
  <2>1. alive' \in SUBSET (1 .. forked)
    BY <1>12, <1>alive DEF S!ListenerDies, S!dotVars, S!fields, S!locals
  <2> QED BY <1>g, <1>12, <2>1 DEF S!TypeOK, S!ListenerDies, S!dotVars, S!fields, S!locals
<1>13. ASSUME NEW k \in Keys, S!EditDotenv(k) PROVE S!TypeOK'
  <2>1. dotKey' \in Keys
    BY <1>13, <1>dotKey DEF S!EditDotenv, S!fields, S!locals
  <2>2. event' \in BOOLEAN
    BY <1>13, <1>event DEF S!EditDotenv, S!fields, S!locals
  <2>3. edits' \in 0 .. MaxEdits
    BY <1>13, <1>edits DEF S!EditDotenv, S!fields, S!locals
  <2>4. unheard' \in BOOLEAN
    BY <1>13, <1>unheard DEF S!EditDotenv, S!fields, S!locals
  <2> QED BY <1>g, <1>13, <2>1, <2>2, <2>3, <2>4 DEF S!TypeOK, S!EditDotenv, S!fields, S!locals
<1>14. CASE S!DropKeyRead
  <2>1. mpc' \in [S!Agents -> StripeLabels]
    BY <1>14, <1>mpc DEF S!DropKeyRead, S!Goto, S!fields, S!locals, StripeLabels
  <2>2. event' \in BOOLEAN
    BY <1>14, <1>event DEF S!DropKeyRead, S!Goto, S!fields, S!locals
  <2>3. timer' \in BOOLEAN
    BY <1>14, <1>timer DEF S!DropKeyRead, S!Goto, S!fields, S!locals
  <2>4. stale' \in 0 .. MaxListeners
    BY <1>14, <1>stale, <1>secret DEF S!DropKeyRead, S!Goto, S!fields, S!locals, StripeLabels
  <2> QED BY <1>g, <1>14, <2>1, <2>2, <2>3, <2>4 DEF S!TypeOK, S!DropKeyRead, S!Goto, S!fields,
     S!locals
<1>15. CASE S!DropKeySet
  <2>1. layer' \in [mode : S!Modes, secret : 0 .. MaxListeners, key : Keys \cup {NoKey}]
    BY <1>15, LayerTyped, <1>stale DEF S!DropKeySet, S!Modes
  <2>2. mpc' \in [S!Agents -> StripeLabels]
    BY <1>15, <1>mpc DEF S!DropKeySet, S!Goto, S!fields, S!locals, StripeLabels
  <2>3. timer' \in BOOLEAN
    BY <1>15, <1>timer DEF S!DropKeySet, S!Goto, S!fields, S!locals
  <2>4. stale' \in 0 .. MaxListeners
    BY <1>15, <1>stale DEF S!DropKeySet, S!Goto, S!fields, S!locals
  <2> QED BY <1>g, <1>15, <2>1, <2>2, <2>3, <2>4 DEF S!TypeOK, S!DropKeySet, S!Goto, S!fields,
     S!locals
<1>16. CASE S!DotenvChanged
  <2>1. switchMu' \in S!Agents \cup {Nobody}
    BY <1>16, <1>switchMu DEF S!DotenvChanged, S!Goto, S!fields
  <2>2. layer' \in [mode : S!Modes, secret : 0 .. MaxListeners, key : Keys \cup {NoKey}]
    <3>1. layer' = layer \/ layer' = S!EnvLayer("listen", secret, dotKey)
      BY <1>16 DEF S!DotenvChanged
    <3>2. "listen" \in S!Modes /\ dotKey \in Keys \cup {NoKey}
      BY <1>dotKey DEF S!Modes
    <3>3. S!EnvLayer("listen", secret, dotKey) \in [mode : S!Modes, secret : 0 .. MaxListeners, key
       : Keys \cup {NoKey}]
      BY LayerTyped, <1>secret, <3>2
    <3> QED  BY <1>layer, <3>1, <3>3
  <2>3. mpc' \in [S!Agents -> StripeLabels]
    BY <1>16, <1>mpc DEF S!DotenvChanged, S!Goto, S!fields, StripeLabels
  <2>4. target' \in S!Modes
    BY <1>16, <1>target, <1>mode DEF S!DotenvChanged, S!Goto, S!fields, StripeLabels
  <2>5. timer' \in BOOLEAN
    BY <1>16, <1>timer DEF S!DotenvChanged, S!Goto, S!fields
  <2> QED BY <1>g, <1>16, <2>1, <2>2, <2>3, <2>4, <2>5 DEF S!TypeOK, S!DotenvChanged, S!Goto,
     S!fields
<1>17. CASE S!OpenWatch
  <2>1. mpc' \in [S!Agents -> StripeLabels]
    BY <1>17, <1>mpc DEF S!OpenWatch, S!Goto, StripeLabels
  <2> QED BY <1>g, <1>17, <2>1 DEF S!TypeOK, S!OpenWatch, S!dotVars, S!fields, S!locals, StripeLabels
<1> QED
  BY <1>1, <1>2, <1>3, <1>4, <1>5, <1>6, <1>7, <1>8, <1>9, <1>10, <1>11, <1>12, <1>13, <1>14, <1>15,
     <1>16, <1>17 DEF S!Next, S!SwitchStep

(* switchMu is held by who switches.                                       *)
LEMMA SwitchLockStep ==
    ASSUME StripeIInv, S!Next PROVE SwitchLock'
<1> USE StripeAssumption DEF S!Agents, S!Listeners
<1>i. SwitchLock
  BY DEF StripeIInv
<1>so. SwitchOrder
  BY DEF StripeIInv
<1>switchMu. switchMu \in S!Agents \cup {Nobody}
  BY DEF StripeIInv, S!TypeOK, StripeLabels
<1>mpc. mpc \in [S!Agents -> StripeLabels]
  BY DEF StripeIInv, S!TypeOK, StripeLabels
<1>newProc. newProc \in 0 .. MaxListeners
  BY DEF StripeIInv, S!TypeOK, StripeLabels
<1>forked. forked \in 0 .. MaxListeners
  BY DEF StripeIInv, S!TypeOK, StripeLabels
<1>1. ASSUME NEW a \in S!Agents, S!Swap(a) PROVE SwitchLock'
  BY <1>i, <1>1 DEF SwitchLock, Switching, S!Swap, S!Goto, S!dotVars
<1>2. ASSUME NEW a \in S!Agents, S!StopOld(a) PROVE SwitchLock'
  BY <1>i, <1>2 DEF SwitchLock, Switching, S!StopOld, S!Goto, S!dotVars, S!fields, S!locals
<1>3. ASSUME NEW a \in S!Agents, S!ReadKey(a) PROVE SwitchLock'
  BY <1>i, <1>3 DEF SwitchLock, Switching, S!ReadKey, S!Goto, S!dotVars, S!fields
<1>4. ASSUME NEW a \in S!Agents, S!StartListener(a) PROVE SwitchLock'
  BY <1>i, <1>4, <1>mpc, <1>forked DEF SwitchLock, Switching, S!StartListener, S!Goto, S!dotVars,
     S!fields, StripeLabels
<1>5. ASSUME NEW a \in S!Agents, S!StartFails(a) PROVE SwitchLock'
  BY <1>i, <1>5, <1>mpc DEF SwitchLock, Switching, S!StartFails, S!Goto, S!dotVars, S!fields,
     StripeLabels
<1>6. ASSUME NEW a \in S!Agents, S!Commit(a) PROVE SwitchLock'
  BY <1>i, <1>6 DEF SwitchLock, Switching, S!Commit, S!Goto, S!dotVars, S!locals
<1>7. ASSUME NEW a \in S!Agents, S!SetEnv(a) PROVE SwitchLock'
  BY <1>i, <1>7 DEF SwitchLock, Switching, S!SetEnv, S!Goto, S!dotVars, S!fields, S!locals
<1>8. ASSUME NEW a \in S!Agents, S!Tell(a) PROVE SwitchLock'
  <2>1. /\ mpc[a] = "tell" /\ UNCHANGED <<switchMu, forked>>
        /\ mpc' = [b \in S!Agents |-> IF b = a THEN "unlock"
                                      ELSE IF b = newProc THEN "watch" ELSE mpc[b]]
    BY <1>8 DEF S!Tell
  <2>2. switchMu = a /\ switchMu # Nobody
    BY <1>i, <2>1 DEF SwitchLock, Switching
  <2>3. newProc \in S!Agents => newProc \in S!Listeners /\ newProc # 0
    BY <1>newProc
  <2>4. newProc # 0 => newProc <= forked /\ mpc[newProc] = "off"
    BY <1>so, <2>1, <2>2 DEF SwitchOrder, At
  <2>5. switchMu' = switchMu /\ forked' = forked /\ mpc'[a] = "unlock"
    BY <2>1
  <2>6. ASSUME NEW b \in S!Agents, b # a
        PROVE  mpc'[b] = mpc[b] \/ (mpc'[b] = "watch" /\ mpc[b] = "off" /\ b \in S!Listeners /\ b <=
           forked)
    BY <2>1, <2>3, <2>4, <2>6
  <2>7. \A b \in S!Agents : mpc'[b] \in Switching <=> switchMu' = b
    BY <1>i, <2>2, <2>5, <2>6 DEF SwitchLock, Switching
  <2>8. /\ mpc[a] # "off" /\ (mpc'[Dotenv] = "off" <=> mpc[Dotenv] = "off")
        /\ \A p \in S!Listeners : p > forked => mpc'[p] = "off"
    BY <1>i, <1>forked, <2>1, <2>5, <2>6 DEF SwitchLock
  <2> QED  BY <1>i, <2>5, <2>6, <2>7, <2>8 DEF SwitchLock
<1>9. ASSUME NEW a \in S!Agents, S!Unlock(a) PROVE SwitchLock'
  BY <1>i, <1>9 DEF SwitchLock, Switching, S!Unlock, S!dotVars, S!fields, S!locals
<1>10. ASSUME NEW u \in Users, NEW m \in {"mock", "listen"}, S!Set(u, m) PROVE SwitchLock'
  BY <1>i, <1>10, <1>switchMu, <1>mpc DEF SwitchLock, Switching, S!Set, S!Goto, S!dotVars, S!fields,
     StripeLabels
<1>11. ASSUME NEW p \in S!Listeners, S!WatchExit(p) PROVE SwitchLock'
  BY <1>i, <1>11, <1>switchMu, <1>mpc DEF SwitchLock, Switching, S!WatchExit, S!Goto, S!dotVars,
     S!fields, StripeLabels
<1>12. ASSUME NEW p \in S!Listeners, S!ListenerDies(p) PROVE SwitchLock'
  BY <1>i, <1>12 DEF SwitchLock, Switching, S!ListenerDies, S!dotVars, S!fields, S!locals
<1>13. ASSUME NEW k \in Keys, S!EditDotenv(k) PROVE SwitchLock'
  BY <1>i, <1>13 DEF SwitchLock, Switching, S!EditDotenv, S!fields, S!locals
<1>14. CASE S!DropKeyRead
  BY <1>i, <1>14, <1>mpc DEF SwitchLock, Switching, S!DropKeyRead, S!Goto, S!fields, S!locals,
     StripeLabels
<1>15. CASE S!DropKeySet
  BY <1>i, <1>15 DEF SwitchLock, Switching, S!DropKeySet, S!Goto, S!fields, S!locals
<1>16. CASE S!DotenvChanged
  BY <1>i, <1>16, <1>switchMu, <1>mpc DEF SwitchLock, Switching, S!DotenvChanged, S!Goto, S!fields,
     StripeLabels
<1>17. CASE S!OpenWatch
  BY <1>i, <1>switchMu, <1>mpc, <1>17 DEF StripeLabels, SwitchLock, Switching, S!OpenWatch, S!Goto, S!dotVars, S!fields,
     S!locals
<1> QED
  BY <1>1, <1>2, <1>3, <1>4, <1>5, <1>6, <1>7, <1>8, <1>9, <1>10, <1>11, <1>12, <1>13, <1>14, <1>15,
     <1>16, <1>17 DEF S!Next, S!SwitchStep

(* A switch does its steps in order.                                       *)
LEMMA SwitchOrderStep ==
    ASSUME StripeIInv, S!Next PROVE SwitchOrder'
<1> USE StripeAssumption DEF S!Agents, S!Listeners
<1>i. SwitchOrder
  BY DEF StripeIInv
<1>lk. SwitchLock
  BY DEF StripeIInv
<1>switchMu. switchMu \in S!Agents \cup {Nobody}
  BY DEF StripeIInv, S!TypeOK, StripeLabels
<1>mpc. mpc \in [S!Agents -> StripeLabels]
  BY DEF StripeIInv, S!TypeOK, StripeLabels
<1>target. target \in S!Modes
  BY DEF StripeIInv, S!TypeOK, StripeLabels
<1>newProc. newProc \in 0 .. MaxListeners
  BY DEF StripeIInv, S!TypeOK, StripeLabels
<1>forked. forked \in 0 .. MaxListeners
  BY DEF StripeIInv, S!TypeOK, StripeLabels
<1>1. ASSUME NEW a \in S!Agents, S!Swap(a) PROVE SwitchOrder'
  BY <1>i, <1>1, <1>mpc, <1>lk DEF SwitchOrder, At, S!Swap, S!Goto, SwitchLock, Switching
<1>2. ASSUME NEW a \in S!Agents, S!StopOld(a) PROVE SwitchOrder'
  BY <1>i, <1>2, <1>mpc, <1>lk DEF SwitchOrder, At, S!StopOld, S!Goto, S!fields, S!locals,
     SwitchLock, Switching
<1>3. ASSUME NEW a \in S!Agents, S!ReadKey(a) PROVE SwitchOrder'
  BY <1>i, <1>3, <1>mpc, <1>lk DEF SwitchOrder, At, S!ReadKey, S!Goto, S!fields, SwitchLock,
     Switching
<1>4. ASSUME NEW a \in S!Agents, S!StartListener(a) PROVE SwitchOrder'
  <2>1. switchMu = a /\ switchMu' = a /\ mpc[a] = "start" /\ mpc'[a] = "commit"
    BY <1>4, <1>lk, <1>mpc DEF SwitchLock, Switching, S!StartListener, S!Goto
  <2>2. \A ls : At(ls) <=> "start" \in ls
    BY <2>1 DEF At
  <2>3. \A ls : At(ls)' <=> "commit" \in ls
    BY <2>1 DEF At
  <2>4. /\ newProc' = forked + 1 /\ forked' = forked + 1 /\ forked < MaxListeners
        /\ mpc' = [mpc EXCEPT ![a] = "commit"]
        /\ UNCHANGED <<mode, listener, key, secret, shown, target, prev, old, newKey>>
    BY <1>4 DEF S!StartListener, S!Goto, S!fields, S!locals
  <2>5. newProc' # 0 /\ newProc' <= forked' /\ mpc'[newProc'] = "off"
    <3>1. newProc' \in S!Listeners /\ newProc' > forked /\ newProc' # 0
      BY <2>4, <1>forked
    <3>2. mpc[newProc'] = "off"
      BY <1>lk, <3>1 DEF SwitchLock
    <3> QED  BY <2>1, <2>4, <3>1, <3>2, <1>mpc, <1>forked
  <2>6. target = "listen"
    BY <1>i, <2>2 DEF SwitchOrder
  <2> QED  BY <1>i, <2>1, <2>2, <2>3, <2>4, <2>5, <2>6 DEF SwitchOrder
<1>5. ASSUME NEW a \in S!Agents, S!StartFails(a) PROVE SwitchOrder'
  <2>1. switchMu = a /\ switchMu' = a /\ switchMu # Nobody /\ mpc[a] = "start"
    BY <1>5, <1>lk DEF SwitchLock, Switching, S!StartFails
  <2>2. \A ls : At(ls) <=> "start" \in ls
    BY <2>1 DEF At
  <2>3. /\ listener = 0 /\ prev = mode /\ (old # 0 <=> prev = "listen") /\ newProc = 0
        /\ target # "" /\ (mode # "listen" => secret = 0)
    BY <1>i, <2>1, <2>2 DEF SwitchOrder
  <2>4. UNCHANGED <<mode, listener, key, secret, prev, old, newKey, newProc, forked>>
    BY <1>5 DEF S!StartFails, S!fields, S!locals
  <2>5. CASE prev = "mock" /\ old = 0
    <3>1. shown' = prev /\ target' = target /\ mpc' = [mpc EXCEPT ![a] = "unlock"]
      BY <1>5, <2>5 DEF S!StartFails, S!Goto
    <3>2. \A ls : At(ls)' <=> "unlock" \in ls
      BY <2>1, <3>1, <1>mpc DEF At
    <3> QED  BY <2>1, <2>3, <2>4, <2>5, <3>1, <3>2 DEF SwitchOrder
  <2>6. CASE ~(prev = "mock" /\ old = 0)
    <3>1. target' = "mock" /\ shown' = shown /\ mpc' = [mpc EXCEPT ![a] = "commit"]
      BY <1>5, <2>6 DEF S!StartFails, S!Goto
    <3>2. \A ls : At(ls)' <=> "commit" \in ls
      BY <2>1, <3>1, <1>mpc DEF At
    <3> QED  BY <2>1, <2>3, <2>4, <3>1, <3>2 DEF SwitchOrder
  <2> QED  BY <2>5, <2>6
<1>6. ASSUME NEW a \in S!Agents, S!Commit(a) PROVE SwitchOrder'
  <2>1. switchMu = a /\ switchMu' = a /\ mpc[a] = "commit" /\ mpc'[a] = "env"
    BY <1>6, <1>lk, <1>mpc DEF SwitchLock, Switching, S!Commit, S!Goto
  <2>2. \A ls : At(ls) <=> "commit" \in ls
    BY <2>1 DEF At
  <2>3. \A ls : At(ls)' <=> "env" \in ls
    BY <2>1 DEF At
  <2>4. /\ mode' = target /\ listener' = newProc /\ key' = newKey /\ secret' = newProc
        /\ mpc' = [mpc EXCEPT ![a] = "env"]
        /\ UNCHANGED <<shown, target, prev, old, newKey, newProc, forked>>
    BY <1>6 DEF S!Commit, S!Goto, S!fields, S!locals
  <2>5. newProc # 0 => newProc <= forked /\ mpc[newProc] = "off" /\ mpc'[newProc] = "off"
    <3>1. newProc # 0 => newProc <= forked /\ mpc[newProc] = "off"
      BY <1>i, <2>2 DEF SwitchOrder
    <3>2. newProc # 0 => newProc \in S!Agents
      BY <1>newProc
    <3> QED  BY <2>1, <2>4, <3>1, <3>2, <1>mpc
  <2>6. (target = "listen" <=> newProc # 0) /\ target # ""
    BY <1>i, <2>1, <2>2 DEF SwitchOrder
  <2> QED  BY <2>1, <2>3, <2>4, <2>5, <2>6 DEF SwitchOrder
<1>7. ASSUME NEW a \in S!Agents, S!SetEnv(a) PROVE SwitchOrder'
  <2>1. switchMu = a /\ switchMu' = a /\ mpc[a] = "env" /\ mpc'[a] = "tell"
    BY <1>7, <1>lk, <1>mpc DEF SwitchLock, Switching, S!SetEnv, S!Goto
  <2>2. \A ls : At(ls) <=> "env" \in ls
    BY <2>1 DEF At
  <2>3. \A ls : At(ls)' <=> "tell" \in ls
    BY <2>1 DEF At
  <2>4. /\ mpc' = [mpc EXCEPT ![a] = "tell"]
        /\ UNCHANGED <<mode, listener, key, secret, shown, target, prev, old, newKey, newProc,
           forked>>
    BY <1>7 DEF S!SetEnv, S!Goto, S!fields, S!locals
  <2>5. newProc # 0 => newProc <= forked /\ mpc[newProc] = "off" /\ mpc'[newProc] = "off"
    <3>1. newProc # 0 => newProc <= forked /\ mpc[newProc] = "off"
      BY <1>i, <2>2 DEF SwitchOrder
    <3>2. newProc # 0 => newProc \in S!Agents
      BY <1>newProc
    <3> QED  BY <2>1, <2>4, <3>1, <3>2, <1>mpc
  <2> QED  BY <1>i, <2>1, <2>2, <2>3, <2>4, <2>5 DEF SwitchOrder
<1>8. ASSUME NEW a \in S!Agents, S!Tell(a) PROVE SwitchOrder'
  <2>1. switchMu = a /\ switchMu' = a /\ switchMu # Nobody /\ mpc[a] = "tell" /\ mpc'[a] = "unlock"
    BY <1>8, <1>lk DEF SwitchLock, Switching, S!Tell
  <2>2. \A ls : At(ls) <=> "tell" \in ls
    BY <2>1 DEF At
  <2>3. \A ls : At(ls)' <=> "unlock" \in ls
    BY <2>1 DEF At
  <2>4. shown' = target /\ UNCHANGED <<mode, listener, key, secret, target, prev, old, newKey, newProc,
           forked>>
    BY <1>8 DEF S!Tell, S!fields, S!locals
  <2>5. target # "" /\ (mode # "listen" => secret = 0) /\ mode = target
    BY <1>i, <2>1, <2>2 DEF SwitchOrder
  <2>6. (mode = "listen" <=> listener # 0) /\ secret = listener
    BY <1>i, <2>2 DEF SwitchOrder
  <2> QED  BY <2>1, <2>3, <2>4, <2>5, <2>6 DEF SwitchOrder
<1>9. ASSUME NEW a \in S!Agents, S!Unlock(a) PROVE SwitchOrder'
  BY <1>i, <1>9, <1>lk DEF SwitchOrder, At, S!Unlock, S!fields, SwitchLock, Switching
<1>10. ASSUME NEW u \in Users, NEW m \in {"mock", "listen"}, S!Set(u, m) PROVE SwitchOrder'
  BY <1>i, <1>10, <1>mpc DEF SwitchOrder, At, S!Set, S!Goto, S!fields
<1>11. ASSUME NEW p \in S!Listeners, S!WatchExit(p) PROVE SwitchOrder'
  BY <1>i, <1>11, <1>mpc DEF SwitchOrder, At, S!WatchExit, S!Goto, S!fields
<1>12. ASSUME NEW p \in S!Listeners, S!ListenerDies(p) PROVE SwitchOrder'
  BY <1>i, <1>12 DEF SwitchOrder, At, S!ListenerDies, S!dotVars, S!fields, S!locals
<1>13. ASSUME NEW k \in Keys, S!EditDotenv(k) PROVE SwitchOrder'
  BY <1>i, <1>13 DEF SwitchOrder, At, S!EditDotenv, S!fields, S!locals
<1>14. CASE S!DropKeyRead
  <2>1. /\ mpc[Dotenv] \in {"idle", "drop"} /\ \A c \in S!Agents : c # Dotenv => mpc'[c] = mpc[c]
        /\ UNCHANGED <<switchMu, mode, listener, key, secret, shown, target, prev, old, newKey,
           newProc, forked>>
    BY <1>14, <1>mpc DEF S!DropKeyRead, S!Goto, S!fields, S!locals
  <2>2. switchMu # Dotenv
    BY <1>lk, <2>1 DEF SwitchLock, Switching
  <2>3. \A ls : At(ls)' <=> At(ls)
    BY <2>1, <2>2, <1>switchMu DEF At
  <2>4. newProc # 0 => newProc \in S!Agents /\ newProc # Dotenv
    BY <1>newProc
  <2>5. newProc # 0 => mpc'[newProc] = mpc[newProc]
    BY <2>1, <2>4
  <2> QED  BY <1>i, <2>1, <2>3, <2>5 DEF SwitchOrder
<1>15. CASE S!DropKeySet
  <2>1. /\ mpc[Dotenv] \in {"idle", "drop"} /\ \A c \in S!Agents : c # Dotenv => mpc'[c] = mpc[c]
        /\ UNCHANGED <<switchMu, mode, listener, key, secret, shown, target, prev, old, newKey,
           newProc, forked>>
    BY <1>15, <1>mpc DEF S!DropKeySet, S!Goto, S!fields, S!locals
  <2>2. switchMu # Dotenv
    BY <1>lk, <2>1 DEF SwitchLock, Switching
  <2>3. \A ls : At(ls)' <=> At(ls)
    BY <2>1, <2>2, <1>switchMu DEF At
  <2>4. newProc # 0 => newProc \in S!Agents /\ newProc # Dotenv
    BY <1>newProc
  <2>5. newProc # 0 => mpc'[newProc] = mpc[newProc]
    BY <2>1, <2>4
  <2> QED  BY <1>i, <2>1, <2>3, <2>5 DEF SwitchOrder
<1>16. CASE S!DotenvChanged
  BY <1>i, <1>16, <1>switchMu, <1>mpc, <1>target DEF SwitchOrder, At, S!DotenvChanged, S!Goto,
     S!fields, StripeLabels
<1>17. CASE S!OpenWatch
  <2>1. /\ mpc[Dotenv] = "open" /\ \A c \in S!Agents : c # Dotenv => mpc'[c] = mpc[c]
        /\ UNCHANGED <<switchMu, mode, listener, key, secret, shown, target, prev, old, newKey,
           newProc, forked>>
    BY <1>17, <1>mpc DEF S!OpenWatch, S!Goto, S!fields, S!locals
  <2>2. switchMu # Dotenv
    BY <1>lk, <2>1 DEF SwitchLock, Switching
  <2>3. \A ls : At(ls)' <=> At(ls)
    BY <2>1, <2>2, <1>switchMu DEF At
  <2>4. newProc # 0 => newProc \in S!Agents /\ newProc # Dotenv
    BY <1>newProc
  <2>5. newProc # 0 => mpc'[newProc] = mpc[newProc]
    BY <2>1, <2>4
  <2> QED  BY <1>i, <2>1, <2>3, <2>5 DEF SwitchOrder
<1> QED
  BY <1>1, <1>2, <1>3, <1>4, <1>5, <1>6, <1>7, <1>8, <1>9, <1>10, <1>11, <1>12, <1>13, <1>14, <1>15,
     <1>16, <1>17 DEF S!Next, S!SwitchStep

(* Only one listener runs.                                                 *)
LEMMA OnlyListenerStep ==
    ASSUME StripeIInv, S!Next PROVE OnlyListener'
<1> USE StripeAssumption DEF S!Agents, S!Listeners
<1>i. OnlyListener
  BY DEF StripeIInv
<1>lk. SwitchLock
  BY DEF StripeIInv
<1>so. SwitchOrder
  BY DEF StripeIInv
<1>switchMu. switchMu \in S!Agents \cup {Nobody}
  BY DEF StripeIInv, S!TypeOK, StripeLabels
<1>mpc. mpc \in [S!Agents -> StripeLabels]
  BY DEF StripeIInv, S!TypeOK, StripeLabels
<1>forked. forked \in 0 .. MaxListeners
  BY DEF StripeIInv, S!TypeOK, StripeLabels
<1>alive. alive \in SUBSET (1 .. forked)
  BY DEF StripeIInv, S!TypeOK, StripeLabels
<1>1. ASSUME NEW a \in S!Agents, S!Swap(a) PROVE OnlyListener'
  BY <1>i, <1>1, <1>mpc, <1>lk DEF OnlyListener, At, S!Swap, S!Goto, SwitchLock, Switching
<1>2. ASSUME NEW a \in S!Agents, S!StopOld(a) PROVE OnlyListener'
  BY <1>i, <1>2 DEF OnlyListener, At, S!StopOld, S!Goto, S!dotVars, S!fields, S!locals
<1>3. ASSUME NEW a \in S!Agents, S!ReadKey(a) PROVE OnlyListener'
  BY <1>i, <1>3, <1>lk DEF OnlyListener, At, S!ReadKey, S!fields, SwitchLock, Switching
<1>4. ASSUME NEW a \in S!Agents, S!StartListener(a) PROVE OnlyListener'
  BY <1>i, <1>4, <1>mpc, <1>lk DEF OnlyListener, At, S!StartListener, S!Goto, S!fields, SwitchLock,
     Switching
<1>5. ASSUME NEW a \in S!Agents, S!StartFails(a) PROVE OnlyListener'
  BY <1>i, <1>5, <1>switchMu, <1>mpc DEF OnlyListener, At, S!StartFails, S!Goto, S!fields
<1>6. ASSUME NEW a \in S!Agents, S!Commit(a) PROVE OnlyListener'
  <2>1. switchMu = a /\ switchMu' = a /\ mpc[a] = "commit" /\ mpc'[a] = "env"
    BY <1>6, <1>lk, <1>mpc DEF SwitchLock, Switching, S!Commit, S!Goto
  <2>2. \A ls : At(ls) <=> "commit" \in ls
    BY <2>1 DEF At
  <2>3. \A ls : At(ls)' <=> "env" \in ls
    BY <2>1 DEF At
  <2>4. listener = 0 /\ listener' = newProc /\ UNCHANGED alive
    BY <1>6, <1>so, <2>2 DEF S!Commit, SwitchOrder
  <2>5. 0 \notin alive
    BY <1>alive, <1>forked
  <2> QED  BY <1>i, <2>2, <2>4, <2>5 DEF OnlyListener
<1>7. ASSUME NEW a \in S!Agents, S!SetEnv(a) PROVE OnlyListener'
  BY <1>i, <1>7 DEF OnlyListener, At, S!SetEnv, S!Goto, S!dotVars, S!fields, S!locals
<1>8. ASSUME NEW a \in S!Agents, S!Tell(a) PROVE OnlyListener'
  BY <1>i, <1>8, <1>lk DEF OnlyListener, At, S!Tell, S!fields, SwitchLock, Switching
<1>9. ASSUME NEW a \in S!Agents, S!Unlock(a) PROVE OnlyListener'
  BY <1>i, <1>9, <1>lk DEF OnlyListener, At, S!Unlock, S!fields, SwitchLock, Switching
<1>10. ASSUME NEW u \in Users, NEW m \in {"mock", "listen"}, S!Set(u, m) PROVE OnlyListener'
  BY <1>i, <1>10 DEF OnlyListener, At, S!Set, S!Goto, S!dotVars, S!fields
<1>11. ASSUME NEW p \in S!Listeners, S!WatchExit(p) PROVE OnlyListener'
  BY <1>i, <1>11 DEF OnlyListener, At, S!WatchExit, S!Goto, S!dotVars, S!fields
<1>12. ASSUME NEW p \in S!Listeners, S!ListenerDies(p) PROVE OnlyListener'
  BY <1>i, <1>12 DEF OnlyListener, At, S!ListenerDies, S!dotVars, S!fields, S!locals
<1>13. ASSUME NEW k \in Keys, S!EditDotenv(k) PROVE OnlyListener'
  BY <1>i, <1>13 DEF OnlyListener, At, S!EditDotenv, S!fields, S!locals
<1>14. CASE S!DropKeyRead
  BY <1>i, <1>14, <1>switchMu, <1>mpc DEF OnlyListener, At, S!DropKeyRead, S!Goto, S!fields,
     S!locals
<1>15. CASE S!DropKeySet
  BY <1>i, <1>15 DEF OnlyListener, At, S!DropKeySet, S!Goto, S!fields, S!locals
<1>16. CASE S!DotenvChanged
  BY <1>i, <1>16 DEF OnlyListener, At, S!DotenvChanged, S!Goto, S!fields
<1>17. CASE S!OpenWatch
  BY <1>i, <1>lk, <1>switchMu, <1>mpc, <1>17 DEF OnlyListener, At, SwitchLock, Switching, S!OpenWatch, S!Goto, S!dotVars, S!fields,
     S!locals
<1> QED
  BY <1>1, <1>2, <1>3, <1>4, <1>5, <1>6, <1>7, <1>8, <1>9, <1>10, <1>11, <1>12, <1>13, <1>14, <1>15,
     <1>16, <1>17 DEF S!Next, S!SwitchStep

(* The exit of the listener is watched.                                    *)
LEMMA ExitWatchedStep ==
    ASSUME StripeIInv, S!Next PROVE ExitWatched'
<1> USE StripeAssumption DEF S!Agents, S!Listeners
<1>i. ExitWatched
  BY DEF StripeIInv
<1>lk. SwitchLock
  BY DEF StripeIInv
<1>so. SwitchOrder
  BY DEF StripeIInv
<1>switchMu. switchMu \in S!Agents \cup {Nobody}
  BY DEF StripeIInv, S!TypeOK, StripeLabels
<1>listener. listener \in 0 .. MaxListeners
  BY DEF StripeIInv, S!TypeOK, StripeLabels
<1>mpc. mpc \in [S!Agents -> StripeLabels]
  BY DEF StripeIInv, S!TypeOK, StripeLabels
<1>newProc. newProc \in 0 .. MaxListeners
  BY DEF StripeIInv, S!TypeOK, StripeLabels
<1>1. ASSUME NEW a \in S!Agents, S!Swap(a) PROVE ExitWatched'
  BY <1>i, <1>1 DEF ExitWatched, At, S!Swap, S!Goto, S!dotVars
<1>2. ASSUME NEW a \in S!Agents, S!StopOld(a) PROVE ExitWatched'
  BY <1>i, <1>2 DEF ExitWatched, At, S!StopOld, S!Goto, S!dotVars, S!fields, S!locals
<1>3. ASSUME NEW a \in S!Agents, S!ReadKey(a) PROVE ExitWatched'
  BY <1>i, <1>3 DEF ExitWatched, At, S!ReadKey, S!Goto, S!dotVars, S!fields
<1>4. ASSUME NEW a \in S!Agents, S!StartListener(a) PROVE ExitWatched'
  BY <1>i, <1>4 DEF ExitWatched, At, S!StartListener, S!Goto, S!dotVars, S!fields
<1>5. ASSUME NEW a \in S!Agents, S!StartFails(a) PROVE ExitWatched'
  BY <1>i, <1>5, <1>switchMu, <1>listener, <1>mpc DEF ExitWatched, At, S!StartFails, S!Goto,
     S!fields
<1>6. ASSUME NEW a \in S!Agents, S!Commit(a) PROVE ExitWatched'
  BY <1>6, <1>mpc, <1>lk DEF ExitWatched, At, S!Commit, S!Goto, SwitchLock, Switching
<1>7. ASSUME NEW a \in S!Agents, S!SetEnv(a) PROVE ExitWatched'
  BY <1>i, <1>7 DEF ExitWatched, At, S!SetEnv, S!Goto, S!dotVars, S!fields, S!locals
<1>8. ASSUME NEW a \in S!Agents, S!Tell(a) PROVE ExitWatched'
  <2>1. switchMu = a /\ switchMu' = a /\ mpc[a] = "tell" /\ mpc'[a] = "unlock"
    BY <1>8, <1>lk, <1>mpc DEF SwitchLock, Switching, S!Tell, S!Goto
  <2>2. \A ls : At(ls) <=> "tell" \in ls
    BY <2>1 DEF At
  <2>3. \A ls : At(ls)' <=> "unlock" \in ls
    BY <2>1 DEF At
  <2>4. listener = newProc /\ UNCHANGED listener
    BY <1>8, <1>so, <2>2 DEF S!Tell, S!fields, SwitchOrder
  <2>5. newProc # 0 => newProc \in S!Agents /\ mpc[newProc] = "off"
    <3>1. newProc # 0 => mpc[newProc] = "off"
      BY <1>so, <2>2 DEF SwitchOrder
    <3>2. newProc # 0 => newProc \in S!Agents
      BY <1>newProc
    <3> QED  BY <3>1, <3>2
  <2>6. newProc # 0 => newProc # a
    BY <2>1, <2>5
  <2>7. newProc # 0 => mpc'[newProc] = "watch"
    BY <1>8, <2>5, <2>6 DEF S!Tell
  <2> QED  BY <2>4, <2>7 DEF ExitWatched
<1>9. ASSUME NEW a \in S!Agents, S!Unlock(a) PROVE ExitWatched'
  BY <1>i, <1>9, <1>listener, <1>lk DEF ExitWatched, At, S!Unlock, S!fields, SwitchLock, Switching
<1>10. ASSUME NEW u \in Users, NEW m \in {"mock", "listen"}, S!Set(u, m) PROVE ExitWatched'
  BY <1>i, <1>10, <1>listener DEF ExitWatched, At, S!Set, S!Goto, S!fields
<1>11. ASSUME NEW p \in S!Listeners, S!WatchExit(p) PROVE ExitWatched'
  BY <1>i, <1>11, <1>listener, <1>mpc DEF ExitWatched, At, S!WatchExit, S!Goto, S!fields
<1>12. ASSUME NEW p \in S!Listeners, S!ListenerDies(p) PROVE ExitWatched'
  BY <1>i, <1>12 DEF ExitWatched, At, S!ListenerDies, S!dotVars, S!fields, S!locals
<1>13. ASSUME NEW k \in Keys, S!EditDotenv(k) PROVE ExitWatched'
  BY <1>i, <1>13 DEF ExitWatched, At, S!EditDotenv, S!fields, S!locals
<1>14. CASE S!DropKeyRead
  BY <1>i, <1>14, <1>switchMu, <1>listener, <1>mpc DEF ExitWatched, At, S!DropKeyRead, S!Goto,
     S!fields
<1>15. CASE S!DropKeySet
  BY <1>i, <1>15 DEF ExitWatched, At, S!DropKeySet, S!Goto, S!fields, S!locals
<1>16. CASE S!DotenvChanged
  BY <1>i, <1>16, <1>listener, <1>mpc DEF ExitWatched, At, S!DotenvChanged, S!Goto, S!fields
<1>17. CASE S!OpenWatch
  BY <1>i, <1>lk, <1>switchMu, <1>listener, <1>mpc, <1>17 DEF ExitWatched, At, SwitchLock, Switching, S!OpenWatch, S!Goto, S!dotVars, S!fields,
     S!locals
<1> QED
  BY <1>1, <1>2, <1>3, <1>4, <1>5, <1>6, <1>7, <1>8, <1>9, <1>10, <1>11, <1>12, <1>13, <1>14, <1>15,
     <1>16, <1>17 DEF S!Next, S!SwitchStep

(* A key that is no longer the one in .env is known to be.                 *)
LEMMA KeyFreshStep ==
    ASSUME StripeIInv, S!Next PROVE KeyFresh'
<1> USE StripeAssumption DEF S!Agents, S!Listeners
<1>i. KeyFresh
  BY DEF StripeIInv
<1>lk. SwitchLock
  BY DEF StripeIInv
<1>switchMu. switchMu \in S!Agents \cup {Nobody}
  BY DEF StripeIInv, S!TypeOK, StripeLabels
<1>mpc. mpc \in [S!Agents -> StripeLabels]
  BY DEF StripeIInv, S!TypeOK, StripeLabels
<1>1. ASSUME NEW a \in S!Agents, S!Swap(a) PROVE KeyFresh'
  BY <1>i, <1>1 DEF KeyFresh, At, Pending, S!Swap, S!Goto, S!dotVars
<1>2. ASSUME NEW a \in S!Agents, S!StopOld(a) PROVE KeyFresh'
  BY <1>i, <1>2 DEF KeyFresh, At, Pending, S!StopOld, S!Goto, S!dotVars, S!fields, S!locals
<1>3. ASSUME NEW a \in S!Agents, S!ReadKey(a) PROVE KeyFresh'
  BY <1>i, <1>3 DEF KeyFresh, At, Pending, S!ReadKey, S!Goto, S!dotVars, S!fields
<1>4. ASSUME NEW a \in S!Agents, S!StartListener(a) PROVE KeyFresh'
  BY <1>i, <1>4 DEF KeyFresh, At, Pending, S!StartListener, S!Goto, S!dotVars, S!fields
<1>5. ASSUME NEW a \in S!Agents, S!StartFails(a) PROVE KeyFresh'
  BY <1>i, <1>5, <1>switchMu, <1>mpc DEF KeyFresh, At, Pending, S!StartFails, S!Goto, S!dotVars
<1>6. ASSUME NEW a \in S!Agents, S!Commit(a) PROVE KeyFresh'
  BY <1>i, <1>6 DEF KeyFresh, At, Pending, S!Commit, S!Goto, S!dotVars, S!locals
<1>7. ASSUME NEW a \in S!Agents, S!SetEnv(a) PROVE KeyFresh'
  BY <1>i, <1>7 DEF KeyFresh, At, Pending, S!SetEnv, S!Goto, S!dotVars, S!fields, S!locals
<1>8. ASSUME NEW a \in S!Agents, S!Tell(a) PROVE KeyFresh'
  BY <1>8, <1>lk DEF KeyFresh, At, S!Tell, SwitchLock, Switching
<1>9. ASSUME NEW a \in S!Agents, S!Unlock(a) PROVE KeyFresh'
  BY <1>i, <1>9 DEF KeyFresh, At, Pending, S!Unlock, S!dotVars, S!fields, S!locals
<1>10. ASSUME NEW u \in Users, NEW m \in {"mock", "listen"}, S!Set(u, m) PROVE KeyFresh'
  BY <1>i, <1>10 DEF KeyFresh, At, Pending, S!Set, S!Goto, S!dotVars, S!fields
<1>11. ASSUME NEW p \in S!Listeners, S!WatchExit(p) PROVE KeyFresh'
  BY <1>11, <1>mpc DEF KeyFresh, At, S!WatchExit, S!Goto
<1>12. ASSUME NEW p \in S!Listeners, S!ListenerDies(p) PROVE KeyFresh'
  BY <1>i, <1>12 DEF KeyFresh, At, Pending, S!ListenerDies, S!dotVars, S!fields, S!locals
<1>13. ASSUME NEW k \in Keys, S!EditDotenv(k) PROVE KeyFresh'
  BY <1>i, <1>13 DEF KeyFresh, At, Pending, S!EditDotenv, S!fields, S!locals
<1>14. CASE S!DropKeyRead
  BY <1>14, <1>mpc DEF KeyFresh, Pending, S!DropKeyRead, S!Goto
<1>15. CASE S!DropKeySet
  BY <1>i, <1>15 DEF KeyFresh, At, Pending, S!DropKeySet, S!Goto, S!fields, S!locals
<1>16. CASE S!DotenvChanged
  BY <1>16, <1>mpc DEF KeyFresh, At, S!DotenvChanged, S!Goto
<1>17. CASE S!OpenWatch
  BY <1>i, <1>lk, <1>switchMu, <1>mpc, <1>17 DEF KeyFresh, At, Pending, SwitchLock, Switching, S!OpenWatch, S!Goto, S!dotVars, S!fields,
     S!locals
<1> QED
  BY <1>1, <1>2, <1>3, <1>4, <1>5, <1>6, <1>7, <1>8, <1>9, <1>10, <1>11, <1>12, <1>13, <1>14, <1>15,
     <1>16, <1>17 DEF S!Next, S!SwitchStep

(* The listen env is current or an edit is pending.                        *)
LEMMA ListenEnvStep ==
    ASSUME StripeIInv, S!Next PROVE ListenEnv'
<1> USE StripeAssumption DEF S!Agents, S!Listeners
<1>i. ListenEnv
  BY DEF StripeIInv
<1>lk. SwitchLock
  BY DEF StripeIInv
<1>so. SwitchOrder
  BY DEF StripeIInv
<1>kf. KeyFresh
  BY DEF StripeIInv
<1>mpc. mpc \in [S!Agents -> StripeLabels]
  BY DEF StripeIInv, S!TypeOK, StripeLabels
<1>1. ASSUME NEW a \in S!Agents, S!Swap(a) PROVE ListenEnv'
  BY <1>i, <1>1 DEF ListenEnv, At, Pending, S!Swap, S!Goto, S!dotVars
<1>2. ASSUME NEW a \in S!Agents, S!StopOld(a) PROVE ListenEnv'
  BY <1>i, <1>2 DEF ListenEnv, At, Pending, S!StopOld, S!Goto, S!dotVars, S!fields, S!locals
<1>3. ASSUME NEW a \in S!Agents, S!ReadKey(a) PROVE ListenEnv'
  BY <1>i, <1>3 DEF ListenEnv, At, Pending, S!ReadKey, S!Goto, S!dotVars, S!fields
<1>4. ASSUME NEW a \in S!Agents, S!StartListener(a) PROVE ListenEnv'
  BY <1>i, <1>4 DEF ListenEnv, At, Pending, S!StartListener, S!Goto, S!dotVars, S!fields
<1>5. ASSUME NEW a \in S!Agents, S!StartFails(a) PROVE ListenEnv'
  <2>1. switchMu = a /\ switchMu # Nobody /\ switchMu' = a /\ mpc[a] = "start"
    BY <1>5, <1>lk DEF SwitchLock, Switching, S!StartFails
  <2>2. prev = mode /\ mode' = mode
    BY <1>5, <1>so, <2>1 DEF SwitchOrder, At, S!StartFails, S!fields
  <2>3. CASE prev = "mock" /\ old = 0
    BY <2>2, <2>3 DEF ListenEnv
  <2>4. CASE ~(prev = "mock" /\ old = 0)
    <3>1. mpc'[a] = "commit"
      BY <1>5, <2>4, <1>mpc DEF S!StartFails, S!Goto
    <3> QED  BY <2>1, <3>1 DEF ListenEnv, At
  <2> QED  BY <2>3, <2>4
<1>6. ASSUME NEW a \in S!Agents, S!Commit(a) PROVE ListenEnv'
  BY <1>6, <1>lk DEF ListenEnv, At, S!Commit, S!Goto, SwitchLock, Switching
<1>7. ASSUME NEW a \in S!Agents, S!SetEnv(a) PROVE ListenEnv'
  BY <1>7, <1>mpc, <1>lk, <1>so, <1>kf DEF ListenEnv, At, Pending, S!SetEnv, S!Goto, S!dotVars,
     S!fields, SwitchLock, Switching, SwitchOrder, KeyFresh
<1>8. ASSUME NEW a \in S!Agents, S!Tell(a) PROVE ListenEnv'
  BY <1>i, <1>8, <1>lk, <1>so DEF ListenEnv, At, Pending, S!Tell, S!dotVars, S!fields, SwitchLock,
     Switching, SwitchOrder
<1>9. ASSUME NEW a \in S!Agents, S!Unlock(a) PROVE ListenEnv'
  BY <1>i, <1>9, <1>lk DEF ListenEnv, At, Pending, S!Unlock, S!dotVars, S!fields, SwitchLock,
     Switching
<1>10. ASSUME NEW u \in Users, NEW m \in {"mock", "listen"}, S!Set(u, m) PROVE ListenEnv'
  BY <1>i, <1>10 DEF ListenEnv, At, Pending, S!Set, S!Goto, S!dotVars, S!fields
<1>11. ASSUME NEW p \in S!Listeners, S!WatchExit(p) PROVE ListenEnv'
  BY <1>i, <1>11, <1>mpc DEF ListenEnv, At, Pending, S!WatchExit, S!Goto, S!dotVars, S!fields,
     StripeLabels
<1>12. ASSUME NEW p \in S!Listeners, S!ListenerDies(p) PROVE ListenEnv'
  BY <1>i, <1>12 DEF ListenEnv, At, Pending, S!ListenerDies, S!dotVars, S!fields, S!locals
<1>13. ASSUME NEW k \in Keys, S!EditDotenv(k) PROVE ListenEnv'
  BY <1>i, <1>13 DEF ListenEnv, At, Pending, S!EditDotenv, S!fields, S!locals
<1>14. CASE S!DropKeyRead
  BY <1>14, <1>mpc DEF ListenEnv, Pending, S!DropKeyRead, S!Goto
<1>15. CASE S!DropKeySet
  BY <1>i, <1>15 DEF ListenEnv, At, Pending, S!DropKeySet, S!Goto, S!fields, S!locals
<1>16. CASE S!DotenvChanged
  BY <1>16, <1>mpc DEF ListenEnv, At, S!DotenvChanged, S!Goto, S!fields
<1>17. CASE S!OpenWatch
  BY <1>i, <1>lk, <1>mpc, <1>17 DEF ListenEnv, At, Pending, SwitchLock, Switching, S!OpenWatch, S!Goto, S!dotVars, S!fields,
     S!locals
<1> QED
  BY <1>1, <1>2, <1>3, <1>4, <1>5, <1>6, <1>7, <1>8, <1>9, <1>10, <1>11, <1>12, <1>13, <1>14, <1>15,
     <1>16, <1>17 DEF S!Next, S!SwitchStep

(* An .env left alone leaves the layer to the mode.                        *)
LEMMA UneditedStep ==
    ASSUME StripeIInv, S!Next PROVE Unedited'
<1> USE StripeAssumption DEF S!Agents, S!Listeners
<1>i. Unedited
  BY DEF StripeIInv
<1>lk. SwitchLock
  BY DEF StripeIInv
<1>so. SwitchOrder
  BY DEF StripeIInv
<1>mpc. mpc \in [S!Agents -> StripeLabels]
  BY DEF StripeIInv, S!TypeOK, StripeLabels
<1>event. event \in BOOLEAN
  BY DEF StripeIInv, S!TypeOK, StripeLabels
<1>edits. edits \in 0 .. MaxEdits
  BY DEF StripeIInv, S!TypeOK, StripeLabels
<1>1. ASSUME NEW a \in S!Agents, S!Swap(a) PROVE Unedited'
  BY <1>i, <1>1 DEF Unedited, At, S!Swap, S!Goto, S!dotVars
<1>2. ASSUME NEW a \in S!Agents, S!StopOld(a) PROVE Unedited'
  BY <1>i, <1>2 DEF Unedited, At, S!StopOld, S!Goto, S!dotVars, S!fields, S!locals
<1>3. ASSUME NEW a \in S!Agents, S!ReadKey(a) PROVE Unedited'
  BY <1>i, <1>3 DEF Unedited, At, S!ReadKey, S!Goto, S!dotVars, S!fields
<1>4. ASSUME NEW a \in S!Agents, S!StartListener(a) PROVE Unedited'
  BY <1>i, <1>4 DEF Unedited, At, S!StartListener, S!Goto, S!dotVars, S!fields
<1>5. ASSUME NEW a \in S!Agents, S!StartFails(a) PROVE Unedited'
  BY <1>i, <1>5, <1>mpc, <1>lk DEF Unedited, At, S!StartFails, S!Goto, S!dotVars, S!fields,
     SwitchLock, Switching
<1>6. ASSUME NEW a \in S!Agents, S!Commit(a) PROVE Unedited'
  BY <1>i, <1>6, <1>mpc, <1>lk DEF Unedited, At, S!Commit, S!Goto, S!dotVars, SwitchLock, Switching
<1>7. ASSUME NEW a \in S!Agents, S!SetEnv(a) PROVE Unedited'
  BY <1>i, <1>7, <1>mpc, <1>lk, <1>so DEF Unedited, At, S!SetEnv, S!Goto, S!dotVars, S!fields,
     SwitchLock, Switching, SwitchOrder
<1>8. ASSUME NEW a \in S!Agents, S!Tell(a) PROVE Unedited'
  BY <1>i, <1>8, <1>lk DEF Unedited, At, S!Tell, S!dotVars, S!fields, SwitchLock, Switching
<1>9. ASSUME NEW a \in S!Agents, S!Unlock(a) PROVE Unedited'
  BY <1>i, <1>9, <1>lk DEF Unedited, At, S!Unlock, S!dotVars, S!fields, SwitchLock, Switching
<1>10. ASSUME NEW u \in Users, NEW m \in {"mock", "listen"}, S!Set(u, m) PROVE Unedited'
  BY <1>i, <1>10 DEF Unedited, At, S!Set, S!Goto, S!dotVars, S!fields
<1>11. ASSUME NEW p \in S!Listeners, S!WatchExit(p) PROVE Unedited'
  BY <1>i, <1>11, <1>mpc DEF Unedited, At, S!WatchExit, S!Goto, S!dotVars, S!fields, StripeLabels
<1>12. ASSUME NEW p \in S!Listeners, S!ListenerDies(p) PROVE Unedited'
  BY <1>i, <1>12 DEF Unedited, At, S!ListenerDies, S!dotVars, S!fields, S!locals
<1>13. ASSUME NEW k \in Keys, S!EditDotenv(k) PROVE Unedited'
  BY <1>i, <1>13, <1>event, <1>edits DEF Unedited, At, S!EditDotenv, S!fields, S!locals,
     StripeLabels
<1>14. CASE S!DropKeyRead
  BY <1>i, <1>14 DEF Unedited, At, S!DropKeyRead, S!Goto, S!fields, S!locals
<1>15. CASE S!DropKeySet
  BY <1>i, <1>15 DEF Unedited, At, S!DropKeySet, S!Goto, S!fields, S!locals
<1>16. CASE S!DotenvChanged
  BY <1>i, <1>16 DEF Unedited, At, S!DotenvChanged, S!Goto, S!fields
<1>17. CASE S!OpenWatch
  BY <1>i, <1>lk, <1>mpc, <1>17 DEF Unedited, At, SwitchLock, Switching, S!OpenWatch, S!Goto, S!dotVars, S!fields,
     S!locals
<1> QED
  BY <1>1, <1>2, <1>3, <1>4, <1>5, <1>6, <1>7, <1>8, <1>9, <1>10, <1>11, <1>12, <1>13, <1>14, <1>15,
     <1>16, <1>17 DEF S!Next, S!SwitchStep

(* Boot holds switchMu and is about to switch.                             *)
LEMMA StripeInitOK == S!Init => StripeIInv
<1> SUFFICES ASSUME S!Init PROVE StripeIInv  OBVIOUS
<1>n. 0 \in 0 .. MaxListeners /\ 0 \in 0 .. MaxEdits /\ Boot # Nobody /\ Boot # Dotenv /\ Boot \in S!Agents
  BY StripeAssumption DEF S!Agents
<1>u. Boot \notin Users /\ Dotenv \notin Users /\ Dotenv \in S!Agents
  BY StripeAssumption DEF S!Agents
<1>a. \A p \in S!Listeners : p \in S!Agents /\ p # Boot /\ p \notin Users
  BY StripeAssumption DEF S!Agents, S!Listeners
<1>b. event = FALSE /\ timer = FALSE /\ unheard = FALSE
  BY DEF S!Init
<1>m. mode = "" /\ prev = "" /\ shown = "" /\ target \in {"mock", "listen"} /\ switchMu = Boot
  BY DEF S!Init
<1>k. key = NoKey /\ dotKey \in Keys /\ newKey = dotKey
  BY DEF S!Init
<1>z. /\ listener = 0 /\ secret = 0 /\ old = 0 /\ newProc = 0 /\ forked = 0 /\ stale = 0 /\ edits = 0
      /\ alive = {} /\ layer = [mode |-> "", secret |-> 0, key |-> NoKey]
  BY DEF S!Init, S!MockSecret
<1>p. mpc = [a \in S!Agents |-> IF a = Boot THEN "swap" ELSE IF a \in Users THEN "idle" ELSE "off"]
  BY DEF S!Init
<1>l. \A ls : At(ls) <=> "swap" \in ls
  BY <1>n, <1>m, <1>p DEF At
<1>1. S!TypeOK
  <2>1. event \in BOOLEAN /\ timer \in BOOLEAN /\ unheard \in BOOLEAN
    BY <1>b
  <2>2. /\ mode \in S!Modes /\ target \in S!Modes /\ prev \in S!Modes /\ shown \in S!Modes \cup {"switching"}
        /\ switchMu \in S!Agents \cup {Nobody} /\ key \in Keys \cup {NoKey}
        /\ dotKey \in Keys /\ newKey \in Keys
    BY <1>n, <1>m, <1>k DEF S!Modes
  <2>3. /\ listener \in 0 .. MaxListeners /\ secret \in 0 .. MaxListeners /\ old \in 0 .. MaxListeners
        /\ newProc \in 0 .. MaxListeners /\ forked \in 0 .. MaxListeners
        /\ stale \in 0 .. MaxListeners /\ edits \in 0 .. MaxEdits
    BY <1>n, <1>z
  <2>4. mpc \in [S!Agents -> StripeLabels]
    BY <1>p DEF StripeLabels
  <2>5. layer \in [mode : S!Modes, secret : 0 .. MaxListeners, key : Keys \cup {NoKey}]
    <3>1. "" \in S!Modes
      BY DEF S!Modes
    <3> QED  BY <1>n, <1>z, <3>1
  <2>6. alive \subseteq 1 .. forked
    BY <1>z
  <2> QED  BY <2>1, <2>2, <2>3, <2>4, <2>5, <2>6 DEF S!TypeOK, StripeLabels
<1>4. SwitchLock
  <2>1. \A a \in S!Agents : mpc[a] \in Switching <=> a = Boot
    BY <1>p DEF Switching
  <2>2. \A p \in S!Listeners : mpc[p] = "off"
    BY <1>a, <1>p
  <2>3. \A a \in S!Agents : mpc[a] \in {"swap", "off"} \/ (mpc[a] = "idle" /\ a \in Users)
    BY <1>p
  <2>4. mpc[Dotenv] = "off"
    BY <1>n, <1>u, <1>p
  <2> QED  BY <1>m, <2>1, <2>2, <2>3, <2>4 DEF SwitchLock
<1>5. SwitchOrder
  BY <1>n, <1>m, <1>z, <1>l DEF SwitchOrder
<1>6. OnlyListener /\ ExitWatched
  BY <1>z DEF OnlyListener, ExitWatched
<1>7. KeyFresh /\ ListenEnv
  BY <1>n, <1>m, <1>l DEF KeyFresh, ListenEnv
<1>8. Unedited
  <2>1. mpc[Dotenv] = "off"
    BY <1>n, <1>u, <1>p
  <2>2. layer = S!EnvLayer(mode, secret, key)
    BY <1>m, <1>k, <1>z DEF S!EnvLayer
  <2> QED  BY <1>b, <2>1, <2>2 DEF Unedited
<1> QED  BY <1>1, <1>4, <1>5, <1>6, <1>7, <1>8 DEF StripeIInv

(* A step of the composition is one of the switch, or leaves it alone.     *)
LEMMA StripeMoves == [MCNext]_mcvars => S!Next \/ UNCHANGED stripeVars
BY DEF MCNext, mcvars

(* What leaves it alone keeps the invariant.                               *)
LEMMA StripeStays ==
    ASSUME StripeIInv, UNCHANGED stripeVars
    PROVE  StripeIInv'
<1> USE DEF stripeVars, StripeIInv
<1>1. S!TypeOK'
  BY DEF S!TypeOK
<1>2. SwitchLock'
  BY DEF SwitchLock
<1>3. SwitchOrder'
  BY DEF SwitchOrder, At
<1>4. OnlyListener' /\ ExitWatched'
  BY DEF OnlyListener, ExitWatched, At
<1>5. KeyFresh' /\ ListenEnv' /\ Unedited'
  BY DEF KeyFresh, ListenEnv, Unedited, At, Pending
<1> QED  BY <1>1, <1>2, <1>3, <1>4, <1>5

(* The invariant holds in every behaviour.                                 *)
LEMMA StripeInvariance == MCSpec => []StripeIInv
<1>1. MCInit => StripeIInv
  BY StripeInitOK DEF MCInit
<1>2. StripeIInv /\ [MCNext]_mcvars => StripeIInv'
  <2> SUFFICES ASSUME StripeIInv, [MCNext]_mcvars PROVE StripeIInv'  OBVIOUS
  <2>1. CASE UNCHANGED stripeVars
    BY <2>1, StripeStays
  <2>2. CASE S!Next
    BY <2>2, StripeTypeStep, SwitchLockStep, SwitchOrderStep, OnlyListenerStep, ExitWatchedStep,
       KeyFreshStep, ListenEnvStep, UneditedStep DEF StripeIInv
  <2> QED  BY <2>1, <2>2, StripeMoves
<1> QED  BY <1>1, <1>2, PTL DEF MCSpec

(* The switch counts as the theorems about finite sets do.                 *)
LEMMA SameCardinalityOfListeners == \A s : S!Cardinality(s) = Cardinality(s)
BY DEF S!Cardinality, Cardinality

(* The three that may be running are never there together.                 *)
LEMMA AtMostOneListener ==
    ASSUME StripeIInv
    PROVE  S!OneListener
<1>1. alive \subseteq 1 .. forked
  BY DEF StripeIInv, S!TypeOK
<1>2. At({"stop"}) \/ At({"commit"}) => listener = 0
  BY DEF StripeIInv, SwitchOrder, At
<1>3. ~(At({"stop"}) /\ At({"commit"}))
  BY DEF At
<1>4. ASSUME NEW p \in alive, NEW q \in alive PROVE p = q
  <2>1. p # 0 /\ q # 0
    BY <1>1
  <2> QED  BY <1>2, <1>3, <2>1 DEF StripeIInv, OnlyListener
<1>5. CASE alive = {}
  BY <1>5, FS_EmptySet, SameCardinalityOfListeners DEF S!OneListener
<1>6. CASE alive # {}
  <2>1. PICK p \in alive : alive = {p}
    BY <1>4, <1>6
  <2> QED  BY <2>1, FS_Singleton, SameCardinalityOfListeners DEF S!OneListener
<1> QED  BY <1>5, <1>6

(* One listener; and when all is quiet the mode, the page and the env are  *)
(* those of what runs: listen mode has a listener, whose secret and key    *)
(* the app is given, and the mock has none (stripelisten.go 164-214,       *)
(* 271-305).                                                               *)
THEOREM StripeIsSafe == MCSpec => []StripeInv
<1>1. ASSUME StripeIInv, S!Settled PROVE S!ModeIsReal!2
  <2> USE StripeAssumption DEF S!Agents, S!Listeners
  <2>1. switchMu = Nobody /\ \A p \in S!Listeners : mpc[p] = "watch" => p \in alive
    BY <1>1 DEF S!Settled
  <2>2. shown = mode /\ (mode = "listen" <=> listener # 0)
    BY <1>1, <2>1 DEF StripeIInv, SwitchOrder, At
  <2>3. listener # 0 => listener \in alive
    <3>1. listener \in 0 .. MaxListeners
      BY <1>1 DEF StripeIInv, S!TypeOK
    <3>2. listener # 0 => mpc[listener] = "watch" \/ switchMu = listener
      BY <1>1, <2>1 DEF StripeIInv, ExitWatched, At
    <3>3. listener # 0 => listener # Nobody
      BY <3>1
    <3> QED  BY <2>1, <3>1, <3>2, <3>3
  <2>4. \A q \in alive : q = listener /\ q # 0
    BY <1>1, <2>1 DEF StripeIInv, OnlyListener, At, S!TypeOK
  <2>5. alive = {listener} \ {0}
    BY <2>3, <2>4
  <2> QED  BY <2>2, <2>5
<1>2. ASSUME StripeIInv, S!Settled, mode = "listen", ~unheard PROVE S!ListenEnvIsCurrent!2
  <2>1. switchMu = Nobody /\ ~Pending
    BY <1>2 DEF S!Settled, Pending
  <2>2. key = dotKey /\ layer = S!EnvLayer("listen", secret, key)
    BY <1>2, <2>1 DEF StripeIInv, ListenEnv
  <2>3. secret = listener
    BY <1>2, <2>1 DEF StripeIInv, SwitchOrder, At
  <2> QED  BY <2>2, <2>3
<1>3. ASSUME StripeIInv, S!Settled, edits = 0 PROVE layer = S!EnvLayer(mode, secret, key)
  BY <1>3 DEF S!Settled, StripeIInv, Unedited, At
<1>4. StripeIInv => StripeInv
  <2> SUFFICES ASSUME StripeIInv PROVE StripeInv  OBVIOUS
  <2>1. S!ModeIsReal
    BY <1>1 DEF S!ModeIsReal
  <2>2. S!ListenEnvIsCurrent
    BY <1>2 DEF S!ListenEnvIsCurrent
  <2>3. S!EnvMatchesMode
    BY <1>3 DEF S!EnvMatchesMode
  <2> QED  BY <2>1, <2>2, <2>3, AtMostOneListener DEF StripeInv, S!Inv, StripeIInv
<1> QED  BY <1>4, StripeInvariance, PTL
=============================================================================
