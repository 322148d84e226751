------------------------ MODULE DevScheduler_proofs ------------------------
(***************************************************************************)
(* Proofs about DevScheduler, for every set of rules, dependency relation  *)
(* and set of callers.                                                     *)
(***************************************************************************)
EXTENDS DevScheduler, FiniteSetTheorems, WellFoundedInduction, TLAPS

(* What a position of the order is, and that no rule depends on itself.    *)
LEMMA OrderFacts ==
    ASSUME TypeOK
    PROVE  /\ Cardinality(Rules) \in Nat
           /\ order \in [Rules -> 1 .. Cardinality(Rules)]
           /\ \A r \in Rules : \A d \in Depends[r] : d \in Rules /\ order[d] < order[r]
           /\ \A p \in 1 .. Cardinality(Rules) : \E r \in Rules : order[r] = p
BY RulesAssumption, FS_CardinalityType DEF TypeOK, Orders

(* The initial build is at a rule as long as it has not passed the end.    *)
LEMMA BuildingIsRule ==
    ASSUME TypeOK, at \in 1 .. Cardinality(Rules)
    PROVE  Building \in Rules
BY OrderFacts DEF Building

(* The first dirty rule in order has no dirty dependency, so the drain     *)
(* stops only when nothing is dirty (devserver.go 960-993).                *)
LEMMA SomethingReady ==
    ASSUME TypeOK, dirty # {}
    PROVE  \E r \in Rules : Ready(r)
<1> DEFINE T == {order[r] : r \in dirty}
<1>1. T \subseteq Nat /\ T # {}
  BY OrderFacts DEF TypeOK
<1>2. PICK x \in T : \A y \in T : ~ (<<y, x>> \in OpToRel(<, Nat))
  <2> HIDE DEF T
  <2> QED BY <1>1, WFMin, NatLessThanWellFounded, Zenon
<1>3. PICK r \in dirty : x = order[r]
  OBVIOUS
<1>4. \A y \in T : ~ (y < x)
  BY <1>1, <1>2 DEF OpToRel
<1>5. \A d \in Depends[r] : d \notin dirty
  BY <1>3, <1>4, OrderFacts DEF TypeOK
<1> QED BY <1>3, <1>5 DEF Ready, TypeOK

(* Where a handler is says what it holds: the initial build has a rule in  *)
(* hand while its command or process runs, before the scheduler exists; and the *)
(* scheduler holds exactly the rule it marked running.                     *)
InHand ==
    /\ main \in {"cmd", "run"} => at <= Cardinality(Rules)
    /\ main \in {"next", "cmd", "run"} => sched = "none"
    /\ IF sched \in {"wait", "cmd", "run"}
          THEN cur \in Rules /\ running = {cur}
          ELSE cur = NoRule /\ running = {}

IInv == TypeOK /\ InHand /\ NoLostWakeup /\ OwedIsQueued /\ QuietWhenDown

(* The inductive invariant holds when Run begins.                         *)
LEMMA InitIInv == Init => IInv
<1> SUFFICES ASSUME Init PROVE IInv
  OBVIOUS
<1>1. Cardinality(Rules) \in Nat
  BY RulesAssumption, FS_CardinalityType
<1>2. TypeOK
  <2>1. at \in 1 .. Cardinality(Rules) + 1 /\ order \in Orders
    BY <1>1 DEF Init
  <2>2. todo \in [Callers -> SUBSET Rules] /\ marked \in [Callers -> BOOLEAN]
    BY DEF Init
  <2> QED BY <2>1, <2>2 DEF Init, TypeOK
<1>3. InHand /\ NoLostWakeup /\ QuietWhenDown
  BY DEF Init, InHand, NoLostWakeup, QuietWhenDown
<1>4. OwedIsQueued
  BY <1>2, OrderFacts DEF Init, OwedIsQueued
<1> QED BY <1>2, <1>3, <1>4 DEF IInv

(* Every step keeps every variable in its type.                            *)
LEMMA TypeStep ==
    ASSUME IInv, [Next]_vars
    PROVE  TypeOK'
<1> USE DEF IInv, TypeOK
<1>1. CASE BootCancelled
  BY <1>1 DEF BootCancelled, Goto, vars, mainVars, ctlVars, queueVars, schedVars, outVars, envVars
<1>2. CASE BootSkip
  BY <1>2, OrderFacts, BuildingIsRule DEF BootSkip, vars, mainVars, ctlVars, queueVars, schedVars, outVars, envVars
<1>3. CASE BootBegin
  BY <1>3, OrderFacts, BuildingIsRule DEF BootBegin, Goto, BeginCmd, vars, mainVars, ctlVars, queueVars, schedVars, outVars, envVars
<1>4. CASE BootCmdDone
  BY <1>4, OrderFacts, BuildingIsRule DEF BootCmdDone, Goto, CmdOK, CmdFailed, InHand, vars, mainVars, ctlVars, queueVars, schedVars, outVars, envVars
<1>5. CASE BootRun
  BY <1>5, OrderFacts, BuildingIsRule DEF BootRun, StartProcess, InHand, vars, mainVars, ctlVars, queueVars, schedVars, outVars, envVars
<1>6. CASE StartWatching
  <2>1. editing' \in BOOLEAN /\ watching' \in BOOLEAN
    BY <1>6 DEF StartWatching, vars, mainVars, ctlVars, queueVars, schedVars, outVars, envVars
  <2> QED BY <1>6, <2>1 DEF StartWatching, Goto, vars, mainVars, ctlVars, queueVars, schedVars, outVars, envVars
<1>7. ASSUME NEW r \in Rules, LoopTakeEvent(r) PROVE TypeOK'
  BY <1>7 DEF LoopTakeEvent, Goto, vars, mainVars, ctlVars, queueVars, schedVars, outVars, envVars
<1>8. CASE LoopNotify
  BY <1>8 DEF LoopNotify, Goto, vars, mainVars, ctlVars, queueVars, schedVars, outVars, envVars
<1>9. CASE LoopRestart
  BY <1>9 DEF LoopRestart, Goto, vars, mainVars, ctlVars, queueVars, schedVars, outVars, envVars
<1>10. CASE LoopCancelled
  BY <1>10 DEF LoopCancelled, Goto, vars, mainVars, ctlVars, queueVars, schedVars, outVars, envVars
<1>11. CASE Farewell
  BY <1>11 DEF Farewell, Goto, vars, mainVars, ctlVars, queueVars, schedVars, outVars, envVars
<1>12. CASE ClearCallbacksAndCancel
  BY <1>12 DEF ClearCallbacksAndCancel, Goto, vars, mainVars, ctlVars, queueVars, schedVars, outVars, envVars
<1>13. CASE WaitAndStopAll
  BY <1>13 DEF WaitAndStopAll, Goto, vars, mainVars, ctlVars, queueVars, schedVars, outVars, envVars
<1>14. CASE TakeToken
  <2>1. token' \in BOOLEAN
    BY <1>14 DEF TakeToken
  <2>2. UNCHANGED <<mainVars, ctlVars, dirty, feed, todo, marked, outVars, envVars>>
    BY <1>14 DEF TakeToken
  <2>3. sched' = "batch" /\ UNCHANGED <<cur, running>>
    BY <1>14 DEF TakeToken, SchedGoto
  <2> QED  BY <2>1, <2>2, <2>3 DEF mainVars, ctlVars, outVars, envVars
<1>15. CASE Absorb
  <2>1. token' \in BOOLEAN
    BY <1>15 DEF Absorb
  <2>2. UNCHANGED <<mainVars, ctlVars, dirty, feed, todo, marked, schedVars, outVars, envVars>>
    BY <1>15 DEF Absorb
  <2> QED  BY <2>1, <2>2 DEF mainVars, ctlVars, schedVars, outVars, envVars
<1>16. CASE BatchOver
  BY <1>16 DEF BatchOver, SchedGoto, vars, mainVars, ctlVars, queueVars, schedVars, outVars, envVars
<1>17. CASE SchedExit
  BY <1>17 DEF SchedExit, SchedGoto, DrainStops, vars, mainVars, ctlVars, queueVars, schedVars, outVars, envVars
<1>18. CASE DrainCheck
  BY <1>18 DEF DrainCheck, SchedGoto, DrainStops, vars, mainVars, ctlVars, queueVars, schedVars, outVars, envVars
<1>19. ASSUME NEW r \in Rules, Pick(r) PROVE TypeOK'
  BY <1>19 DEF Pick, Ready, vars, mainVars, ctlVars, queueVars, schedVars, outVars, envVars
<1>20. CASE Drained
  BY <1>20 DEF Drained, SchedGoto, vars, mainVars, ctlVars, queueVars, schedVars, outVars, envVars
<1>21. CASE DepsDone
  BY <1>21 DEF DepsDone, SchedGoto, BeginCmd, InHand, vars, mainVars, ctlVars, queueVars, schedVars, outVars, envVars
<1>22. CASE DepsCancelled
  BY <1>22 DEF DepsCancelled, Return, vars, mainVars, ctlVars, queueVars, schedVars, outVars, envVars
<1>23. CASE CmdDone
  BY <1>23 DEF CmdDone, SchedGoto, CmdOK, CmdFailed, Return, InHand, vars, mainVars, ctlVars, queueVars, schedVars, outVars, envVars
<1>24. CASE RestartAndReload
  BY <1>24 DEF RestartAndReload, StartProcess, Return, InHand, vars, mainVars, ctlVars, queueVars, schedVars, outVars, envVars
<1>25. ASSUME NEW c \in Callers, Ask(c) PROVE TypeOK'
  BY <1>25 DEF Ask, vars, mainVars, ctlVars, queueVars, schedVars, outVars, envVars
<1>26. ASSUME NEW c \in Callers, MarkDirty(c) PROVE TypeOK'
  BY <1>26 DEF MarkDirty, vars, mainVars, ctlVars, queueVars, schedVars, outVars, envVars
<1>27. ASSUME NEW c \in Callers, OfferToken(c) PROVE TypeOK'
  BY <1>27 DEF OfferToken, vars, mainVars, ctlVars, queueVars, schedVars, outVars, envVars
<1>28. ASSUME NEW r \in Rules, Crash(r) PROVE TypeOK'
  BY <1>28 DEF Crash, vars, mainVars, ctlVars, queueVars, schedVars, outVars, envVars
<1>29. ASSUME NEW r \in Rules, ReportExit(r) PROVE TypeOK'
  BY <1>29 DEF ReportExit, vars, mainVars, ctlVars, queueVars, schedVars, outVars, envVars
<1>30. ASSUME NEW r \in Rules, FileChanged(r) PROVE TypeOK'
  BY <1>30 DEF FileChanged, vars, mainVars, ctlVars, queueVars, schedVars, outVars, envVars
<1>31. CASE RequestRestart
  BY <1>31 DEF RequestRestart, vars, mainVars, ctlVars, queueVars, schedVars, outVars, envVars
<1>32. CASE Quit
  BY <1>32 DEF Quit, vars, mainVars, ctlVars, queueVars, schedVars, outVars, envVars
<1>33. CASE StopEditing
  <2>1. editing' \in BOOLEAN
    BY <1>33 DEF StopEditing
  <2> QED BY <1>33, <2>1 DEF StopEditing, vars, mainVars, ctlVars, queueVars, schedVars, outVars, envVars
<1>34. CASE UNCHANGED vars
  BY <1>34 DEF vars, mainVars, ctlVars, queueVars, schedVars, outVars, envVars
<1> QED
  BY <1>1, <1>2, <1>3, <1>4, <1>5, <1>6, <1>7, <1>8, <1>9, <1>10, <1>11, <1>12, <1>13, <1>14, <1>15, <1>16, <1>17, <1>18, <1>19, <1>20, <1>21, <1>22, <1>23, <1>24, <1>25, <1>26, <1>27, <1>28, <1>29, <1>30, <1>31, <1>32, <1>33, <1>34 DEF Next, MainStep, SchedStep

(* Picking a rule is the only way to hold one, and every way out of        *)
(* handleEvent lets go of it and closes its node.                          *)
LEMMA InHandStep ==
    ASSUME IInv, [Next]_vars
    PROVE  InHand'
<1> USE DEF IInv, TypeOK, InHand
<1>1. CASE BootCancelled
  BY <1>1 DEF BootCancelled, Goto, vars, mainVars, ctlVars, queueVars, schedVars, outVars, envVars
<1>2. CASE BootSkip
  BY <1>2 DEF BootSkip, vars, mainVars, ctlVars, queueVars, schedVars, outVars, envVars
<1>3. CASE BootBegin
  BY <1>3 DEF BootBegin, Goto, BeginCmd, vars, mainVars, ctlVars, queueVars, schedVars, outVars, envVars
<1>4. CASE BootCmdDone
  BY <1>4 DEF BootCmdDone, Goto, CmdOK, CmdFailed, vars, mainVars, ctlVars, queueVars, schedVars, outVars, envVars
<1>5. CASE BootRun
  BY <1>5 DEF BootRun, StartProcess, vars, mainVars, ctlVars, queueVars, schedVars, outVars, envVars
<1>6. CASE StartWatching
  BY <1>6 DEF StartWatching, Goto, vars, mainVars, ctlVars, queueVars, schedVars, outVars, envVars
<1>7. ASSUME NEW r \in Rules, LoopTakeEvent(r) PROVE InHand'
  BY <1>7 DEF LoopTakeEvent, Goto, vars, mainVars, ctlVars, queueVars, schedVars, outVars, envVars
<1>8. CASE LoopNotify
  BY <1>8 DEF LoopNotify, Goto, vars, mainVars, ctlVars, queueVars, schedVars, outVars, envVars
<1>9. CASE LoopRestart
  BY <1>9 DEF LoopRestart, Goto, vars, mainVars, ctlVars, queueVars, schedVars, outVars, envVars
<1>10. CASE LoopCancelled
  BY <1>10 DEF LoopCancelled, Goto, vars, mainVars, ctlVars, queueVars, schedVars, outVars, envVars
<1>11. CASE Farewell
  BY <1>11 DEF Farewell, Goto, vars, mainVars, ctlVars, queueVars, schedVars, outVars, envVars
<1>12. CASE ClearCallbacksAndCancel
  BY <1>12 DEF ClearCallbacksAndCancel, Goto, vars, mainVars, ctlVars, queueVars, schedVars, outVars, envVars
<1>13. CASE WaitAndStopAll
  BY <1>13 DEF WaitAndStopAll, Goto, vars, mainVars, ctlVars, queueVars, schedVars, outVars, envVars
<1>14. CASE TakeToken
  BY <1>14 DEF TakeToken, SchedGoto, vars, mainVars, ctlVars, queueVars, schedVars, outVars, envVars
<1>15. CASE Absorb
  BY <1>15 DEF Absorb, vars, mainVars, ctlVars, queueVars, schedVars, outVars, envVars
<1>16. CASE BatchOver
  BY <1>16 DEF BatchOver, SchedGoto, vars, mainVars, ctlVars, queueVars, schedVars, outVars, envVars
<1>17. CASE SchedExit
  BY <1>17 DEF SchedExit, SchedGoto, DrainStops, vars, mainVars, ctlVars, queueVars, schedVars, outVars, envVars
<1>18. CASE DrainCheck
  BY <1>18 DEF DrainCheck, SchedGoto, DrainStops, vars, mainVars, ctlVars, queueVars, schedVars, outVars, envVars
<1>19. ASSUME NEW r \in Rules, Pick(r) PROVE InHand'
  BY <1>19 DEF Pick, Ready, vars, mainVars, ctlVars, queueVars, schedVars, outVars, envVars
<1>20. CASE Drained
  BY <1>20 DEF Drained, SchedGoto, vars, mainVars, ctlVars, queueVars, schedVars, outVars, envVars
<1>21. CASE DepsDone
  BY <1>21 DEF DepsDone, SchedGoto, BeginCmd, vars, mainVars, ctlVars, queueVars, schedVars, outVars, envVars
<1>22. CASE DepsCancelled
  BY <1>22 DEF DepsCancelled, Return, vars, mainVars, ctlVars, queueVars, schedVars, outVars, envVars
<1>23. CASE CmdDone
  BY <1>23 DEF CmdDone, SchedGoto, CmdOK, CmdFailed, Return, vars, mainVars, ctlVars, queueVars, schedVars, outVars, envVars
<1>24. CASE RestartAndReload
  BY <1>24 DEF RestartAndReload, StartProcess, Return, vars, mainVars, ctlVars, queueVars, schedVars, outVars, envVars
<1>25. ASSUME NEW c \in Callers, Ask(c) PROVE InHand'
  BY <1>25 DEF Ask, vars, mainVars, ctlVars, queueVars, schedVars, outVars, envVars
<1>26. ASSUME NEW c \in Callers, MarkDirty(c) PROVE InHand'
  BY <1>26 DEF MarkDirty, vars, mainVars, ctlVars, queueVars, schedVars, outVars, envVars
<1>27. ASSUME NEW c \in Callers, OfferToken(c) PROVE InHand'
  BY <1>27 DEF OfferToken, vars, mainVars, ctlVars, queueVars, schedVars, outVars, envVars
<1>28. ASSUME NEW r \in Rules, Crash(r) PROVE InHand'
  BY <1>28 DEF Crash, vars, mainVars, ctlVars, queueVars, schedVars, outVars, envVars
<1>29. ASSUME NEW r \in Rules, ReportExit(r) PROVE InHand'
  BY <1>29 DEF ReportExit, vars, mainVars, ctlVars, queueVars, schedVars, outVars, envVars
<1>30. ASSUME NEW r \in Rules, FileChanged(r) PROVE InHand'
  BY <1>30 DEF FileChanged, vars, mainVars, ctlVars, queueVars, schedVars, outVars, envVars
<1>31. CASE RequestRestart
  BY <1>31 DEF RequestRestart, vars, mainVars, ctlVars, queueVars, schedVars, outVars, envVars
<1>32. CASE Quit
  BY <1>32 DEF Quit, vars, mainVars, ctlVars, queueVars, schedVars, outVars, envVars
<1>33. CASE StopEditing
  BY <1>33 DEF StopEditing, vars, mainVars, ctlVars, queueVars, schedVars, outVars, envVars
<1>34. CASE UNCHANGED vars
  BY <1>34 DEF vars, mainVars, ctlVars, queueVars, schedVars, outVars, envVars
<1> QED
  BY <1>1, <1>2, <1>3, <1>4, <1>5, <1>6, <1>7, <1>8, <1>9, <1>10, <1>11, <1>12, <1>13, <1>14, <1>15, <1>16, <1>17, <1>18, <1>19, <1>20, <1>21, <1>22, <1>23, <1>24, <1>25, <1>26, <1>27, <1>28, <1>29, <1>30, <1>31, <1>32, <1>33, <1>34 DEF Next, MainStep, SchedStep

(* The token is offered after the rule is marked, and the drain stops only *)
(* when no rule is ready, which is when none is dirty.                     *)
LEMMA WakeupStep ==
    ASSUME IInv, [Next]_vars
    PROVE  NoLostWakeup'
<1> USE DEF IInv, TypeOK, InHand, NoLostWakeup, Notifying
<1>1. CASE BootCancelled
  BY <1>1 DEF BootCancelled, Goto, vars, mainVars, ctlVars, queueVars, schedVars, outVars, envVars
<1>2. CASE BootSkip
  BY <1>2 DEF BootSkip, vars, mainVars, ctlVars, queueVars, schedVars, outVars, envVars
<1>3. CASE BootBegin
  BY <1>3 DEF BootBegin, Goto, BeginCmd, vars, mainVars, ctlVars, queueVars, schedVars, outVars, envVars
<1>4. CASE BootCmdDone
  BY <1>4 DEF BootCmdDone, Goto, CmdOK, CmdFailed, vars, mainVars, ctlVars, queueVars, schedVars, outVars, envVars
<1>5. CASE BootRun
  BY <1>5 DEF BootRun, StartProcess, vars, mainVars, ctlVars, queueVars, schedVars, outVars, envVars
<1>6. CASE StartWatching
  BY <1>6 DEF StartWatching, Goto, vars, mainVars, ctlVars, queueVars, schedVars, outVars, envVars
<1>7. ASSUME NEW r \in Rules, LoopTakeEvent(r) PROVE NoLostWakeup'
  BY <1>7 DEF LoopTakeEvent, Goto, vars, mainVars, ctlVars, queueVars, schedVars, outVars, envVars
<1>8. CASE LoopNotify
  BY <1>8 DEF LoopNotify, Goto, vars, mainVars, ctlVars, queueVars, schedVars, outVars, envVars
<1>9. CASE LoopRestart
  BY <1>9 DEF LoopRestart, Goto, vars, mainVars, ctlVars, queueVars, schedVars, outVars, envVars
<1>10. CASE LoopCancelled
  BY <1>10 DEF LoopCancelled, Goto, vars, mainVars, ctlVars, queueVars, schedVars, outVars, envVars
<1>11. CASE Farewell
  BY <1>11 DEF Farewell, Goto, vars, mainVars, ctlVars, queueVars, schedVars, outVars, envVars
<1>12. CASE ClearCallbacksAndCancel
  BY <1>12 DEF ClearCallbacksAndCancel, Goto, vars, mainVars, ctlVars, queueVars, schedVars, outVars, envVars
<1>13. CASE WaitAndStopAll
  BY <1>13 DEF WaitAndStopAll, Goto, vars, mainVars, ctlVars, queueVars, schedVars, outVars, envVars
<1>14. CASE TakeToken
  BY <1>14 DEF TakeToken, SchedGoto, vars, mainVars, ctlVars, queueVars, schedVars, outVars, envVars
<1>15. CASE Absorb
  BY <1>15 DEF Absorb, vars, mainVars, ctlVars, queueVars, schedVars, outVars, envVars
<1>16. CASE BatchOver
  BY <1>16 DEF BatchOver, SchedGoto, vars, mainVars, ctlVars, queueVars, schedVars, outVars, envVars
<1>17. CASE SchedExit
  BY <1>17 DEF SchedExit, SchedGoto, DrainStops, vars, mainVars, ctlVars, queueVars, schedVars, outVars, envVars
<1>18. CASE DrainCheck
  BY <1>18 DEF DrainCheck, SchedGoto, DrainStops, vars, mainVars, ctlVars, queueVars, schedVars, outVars, envVars
<1>19. ASSUME NEW r \in Rules, Pick(r) PROVE NoLostWakeup'
  BY <1>19 DEF Pick, Ready, vars, mainVars, ctlVars, queueVars, schedVars, outVars, envVars
<1>20. CASE Drained
  BY <1>20, SomethingReady DEF Drained, SchedGoto, vars, mainVars, ctlVars, queueVars, schedVars, outVars, envVars
<1>21. CASE DepsDone
  BY <1>21 DEF DepsDone, SchedGoto, BeginCmd, vars, mainVars, ctlVars, queueVars, schedVars, outVars, envVars
<1>22. CASE DepsCancelled
  BY <1>22 DEF DepsCancelled, Return, vars, mainVars, ctlVars, queueVars, schedVars, outVars, envVars
<1>23. CASE CmdDone
  BY <1>23 DEF CmdDone, SchedGoto, CmdOK, CmdFailed, Return, vars, mainVars, ctlVars, queueVars, schedVars, outVars, envVars
<1>24. CASE RestartAndReload
  BY <1>24 DEF RestartAndReload, StartProcess, Return, vars, mainVars, ctlVars, queueVars, schedVars, outVars, envVars
<1>25. ASSUME NEW c \in Callers, Ask(c) PROVE NoLostWakeup'
  BY <1>25 DEF Ask, vars, mainVars, ctlVars, queueVars, schedVars, outVars, envVars
<1>26. ASSUME NEW c \in Callers, MarkDirty(c) PROVE NoLostWakeup'
  BY <1>26 DEF MarkDirty, vars, mainVars, ctlVars, queueVars, schedVars, outVars, envVars
<1>27. ASSUME NEW c \in Callers, OfferToken(c) PROVE NoLostWakeup'
  BY <1>27 DEF OfferToken, vars, mainVars, ctlVars, queueVars, schedVars, outVars, envVars
<1>28. ASSUME NEW r \in Rules, Crash(r) PROVE NoLostWakeup'
  BY <1>28 DEF Crash, vars, mainVars, ctlVars, queueVars, schedVars, outVars, envVars
<1>29. ASSUME NEW r \in Rules, ReportExit(r) PROVE NoLostWakeup'
  BY <1>29 DEF ReportExit, vars, mainVars, ctlVars, queueVars, schedVars, outVars, envVars
<1>30. ASSUME NEW r \in Rules, FileChanged(r) PROVE NoLostWakeup'
  BY <1>30 DEF FileChanged, vars, mainVars, ctlVars, queueVars, schedVars, outVars, envVars
<1>31. CASE RequestRestart
  BY <1>31 DEF RequestRestart, vars, mainVars, ctlVars, queueVars, schedVars, outVars, envVars
<1>32. CASE Quit
  BY <1>32 DEF Quit, vars, mainVars, ctlVars, queueVars, schedVars, outVars, envVars
<1>33. CASE StopEditing
  BY <1>33 DEF StopEditing, vars, mainVars, ctlVars, queueVars, schedVars, outVars, envVars
<1>34. CASE UNCHANGED vars
  BY <1>34 DEF vars, mainVars, ctlVars, queueVars, schedVars, outVars, envVars
<1> QED
  BY <1>1, <1>2, <1>3, <1>4, <1>5, <1>6, <1>7, <1>8, <1>9, <1>10, <1>11, <1>12, <1>13, <1>14, <1>15, <1>16, <1>17, <1>18, <1>19, <1>20, <1>21, <1>22, <1>23, <1>24, <1>25, <1>26, <1>27, <1>28, <1>29, <1>30, <1>31, <1>32, <1>33, <1>34 DEF Next, MainStep, SchedStep

(* No step loses a change: what takes a rule out of the feed or the dirty  *)
(* map puts it where it will be built.                                     *)
LEMMA OwedStep ==
    ASSUME IInv, [Next]_vars
    PROVE  OwedIsQueued'
<1> USE DEF IInv, TypeOK, InHand, OwedIsQueued
<1>1. CASE BootCancelled
  BY <1>1 DEF BootCancelled, Goto, vars, mainVars, ctlVars, queueVars, schedVars, outVars, envVars
<1>2. CASE BootSkip
  BY <1>2, OrderFacts, BuildingIsRule DEF BootSkip, Building, vars, mainVars, ctlVars, queueVars, schedVars, outVars, envVars
<1>3. CASE BootBegin
  BY <1>3, OrderFacts, BuildingIsRule DEF BootBegin, Goto, BeginCmd, Building, vars, mainVars, ctlVars, queueVars, schedVars, outVars, envVars
<1>4. CASE BootCmdDone
  BY <1>4, OrderFacts DEF BootCmdDone, Goto, CmdOK, CmdFailed, vars, mainVars, ctlVars, queueVars, schedVars, outVars, envVars
<1>5. CASE BootRun
  BY <1>5, OrderFacts DEF BootRun, StartProcess, vars, mainVars, ctlVars, queueVars, schedVars, outVars, envVars
<1>6. CASE StartWatching
  BY <1>6, OrderFacts DEF StartWatching, Goto, vars, mainVars, ctlVars, queueVars, schedVars, outVars, envVars
<1>7. ASSUME NEW r \in Rules, LoopTakeEvent(r) PROVE OwedIsQueued'
  BY <1>7, OrderFacts DEF LoopTakeEvent, Goto, vars, mainVars, ctlVars, queueVars, schedVars, outVars, envVars
<1>8. CASE LoopNotify
  BY <1>8 DEF LoopNotify, Goto, vars, mainVars, ctlVars, queueVars, schedVars, outVars, envVars
<1>9. CASE LoopRestart
  BY <1>9 DEF LoopRestart, Goto, vars, mainVars, ctlVars, queueVars, schedVars, outVars, envVars
<1>10. CASE LoopCancelled
  BY <1>10 DEF LoopCancelled, Goto, vars, mainVars, ctlVars, queueVars, schedVars, outVars, envVars
<1>11. CASE Farewell
  BY <1>11 DEF Farewell, Goto, vars, mainVars, ctlVars, queueVars, schedVars, outVars, envVars
<1>12. CASE ClearCallbacksAndCancel
  BY <1>12 DEF ClearCallbacksAndCancel, Goto, vars, mainVars, ctlVars, queueVars, schedVars, outVars, envVars
<1>13. CASE WaitAndStopAll
  BY <1>13 DEF WaitAndStopAll, Goto, vars, mainVars, ctlVars, queueVars, schedVars, outVars, envVars
<1>14. CASE TakeToken
  BY <1>14 DEF TakeToken, SchedGoto, vars, mainVars, ctlVars, queueVars, schedVars, outVars, envVars
<1>15. CASE Absorb
  BY <1>15 DEF Absorb, vars, mainVars, ctlVars, queueVars, schedVars, outVars, envVars
<1>16. CASE BatchOver
  BY <1>16 DEF BatchOver, SchedGoto, vars, mainVars, ctlVars, queueVars, schedVars, outVars, envVars
<1>17. CASE SchedExit
  BY <1>17 DEF SchedExit, SchedGoto, DrainStops, vars, mainVars, ctlVars, queueVars, schedVars, outVars, envVars
<1>18. CASE DrainCheck
  BY <1>18 DEF DrainCheck, SchedGoto, DrainStops, vars, mainVars, ctlVars, queueVars, schedVars, outVars, envVars
<1>19. ASSUME NEW r \in Rules, Pick(r) PROVE OwedIsQueued'
  BY <1>19, OrderFacts DEF Pick, Ready, vars, mainVars, ctlVars, queueVars, schedVars, outVars, envVars
<1>20. CASE Drained
  BY <1>20 DEF Drained, SchedGoto, vars, mainVars, ctlVars, queueVars, schedVars, outVars, envVars
<1>21. CASE DepsDone
  BY <1>21 DEF DepsDone, SchedGoto, BeginCmd, vars, mainVars, ctlVars, queueVars, schedVars, outVars, envVars
<1>22. CASE DepsCancelled
  BY <1>22 DEF DepsCancelled, Return, vars, mainVars, ctlVars, queueVars, schedVars, outVars, envVars
<1>23. CASE CmdDone
  BY <1>23 DEF CmdDone, SchedGoto, CmdOK, CmdFailed, Return, vars, mainVars, ctlVars, queueVars, schedVars, outVars, envVars
<1>24. CASE RestartAndReload
  BY <1>24 DEF RestartAndReload, StartProcess, Return, vars, mainVars, ctlVars, queueVars, schedVars, outVars, envVars
<1>25. ASSUME NEW c \in Callers, Ask(c) PROVE OwedIsQueued'
  BY <1>25 DEF Ask, vars, mainVars, ctlVars, queueVars, schedVars, outVars, envVars
<1>26. ASSUME NEW c \in Callers, MarkDirty(c) PROVE OwedIsQueued'
  BY <1>26 DEF MarkDirty, vars, mainVars, ctlVars, queueVars, schedVars, outVars, envVars
<1>27. ASSUME NEW c \in Callers, OfferToken(c) PROVE OwedIsQueued'
  BY <1>27 DEF OfferToken, vars, mainVars, ctlVars, queueVars, schedVars, outVars, envVars
<1>28. ASSUME NEW r \in Rules, Crash(r) PROVE OwedIsQueued'
  BY <1>28 DEF Crash, vars, mainVars, ctlVars, queueVars, schedVars, outVars, envVars
<1>29. ASSUME NEW r \in Rules, ReportExit(r) PROVE OwedIsQueued'
  BY <1>29 DEF ReportExit, vars, mainVars, ctlVars, queueVars, schedVars, outVars, envVars
<1>30. ASSUME NEW r \in Rules, FileChanged(r) PROVE OwedIsQueued'
  BY <1>30 DEF FileChanged, vars, mainVars, ctlVars, queueVars, schedVars, outVars, envVars
<1>31. CASE RequestRestart
  BY <1>31 DEF RequestRestart, vars, mainVars, ctlVars, queueVars, schedVars, outVars, envVars
<1>32. CASE Quit
  BY <1>32 DEF Quit, vars, mainVars, ctlVars, queueVars, schedVars, outVars, envVars
<1>33. CASE StopEditing
  BY <1>33 DEF StopEditing, vars, mainVars, ctlVars, queueVars, schedVars, outVars, envVars
<1>34. CASE UNCHANGED vars
  BY <1>34 DEF vars, mainVars, ctlVars, queueVars, schedVars, outVars, envVars
<1> QED
  BY <1>1, <1>2, <1>3, <1>4, <1>5, <1>6, <1>7, <1>8, <1>9, <1>10, <1>11, <1>12, <1>13, <1>14, <1>15, <1>16, <1>17, <1>18, <1>19, <1>20, <1>21, <1>22, <1>23, <1>24, <1>25, <1>26, <1>27, <1>28, <1>29, <1>30, <1>31, <1>32, <1>33, <1>34 DEF Next, MainStep, SchedStep

(* Once Run is down no goroutine of it can start a process.                *)
LEMMA QuietStep ==
    ASSUME IInv, [Next]_vars
    PROVE  QuietWhenDown'
<1> USE DEF IInv, TypeOK, InHand, QuietWhenDown
<1>1. CASE BootCancelled
  BY <1>1 DEF BootCancelled, Goto, vars, mainVars, ctlVars, queueVars, schedVars, outVars, envVars
<1>2. CASE BootSkip
  BY <1>2 DEF BootSkip, vars, mainVars, ctlVars, queueVars, schedVars, outVars, envVars
<1>3. CASE BootBegin
  BY <1>3 DEF BootBegin, Goto, BeginCmd, vars, mainVars, ctlVars, queueVars, schedVars, outVars, envVars
<1>4. CASE BootCmdDone
  BY <1>4 DEF BootCmdDone, Goto, CmdOK, CmdFailed, vars, mainVars, ctlVars, queueVars, schedVars, outVars, envVars
<1>5. CASE BootRun
  BY <1>5 DEF BootRun, StartProcess, vars, mainVars, ctlVars, queueVars, schedVars, outVars, envVars
<1>6. CASE StartWatching
  BY <1>6 DEF StartWatching, Goto, vars, mainVars, ctlVars, queueVars, schedVars, outVars, envVars
<1>7. ASSUME NEW r \in Rules, LoopTakeEvent(r) PROVE QuietWhenDown'
  BY <1>7 DEF LoopTakeEvent, Goto, vars, mainVars, ctlVars, queueVars, schedVars, outVars, envVars
<1>8. CASE LoopNotify
  BY <1>8 DEF LoopNotify, Goto, vars, mainVars, ctlVars, queueVars, schedVars, outVars, envVars
<1>9. CASE LoopRestart
  BY <1>9 DEF LoopRestart, Goto, vars, mainVars, ctlVars, queueVars, schedVars, outVars, envVars
<1>10. CASE LoopCancelled
  BY <1>10 DEF LoopCancelled, Goto, vars, mainVars, ctlVars, queueVars, schedVars, outVars, envVars
<1>11. CASE Farewell
  BY <1>11 DEF Farewell, Goto, vars, mainVars, ctlVars, queueVars, schedVars, outVars, envVars
<1>12. CASE ClearCallbacksAndCancel
  BY <1>12 DEF ClearCallbacksAndCancel, Goto, vars, mainVars, ctlVars, queueVars, schedVars, outVars, envVars
<1>13. CASE WaitAndStopAll
  BY <1>13 DEF WaitAndStopAll, Goto, vars, mainVars, ctlVars, queueVars, schedVars, outVars, envVars
<1>14. CASE TakeToken
  BY <1>14 DEF TakeToken, SchedGoto, vars, mainVars, ctlVars, queueVars, schedVars, outVars, envVars
<1>15. CASE Absorb
  BY <1>15 DEF Absorb, vars, mainVars, ctlVars, queueVars, schedVars, outVars, envVars
<1>16. CASE BatchOver
  BY <1>16 DEF BatchOver, SchedGoto, vars, mainVars, ctlVars, queueVars, schedVars, outVars, envVars
<1>17. CASE SchedExit
  BY <1>17 DEF SchedExit, SchedGoto, DrainStops, vars, mainVars, ctlVars, queueVars, schedVars, outVars, envVars
<1>18. CASE DrainCheck
  BY <1>18 DEF DrainCheck, SchedGoto, DrainStops, vars, mainVars, ctlVars, queueVars, schedVars, outVars, envVars
<1>19. ASSUME NEW r \in Rules, Pick(r) PROVE QuietWhenDown'
  BY <1>19 DEF Pick, Ready, vars, mainVars, ctlVars, queueVars, schedVars, outVars, envVars
<1>20. CASE Drained
  BY <1>20 DEF Drained, SchedGoto, vars, mainVars, ctlVars, queueVars, schedVars, outVars, envVars
<1>21. CASE DepsDone
  BY <1>21 DEF DepsDone, SchedGoto, BeginCmd, vars, mainVars, ctlVars, queueVars, schedVars, outVars, envVars
<1>22. CASE DepsCancelled
  BY <1>22 DEF DepsCancelled, Return, vars, mainVars, ctlVars, queueVars, schedVars, outVars, envVars
<1>23. CASE CmdDone
  BY <1>23 DEF CmdDone, SchedGoto, CmdOK, CmdFailed, Return, vars, mainVars, ctlVars, queueVars, schedVars, outVars, envVars
<1>24. CASE RestartAndReload
  BY <1>24 DEF RestartAndReload, StartProcess, Return, vars, mainVars, ctlVars, queueVars, schedVars, outVars, envVars
<1>25. ASSUME NEW c \in Callers, Ask(c) PROVE QuietWhenDown'
  BY <1>25 DEF Ask, vars, mainVars, ctlVars, queueVars, schedVars, outVars, envVars
<1>26. ASSUME NEW c \in Callers, MarkDirty(c) PROVE QuietWhenDown'
  BY <1>26 DEF MarkDirty, vars, mainVars, ctlVars, queueVars, schedVars, outVars, envVars
<1>27. ASSUME NEW c \in Callers, OfferToken(c) PROVE QuietWhenDown'
  BY <1>27 DEF OfferToken, vars, mainVars, ctlVars, queueVars, schedVars, outVars, envVars
<1>28. ASSUME NEW r \in Rules, Crash(r) PROVE QuietWhenDown'
  BY <1>28 DEF Crash, vars, mainVars, ctlVars, queueVars, schedVars, outVars, envVars
<1>29. ASSUME NEW r \in Rules, ReportExit(r) PROVE QuietWhenDown'
  BY <1>29 DEF ReportExit, vars, mainVars, ctlVars, queueVars, schedVars, outVars, envVars
<1>30. ASSUME NEW r \in Rules, FileChanged(r) PROVE QuietWhenDown'
  BY <1>30 DEF FileChanged, vars, mainVars, ctlVars, queueVars, schedVars, outVars, envVars
<1>31. CASE RequestRestart
  BY <1>31 DEF RequestRestart, vars, mainVars, ctlVars, queueVars, schedVars, outVars, envVars
<1>32. CASE Quit
  BY <1>32 DEF Quit, vars, mainVars, ctlVars, queueVars, schedVars, outVars, envVars
<1>33. CASE StopEditing
  BY <1>33 DEF StopEditing, vars, mainVars, ctlVars, queueVars, schedVars, outVars, envVars
<1>34. CASE UNCHANGED vars
  BY <1>34 DEF vars, mainVars, ctlVars, queueVars, schedVars, outVars, envVars
<1> QED
  BY <1>1, <1>2, <1>3, <1>4, <1>5, <1>6, <1>7, <1>8, <1>9, <1>10, <1>11, <1>12, <1>13, <1>14, <1>15, <1>16, <1>17, <1>18, <1>19, <1>20, <1>21, <1>22, <1>23, <1>24, <1>25, <1>26, <1>27, <1>28, <1>29, <1>30, <1>31, <1>32, <1>33, <1>34 DEF Next, MainStep, SchedStep

(* A failure leaves the error page only with the failure itself: a build   *)
(* that succeeds takes back both, a process that dies adds an error.       *)
LEMMA FailureStep ==
    ASSUME FailureShown, [Next]_vars
    PROVE  FailureShown'
<1> USE DEF FailureShown
<1>1. CASE BootCmdDone
  BY <1>1 DEF BootCmdDone, CmdOK, CmdFailed
<1>2. CASE CmdDone
  BY <1>2 DEF CmdDone, CmdOK, CmdFailed
<1>3. ASSUME NEW r \in Rules, ReportExit(r) PROVE FailureShown'
  BY <1>3 DEF ReportExit
<1>4. CASE BootCancelled \/ BootSkip \/ BootBegin \/ BootRun \/ StartWatching
  BY <1>4 DEF BootCancelled, BootSkip, BootBegin, BootRun, StartWatching, outVars
<1>5. CASE \/ \E r \in Rules : LoopTakeEvent(r)
           \/ LoopNotify \/ LoopRestart \/ LoopCancelled
           \/ Farewell \/ ClearCallbacksAndCancel \/ WaitAndStopAll
  BY <1>5 DEF LoopTakeEvent, LoopNotify, LoopRestart, LoopCancelled, Farewell,
              ClearCallbacksAndCancel, WaitAndStopAll, outVars
<1>6. CASE \/ TakeToken \/ Absorb \/ BatchOver \/ DrainCheck \/ Drained \/ SchedExit
           \/ (\E r \in Rules : Pick(r)) \/ DepsDone \/ DepsCancelled \/ RestartAndReload
  BY <1>6 DEF TakeToken, Absorb, BatchOver, DrainCheck, Drained, SchedExit, Pick, DepsDone,
              DepsCancelled, RestartAndReload, outVars
<1>7. CASE \/ \E c \in Callers : Ask(c) \/ MarkDirty(c) \/ OfferToken(c)
           \/ \E r \in Rules : Crash(r) \/ FileChanged(r)
           \/ RequestRestart \/ Quit \/ StopEditing
  BY <1>7 DEF Ask, MarkDirty, OfferToken, Crash, FileChanged, RequestRestart, Quit, StopEditing, outVars
<1>8. CASE MainStep \/ LoopRestart \/ LoopCancelled
  BY <1>8, <1>1, <1>4, <1>5 DEF MainStep
<1>9. CASE SchedStep \/ SchedExit
  BY <1>9, <1>2, <1>6 DEF SchedStep
<1>10. CASE UNCHANGED vars
  BY <1>10 DEF vars, outVars
<1> QED
  BY <1>3, <1>7, <1>8, <1>9, <1>10 DEF Next

(* A spinner opens with a command and closes with it, and the initial      *)
(* build and the scheduler are never at it together (InHand).              *)
LEMMA SpinnersStep ==
    ASSUME IInv, SpinnersClose, [Next]_vars
    PROVE  SpinnersClose'
<1> USE DEF IInv, TypeOK, InHand, SpinnersClose, Building
<1>1. CASE BootCancelled
  BY <1>1 DEF BootCancelled, Goto, vars, mainVars, ctlVars, queueVars, schedVars, outVars, envVars
<1>2. CASE BootSkip
  BY <1>2, OrderFacts, BuildingIsRule DEF BootSkip, vars, mainVars, ctlVars, queueVars, schedVars, outVars, envVars
<1>3. CASE BootBegin
  BY <1>3, OrderFacts, BuildingIsRule DEF BootBegin, Goto, BeginCmd, vars, mainVars, ctlVars, queueVars, schedVars, outVars, envVars
<1>4. CASE BootCmdDone
  BY <1>4, OrderFacts, BuildingIsRule DEF BootCmdDone, Goto, CmdOK, CmdFailed, vars, mainVars, ctlVars, queueVars, schedVars, outVars, envVars
<1>5. CASE BootRun
  BY <1>5, OrderFacts, BuildingIsRule DEF BootRun, StartProcess, vars, mainVars, ctlVars, queueVars, schedVars, outVars, envVars
<1>6. CASE StartWatching
  BY <1>6, OrderFacts, BuildingIsRule DEF StartWatching, Goto, vars, mainVars, ctlVars, queueVars, schedVars, outVars, envVars
<1>7. ASSUME NEW r \in Rules, LoopTakeEvent(r) PROVE SpinnersClose'
  BY <1>7 DEF LoopTakeEvent, Goto, vars, mainVars, ctlVars, queueVars, schedVars, outVars, envVars
<1>8. CASE LoopNotify
  BY <1>8 DEF LoopNotify, Goto, vars, mainVars, ctlVars, queueVars, schedVars, outVars, envVars
<1>9. CASE LoopRestart
  BY <1>9 DEF LoopRestart, Goto, vars, mainVars, ctlVars, queueVars, schedVars, outVars, envVars
<1>10. CASE LoopCancelled
  BY <1>10 DEF LoopCancelled, Goto, vars, mainVars, ctlVars, queueVars, schedVars, outVars, envVars
<1>11. CASE Farewell
  BY <1>11 DEF Farewell, Goto, vars, mainVars, ctlVars, queueVars, schedVars, outVars, envVars
<1>12. CASE ClearCallbacksAndCancel
  BY <1>12 DEF ClearCallbacksAndCancel, Goto, vars, mainVars, ctlVars, queueVars, schedVars, outVars, envVars
<1>13. CASE WaitAndStopAll
  BY <1>13 DEF WaitAndStopAll, Goto, vars, mainVars, ctlVars, queueVars, schedVars, outVars, envVars
<1>14. CASE TakeToken
  BY <1>14 DEF TakeToken, SchedGoto, vars, mainVars, ctlVars, queueVars, schedVars, outVars, envVars
<1>15. CASE Absorb
  BY <1>15 DEF Absorb, vars, mainVars, ctlVars, queueVars, schedVars, outVars, envVars
<1>16. CASE BatchOver
  BY <1>16 DEF BatchOver, SchedGoto, vars, mainVars, ctlVars, queueVars, schedVars, outVars, envVars
<1>17. CASE SchedExit
  BY <1>17 DEF SchedExit, SchedGoto, DrainStops, vars, mainVars, ctlVars, queueVars, schedVars, outVars, envVars
<1>18. CASE DrainCheck
  BY <1>18 DEF DrainCheck, SchedGoto, DrainStops, vars, mainVars, ctlVars, queueVars, schedVars, outVars, envVars
<1>19. ASSUME NEW r \in Rules, Pick(r) PROVE SpinnersClose'
  BY <1>19 DEF Pick, Ready, vars, mainVars, ctlVars, queueVars, schedVars, outVars, envVars
<1>20. CASE Drained
  BY <1>20 DEF Drained, SchedGoto, vars, mainVars, ctlVars, queueVars, schedVars, outVars, envVars
<1>21. CASE DepsDone
  BY <1>21 DEF DepsDone, SchedGoto, BeginCmd, vars, mainVars, ctlVars, queueVars, schedVars, outVars, envVars
<1>22. CASE DepsCancelled
  BY <1>22 DEF DepsCancelled, Return, vars, mainVars, ctlVars, queueVars, schedVars, outVars, envVars
<1>23. CASE CmdDone
  BY <1>23 DEF CmdDone, SchedGoto, CmdOK, CmdFailed, Return, vars, mainVars, ctlVars, queueVars, schedVars, outVars, envVars
<1>24. CASE RestartAndReload
  BY <1>24 DEF RestartAndReload, StartProcess, Return, vars, mainVars, ctlVars, queueVars, schedVars, outVars, envVars
<1>25. ASSUME NEW c \in Callers, Ask(c) PROVE SpinnersClose'
  BY <1>25 DEF Ask, vars, mainVars, ctlVars, queueVars, schedVars, outVars, envVars
<1>26. ASSUME NEW c \in Callers, MarkDirty(c) PROVE SpinnersClose'
  BY <1>26 DEF MarkDirty, vars, mainVars, ctlVars, queueVars, schedVars, outVars, envVars
<1>27. ASSUME NEW c \in Callers, OfferToken(c) PROVE SpinnersClose'
  BY <1>27 DEF OfferToken, vars, mainVars, ctlVars, queueVars, schedVars, outVars, envVars
<1>28. ASSUME NEW r \in Rules, Crash(r) PROVE SpinnersClose'
  BY <1>28 DEF Crash, vars, mainVars, ctlVars, queueVars, schedVars, outVars, envVars
<1>29. ASSUME NEW r \in Rules, ReportExit(r) PROVE SpinnersClose'
  BY <1>29 DEF ReportExit, vars, mainVars, ctlVars, queueVars, schedVars, outVars, envVars
<1>30. ASSUME NEW r \in Rules, FileChanged(r) PROVE SpinnersClose'
  BY <1>30 DEF FileChanged, vars, mainVars, ctlVars, queueVars, schedVars, outVars, envVars
<1>31. CASE RequestRestart
  BY <1>31 DEF RequestRestart, vars, mainVars, ctlVars, queueVars, schedVars, outVars, envVars
<1>32. CASE Quit
  BY <1>32 DEF Quit, vars, mainVars, ctlVars, queueVars, schedVars, outVars, envVars
<1>33. CASE StopEditing
  BY <1>33 DEF StopEditing, vars, mainVars, ctlVars, queueVars, schedVars, outVars, envVars
<1>34. CASE UNCHANGED vars
  BY <1>34 DEF vars, mainVars, ctlVars, queueVars, schedVars, outVars, envVars
<1> QED
  BY <1>1, <1>2, <1>3, <1>4, <1>5, <1>6, <1>7, <1>8, <1>9, <1>10, <1>11, <1>12, <1>13, <1>14, <1>15, <1>16, <1>17, <1>18, <1>19, <1>20, <1>21, <1>22, <1>23, <1>24, <1>25, <1>26, <1>27, <1>28, <1>29, <1>30, <1>31, <1>32, <1>33, <1>34 DEF Next, MainStep, SchedStep

(* Every reachable state satisfies the inductive invariant.                *)
THEOREM Invariance == Spec => []IInv
<1>1. Init => IInv
  BY InitIInv
<1>2. IInv /\ [Next]_vars => IInv'
  BY TypeStep, InHandStep, WakeupStep, OwedStep, QuietStep DEF IInv
<1> QED BY <1>1, <1>2, PTL DEF Spec

(* Every variable of the dev scheduler always has its type.                *)
THEOREM TypeCorrect == Spec => []TypeOK
BY Invariance, PTL DEF IInv

(* No wake-up is lost: an idle scheduler with dirty rules has a token, or  *)
(* a goroutine about to offer one, for any rules and any number of callers.*)
THEOREM WakeupsNeverLost == Spec => []NoLostWakeup
BY Invariance, PTL DEF IInv

(* No change is lost on its way from the watcher or a caller to a build.   *)
THEOREM ChangesNeverLost == Spec => []OwedIsQueued
BY Invariance, PTL DEF IInv

(* When Run has returned, its scheduler and its processes are gone.        *)
THEOREM DownIsQuiet == Spec => []QuietWhenDown
BY Invariance, PTL DEF IInv

(* WaitForDeps never blocks the one goroutine that calls it.               *)
THEOREM DepsNeverBlocked == Spec => []DepsNeverBlock
<1>1. IInv => DepsNeverBlock
  BY OrderFacts DEF IInv, InHand, DepsNeverBlock
<1> QED BY <1>1, Invariance, PTL

(* The invariant the runs check: its three parts.                          *)
THEOREM SchedulerIsSafe == Spec => []Inv
BY TypeCorrect, DepsNeverBlocked, DownIsQuiet, PTL DEF Inv
(* A rule whose last build failed is on the error page, in every           *)
(* interleaving of builds, crashes and restarts.                           *)
THEOREM FailuresStayShown == Spec => []FailureShown
<1>1. Init => FailureShown
  BY DEF Init, FailureShown
<1>2. FailureShown /\ [Next]_vars => FailureShown'
  BY FailureStep
<1> QED BY <1>1, <1>2, PTL DEF Spec

(* The browser's spinner is on for exactly the rule that is being built.   *)
THEOREM SpinnersAlwaysClose == Spec => []SpinnersClose
<1>1. Init => SpinnersClose
  BY DEF Init, SpinnersClose
<1>2. IInv /\ SpinnersClose /\ [Next]_vars => SpinnersClose'
  BY SpinnersStep
<1> QED BY <1>1, <1>2, Invariance, PTL DEF Spec

(* The first rule of a set, by its position in the order.                  *)
LEMMA FirstInOrder ==
    ASSUME TypeOK, NEW R, R \subseteq Rules, R # {}
    PROVE  \E r \in R : \A q \in R : order[r] <= order[q]
<1> DEFINE T == {order[r] : r \in R}
<1>1. T \subseteq Nat /\ T # {}
  BY OrderFacts
<1>2. PICK x \in T : \A y \in T : ~ (<<y, x>> \in OpToRel(<, Nat))
  <2> HIDE DEF T
  <2> QED BY <1>1, WFMin, NatLessThanWellFounded, Zenon
<1>3. PICK r \in R : x = order[r]
  OBVIOUS
<1>4. \A y \in T : ~ (y < x)
  BY <1>1, <1>2 DEF OpToRel
<1>5. \A q \in R : order[r] <= order[q]
  BY <1>1, <1>3, <1>4, OrderFacts
<1> QED BY <1>5

(* The recursion of Below has a solution: the rules reached from r, which  *)
(* are those in every set that holds Depends[r] and what its members need. *)
Closes(P, r) == Depends[r] \subseteq P /\ \A y \in P : Depends[y] \subseteq P
Reached(r) == {x \in Rules : \A P \in SUBSET Rules : Closes(P, r) => x \in P}

(* What is reached from r is what r depends on and what is reached from it.*)
LEMMA ReachedUnfolds ==
    ASSUME NEW r \in Rules
    PROVE  Reached(r) = Depends[r] \cup UNION {Reached(d) : d \in Depends[r]}
<1> DEFINE U == Depends[r] \cup UNION {Reached(d) : d \in Depends[r]}
<1>1. \A q \in Rules : Depends[q] \subseteq Rules
  BY RulesAssumption
<1>2. \A q \in Rules : Closes(Reached(q), q)
  BY <1>1 DEF Closes, Reached
<1>3. U \subseteq Reached(r)
  <2>1. Depends[r] \subseteq Reached(r)
    BY <1>2 DEF Closes
  <2>2. ASSUME NEW d \in Depends[r], NEW x \in Reached(d) PROVE x \in Reached(r)
    <3>1. ASSUME NEW P \in SUBSET Rules, Closes(P, r) PROVE x \in P
      <4>1. Closes(P, d)
        BY <3>1 DEF Closes
      <4> QED BY <4>1 DEF Reached
    <3> QED BY <3>1 DEF Reached
  <2> QED BY <2>1, <2>2
<1>4. Reached(r) \subseteq U
  <2>1. U \subseteq Rules
    BY <1>1 DEF Reached
  <2>2. ASSUME NEW y \in U PROVE Depends[y] \subseteq U
    <3>1. CASE y \in Depends[r]
      <4>1. Depends[y] \subseteq Reached(y)
        BY <1>1, <1>2, <3>1 DEF Closes
      <4> QED BY <3>1, <4>1
    <3>2. CASE y \notin Depends[r]
      <4>1. PICK d \in Depends[r] : y \in Reached(d)
        BY <3>2
      <4>2. Depends[y] \subseteq Reached(d)
        BY <1>1, <1>2, <4>1 DEF Closes
      <4> QED BY <4>1, <4>2
    <3> QED BY <3>1, <3>2
  <2>3. Closes(U, r)
    BY <2>2 DEF Closes
  <2> QED BY <2>1, <2>3 DEF Reached
<1> QED BY <1>3, <1>4

(* So the recursive definition means what it says.                         *)
LEMMA BelowUnfolds ==
    ASSUME NEW r \in Rules
    PROVE  Below[r] = Depends[r] \cup UNION {Below[d] : d \in Depends[r]}
<1> DEFINE Unfolds(f) == f = [q \in Rules |-> Depends[q] \cup UNION {f[d] : d \in Depends[q]}]
           R == [q \in Rules |-> Reached(q)]
<1>1. Unfolds(R)
  <2>1. ASSUME NEW q \in Rules
        PROVE  R[q] = Depends[q] \cup UNION {R[d] : d \in Depends[q]}
    <3>1. Depends[q] \subseteq Rules
      BY RulesAssumption
    <3>2. {Reached(d) : d \in Depends[q]} = {R[d] : d \in Depends[q]}
      BY <3>1
    <3>3. Reached(q) = Depends[q] \cup UNION {Reached(d) : d \in Depends[q]}
      BY ReachedUnfolds
    <3> QED BY <3>2, <3>3
  <2> QED BY <2>1
<1>2. Below = CHOOSE f : Unfolds(f)
  BY DEF Below
<1>3. Unfolds(Below)
  <2> HIDE DEF Unfolds, R
  <2> QED BY <1>1, <1>2
<1> QED BY <1>3

(* What a rule depends on, even indirectly, comes before it in the order.  *)
LEMMA BelowComesFirst ==
    ASSUME TypeOK, NEW r \in Rules, NEW x \in Below[r]
    PROVE  x \in Rules /\ order[x] < order[r]
<1> DEFINE Wrong == {q \in Rules : \E y \in Below[q] : ~(y \in Rules /\ order[y] < order[q])}
<1> SUFFICES ASSUME Wrong # {} PROVE FALSE
  OBVIOUS
<1>1. PICK q \in Wrong : \A p \in Wrong : order[q] <= order[p]
  <2> HIDE DEF Wrong
  <2>1. Wrong \subseteq Rules
    BY DEF Wrong
  <2> QED BY <2>1, FirstInOrder
<1>2. PICK y \in Below[q] : ~(y \in Rules /\ order[y] < order[q])
  OBVIOUS
<1>3. PICK d \in Depends[q] : y \in Below[d]
  BY <1>2, BelowUnfolds, OrderFacts
<1>4. d \in Rules /\ order[d] < order[q] /\ order[d] \in Nat /\ order[q] \in Nat
  BY OrderFacts
<1>5. d \notin Wrong
  BY <1>1, <1>4
<1>6. y \in Rules /\ order[y] < order[d]
  BY <1>3, <1>4, <1>5
<1>7. order[y] \in Nat
  BY <1>6, OrderFacts
<1> QED BY <1>2, <1>4, <1>6, <1>7

(* Whatever the dependencies, a rule is handed to its handler only when    *)
(* nothing below it is dirty (devserver.go 960-993): were something, the   *)
(* first dirty rule would be ready, and come before the one that is picked.*)
THEOREM DependenciesFirst == Spec => DepsFirst
<1>1. ASSUME TypeOK, Next, sched = "pick", sched' = "wait"
      PROVE  Below[cur'] \cap dirty = {}
  <2>1. PICK r \in Rules : Pick(r)
    BY <1>1 DEF Next, MainStep, SchedStep, BootCancelled, BootSkip, BootBegin, BootCmdDone,
       BootRun, StartWatching, LoopTakeEvent, LoopNotify, LoopRestart, LoopCancelled, Farewell,
       ClearCallbacksAndCancel, WaitAndStopAll, Ask, MarkDirty, OfferToken, TakeToken, Absorb,
       BatchOver, DrainStops, SchedExit, DrainCheck, Drained, DepsDone, DepsCancelled, CmdDone,
       RestartAndReload, Return, SchedGoto, Goto, Crash, ReportExit, FileChanged,
       RequestRestart, Quit, StopEditing, vars, mainVars, ctlVars, queueVars, schedVars,
       outVars, envVars
  <2>2. cur' = r /\ \A s \in Rules : Ready(s) => order[r] <= order[s]
    BY <2>1 DEF Pick
  <2>3. ASSUME NEW x \in Below[r], x \in dirty PROVE FALSE
    <3>1. PICK m \in dirty : \A q \in dirty : order[m] <= order[q]
      <4>1. dirty \subseteq Rules /\ dirty # {}
        BY <1>1, <2>3 DEF TypeOK
      <4> QED BY <1>1, <4>1, FirstInOrder
    <3>2. m \in Rules /\ order[m] \in Nat /\ order[r] \in Nat
      BY <1>1, OrderFacts DEF TypeOK
    <3>3. Ready(m)
      <4>1. ASSUME NEW d \in Depends[m], d \in dirty PROVE FALSE
        <5>1. order[d] < order[m] /\ order[d] \in Nat
          BY <1>1, <3>2, OrderFacts
        <5> QED BY <3>1, <3>2, <4>1, <5>1
      <4> QED BY <4>1 DEF Ready
    <3>4. x \in Rules /\ order[x] < order[r] /\ order[x] \in Nat
      BY <1>1, <2>3, BelowComesFirst, OrderFacts
    <3>5. order[m] <= order[x] /\ order[r] <= order[m]
      BY <2>2, <2>3, <3>1, <3>2, <3>3
    <3> QED BY <3>2, <3>4, <3>5
  <2> QED BY <2>2, <2>3
<1>2. TypeOK /\ [Next]_vars => [sched = "pick" /\ sched' = "wait" => Below[cur'] \cap dirty = {}]_vars
  BY <1>1
<1> QED BY <1>2, TypeCorrect, PTL DEF Spec, DepsFirst
=============================================================================
