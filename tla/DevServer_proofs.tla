-------------------------- MODULE DevServer_proofs ---------------------------
(***************************************************************************)
(* Proofs about what is around the runs of `hamr dev`, as MCDevServer puts *)
(* it together.  The gateway, for any calls, tools, access map and number  *)
(* of runs: the token on disk is the one of the run that serves, a tool    *)
(* runs only for an authenticated and permitted call and leaves a line in  *)
(* the audit log, and a restart is answered before it happens.  The loop   *)
(* over runs, for any number of keys, edits and requests, and the actions  *)
(* on a stack, for any services and jobs.                                  *)
(***************************************************************************)
EXTENDS MCDevServer, TLAPS

-----------------------------------------------------------------------------
(* The gateway.                                                            *)

(* The switch is turned by a run that serves, the log is open once the     *)
(* switch may be on, and the token goes on disk after both.                *)
SwitchInOrder ==
    /\ turning # "no" => phase = "serving"
    /\ turning \in {"enabling", "writing"} => audit = "open"
    /\ descriptor # 0 => descriptor = gen /\ phase = "serving" /\ audit = "open"

(* A token is of a run that was, and who has the one of this run finds its *)
(* log open; a call arrives at a run that serves.                          *)
TokenOK(c) ==
    /\ token[c] <= gen /\ home[c] <= gen
    /\ token[c] = gen /\ phase # "quit" => audit = "open"
    /\ home[c] = gen => phase # "booting"
    /\ pc[c] \in {"idle", "sent"} => home[c] = 0
    /\ pc[c] \notin {"idle", "sent", "done"} => home[c] # 0
    /\ home[c] # 0 /\ token[c] = home[c] => log[c] = "open"

(* A call that got past the checks holds the token of its run and names a  *)
(* granted tool; its line is written when the tool ends.                   *)
RanOK(c) ==
    /\ pc[c] \in {"idle", "sent", "arrived", "dispatch"} => ~ran[c]
    /\ pc[c] \in {"dispatch", "wait"} \/ ran[c] =>
           home[c] # 0 /\ token[c] = home[c] /\ tool[c] \in Granted
    /\ ran[c] /\ pc[c] \in {"reply", "after", "done"} /\ home[c] = gen /\ phase = "serving" => recorded[c]

(* The marker is in the log from the moment it is logged.                  *)
MarkerOK(c) ==
    make[c] \in {"marked", "told", "sent"} \/ answer[c] = "done" => marker[c]

(* A promise of a restart is read by the agent, unless the run it was made *)
(* for is over; then the effect that follows the response asks for nothing. *)
PromiseOK(c) ==
    /\ pc[c] \in {"idle", "sent", "arrived", "dispatch", "wait"} => promised[c] = 0
    /\ pc[c] \in {"reply", "after"} /\ promised[c] # 0 =>
           answer[c] = "ok" \/ home[c] < gen \/ phase \in {"closed", "quit"}
    /\ restartCh = c => answer[c] = "ok" /\ pc[c] = "done"

CallsOK == \A c \in Calls : TokenOK(c) /\ RanOK(c) /\ MarkerOK(c) /\ PromiseOK(c)

(* The inductive invariant. *)
IInv == TypeOK /\ SwitchInOrder /\ CallsOK

(* A run has a number.                                                     *)
LEMMA RunsAreNumbers == gen \in Runs => gen \in Nat /\ gen # 0
BY GatewayAssumption DEF Runs

(* The initial state satisfies the invariant.                              *)
LEMMA InitOK == Init => IInv
<1> SUFFICES ASSUME Init PROVE IInv  OBVIOUS
<1>0. 1 \in Runs  BY GatewayAssumption DEF Runs
<1>1. TypeOK
  BY <1>0 DEF Init, TypeOK
<1>2. SwitchInOrder
  BY DEF Init, SwitchInOrder
<1>3. CallsOK
  BY GatewayAssumption DEF Init, CallsOK, TokenOK, RanOK, MarkerOK, PromiseOK
<1> QED  BY <1>1, <1>2, <1>3 DEF IInv

(* What turns the switch or moves the run keeps it.                        *)
LEMMA GateStepsOK ==
    ASSUME IInv,
           \/ Boot \/ Toggle \/ SetActive \/ SwitchStripe \/ CloseProxy \/ NextRun
           \/ \E how \in {"restart", "quit"} : CloseRun(how)
    PROVE  IInv'
<1> USE GatewayAssumption DEF calls
<1>t. TypeOK /\ SwitchInOrder /\ gen \in Nat /\ gen # 0
  BY RunsAreNumbers DEF IInv, TypeOK
<1>1. CASE Boot
  <2>2. TypeOK'
    BY <1>1, <1>t DEF TypeOK, Boot
  <2>3. SwitchInOrder'
    BY <1>1, <1>t DEF TypeOK, SwitchInOrder, Boot
  <2>4. ASSUME NEW d \in Calls PROVE TokenOK(d)' /\ RanOK(d)' /\ MarkerOK(d)' /\ PromiseOK(d)'
    <3>0. TokenOK(d) /\ RanOK(d) /\ MarkerOK(d) /\ PromiseOK(d)
      BY DEF IInv, CallsOK
    <3> USE <1>1, <1>t, <3>0 DEF TypeOK, Boot
    <3>1. TokenOK(d)'
      BY DEF SwitchInOrder, TokenOK
    <3>2. RanOK(d)'
      BY DEF SwitchInOrder, RanOK, TokenOK
    <3>3. MarkerOK(d)'
      BY DEF SwitchInOrder, MarkerOK
    <3>4. PromiseOK(d)'
      BY DEF SwitchInOrder, PromiseOK, TokenOK
    <3> QED  BY <3>1, <3>2, <3>3, <3>4
  <2> QED  BY <2>2, <2>3, <2>4 DEF IInv, CallsOK
<1>2. CASE Toggle
  <2>2. TypeOK'
    <3>1. toggles' \in Nat
      BY <1>2, <1>t DEF TypeOK, Toggle
    <3>2. turning' \in {"removing", "opening"} /\ enabled' = FALSE
      BY <1>2 DEF Toggle
    <3>3. UNCHANGED <<gen, phase, ending, audit, descriptor, restartCh, calls>>
      BY <1>2 DEF Toggle
    <3> QED  BY <3>1, <3>2, <3>3, <1>t DEF TypeOK
  <2>3. SwitchInOrder'
    BY <1>2, <1>t DEF TypeOK, SwitchInOrder, Toggle
  <2>4. ASSUME NEW d \in Calls PROVE TokenOK(d)' /\ RanOK(d)' /\ MarkerOK(d)' /\ PromiseOK(d)'
    <3>0. TokenOK(d) /\ RanOK(d) /\ MarkerOK(d) /\ PromiseOK(d)
      BY DEF IInv, CallsOK
    <3> USE <1>2, <1>t, <3>0 DEF TypeOK, Toggle
    <3>1. TokenOK(d)'
      BY DEF SwitchInOrder, TokenOK
    <3>2. RanOK(d)'
      BY DEF SwitchInOrder, RanOK, TokenOK
    <3>3. MarkerOK(d)'
      BY DEF SwitchInOrder, MarkerOK
    <3>4. PromiseOK(d)'
      BY DEF SwitchInOrder, PromiseOK, TokenOK
    <3> QED  BY <3>1, <3>2, <3>3, <3>4
  <2> QED  BY <2>2, <2>3, <2>4 DEF IInv, CallsOK
<1>3. CASE SetActive
  <2>2. TypeOK'
    <3>1. CASE turning = "removing"
      BY <1>3, <1>t, <3>1 DEF TypeOK, SetActive
    <3>2. CASE turning = "opening"
      BY <1>3, <1>t, <3>2 DEF TypeOK, SetActive
    <3>3. CASE turning = "enabling"
      BY <1>3, <1>t, <3>3 DEF TypeOK, SetActive
    <3>4. CASE turning = "writing"
      BY <1>3, <1>t, <3>4 DEF TypeOK, SetActive
    <3> QED  BY <1>3, <1>t, <3>1, <3>2, <3>3, <3>4 DEF TypeOK, SetActive
  <2>3. SwitchInOrder'
    BY <1>3, <1>t DEF TypeOK, SwitchInOrder, SetActive
  <2>4. ASSUME NEW d \in Calls PROVE TokenOK(d)' /\ RanOK(d)' /\ MarkerOK(d)' /\ PromiseOK(d)'
    <3>0. TokenOK(d) /\ RanOK(d) /\ MarkerOK(d) /\ PromiseOK(d)
      BY DEF IInv, CallsOK
    <3> USE <1>3, <1>t, <3>0 DEF TypeOK, SetActive
    <3>1. TokenOK(d)'
      BY DEF SwitchInOrder, TokenOK
    <3>2. RanOK(d)'
      BY DEF SwitchInOrder, RanOK, TokenOK
    <3>3. MarkerOK(d)'
      BY DEF SwitchInOrder, MarkerOK
    <3>4. PromiseOK(d)'
      BY DEF SwitchInOrder, PromiseOK, TokenOK
    <3> QED  BY <3>1, <3>2, <3>3, <3>4
  <2> QED  BY <2>2, <2>3, <2>4 DEF IInv, CallsOK
<1>4. CASE SwitchStripe
  <2>2. TypeOK'
    BY <1>4, <1>t DEF TypeOK, SwitchStripe
  <2>3. SwitchInOrder'
    BY <1>4, <1>t DEF TypeOK, SwitchInOrder, SwitchStripe
  <2>4. ASSUME NEW d \in Calls PROVE TokenOK(d)' /\ RanOK(d)' /\ MarkerOK(d)' /\ PromiseOK(d)'
    <3>0. TokenOK(d) /\ RanOK(d) /\ MarkerOK(d) /\ PromiseOK(d)
      BY DEF IInv, CallsOK
    <3> USE <1>4, <1>t, <3>0 DEF TypeOK, SwitchStripe
    <3>1. TokenOK(d)'
      BY DEF SwitchInOrder, TokenOK
    <3>2. RanOK(d)'
      BY DEF SwitchInOrder, RanOK, TokenOK
    <3>3. MarkerOK(d)'
      BY DEF SwitchInOrder, MarkerOK
    <3>4. PromiseOK(d)'
      BY DEF SwitchInOrder, PromiseOK, TokenOK
    <3> QED  BY <3>1, <3>2, <3>3, <3>4
  <2> QED  BY <2>2, <2>3, <2>4 DEF IInv, CallsOK
<1>5. CASE \E how \in {"restart", "quit"} : CloseRun(how)
  <2>2. TypeOK'
    BY <1>5, <1>t DEF TypeOK, CloseRun
  <2>3. SwitchInOrder'
    BY <1>5, <1>t DEF TypeOK, SwitchInOrder, CloseRun
  <2>4. ASSUME NEW d \in Calls PROVE TokenOK(d)' /\ RanOK(d)' /\ MarkerOK(d)' /\ PromiseOK(d)'
    <3>0. TokenOK(d) /\ RanOK(d) /\ MarkerOK(d) /\ PromiseOK(d)
      BY DEF IInv, CallsOK
    <3> USE <1>5, <1>t, <3>0 DEF TypeOK, CloseRun
    <3>1. TokenOK(d)'
      BY DEF SwitchInOrder, TokenOK
    <3>2. RanOK(d)'
      BY DEF SwitchInOrder, RanOK, TokenOK
    <3>3. MarkerOK(d)'
      BY DEF SwitchInOrder, MarkerOK
    <3>4. PromiseOK(d)'
      BY DEF SwitchInOrder, PromiseOK, TokenOK
    <3> QED  BY <3>1, <3>2, <3>3, <3>4
  <2> QED  BY <2>2, <2>3, <2>4 DEF IInv, CallsOK
<1>6. CASE CloseProxy
  <2>2. TypeOK'
    BY <1>6, <1>t DEF TypeOK, CloseProxy
  <2>3. SwitchInOrder'
    BY <1>6, <1>t DEF TypeOK, SwitchInOrder, CloseProxy
  <2>4. ASSUME NEW d \in Calls PROVE TokenOK(d)' /\ RanOK(d)' /\ MarkerOK(d)' /\ PromiseOK(d)'
    <3>0. TokenOK(d) /\ RanOK(d) /\ MarkerOK(d) /\ PromiseOK(d)
      BY DEF IInv, CallsOK
    <3> USE <1>6, <1>t, <3>0 DEF TypeOK, CloseProxy
    <3>1. TokenOK(d)'
      BY DEF SwitchInOrder, TokenOK
    <3>2. RanOK(d)'
      BY DEF SwitchInOrder, RanOK, TokenOK
    <3>3. MarkerOK(d)'
      BY DEF SwitchInOrder, MarkerOK
    <3>4. PromiseOK(d)'
      BY DEF SwitchInOrder, PromiseOK, TokenOK
    <3> QED  BY <3>1, <3>2, <3>3, <3>4
  <2> QED  BY <2>2, <2>3, <2>4 DEF IInv, CallsOK
<1>7. CASE NextRun
  <2>1. gen' \in Runs
    BY <1>7, <1>t DEF NextRun, TypeOK, Runs
  <2>2. TypeOK'
    BY <1>7, <1>t, <2>1 DEF TypeOK, NextRun
  <2>3. SwitchInOrder'
    BY <1>7, <1>t DEF TypeOK, SwitchInOrder, NextRun
  <2>4. ASSUME NEW d \in Calls PROVE TokenOK(d)' /\ RanOK(d)' /\ MarkerOK(d)' /\ PromiseOK(d)'
    <3>0. TokenOK(d) /\ RanOK(d) /\ MarkerOK(d) /\ PromiseOK(d)
      BY DEF IInv, CallsOK
    <3> USE <1>7, <1>t, <3>0 DEF TypeOK, NextRun
    <3>1. TokenOK(d)'
      BY DEF SwitchInOrder, TokenOK
    <3>2. RanOK(d)'
      BY DEF SwitchInOrder, RanOK, TokenOK
    <3>3. MarkerOK(d)'
      BY DEF SwitchInOrder, MarkerOK
    <3>4. PromiseOK(d)'
      BY DEF SwitchInOrder, PromiseOK, TokenOK
    <3> QED  BY <3>1, <3>2, <3>3, <3>4
  <2> QED  BY <2>2, <2>3, <2>4 DEF IInv, CallsOK
<1> QED  BY <1>1, <1>2, <1>3, <1>4, <1>5, <1>6, <1>7

(* A step of a call keeps it.                                              *)
LEMMA CallStepsOK ==
    ASSUME IInv, NEW c \in Calls,
           \/ \E t \in Tools : ReadHandshake(c, t)
           \/ /\ phase # "quit"
              /\ \/ Unreachable(c) \/ Arrive(c) \/ Check(c) \/ Dispatch(c) \/ WaitServed(c)
                 \/ Reply(c) \/ After(c) \/ WaitOver(c) \/ MakeStep(c)
    PROVE  IInv'
<1> USE GatewayAssumption DEF gate
<1>t. TypeOK /\ SwitchInOrder /\ gen \in Nat /\ gen # 0
  BY RunsAreNumbers DEF IInv, TypeOK
<1>1. ASSUME NEW t \in Tools, ReadHandshake(c, t) PROVE IInv'
  <2>2. TypeOK'
    BY <1>1, <1>t DEF TypeOK, ReadHandshake
  <2>3. SwitchInOrder'
    BY <1>1, <1>t DEF TypeOK, SwitchInOrder, ReadHandshake
  <2>4. ASSUME NEW d \in Calls PROVE TokenOK(d)' /\ RanOK(d)' /\ MarkerOK(d)' /\ PromiseOK(d)'
    <3>0. TokenOK(d) /\ RanOK(d) /\ MarkerOK(d) /\ PromiseOK(d)
      BY DEF IInv, CallsOK
    <3> USE <1>1, <1>t, <3>0 DEF TypeOK, ReadHandshake
    <3>1. TokenOK(d)'
      BY DEF SwitchInOrder, TokenOK
    <3>2. RanOK(d)'
      BY DEF SwitchInOrder, RanOK, TokenOK
    <3>3. MarkerOK(d)'
      BY DEF SwitchInOrder, MarkerOK
    <3>4. PromiseOK(d)'
      BY DEF SwitchInOrder, PromiseOK, TokenOK
    <3> QED  BY <3>1, <3>2, <3>3, <3>4
  <2> QED  BY <2>2, <2>3, <2>4 DEF IInv, CallsOK
<1>2. CASE phase # "quit" /\ Unreachable(c)
  <2>2. TypeOK'
    BY <1>2, <1>t DEF TypeOK, Unreachable, Refused
  <2>3. SwitchInOrder'
    BY <1>2, <1>t DEF TypeOK, SwitchInOrder, Unreachable, Refused
  <2>4. ASSUME NEW d \in Calls PROVE TokenOK(d)' /\ RanOK(d)' /\ MarkerOK(d)' /\ PromiseOK(d)'
    <3>0. TokenOK(d) /\ RanOK(d) /\ MarkerOK(d) /\ PromiseOK(d)
      BY DEF IInv, CallsOK
    <3> USE <1>2, <1>t, <3>0 DEF TypeOK, Unreachable, Refused
    <3>1. TokenOK(d)'
      BY DEF SwitchInOrder, TokenOK
    <3>2. RanOK(d)'
      BY DEF SwitchInOrder, RanOK, TokenOK
    <3>3. MarkerOK(d)'
      BY DEF SwitchInOrder, MarkerOK
    <3>4. PromiseOK(d)'
      BY DEF SwitchInOrder, PromiseOK, TokenOK
    <3> QED  BY <3>1, <3>2, <3>3, <3>4
  <2> QED  BY <2>2, <2>3, <2>4 DEF IInv, CallsOK
<1>3. CASE phase # "quit" /\ Arrive(c)
  <2>2. TypeOK'
    BY <1>3, <1>t DEF TypeOK, Arrive
  <2>3. SwitchInOrder'
    BY <1>3, <1>t DEF TypeOK, SwitchInOrder, Arrive
  <2>4. ASSUME NEW d \in Calls PROVE TokenOK(d)' /\ RanOK(d)' /\ MarkerOK(d)' /\ PromiseOK(d)'
    <3>0. TokenOK(d) /\ RanOK(d) /\ MarkerOK(d) /\ PromiseOK(d)
      BY DEF IInv, CallsOK
    <3> USE <1>3, <1>t, <3>0 DEF TypeOK, Arrive
    <3>1. TokenOK(d)'
      BY DEF SwitchInOrder, TokenOK
    <3>2. RanOK(d)'
      BY DEF SwitchInOrder, RanOK, TokenOK
    <3>3. MarkerOK(d)'
      BY DEF SwitchInOrder, MarkerOK
    <3>4. PromiseOK(d)'
      BY DEF SwitchInOrder, PromiseOK, TokenOK
    <3> QED  BY <3>1, <3>2, <3>3, <3>4
  <2> QED  BY <2>2, <2>3, <2>4 DEF IInv, CallsOK
<1>4. CASE phase # "quit" /\ Check(c)
  <2>2. TypeOK'
    <3>1. UNCHANGED <<gate, tool, token, home, log, ran, make, marker, promised>>
      BY <1>4 DEF Check
    <3>2. pc' = [pc EXCEPT ![c] = "done"] \/ pc' = [pc EXCEPT ![c] = "dispatch"]
      BY <1>4 DEF Check, Refused
    <3>3. \/ answer' = answer
          \/ \E a \in {"unauthorized", "off", "denied"} : answer' = [answer EXCEPT ![c] = a]
      BY <1>4 DEF Check, Refused
    <3>4. recorded' = recorded \/ Record(c)
      BY <1>4 DEF Check
    <3>5. recorded' \in [Calls -> BOOLEAN]
      BY <1>t, <3>4 DEF TypeOK, Record, LogOpen
    <3>6. pc' \in [Calls -> {"idle", "sent", "arrived", "dispatch", "wait", "reply", "after", "done"}]
      BY <1>t, <3>2 DEF TypeOK
    <3>7. answer' \in [Calls -> {"none", "absent", "unreachable", "unauthorized", "off",
                                 "denied", "ok", "error", "running", "done", "lost"}]
      BY <1>t, <3>3 DEF TypeOK
    <3> QED  BY <1>t, <3>1, <3>5, <3>6, <3>7 DEF TypeOK
  <2>3. SwitchInOrder'
    BY <1>4, <1>t DEF TypeOK, SwitchInOrder, Check, Refused, Record, LogOpen, Authenticated,
       Permitted
  <2>4. ASSUME NEW d \in Calls PROVE TokenOK(d)' /\ RanOK(d)' /\ MarkerOK(d)' /\ PromiseOK(d)'
    <3>0. TokenOK(d) /\ RanOK(d) /\ MarkerOK(d) /\ PromiseOK(d)
      BY DEF IInv, CallsOK
    <3> USE <1>4, <1>t, <3>0 DEF TypeOK, Check, Refused, Record, LogOpen, Authenticated, Permitted
    <3>1. TokenOK(d)'
      BY DEF SwitchInOrder, TokenOK
    <3>2. RanOK(d)'
      <4>1. CASE d # c
        BY <4>1 DEF RanOK
      <4>2. CASE d = c
        <5>1. UNCHANGED <<gen, phase, tool, token, home, ran>>
          OBVIOUS
        <5>2. ~ran[c] /\ home[c] # 0
          BY <4>2 DEF RanOK, TokenOK
        <5>3. pc'[c] = "dispatch" => token[c] = home[c] /\ tool[c] \in Granted
          OBVIOUS
        <5>4. pc'[c] # "wait"
          OBVIOUS
        <5> QED  BY <4>2, <5>1, <5>2, <5>3, <5>4 DEF RanOK
      <4> QED  BY <4>1, <4>2
    <3>3. MarkerOK(d)'
      BY DEF SwitchInOrder, MarkerOK
    <3>4. PromiseOK(d)'
      BY DEF SwitchInOrder, PromiseOK, TokenOK
    <3> QED  BY <3>1, <3>2, <3>3, <3>4
  <2> QED  BY <2>2, <2>3, <2>4 DEF IInv, CallsOK
<1>5. CASE phase # "quit" /\ Dispatch(c)
  <2>2. TypeOK'
    <3>1. CASE Restart(c)
      <4>1. promised' \in [Calls -> Nat]
        BY <1>t, <3>1 DEF TypeOK, Restart
      <4>2. recorded' \in [Calls -> BOOLEAN]
        BY <1>t, <3>1 DEF TypeOK, Restart, Finish, Record
      <4>3. pc' = [pc EXCEPT ![c] = "reply"] /\ UNCHANGED <<restartCh, ran, make>>
        BY <3>1 DEF Restart, Finish
      <4>4. \E a \in {"ok", "error"} : answer' = [answer EXCEPT ![c] = a]
        BY <3>1 DEF Restart, Finish
      <4> QED  BY <1>5, <1>t, <4>1, <4>2, <4>3, <4>4 DEF TypeOK, Dispatch
    <3>2. CASE MakeRun(c)
      BY <1>5, <1>t, <3>2 DEF TypeOK, Dispatch, MakeRun
    <3>3. CASE Other(c)
      BY <1>5, <1>t, <3>3 DEF TypeOK, Dispatch, Other, Finish, Record
    <3> QED  BY <1>5, <3>1, <3>2, <3>3 DEF Dispatch
  <2>3. SwitchInOrder'
    BY <1>5, <1>t DEF TypeOK, SwitchInOrder, Dispatch, Restart, MakeRun, Other, Finish, Record,
       LogOpen, CheckRestart
  <2>4. ASSUME NEW d \in Calls PROVE TokenOK(d)' /\ RanOK(d)' /\ MarkerOK(d)' /\ PromiseOK(d)'
    <3>0. TokenOK(d) /\ RanOK(d) /\ MarkerOK(d) /\ PromiseOK(d)
      BY DEF IInv, CallsOK
    <3> USE <1>5, <1>t, <3>0 DEF TypeOK, Dispatch, Restart, MakeRun, Other, Finish, Record,
       LogOpen, CheckRestart
    <3>1. TokenOK(d)'
      BY DEF SwitchInOrder, TokenOK
    <3>2. RanOK(d)'
      BY DEF SwitchInOrder, RanOK, TokenOK
    <3>3. MarkerOK(d)'
      BY DEF SwitchInOrder, MarkerOK
    <3>4. PromiseOK(d)'
      BY DEF SwitchInOrder, PromiseOK, TokenOK
    <3> QED  BY <3>1, <3>2, <3>3, <3>4
  <2> QED  BY <2>2, <2>3, <2>4 DEF IInv, CallsOK
<1>6. CASE phase # "quit" /\ WaitOver(c)
  <2>2. TypeOK'
    BY <1>6, <1>t DEF TypeOK, WaitOver, Finish, Record, LogOpen
  <2>3. SwitchInOrder'
    BY <1>6, <1>t DEF TypeOK, SwitchInOrder, WaitOver, Finish, Record, LogOpen
  <2>4. ASSUME NEW d \in Calls PROVE TokenOK(d)' /\ RanOK(d)' /\ MarkerOK(d)' /\ PromiseOK(d)'
    <3>0. TokenOK(d) /\ RanOK(d) /\ MarkerOK(d) /\ PromiseOK(d)
      BY DEF IInv, CallsOK
    <3> USE <1>6, <1>t, <3>0 DEF TypeOK, WaitOver, Finish, Record, LogOpen
    <3>1. TokenOK(d)'
      BY DEF SwitchInOrder, TokenOK
    <3>2. RanOK(d)'
      BY DEF SwitchInOrder, RanOK, TokenOK
    <3>3. MarkerOK(d)'
      BY DEF SwitchInOrder, MarkerOK
    <3>4. PromiseOK(d)'
      BY DEF SwitchInOrder, PromiseOK, TokenOK
    <3> QED  BY <3>1, <3>2, <3>3, <3>4
  <2> QED  BY <2>2, <2>3, <2>4 DEF IInv, CallsOK
<1>7. CASE phase # "quit" /\ WaitServed(c)
  <2>2. TypeOK'
    BY <1>7, <1>t DEF TypeOK, WaitServed, Finish, Record, LogOpen
  <2>3. SwitchInOrder'
    BY <1>7, <1>t DEF TypeOK, SwitchInOrder, WaitServed, Finish, Record, LogOpen
  <2>4. ASSUME NEW d \in Calls PROVE TokenOK(d)' /\ RanOK(d)' /\ MarkerOK(d)' /\ PromiseOK(d)'
    <3>0. TokenOK(d) /\ RanOK(d) /\ MarkerOK(d) /\ PromiseOK(d)
      BY DEF IInv, CallsOK
    <3> USE <1>7, <1>t, <3>0 DEF TypeOK, WaitServed, Finish, Record, LogOpen
    <3>1. TokenOK(d)'
      BY DEF SwitchInOrder, TokenOK
    <3>2. RanOK(d)'
      BY DEF SwitchInOrder, RanOK, TokenOK
    <3>3. MarkerOK(d)'
      BY DEF SwitchInOrder, MarkerOK
    <3>4. PromiseOK(d)'
      BY DEF SwitchInOrder, PromiseOK, TokenOK
    <3> QED  BY <3>1, <3>2, <3>3, <3>4
  <2> QED  BY <2>2, <2>3, <2>4 DEF IInv, CallsOK
<1>8. CASE phase # "quit" /\ Reply(c)
  <2>2. TypeOK'
    BY <1>8, <1>t DEF TypeOK, Reply
  <2>3. SwitchInOrder'
    BY <1>8, <1>t DEF TypeOK, SwitchInOrder, Reply
  <2>4. ASSUME NEW d \in Calls PROVE TokenOK(d)' /\ RanOK(d)' /\ MarkerOK(d)' /\ PromiseOK(d)'
    <3>0. TokenOK(d) /\ RanOK(d) /\ MarkerOK(d) /\ PromiseOK(d)
      BY DEF IInv, CallsOK
    <3> USE <1>8, <1>t, <3>0 DEF TypeOK, Reply
    <3>1. TokenOK(d)'
      BY DEF SwitchInOrder, TokenOK
    <3>2. RanOK(d)'
      BY DEF SwitchInOrder, RanOK, TokenOK
    <3>3. MarkerOK(d)'
      BY DEF SwitchInOrder, MarkerOK
    <3>4. PromiseOK(d)'
      BY DEF SwitchInOrder, PromiseOK, TokenOK
    <3> QED  BY <3>1, <3>2, <3>3, <3>4
  <2> QED  BY <2>2, <2>3, <2>4 DEF IInv, CallsOK
<1>9. CASE phase # "quit" /\ After(c)
  <2>2. TypeOK'
    BY <1>9, <1>t DEF TypeOK, After, RequestRestart
  <2>3. SwitchInOrder'
    BY <1>9, <1>t DEF TypeOK, SwitchInOrder, After, RequestRestart
  <2>4. ASSUME NEW d \in Calls PROVE TokenOK(d)' /\ RanOK(d)' /\ MarkerOK(d)' /\ PromiseOK(d)'
    <3>0. TokenOK(d) /\ RanOK(d) /\ MarkerOK(d) /\ PromiseOK(d)
      BY DEF IInv, CallsOK
    <3> USE <1>9, <1>t, <3>0 DEF TypeOK, After, RequestRestart
    <3>1. TokenOK(d)'
      BY DEF SwitchInOrder, TokenOK
    <3>2. RanOK(d)'
      BY DEF SwitchInOrder, RanOK, TokenOK
    <3>3. MarkerOK(d)'
      BY DEF SwitchInOrder, MarkerOK
    <3>4. PromiseOK(d)'
      BY DEF SwitchInOrder, PromiseOK, TokenOK
    <3> QED  BY <3>1, <3>2, <3>3, <3>4
  <2> QED  BY <2>2, <2>3, <2>4 DEF IInv, CallsOK
<1>10. CASE phase # "quit" /\ MakeStep(c)
  <2>2. TypeOK'
    BY <1>10, <1>t DEF TypeOK, MakeStep
  <2>3. SwitchInOrder'
    BY <1>10, <1>t DEF TypeOK, SwitchInOrder, MakeStep
  <2>4. ASSUME NEW d \in Calls PROVE TokenOK(d)' /\ RanOK(d)' /\ MarkerOK(d)' /\ PromiseOK(d)'
    <3>0. TokenOK(d) /\ RanOK(d) /\ MarkerOK(d) /\ PromiseOK(d)
      BY DEF IInv, CallsOK
    <3> USE <1>10, <1>t, <3>0 DEF TypeOK, MakeStep
    <3>1. TokenOK(d)'
      BY DEF SwitchInOrder, TokenOK
    <3>2. RanOK(d)'
      BY DEF SwitchInOrder, RanOK, TokenOK
    <3>3. MarkerOK(d)'
      BY DEF SwitchInOrder, MarkerOK
    <3>4. PromiseOK(d)'
      BY DEF SwitchInOrder, PromiseOK, TokenOK
    <3> QED  BY <3>1, <3>2, <3>3, <3>4
  <2> QED  BY <2>2, <2>3, <2>4 DEF IInv, CallsOK
<1> QED  BY <1>1, <1>2, <1>3, <1>4, <1>5, <1>6, <1>7, <1>8, <1>9, <1>10

LEMMA NextOK == IInv /\ [Next]_vars => IInv'
<1> SUFFICES ASSUME IInv, [Next]_vars PROVE IInv'  OBVIOUS
<1>1. CASE UNCHANGED vars
  BY <1>1 DEF IInv, TypeOK, SwitchInOrder, CallsOK, TokenOK, RanOK, MarkerOK, PromiseOK, vars
<1>2. CASE \/ Boot \/ Toggle \/ SetActive \/ SwitchStripe \/ CloseProxy \/ NextRun
           \/ \E how \in {"restart", "quit"} : CloseRun(how)
  BY <1>2, GateStepsOK
<1>3. ASSUME NEW c \in Calls, NEW t \in Tools, ReadHandshake(c, t) PROVE IInv'
  BY <1>3, CallStepsOK
<1>4. ASSUME NEW c \in Calls, CallStep(c) \/ WaitOver(c) \/ MakeStep(c) PROVE IInv'
  <2>1. phase # "quit"
    BY <1>4 DEF CallStep, WaitOver, MakeStep
  <2> QED  BY <1>4, <2>1, CallStepsOK DEF CallStep
<1> QED  BY <1>1, <1>2, <1>3, <1>4 DEF Next

(* What the inductive invariant says of the properties.                    *)
LEMMA Consequences == IInv => TokenIsLive /\ RanIsAudited /\ MarkerBeforeResult /\ AnsweredFirst
<1> SUFFICES ASSUME IInv PROVE TokenIsLive /\ RanIsAudited /\ MarkerBeforeResult /\ AnsweredFirst  OBVIOUS
<1>1. TokenIsLive
  BY DEF IInv, SwitchInOrder, TokenIsLive
<1>2. RanIsAudited
  BY DEF IInv, CallsOK, TokenOK, RanOK, RanIsAudited
<1>3. MarkerBeforeResult
  BY DEF IInv, CallsOK, MarkerOK, MarkerBeforeResult
<1>4. AnsweredFirst
  BY DEF IInv, CallsOK, PromiseOK, AnsweredFirst
<1> QED  BY <1>1, <1>2, <1>3, <1>4

(* Every state of the gateway satisfies the inductive invariant.           *)
THEOREM Inductive == Spec => []IInv
<1> QED  BY InitOK, NextOK, PTL DEF Spec

(* The variables keep their types.                                         *)
THEOREM TypeCorrect == Spec => []TypeOK
<1>1. IInv => TypeOK  BY DEF IInv
<1> QED  BY Inductive, <1>1, PTL

(* The token on disk is the one of the run that serves, for any number of  *)
(* runs, presses of M and failures to write it.                            *)
THEOREM TokenOfTheRun == Spec => []TokenIsLive
<1> QED  BY Inductive, Consequences, PTL

(* Nothing runs for a call without the token of its run or beyond the      *)
(* access map, and what ran while its run served is in the audit log.      *)
THEOREM EveryToolAudited == Spec => []RanIsAudited
<1> QED  BY Inductive, Consequences, PTL

(* A restart is told before it happens, and a make's result comes after    *)
(* its marker: the gateway is safe.                                        *)
THEOREM GatewayIsSafe == Spec => []Inv
<1>1. IInv => Inv  BY Consequences DEF IInv, Inv
<1> QED  BY Inductive, <1>1, PTL

-----------------------------------------------------------------------------
(* The loop over runs.                                                     *)

(* The channel holds keys; a restart of the run that is asked for, or was  *)
(* promised, has been granted after its cooldown.                          *)
RestartIsWarm ==
    /\ keys \in Seq(L!Hotkeys)
    /\ restart => warm
    /\ ask \in 0 .. lap /\ (ask # 0 /\ ask = lap => warm)

(* A run that starts, and one whose watch is not told of an edit, has the  *)
(* config on disk, but for an edit nobody watched.                         *)
LoadedIsCurrent ==
    /\ stage \in {"load", "broken", "startup", "settling"} => watching = "nobody"
    /\ stage = "wait" => watching = "wait"
    /\ \/ stage \in {"startup", "settling"}
       \/ watching = "starting"
       \/ watching = "run" /\ notice = {}
       => tried = version \/ blind

(* The inductive invariant.                                                *)
LoopIInv ==
    L!TypeOK /\ L!OneTakesKeys /\ L!NoRestartStorm /\ RestartIsWarm /\ LoadedIsCurrent

(* Adding to, and taking from, the channel.                                *)
LEMMA KeysAdded ==
    ASSUME keys \in Seq(L!Hotkeys), Len(keys) <= Cap, NEW k \in L!Hotkeys
    PROVE  LET q == IF Len(keys) < Cap THEN Append(keys, k) ELSE keys
           IN  q \in Seq(L!Hotkeys) /\ Len(q) <= Cap
<1> USE LoopAssumption
<1>1. Append(keys, k) \in Seq(L!Hotkeys) /\ Len(Append(keys, k)) = Len(keys) + 1 /\ Len(keys) \in Nat
  OBVIOUS
<1> QED BY <1>1

LEMMA KeysTaken ==
    ASSUME keys \in Seq(L!Hotkeys), Len(keys) <= Cap, keys # <<>>
    PROVE  Tail(keys) \in Seq(L!Hotkeys) /\ Len(Tail(keys)) <= Cap /\ Head(keys) \in L!Hotkeys
<1> USE LoopAssumption
<1>1. Tail(keys) \in Seq(L!Hotkeys) /\ Len(Tail(keys)) = Len(keys) - 1 /\ Len(keys) \in Nat
  OBVIOUS
<1> QED BY <1>1

(* Every step keeps the type, and each other part of the invariant.        *)
LEMMA LoopTypeStep == ASSUME LoopIInv, L!Next PROVE L!TypeOK'
<1> USE LoopAssumption
<1>0. L!TypeOK /\ L!OneTakesKeys /\ L!NoRestartStorm /\ RestartIsWarm /\ LoadedIsCurrent
  BY DEF LoopIInv
<1>1. CASE L!Load
  <2>1. lap' \in Nat
    <3>1. lap \in Nat /\ (lap' = lap \/ lap' = lap + 1)
      BY <1>1, <1>0 DEF L!TypeOK, L!Load
    <3> QED BY <3>1
  <2>2. /\ {reload', restart', drain', ready', warm', canceled', blind', signaled'} \subseteq BOOLEAN
        /\ stage' \in {"startup", "broken"} /\ UNCHANGED <<why, good, notice, watching, keys>>
    BY <1>1, <1>0 DEF L!TypeOK, L!Load, L!world
  <2> QED BY <2>1, <2>2, <1>0 DEF L!TypeOK
<1>2. CASE L!WatchForFix
  BY <1>2, <1>0 DEF L!TypeOK, L!WatchForFix, L!world
<1>3. CASE L!WaitKey
  BY <1>3, <1>0 DEF L!TypeOK, L!WaitKey, L!WaitEndsAs, L!world
<1>4. CASE L!WaitSeesEdit
  BY <1>4, <1>0 DEF L!TypeOK, L!WaitSeesEdit, L!hamr, L!WaitEndsAs, L!world
<1>5. CASE L!WaitSeesSignal
  BY <1>5, <1>0 DEF L!TypeOK, L!WaitSeesSignal, L!WaitEndsAs, L!world
<1>6. CASE L!StartupFails
  BY <1>6, <1>0 DEF L!TypeOK, L!StartupFails, L!Ended, L!world
<1>7. CASE L!StartupSeesCancel
  BY <1>7, <1>0 DEF L!TypeOK, L!StartupSeesCancel, L!Ended, L!world
<1>8. CASE L!StartupDone
  BY <1>8, <1>0 DEF L!TypeOK, L!StartupDone, L!world
<1>9. CASE L!DrainKey
  BY <1>9, <1>0 DEF L!TypeOK, L!DrainKey, L!HandleHotkey, L!world
<1>10. CASE L!DrainEnds
  BY <1>10, <1>0 DEF L!TypeOK, L!DrainEnds, L!world
<1>11. CASE L!Serve
  BY <1>11, <1>0 DEF L!TypeOK, L!Serve, L!world
<1>12. CASE L!WatchConfig
  BY <1>12, <1>0 DEF L!TypeOK, L!WatchConfig, L!world
<1>13. CASE L!WatchSeesEdit
  BY <1>13, <1>0 DEF L!TypeOK, L!WatchSeesEdit, L!world
<1>14. CASE L!ServeSeesCancel
  BY <1>14, <1>0 DEF L!TypeOK, L!ServeSeesCancel, L!Ended, L!world
<1>15. CASE L!ServeSeesReload
  BY <1>15, <1>0 DEF L!TypeOK, L!ServeSeesReload, L!Ended, L!world
<1>16. CASE L!ServeSeesRestart
  BY <1>16, <1>0 DEF L!TypeOK, L!ServeSeesRestart, L!Ended, L!world
<1>17. CASE L!ServeKey
  BY <1>17, <1>0 DEF L!TypeOK, L!ServeKey, L!HandleHotkey, L!Ended, L!world
<1>18. CASE L!Teardown
  BY <1>18, <1>0 DEF L!TypeOK, L!Teardown, L!world
<1>19. ASSUME NEW f \in L!Files, L!Edit(f) PROVE L!TypeOK'
  BY <1>19, <1>0 DEF L!TypeOK, L!Edit, L!hamr
<1>20. ASSUME NEW k \in L!Hotkeys, L!Press(k) PROVE L!TypeOK'
  BY <1>20, <1>0 DEF L!TypeOK, L!Press, L!hamr
<1>21. CASE L!Signal
  BY <1>21, <1>0 DEF L!TypeOK, L!Signal, L!hamr
<1>22. CASE L!WarmUp
  BY <1>22, <1>0 DEF L!TypeOK, L!WarmUp, L!hamr
<1>23. CASE L!CheckRestart
  BY <1>23, <1>0 DEF L!TypeOK, L!CheckRestart, L!hamr
<1>24. CASE L!RequestRestart
  BY <1>24, <1>0 DEF L!TypeOK, L!RequestRestart
<1> QED BY <1>1, <1>2, <1>3, <1>4, <1>5, <1>6, <1>7, <1>8, <1>9, <1>10, <1>11, <1>12, <1>13,
   <1>14, <1>15, <1>16, <1>17, <1>18, <1>19, <1>20, <1>21, <1>22, <1>23, <1>24 DEF L!Next

LEMMA OneTakesKeysStep == ASSUME LoopIInv, L!Next PROVE L!OneTakesKeys'
<1> USE LoopAssumption
<1>0. L!TypeOK /\ L!OneTakesKeys /\ L!NoRestartStorm /\ RestartIsWarm /\ LoadedIsCurrent
  BY DEF LoopIInv
<1>1. CASE L!Load
  BY <1>1, <1>0 DEF L!OneTakesKeys, L!Load, L!world
<1>2. CASE L!WatchForFix
  BY <1>2, <1>0 DEF L!OneTakesKeys, L!WatchForFix, L!world
<1>3. CASE L!WaitKey
  BY <1>3, <1>0 DEF L!OneTakesKeys, L!WaitKey, L!WaitEndsAs, L!world
<1>4. CASE L!WaitSeesEdit
  BY <1>4, <1>0 DEF L!OneTakesKeys, L!WaitSeesEdit, L!hamr, L!WaitEndsAs, L!world
<1>5. CASE L!WaitSeesSignal
  BY <1>5, <1>0 DEF L!OneTakesKeys, L!WaitSeesSignal, L!WaitEndsAs, L!world
<1>6. CASE L!StartupFails
  BY <1>6, <1>0 DEF L!OneTakesKeys, L!StartupFails, L!Ended, L!world
<1>7. CASE L!StartupSeesCancel
  BY <1>7, <1>0 DEF L!OneTakesKeys, L!StartupSeesCancel, L!Ended, L!world
<1>8. CASE L!StartupDone
  BY <1>8, <1>0 DEF L!OneTakesKeys, L!StartupDone, L!world
<1>9. CASE L!DrainKey
  BY <1>9, <1>0 DEF L!OneTakesKeys, L!DrainKey, L!HandleHotkey, L!world
<1>10. CASE L!DrainEnds
  BY <1>10, <1>0 DEF L!OneTakesKeys, L!DrainEnds, L!world
<1>11. CASE L!Serve
  BY <1>11, <1>0 DEF L!OneTakesKeys, L!Serve, L!world
<1>12. CASE L!WatchConfig
  BY <1>12, <1>0 DEF L!OneTakesKeys, L!WatchConfig, L!world
<1>13. CASE L!WatchSeesEdit
  BY <1>13, <1>0 DEF L!OneTakesKeys, L!WatchSeesEdit, L!world
<1>14. CASE L!ServeSeesCancel
  BY <1>14, <1>0 DEF L!OneTakesKeys, L!ServeSeesCancel, L!Ended, L!world
<1>15. CASE L!ServeSeesReload
  BY <1>15, <1>0 DEF L!OneTakesKeys, L!ServeSeesReload, L!Ended, L!world
<1>16. CASE L!ServeSeesRestart
  BY <1>16, <1>0 DEF L!OneTakesKeys, L!ServeSeesRestart, L!Ended, L!world
<1>17. CASE L!ServeKey
  BY <1>17, <1>0 DEF L!OneTakesKeys, L!ServeKey, L!HandleHotkey, L!Ended, L!world
<1>18. CASE L!Teardown
  BY <1>18, <1>0 DEF L!OneTakesKeys, L!Teardown, L!world
<1>19. ASSUME NEW f \in L!Files, L!Edit(f) PROVE L!OneTakesKeys'
  BY <1>19, <1>0 DEF L!OneTakesKeys, L!Edit, L!hamr
<1>20. ASSUME NEW k \in L!Hotkeys, L!Press(k) PROVE L!OneTakesKeys'
  BY <1>20, <1>0 DEF L!OneTakesKeys, L!Press, L!hamr
<1>21. CASE L!Signal
  BY <1>21, <1>0 DEF L!OneTakesKeys, L!Signal, L!hamr
<1>22. CASE L!WarmUp
  BY <1>22, <1>0 DEF L!OneTakesKeys, L!WarmUp, L!hamr
<1>23. CASE L!CheckRestart
  BY <1>23, <1>0 DEF L!OneTakesKeys, L!CheckRestart, L!hamr
<1>24. CASE L!RequestRestart
  BY <1>24, <1>0 DEF L!OneTakesKeys, L!RequestRestart
<1> QED BY <1>1, <1>2, <1>3, <1>4, <1>5, <1>6, <1>7, <1>8, <1>9, <1>10, <1>11, <1>12, <1>13,
   <1>14, <1>15, <1>16, <1>17, <1>18, <1>19, <1>20, <1>21, <1>22, <1>23, <1>24 DEF L!Next

LEMMA NoRestartStormStep == ASSUME LoopIInv, L!Next PROVE L!NoRestartStorm'
<1> USE LoopAssumption
<1>0. L!TypeOK /\ L!OneTakesKeys /\ L!NoRestartStorm /\ RestartIsWarm /\ LoadedIsCurrent
  BY DEF LoopIInv
<1>k. keys \in Seq(L!Hotkeys) /\ Len(keys) <= Cap /\ Len(keys) \in Nat
  BY <1>0 DEF L!TypeOK, RestartIsWarm
<1>1. CASE L!Load
  BY <1>1, <1>0 DEF L!NoRestartStorm, L!Load, L!world
<1>2. CASE L!WatchForFix
  BY <1>2, <1>0 DEF L!NoRestartStorm, L!WatchForFix, L!world
<1>3. CASE L!WaitKey
  BY <1>3, <1>0 DEF L!NoRestartStorm, L!WaitKey, L!WaitEndsAs, L!world
<1>4. CASE L!WaitSeesEdit
  BY <1>4, <1>0 DEF L!NoRestartStorm, L!WaitSeesEdit, L!hamr, L!WaitEndsAs, L!world
<1>5. CASE L!WaitSeesSignal
  BY <1>5, <1>0 DEF L!NoRestartStorm, L!WaitSeesSignal, L!WaitEndsAs, L!world
<1>6. CASE L!StartupFails
  BY <1>6, <1>0 DEF L!NoRestartStorm, L!StartupFails, L!Ended, L!world
<1>7. CASE L!StartupSeesCancel
  BY <1>7, <1>0 DEF L!NoRestartStorm, L!StartupSeesCancel, L!Ended, L!world
<1>8. CASE L!StartupDone
  BY <1>8, <1>0 DEF L!NoRestartStorm, L!StartupDone, L!world
<1>9. CASE L!DrainKey
  BY <1>9, <1>0 DEF L!NoRestartStorm, L!DrainKey, L!HandleHotkey, L!world
<1>10. CASE L!DrainEnds
  BY <1>10, <1>0 DEF L!NoRestartStorm, L!DrainEnds, L!world
<1>11. CASE L!Serve
  BY <1>11, <1>0 DEF L!NoRestartStorm, L!Serve, L!world
<1>12. CASE L!WatchConfig
  BY <1>12, <1>0 DEF L!NoRestartStorm, L!WatchConfig, L!world
<1>13. CASE L!WatchSeesEdit
  BY <1>13, <1>0 DEF L!NoRestartStorm, L!WatchSeesEdit, L!world
<1>14. CASE L!ServeSeesCancel
  BY <1>14, <1>0 DEF L!NoRestartStorm, L!ServeSeesCancel, L!Ended, L!world
<1>15. CASE L!ServeSeesReload
  BY <1>15, <1>0 DEF L!NoRestartStorm, L!ServeSeesReload, L!Ended, L!world
<1>16. CASE L!ServeSeesRestart
  BY <1>16, <1>0, <1>k DEF L!TypeOK, L!OneTakesKeys, L!NoRestartStorm, RestartIsWarm,
     LoadedIsCurrent, L!ServeSeesRestart, L!Ended, L!world
<1>17. CASE L!ServeKey
  BY <1>17, <1>0 DEF L!NoRestartStorm, L!ServeKey, L!HandleHotkey, L!Ended, L!world
<1>18. CASE L!Teardown
  BY <1>18, <1>0 DEF L!NoRestartStorm, L!Teardown, L!world
<1>19. ASSUME NEW f \in L!Files, L!Edit(f) PROVE L!NoRestartStorm'
  BY <1>19, <1>0 DEF L!NoRestartStorm, L!Edit, L!hamr
<1>20. ASSUME NEW k \in L!Hotkeys, L!Press(k) PROVE L!NoRestartStorm'
  BY <1>20, <1>0 DEF L!NoRestartStorm, L!Press, L!hamr
<1>21. CASE L!Signal
  BY <1>21, <1>0 DEF L!NoRestartStorm, L!Signal, L!hamr
<1>22. CASE L!WarmUp
  BY <1>22, <1>0 DEF L!NoRestartStorm, L!WarmUp, L!hamr
<1>23. CASE L!CheckRestart
  BY <1>23, <1>0 DEF L!NoRestartStorm, L!CheckRestart, L!hamr
<1>24. CASE L!RequestRestart
  BY <1>24, <1>0 DEF L!NoRestartStorm, L!RequestRestart
<1> QED BY <1>1, <1>2, <1>3, <1>4, <1>5, <1>6, <1>7, <1>8, <1>9, <1>10, <1>11, <1>12, <1>13,
   <1>14, <1>15, <1>16, <1>17, <1>18, <1>19, <1>20, <1>21, <1>22, <1>23, <1>24 DEF L!Next

LEMMA RestartIsWarmStep == ASSUME LoopIInv, L!Next PROVE RestartIsWarm'
<1> USE LoopAssumption
<1>0. L!TypeOK /\ L!OneTakesKeys /\ L!NoRestartStorm /\ RestartIsWarm /\ LoadedIsCurrent
  BY DEF LoopIInv
<1>k. keys \in Seq(L!Hotkeys) /\ Len(keys) <= Cap /\ Len(keys) \in Nat
  BY <1>0 DEF L!TypeOK, RestartIsWarm
<1>1. CASE L!Load
  BY <1>1, <1>0, <1>k DEF RestartIsWarm, L!TypeOK, L!Load, L!world
<1>2. CASE L!WatchForFix
  BY <1>2, <1>0 DEF RestartIsWarm, L!WatchForFix, L!world
<1>3. CASE L!WaitKey
  BY <1>3, <1>0 DEF RestartIsWarm, L!WaitKey, L!WaitEndsAs, L!world
<1>4. CASE L!WaitSeesEdit
  BY <1>4, <1>0 DEF RestartIsWarm, L!WaitSeesEdit, L!hamr, L!WaitEndsAs, L!world
<1>5. CASE L!WaitSeesSignal
  BY <1>5, <1>0 DEF RestartIsWarm, L!WaitSeesSignal, L!WaitEndsAs, L!world
<1>6. CASE L!StartupFails
  BY <1>6, <1>0 DEF RestartIsWarm, L!StartupFails, L!Ended, L!world
<1>7. CASE L!StartupSeesCancel
  BY <1>7, <1>0 DEF RestartIsWarm, L!StartupSeesCancel, L!Ended, L!world
<1>8. CASE L!StartupDone
  BY <1>8, <1>0 DEF RestartIsWarm, L!StartupDone, L!world
<1>9. CASE L!DrainKey
  BY <1>9, <1>0, KeysTaken, <1>k DEF RestartIsWarm, L!DrainKey, L!HandleHotkey, L!world
<1>10. CASE L!DrainEnds
  BY <1>10, <1>0 DEF RestartIsWarm, L!DrainEnds, L!world
<1>11. CASE L!Serve
  BY <1>11, <1>0 DEF RestartIsWarm, L!Serve, L!world
<1>12. CASE L!WatchConfig
  BY <1>12, <1>0 DEF RestartIsWarm, L!WatchConfig, L!world
<1>13. CASE L!WatchSeesEdit
  BY <1>13, <1>0 DEF RestartIsWarm, L!WatchSeesEdit, L!world
<1>14. CASE L!ServeSeesCancel
  BY <1>14, <1>0 DEF RestartIsWarm, L!ServeSeesCancel, L!Ended, L!world
<1>15. CASE L!ServeSeesReload
  BY <1>15, <1>0 DEF RestartIsWarm, L!ServeSeesReload, L!Ended, L!world
<1>16. CASE L!ServeSeesRestart
  BY <1>16, <1>0 DEF RestartIsWarm, L!ServeSeesRestart, L!Ended, L!world
<1>17. CASE L!ServeKey
  BY <1>17, <1>0, KeysTaken, <1>k DEF RestartIsWarm, L!ServeKey, L!HandleHotkey, L!Ended, L!world
<1>18. CASE L!Teardown
  BY <1>18, <1>0 DEF RestartIsWarm, L!Teardown, L!world
<1>19. ASSUME NEW f \in L!Files, L!Edit(f) PROVE RestartIsWarm'
  BY <1>19, <1>0 DEF RestartIsWarm, L!Edit, L!hamr
<1>20. ASSUME NEW k \in L!Hotkeys, L!Press(k) PROVE RestartIsWarm'
  BY <1>20, <1>0 DEF RestartIsWarm, L!Press, L!hamr
<1>21. CASE L!Signal
  BY <1>21, <1>0 DEF RestartIsWarm, L!Signal, L!hamr
<1>22. CASE L!WarmUp
  BY <1>22, <1>0 DEF RestartIsWarm, L!WarmUp, L!hamr
<1>23. CASE L!CheckRestart
  BY <1>23, <1>0, <1>k DEF RestartIsWarm, L!TypeOK, L!CheckRestart, L!hamr
<1>24. CASE L!RequestRestart
  BY <1>24, <1>0, <1>k DEF RestartIsWarm, L!TypeOK, L!RequestRestart
<1> QED BY <1>1, <1>2, <1>3, <1>4, <1>5, <1>6, <1>7, <1>8, <1>9, <1>10, <1>11, <1>12, <1>13,
   <1>14, <1>15, <1>16, <1>17, <1>18, <1>19, <1>20, <1>21, <1>22, <1>23, <1>24 DEF L!Next

LEMMA LoadedIsCurrentStep == ASSUME LoopIInv, L!Next PROVE LoadedIsCurrent'
<1> USE LoopAssumption
<1>0. L!TypeOK /\ L!OneTakesKeys /\ L!NoRestartStorm /\ RestartIsWarm /\ LoadedIsCurrent
  BY DEF LoopIInv
<1>1. CASE L!Load
  BY <1>1, <1>0 DEF LoadedIsCurrent, L!Load, L!world
<1>2. CASE L!WatchForFix
  BY <1>2, <1>0 DEF LoadedIsCurrent, L!WatchForFix, L!world
<1>3. CASE L!WaitKey
  BY <1>3, <1>0 DEF LoadedIsCurrent, L!WaitKey, L!WaitEndsAs, L!world
<1>4. CASE L!WaitSeesEdit
  <2>1. stage = "wait" /\ UNCHANGED <<tried, version, blind>>
    BY <1>4 DEF L!WaitSeesEdit, L!WaitEndsAs, L!world
  <2>2. \/ stage' = "load" /\ watching' = "nobody"
        \/ stage' = stage /\ watching' = watching /\ watching \notin {"starting", "run"}
    <3>1. watching \notin {"starting", "run"}
      BY <2>1, <1>0 DEF LoadedIsCurrent, L!TypeOK
    <3> QED BY <3>1, <1>4 DEF L!WaitSeesEdit, L!WaitEndsAs
  <2> QED BY <2>1, <2>2, <1>0 DEF LoadedIsCurrent
<1>5. CASE L!WaitSeesSignal
  BY <1>5, <1>0 DEF LoadedIsCurrent, L!WaitSeesSignal, L!WaitEndsAs, L!world
<1>6. CASE L!StartupFails
  BY <1>6, <1>0 DEF LoadedIsCurrent, L!StartupFails, L!Ended, L!world
<1>7. CASE L!StartupSeesCancel
  BY <1>7, <1>0 DEF LoadedIsCurrent, L!StartupSeesCancel, L!Ended, L!world
<1>8. CASE L!StartupDone
  BY <1>8, <1>0 DEF LoadedIsCurrent, L!StartupDone, L!world
<1>9. CASE L!DrainKey
  BY <1>9, <1>0 DEF LoadedIsCurrent, L!DrainKey, L!HandleHotkey, L!world
<1>10. CASE L!DrainEnds
  BY <1>10, <1>0 DEF LoadedIsCurrent, L!DrainEnds, L!world
<1>11. CASE L!Serve
  BY <1>11, <1>0 DEF LoadedIsCurrent, L!Serve, L!world
<1>12. CASE L!WatchConfig
  BY <1>12, <1>0 DEF LoadedIsCurrent, L!WatchConfig, L!world
<1>13. CASE L!WatchSeesEdit
  BY <1>13, <1>0 DEF LoadedIsCurrent, L!WatchSeesEdit, L!world
<1>14. CASE L!ServeSeesCancel
  BY <1>14, <1>0 DEF LoadedIsCurrent, L!ServeSeesCancel, L!Ended, L!world
<1>15. CASE L!ServeSeesReload
  BY <1>15, <1>0 DEF LoadedIsCurrent, L!ServeSeesReload, L!Ended, L!world
<1>16. CASE L!ServeSeesRestart
  BY <1>16, <1>0 DEF LoadedIsCurrent, L!ServeSeesRestart, L!Ended, L!world
<1>17. CASE L!ServeKey
  BY <1>17, <1>0 DEF LoadedIsCurrent, L!ServeKey, L!HandleHotkey, L!Ended, L!world
<1>18. CASE L!Teardown
  BY <1>18, <1>0 DEF LoadedIsCurrent, L!Teardown, L!world
<1>19. ASSUME NEW f \in L!Files, L!Edit(f) PROVE LoadedIsCurrent'
  BY <1>19, <1>0 DEF LoadedIsCurrent, L!Edit, L!hamr
<1>20. ASSUME NEW k \in L!Hotkeys, L!Press(k) PROVE LoadedIsCurrent'
  BY <1>20, <1>0 DEF LoadedIsCurrent, L!Press, L!hamr
<1>21. CASE L!Signal
  BY <1>21, <1>0 DEF LoadedIsCurrent, L!Signal, L!hamr
<1>22. CASE L!WarmUp
  BY <1>22, <1>0 DEF LoadedIsCurrent, L!WarmUp, L!hamr
<1>23. CASE L!CheckRestart
  BY <1>23, <1>0 DEF LoadedIsCurrent, L!CheckRestart, L!hamr
<1>24. CASE L!RequestRestart
  BY <1>24, <1>0 DEF LoadedIsCurrent, L!RequestRestart
<1> QED BY <1>1, <1>2, <1>3, <1>4, <1>5, <1>6, <1>7, <1>8, <1>9, <1>10, <1>11, <1>12, <1>13,
   <1>14, <1>15, <1>16, <1>17, <1>18, <1>19, <1>20, <1>21, <1>22, <1>23, <1>24 DEF L!Next

-----------------------------------------------------------------------------
(* The stack and its jobs.                                                 *)

(* A job is of a run that was, and of a part of the stack.                 *)
JobsAreOfRuns ==
    /\ nth \in A!Runs
    /\ \A j \in Jobs : owner[j] \in A!Runs
    /\ jpc \in [Jobs -> {"idle", "restart", "rm", "up", "done"}] /\ what \in [Jobs -> SUBSET Services]
    /\ owner \in [Jobs -> A!Runs]
    /\ error \in [A!Runs -> BOOLEAN]

(* Unless commands mixed, at most one job is under way, the wipe of the    *)
(* whole stack, asked of this run; and with none the stack is up or its    *)
(* error shown.                                                            *)
OneWipe ==
    state = "on" /\ ~mixed =>
        /\ \A i, j \in A!Active : i = j
        /\ \A j \in A!Active : jpc[j] \in {"rm", "up"} /\ what[j] = Services /\ owner[j] = nth
        /\ A!Active = {} => running = Services \/ error[nth]

(* After the stack was taken down nobody brings it up again but late jobs. *)
DownStays ==
    state \in {"down", "torn", "quit"} /\ ~late =>
        /\ A!Active = {}
        /\ keep \/ downFailed \/ running = {}

(* The inductive invariant.                                                *)
ActionsIInv == A!TypeOK /\ JobsAreOfRuns /\ A!SpinnerEnds /\ OneWipe /\ DownStays /\ A!FollowerGone

(* What a docker command leaves running.                                   *)
LEMMA StartedIs ==
    ASSUME running \subseteq Services, NEW s \in SUBSET Services, NEW ok \in BOOLEAN,
           NEW r \in A!Started(s, ok)
    PROVE  r \subseteq Services /\ (ok /\ s = Services => r = Services) /\ running \subseteq r
BY DEF A!Started

LEMMA StoppedIs ==
    ASSUME running \subseteq Services, NEW s \in SUBSET Services, NEW ok \in BOOLEAN,
           NEW r \in A!Stopped(s, ok)
    PROVE  r \subseteq Services /\ (ok /\ s = Services => r = {}) /\ r \subseteq running
BY DEF A!Stopped

(* Every step keeps the type, and each other part of the invariant.        *)
LEMMA ActionsTypeStep == ASSUME ActionsIInv, A!Next PROVE A!TypeOK'
<1> USE ActionsAssumption
<1>0. A!TypeOK /\ JobsAreOfRuns /\ A!SpinnerEnds /\ OneWipe /\ DownStays /\ A!FollowerGone
  BY DEF ActionsIInv
<1>r. running \subseteq Services /\ nth \in A!Runs
  BY <1>0 DEF A!TypeOK
<1>m. 1 \in A!Runs /\ (nth < MaxRuns => nth + 1 \in A!Runs)
  BY <1>r, GatewayAssumption DEF A!Runs
<1>1. CASE A!Inspect
  BY <1>1, <1>0 DEF A!TypeOK, JobsAreOfRuns, A!Inspect, A!jobs
<1>2. ASSUME NEW ok \in BOOLEAN, A!BringUp(ok) PROVE A!TypeOK'
  BY <1>2, <1>0, <1>r, StartedIs, StoppedIs DEF A!TypeOK, JobsAreOfRuns, A!BringUp, A!jobs
<1>3. CASE A!Follow
  BY <1>3, <1>0 DEF A!TypeOK, JobsAreOfRuns, A!Follow, A!jobs
<1>4. CASE A!LosesTrack
  BY <1>4, <1>0 DEF A!TypeOK, JobsAreOfRuns, A!LosesTrack, A!jobs
<1>5. ASSUME NEW ok \in BOOLEAN, A!Close(ok) PROVE A!TypeOK'
  BY <1>5, <1>0 DEF A!TypeOK, JobsAreOfRuns, A!Close, A!jobs
<1>6. CASE A!FollowerEnds
  BY <1>6, <1>0 DEF A!TypeOK, JobsAreOfRuns, A!FollowerEnds, A!jobs
<1>7. ASSUME NEW ok \in BOOLEAN, A!TakeDown(ok) PROVE A!TypeOK'
  BY <1>7, <1>0, <1>r, StartedIs, StoppedIs DEF A!TypeOK, JobsAreOfRuns, A!TakeDown, A!jobs
<1>8. CASE A!CloseProxy
  BY <1>8, <1>0 DEF A!TypeOK, JobsAreOfRuns, A!CloseProxy, A!jobs
<1>9. CASE A!NextRun
  BY <1>9, <1>0, <1>r, StartedIs, StoppedIs, <1>m DEF A!TypeOK, JobsAreOfRuns, A!NextRun, A!jobs
<1>10. ASSUME NEW j \in Jobs, NEW ok \in BOOLEAN, A!RestartEnds(j, ok) PROVE A!TypeOK'
  <2>1. running' \subseteq Services
    <3>1. what[j] \in SUBSET Services
      BY <1>0 DEF JobsAreOfRuns
    <3>2. running' \in A!Started(what[j], FALSE) \/ running' \in A!Stopped(what[j], FALSE)
      BY <1>10 DEF A!RestartEnds
    <3> QED BY <3>1, <3>2, <1>r, StartedIs, StoppedIs
  <2>2. UNCHANGED <<nth, state, again, keep, spinner, follower, late, mixed, downFailed>>
    BY <1>10 DEF A!RestartEnds
  <2>3. \A i \in Jobs : jpc'[i] \in {"idle", "restart", "rm", "up", "done"} /\ what'[i] \subseteq Services
    BY <1>10, <1>0 DEF A!RestartEnds, A!Done, JobsAreOfRuns
  <2> QED BY <2>1, <2>2, <2>3, <1>0 DEF A!TypeOK
<1>11. ASSUME NEW j \in Jobs, NEW ok \in BOOLEAN, A!Removed(j, ok) PROVE A!TypeOK'
  BY <1>11, <1>0, <1>r, StartedIs, StoppedIs DEF A!TypeOK, JobsAreOfRuns, A!Removed, A!Says,
     A!Done
<1>12. ASSUME NEW j \in Jobs, NEW ok \in BOOLEAN, A!BroughtUp(j, ok) PROVE A!TypeOK'
  BY <1>12, <1>0, <1>r, StartedIs, StoppedIs DEF A!TypeOK, JobsAreOfRuns, A!BroughtUp, A!Says,
     A!Done
<1>13. ASSUME NEW j \in Jobs, NEW wipe \in BOOLEAN, NEW s \in Scopes, A!Ask(j, s, wipe) PROVE A!TypeOK'
  BY <1>13, <1>0 DEF A!TypeOK, JobsAreOfRuns, A!Ask
<1> QED BY <1>1, <1>2, <1>3, <1>4, <1>5, <1>6, <1>7, <1>8, <1>9, <1>10, <1>11, <1>12, <1>13 DEF
   A!Next, A!JobEnds

LEMMA JobsStep == ASSUME ActionsIInv, A!Next PROVE JobsAreOfRuns'
<1> USE ActionsAssumption
<1>0. A!TypeOK /\ JobsAreOfRuns /\ A!SpinnerEnds /\ OneWipe /\ DownStays /\ A!FollowerGone
  BY DEF ActionsIInv
<1>r. running \subseteq Services /\ nth \in A!Runs
  BY <1>0 DEF A!TypeOK
<1>m. 1 \in A!Runs /\ (nth < MaxRuns => nth + 1 \in A!Runs)
  BY <1>r, GatewayAssumption DEF A!Runs
<1>1. CASE A!Inspect
  BY <1>1, <1>0 DEF JobsAreOfRuns, A!Runs, A!Inspect, A!jobs
<1>2. ASSUME NEW ok \in BOOLEAN, A!BringUp(ok) PROVE JobsAreOfRuns'
  BY <1>2, <1>0 DEF JobsAreOfRuns, A!Runs, A!BringUp, A!jobs
<1>3. CASE A!Follow
  BY <1>3, <1>0 DEF JobsAreOfRuns, A!Runs, A!Follow, A!jobs
<1>4. CASE A!LosesTrack
  BY <1>4, <1>0 DEF JobsAreOfRuns, A!Runs, A!LosesTrack, A!jobs
<1>5. ASSUME NEW ok \in BOOLEAN, A!Close(ok) PROVE JobsAreOfRuns'
  BY <1>5, <1>0 DEF JobsAreOfRuns, A!Runs, A!Close, A!jobs
<1>6. CASE A!FollowerEnds
  BY <1>6, <1>0 DEF JobsAreOfRuns, A!Runs, A!FollowerEnds, A!jobs
<1>7. ASSUME NEW ok \in BOOLEAN, A!TakeDown(ok) PROVE JobsAreOfRuns'
  BY <1>7, <1>0 DEF JobsAreOfRuns, A!Runs, A!TakeDown, A!jobs
<1>8. CASE A!CloseProxy
  BY <1>8, <1>0 DEF JobsAreOfRuns, A!Runs, A!CloseProxy, A!jobs
<1>9. CASE A!NextRun
  BY <1>9, <1>0, <1>r, StartedIs, StoppedIs, <1>m DEF JobsAreOfRuns, A!NextRun, A!jobs
<1>10. ASSUME NEW j \in Jobs, NEW ok \in BOOLEAN, A!RestartEnds(j, ok) PROVE JobsAreOfRuns'
  <2>1. \/ A!Done(j) /\ \E b \in BOOLEAN : error' = [error EXCEPT ![owner[j]] = b]
        \/ jpc' = [jpc EXCEPT ![j] = "up"] /\ UNCHANGED <<error, what, owner>>
    BY <1>10 DEF A!RestartEnds, A!Says
  <2>2. nth' = nth
    BY <1>10 DEF A!RestartEnds
  <2>3. CASE A!Done(j) /\ \E b \in BOOLEAN : error' = [error EXCEPT ![owner[j]] = b]
    BY <2>2, <2>3, <1>0, <1>m DEF JobsAreOfRuns, A!Done
  <2>4. CASE jpc' = [jpc EXCEPT ![j] = "up"] /\ UNCHANGED <<error, what, owner>>
    BY <2>2, <2>4, <1>0 DEF JobsAreOfRuns
  <2> QED BY <2>1, <2>3, <2>4
<1>11. ASSUME NEW j \in Jobs, NEW ok \in BOOLEAN, A!Removed(j, ok) PROVE JobsAreOfRuns'
  <2>1. \/ A!Done(j) /\ \E b \in BOOLEAN : error' = [error EXCEPT ![owner[j]] = b]
        \/ jpc' = [jpc EXCEPT ![j] = "up"] /\ UNCHANGED <<error, what, owner>>
    BY <1>11 DEF A!Removed, A!Says
  <2>2. nth' = nth
    BY <1>11 DEF A!Removed
  <2>3. CASE A!Done(j) /\ \E b \in BOOLEAN : error' = [error EXCEPT ![owner[j]] = b]
    BY <2>2, <2>3, <1>0, <1>m DEF JobsAreOfRuns, A!Done
  <2>4. CASE jpc' = [jpc EXCEPT ![j] = "up"] /\ UNCHANGED <<error, what, owner>>
    BY <2>2, <2>4, <1>0 DEF JobsAreOfRuns
  <2> QED BY <2>1, <2>3, <2>4
<1>12. ASSUME NEW j \in Jobs, NEW ok \in BOOLEAN, A!BroughtUp(j, ok) PROVE JobsAreOfRuns'
  <2>1. \/ A!Done(j) /\ \E b \in BOOLEAN : error' = [error EXCEPT ![owner[j]] = b]
        \/ jpc' = [jpc EXCEPT ![j] = "up"] /\ UNCHANGED <<error, what, owner>>
    BY <1>12 DEF A!BroughtUp, A!Says
  <2>2. nth' = nth
    BY <1>12 DEF A!BroughtUp
  <2>3. CASE A!Done(j) /\ \E b \in BOOLEAN : error' = [error EXCEPT ![owner[j]] = b]
    BY <2>2, <2>3, <1>0, <1>m DEF JobsAreOfRuns, A!Done
  <2>4. CASE jpc' = [jpc EXCEPT ![j] = "up"] /\ UNCHANGED <<error, what, owner>>
    BY <2>2, <2>4, <1>0 DEF JobsAreOfRuns
  <2> QED BY <2>1, <2>3, <2>4
<1>13. ASSUME NEW j \in Jobs, NEW wipe \in BOOLEAN, NEW s \in Scopes, A!Ask(j, s, wipe) PROVE JobsAreOfRuns'
  BY <1>13, <1>0 DEF JobsAreOfRuns, A!Runs, A!Ask
<1> QED BY <1>1, <1>2, <1>3, <1>4, <1>5, <1>6, <1>7, <1>8, <1>9, <1>10, <1>11, <1>12, <1>13 DEF
   A!Next, A!JobEnds

LEMMA SpinnerStep == ASSUME ActionsIInv, A!Next PROVE A!SpinnerEnds'
<1> USE ActionsAssumption
<1>0. A!TypeOK /\ JobsAreOfRuns /\ A!SpinnerEnds /\ OneWipe /\ DownStays /\ A!FollowerGone
  BY DEF ActionsIInv
<1>1. CASE A!Inspect
  BY <1>1, <1>0 DEF A!SpinnerEnds, A!Inspect, A!jobs
<1>2. ASSUME NEW ok \in BOOLEAN, A!BringUp(ok) PROVE A!SpinnerEnds'
  BY <1>2, <1>0 DEF A!SpinnerEnds, A!BringUp, A!jobs
<1>3. CASE A!Follow
  BY <1>3, <1>0 DEF A!SpinnerEnds, A!Follow, A!jobs
<1>4. CASE A!LosesTrack
  BY <1>4, <1>0 DEF A!SpinnerEnds, A!LosesTrack, A!jobs
<1>5. ASSUME NEW ok \in BOOLEAN, A!Close(ok) PROVE A!SpinnerEnds'
  BY <1>5, <1>0 DEF A!SpinnerEnds, A!Close, A!jobs
<1>6. CASE A!FollowerEnds
  BY <1>6, <1>0 DEF A!SpinnerEnds, A!FollowerEnds, A!jobs
<1>7. ASSUME NEW ok \in BOOLEAN, A!TakeDown(ok) PROVE A!SpinnerEnds'
  BY <1>7, <1>0 DEF A!SpinnerEnds, A!TakeDown, A!jobs
<1>8. CASE A!CloseProxy
  BY <1>8, <1>0 DEF A!SpinnerEnds, A!CloseProxy, A!jobs
<1>9. CASE A!NextRun
  BY <1>9, <1>0 DEF A!SpinnerEnds, A!NextRun, A!jobs
<1>10. ASSUME NEW j \in Jobs, NEW ok \in BOOLEAN, A!RestartEnds(j, ok) PROVE A!SpinnerEnds'
  BY <1>10, <1>0 DEF A!SpinnerEnds, A!RestartEnds, A!Says, A!Done
<1>11. ASSUME NEW j \in Jobs, NEW ok \in BOOLEAN, A!Removed(j, ok) PROVE A!SpinnerEnds'
  BY <1>11, <1>0 DEF A!SpinnerEnds, A!Removed, A!Says, A!Done
<1>12. ASSUME NEW j \in Jobs, NEW ok \in BOOLEAN, A!BroughtUp(j, ok) PROVE A!SpinnerEnds'
  BY <1>12, <1>0 DEF A!SpinnerEnds, A!BroughtUp, A!Says, A!Done
<1>13. ASSUME NEW j \in Jobs, NEW wipe \in BOOLEAN, NEW s \in Scopes, A!Ask(j, s, wipe) PROVE A!SpinnerEnds'
  BY <1>13, <1>0 DEF A!SpinnerEnds, A!Ask
<1> QED BY <1>1, <1>2, <1>3, <1>4, <1>5, <1>6, <1>7, <1>8, <1>9, <1>10, <1>11, <1>12, <1>13 DEF
   A!Next, A!JobEnds

LEMMA OneWipeStep == ASSUME ActionsIInv, A!Next PROVE OneWipe'
<1> USE ActionsAssumption
<1>0. A!TypeOK /\ JobsAreOfRuns /\ A!SpinnerEnds /\ OneWipe /\ DownStays /\ A!FollowerGone
  BY DEF ActionsIInv
<1>r. running \subseteq Services /\ nth \in A!Runs
  BY <1>0 DEF A!TypeOK
<1>1. CASE A!Inspect
  BY <1>1, <1>0 DEF OneWipe, A!Inspect, A!jobs
<1>2. ASSUME NEW ok \in BOOLEAN, A!BringUp(ok) PROVE OneWipe'
  <2>1. A!Active' = A!Active /\ nth' = nth /\ mixed' = (A!Active # {})
    BY <1>2 DEF A!Active, A!BringUp, A!jobs
  <2>2. ok => running' = Services
    BY <1>2, <1>r, StartedIs DEF A!BringUp
  <2>3. ~ok => error'[nth]
    BY <1>2, <1>r, <1>0 DEF A!BringUp, JobsAreOfRuns
  <2> QED BY <2>1, <2>2, <2>3 DEF OneWipe
<1>3. CASE A!Follow
  BY <1>3, <1>0 DEF OneWipe, A!Active, A!Follow, A!jobs
<1>4. CASE A!LosesTrack
  BY <1>4, <1>0 DEF OneWipe, A!Active, A!LosesTrack, A!jobs
<1>5. ASSUME NEW ok \in BOOLEAN, A!Close(ok) PROVE OneWipe'
  BY <1>5, <1>0 DEF OneWipe, A!Close, A!jobs
<1>6. CASE A!FollowerEnds
  BY <1>6, <1>0 DEF OneWipe, A!FollowerEnds, A!jobs
<1>7. ASSUME NEW ok \in BOOLEAN, A!TakeDown(ok) PROVE OneWipe'
  BY <1>7, <1>0 DEF OneWipe, A!TakeDown, A!jobs
<1>8. CASE A!CloseProxy
  BY <1>8, <1>0 DEF OneWipe, A!CloseProxy, A!jobs
<1>9. CASE A!NextRun
  BY <1>9, <1>0 DEF OneWipe, A!NextRun, A!jobs
<1>10. ASSUME NEW j \in Jobs, NEW ok \in BOOLEAN, A!RestartEnds(j, ok) PROVE OneWipe'
  BY <1>10, <1>0 DEF OneWipe, A!Active, A!RestartEnds, A!Says, A!Done
<1>11. ASSUME NEW j \in Jobs, NEW ok \in BOOLEAN, A!Removed(j, ok) PROVE OneWipe'
  <2> SUFFICES ASSUME state = "on", ~mixed
               PROVE  /\ \A i, k \in A!Active' : i = k
                      /\ \A i \in A!Active' : jpc'[i] \in {"rm", "up"} /\ what'[i] = Services /\ owner'[i] = nth
                      /\ A!Active' = {} => running' = Services \/ error'[nth]
    BY <1>11 DEF OneWipe, A!Removed
  <2>1. jpc[j] = "rm" /\ A!Active = {j} /\ what[j] = Services /\ owner[j] = nth
    BY <1>11, <1>0 DEF A!Removed, A!Active, OneWipe
  <2>2. CASE ok
    <3>1. jpc' = [jpc EXCEPT ![j] = "up"] /\ what' = what /\ owner' = owner
      BY <1>11, <2>2 DEF A!Removed
    <3>2. A!Active' = {j} /\ jpc'[j] = "up"
      BY <3>1, <2>1, <1>0 DEF A!Active, JobsAreOfRuns
    <3> QED BY <3>1, <3>2, <2>1
  <2>3. CASE ~ok
    <3>1. jpc' = [jpc EXCEPT ![j] = "done"] /\ error' = [error EXCEPT ![nth] = TRUE]
      BY <1>11, <2>1, <2>3 DEF A!Removed, A!Done, A!Says
    <3>2. A!Active' = {} /\ error'[nth]
      BY <3>1, <2>1, <1>0, <1>r DEF A!Active, JobsAreOfRuns
    <3> QED BY <3>2
  <2> QED BY <2>2, <2>3
<1>12. ASSUME NEW j \in Jobs, NEW ok \in BOOLEAN, A!BroughtUp(j, ok) PROVE OneWipe'
  <2> SUFFICES ASSUME state = "on", ~mixed, A!Active = {j}
               PROVE  A!Active' = {} /\ (running' = Services \/ error'[nth])
    BY <1>12 DEF OneWipe, A!BroughtUp
  <2>1. what[j] = Services /\ owner[j] = nth
    BY <1>0 DEF OneWipe
  <2>2. jpc' = [jpc EXCEPT ![j] = "done"] /\ error' = [error EXCEPT ![nth] = ~ok]
    BY <1>12, <2>1 DEF A!BroughtUp, A!Done, A!Says
  <2>3. A!Active' = {}
    BY <2>2, <1>0 DEF A!Active, JobsAreOfRuns
  <2>4. ok => running' = Services
    BY <1>12, <1>r, <2>1, StartedIs DEF A!BroughtUp
  <2>5. ~ok => error'[nth]
    BY <2>2, <1>0, <1>r DEF JobsAreOfRuns
  <2> QED BY <2>3, <2>4, <2>5
<1>13. ASSUME NEW j \in Jobs, NEW wipe \in BOOLEAN, NEW s \in Scopes, A!Ask(j, s, wipe) PROVE OneWipe'
  <2> SUFFICES ASSUME state = "on", ~mixed, s = Services, A!Active = {}, wipe
               PROVE  /\ A!Active' = {j}
                      /\ jpc'[j] = "rm" /\ what'[j] = Services /\ owner'[j] = nth
    BY <1>13 DEF OneWipe, A!Ask
  <2>1. /\ jpc' = [jpc EXCEPT ![j] = "rm"] /\ what' = [what EXCEPT ![j] = Services]
        /\ owner' = [owner EXCEPT ![j] = nth]
    BY <1>13 DEF A!Ask
  <2> QED BY <2>1, <1>0 DEF A!Active, JobsAreOfRuns
<1> QED BY <1>1, <1>2, <1>3, <1>4, <1>5, <1>6, <1>7, <1>8, <1>9, <1>10, <1>11, <1>12, <1>13 DEF
   A!Next, A!JobEnds

LEMMA DownStaysStep == ASSUME ActionsIInv, A!Next PROVE DownStays'
<1> USE ActionsAssumption
<1>0. A!TypeOK /\ JobsAreOfRuns /\ A!SpinnerEnds /\ OneWipe /\ DownStays /\ A!FollowerGone
  BY DEF ActionsIInv
<1>r. running \subseteq Services /\ nth \in A!Runs
  BY <1>0 DEF A!TypeOK
<1>1. CASE A!Inspect
  BY <1>1, <1>0 DEF DownStays, A!Inspect, A!jobs
<1>2. ASSUME NEW ok \in BOOLEAN, A!BringUp(ok) PROVE DownStays'
  BY <1>2, <1>0 DEF DownStays, A!BringUp, A!jobs
<1>3. CASE A!Follow
  BY <1>3, <1>0 DEF DownStays, A!Follow, A!jobs
<1>4. CASE A!LosesTrack
  BY <1>4, <1>0 DEF DownStays, A!Active, A!LosesTrack, A!jobs
<1>5. ASSUME NEW ok \in BOOLEAN, A!Close(ok) PROVE DownStays'
  BY <1>5, <1>0 DEF DownStays, A!Close, A!jobs
<1>6. CASE A!FollowerEnds
  BY <1>6, <1>0 DEF DownStays, A!FollowerEnds, A!jobs
<1>7. ASSUME NEW ok \in BOOLEAN, A!TakeDown(ok) PROVE DownStays'
  BY <1>7, <1>0, <1>r, StartedIs, StoppedIs DEF DownStays, A!Active, A!TypeOK, JobsAreOfRuns,
     A!TakeDown, A!jobs
<1>8. CASE A!CloseProxy
  BY <1>8, <1>0 DEF DownStays, A!Active, A!CloseProxy, A!jobs
<1>9. CASE A!NextRun
  BY <1>9, <1>0 DEF DownStays, A!Active, A!NextRun, A!jobs
<1>10. ASSUME NEW j \in Jobs, NEW ok \in BOOLEAN, A!RestartEnds(j, ok) PROVE DownStays'
  BY <1>10, <1>0 DEF DownStays, A!Active, A!RestartEnds, A!Says, A!Done
<1>11. ASSUME NEW j \in Jobs, NEW ok \in BOOLEAN, A!Removed(j, ok) PROVE DownStays'
  BY <1>11, <1>0 DEF DownStays, A!Active, A!Removed, A!Says, A!Done
<1>12. ASSUME NEW j \in Jobs, NEW ok \in BOOLEAN, A!BroughtUp(j, ok) PROVE DownStays'
  BY <1>12, <1>0 DEF DownStays, A!Active, A!BroughtUp, A!Says, A!Done
<1>13. ASSUME NEW j \in Jobs, NEW wipe \in BOOLEAN, NEW s \in Scopes, A!Ask(j, s, wipe) PROVE DownStays'
  BY <1>13, <1>0 DEF DownStays, A!Ask
<1> QED BY <1>1, <1>2, <1>3, <1>4, <1>5, <1>6, <1>7, <1>8, <1>9, <1>10, <1>11, <1>12, <1>13 DEF
   A!Next, A!JobEnds

LEMMA FollowerStep == ASSUME ActionsIInv, A!Next PROVE A!FollowerGone'
<1> USE ActionsAssumption
<1>0. A!TypeOK /\ JobsAreOfRuns /\ A!SpinnerEnds /\ OneWipe /\ DownStays /\ A!FollowerGone
  BY DEF ActionsIInv
<1>1. CASE A!Inspect
  BY <1>1, <1>0 DEF A!FollowerGone, A!Inspect, A!jobs
<1>2. ASSUME NEW ok \in BOOLEAN, A!BringUp(ok) PROVE A!FollowerGone'
  BY <1>2, <1>0 DEF A!FollowerGone, A!BringUp, A!jobs
<1>3. CASE A!Follow
  BY <1>3, <1>0 DEF A!FollowerGone, A!Follow, A!jobs
<1>4. CASE A!LosesTrack
  BY <1>4, <1>0 DEF A!FollowerGone, A!LosesTrack, A!jobs
<1>5. ASSUME NEW ok \in BOOLEAN, A!Close(ok) PROVE A!FollowerGone'
  BY <1>5, <1>0 DEF A!FollowerGone, A!Close, A!jobs
<1>6. CASE A!FollowerEnds
  BY <1>6, <1>0 DEF A!FollowerGone, A!FollowerEnds, A!jobs
<1>7. ASSUME NEW ok \in BOOLEAN, A!TakeDown(ok) PROVE A!FollowerGone'
  BY <1>7, <1>0 DEF A!FollowerGone, A!TakeDown, A!jobs
<1>8. CASE A!CloseProxy
  BY <1>8, <1>0 DEF A!FollowerGone, A!CloseProxy, A!jobs
<1>9. CASE A!NextRun
  BY <1>9, <1>0 DEF A!FollowerGone, A!NextRun, A!jobs
<1>10. ASSUME NEW j \in Jobs, NEW ok \in BOOLEAN, A!RestartEnds(j, ok) PROVE A!FollowerGone'
  BY <1>10, <1>0 DEF A!FollowerGone, A!RestartEnds, A!Says, A!Done
<1>11. ASSUME NEW j \in Jobs, NEW ok \in BOOLEAN, A!Removed(j, ok) PROVE A!FollowerGone'
  BY <1>11, <1>0 DEF A!FollowerGone, A!Removed, A!Says, A!Done
<1>12. ASSUME NEW j \in Jobs, NEW ok \in BOOLEAN, A!BroughtUp(j, ok) PROVE A!FollowerGone'
  BY <1>12, <1>0 DEF A!FollowerGone, A!BroughtUp, A!Says, A!Done
<1>13. ASSUME NEW j \in Jobs, NEW wipe \in BOOLEAN, NEW s \in Scopes, A!Ask(j, s, wipe) PROVE A!FollowerGone'
  BY <1>13, <1>0 DEF A!FollowerGone, A!Ask
<1> QED BY <1>1, <1>2, <1>3, <1>4, <1>5, <1>6, <1>7, <1>8, <1>9, <1>10, <1>11, <1>12, <1>13 DEF
   A!Next, A!JobEnds

-----------------------------------------------------------------------------
(* Behaviours of the composition.                                          *)

(* The first state.                                                        *)
LEMMA LoopInitOK == L!Init => LoopIInv
<1> SUFFICES ASSUME L!Init PROVE LoopIInv
  OBVIOUS
<1> USE LoopAssumption
<1>1. keys = <<>> /\ Len(keys) = 0 /\ keys \in Seq(L!Hotkeys)
  BY DEF L!Init
<1>2. L!TypeOK
  <2>1. lap \in Nat /\ Len(keys) <= Cap
    <3>1. lap = 0
      BY DEF L!Init
    <3> QED BY <3>1, <1>1
  <2>2. /\ {blind, reload, restart, drain, ready, warm, canceled, signaled} \subseteq BOOLEAN
        /\ stage = "load" /\ why = "nil" /\ good \subseteq L!Files /\ notice \subseteq L!Files
        /\ watching = "nobody"
    BY DEF L!Init
  <2> QED BY <2>1, <2>2 DEF L!TypeOK
<1>3. RestartIsWarm
  BY <1>1 DEF L!Init, RestartIsWarm
<1>4. LoadedIsCurrent /\ L!OneTakesKeys /\ L!NoRestartStorm
  BY DEF L!Init, LoadedIsCurrent, L!OneTakesKeys, L!NoRestartStorm
<1> QED BY <1>2, <1>3, <1>4 DEF LoopIInv

LEMMA ActionsInitOK == A!Init => ActionsIInv
<1> SUFFICES ASSUME A!Init PROVE ActionsIInv
  OBVIOUS
<1> USE ActionsAssumption
<1>1. 1 \in A!Runs
  BY GatewayAssumption DEF A!Runs
<1>2. A!TypeOK /\ JobsAreOfRuns
  BY <1>1 DEF A!Init, A!TypeOK, JobsAreOfRuns
<1>3. A!SpinnerEnds /\ OneWipe /\ DownStays /\ A!FollowerGone
  BY DEF A!Init, A!SpinnerEnds, OneWipe, DownStays, A!FollowerGone
<1> QED BY <1>2, <1>3 DEF ActionsIInv

(* A step of the composition is one of the part chosen.                    *)
LEMMA LoopMoves == [MCNext]_mcvars => L!Next \/ UNCHANGED loopVars
BY DEF MCNext, mcvars

LEMMA ActionsMoves == [MCNext]_mcvars => A!Next \/ UNCHANGED actionVars
BY DEF MCNext, mcvars

LEMMA LoopInvariance == MCSpec => []LoopIInv
<1>1. LoopIInv /\ [MCNext]_mcvars => LoopIInv'
  <2> SUFFICES ASSUME LoopIInv, [MCNext]_mcvars PROVE LoopIInv'
    OBVIOUS
  <2>1. CASE L!Next
    BY <2>1, LoopTypeStep, OneTakesKeysStep, NoRestartStormStep, RestartIsWarmStep,
       LoadedIsCurrentStep
       DEF LoopIInv
  <2>2. CASE UNCHANGED loopVars
    BY <2>2 DEF loopVars, LoopIInv, L!TypeOK, L!OneTakesKeys, L!NoRestartStorm, RestartIsWarm,
       LoadedIsCurrent
  <2> QED BY <2>1, <2>2, LoopMoves
<1>2. MCInit => LoopIInv
  BY LoopInitOK DEF MCInit
<1> QED BY <1>1, <1>2, PTL DEF MCSpec

(* Hotkeys have one reader at a time, a restart never ends a run younger   *)
(* than the cooldown, and a run that serves and has no edit to be told of  *)
(* runs the config on disk, but for an edit nobody watched (dev.go,        *)
(* runDevLoop; devserver.go, Run; configwatch.go).                         *)
THEOREM LoopIsSafe == MCSpec => []LoopInv
<1>1. ASSUME LoopIInv PROVE LoopInv
  <2>1. L!CurrentConfig
    BY <1>1 DEF LoopIInv, LoadedIsCurrent, L!CurrentConfig
  <2> QED BY <1>1, <2>1 DEF LoopIInv, LoopInv, L!Inv
<1> QED BY <1>1, LoopInvariance, PTL

LEMMA ActionsInvariance == MCSpec => []ActionsIInv
<1>1. ActionsIInv /\ [MCNext]_mcvars => ActionsIInv'
  <2> SUFFICES ASSUME ActionsIInv, [MCNext]_mcvars PROVE ActionsIInv'
    OBVIOUS
  <2>1. CASE A!Next
    BY <2>1, ActionsTypeStep, JobsStep, SpinnerStep, OneWipeStep, DownStaysStep, FollowerStep
       DEF ActionsIInv
  <2>2. CASE UNCHANGED actionVars
    <3>1. A!Active' = A!Active
      BY <2>2 DEF actionVars, A!Active
    <3>2. A!TypeOK' /\ JobsAreOfRuns'
      BY <2>2 DEF actionVars, ActionsIInv, A!TypeOK, JobsAreOfRuns
    <3>3. A!SpinnerEnds' /\ OneWipe' /\ DownStays' /\ A!FollowerGone'
      BY <2>2, <3>1 DEF actionVars, ActionsIInv, A!SpinnerEnds, OneWipe, DownStays, A!FollowerGone
    <3> QED BY <3>2, <3>3 DEF ActionsIInv
  <2> QED BY <2>1, <2>2, ActionsMoves
<1>2. MCInit => ActionsIInv
  BY ActionsInitOK DEF MCInit
<1> QED BY <1>1, <1>2, PTL DEF MCSpec

(* The spinner of a stack ends, a stack that is not up has its error       *)
(* shown, after the run nothing is left up and nobody follows it           *)
(* (actions.go, dockerRestart, dockerWipe; devserver.go, Run).             *)
THEOREM ActionsAreSafe == MCSpec => []ActionsInv
<1>1. ASSUME ActionsIInv PROVE ActionsInv
  <2>1. A!StackExplained
    BY <1>1 DEF ActionsIInv, OneWipe, A!StackExplained
  <2>2. A!TornDown
    BY <1>1 DEF ActionsIInv, DownStays, A!TornDown
  <2> QED BY <1>1, <2>1, <2>2 DEF ActionsIInv, ActionsInv, A!Inv
<1> QED BY <1>1, ActionsInvariance, PTL
==============================================================================
