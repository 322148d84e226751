----------------------------- MODULE MCDevServer -----------------------------
(***************************************************************************)
(* What is around the runs of `hamr dev`, one part at a time: the ports of *)
(* the compose stacks, how a compose file is read and written, the loop    *)
(* over runs with its hotkeys, the actions on a stack, and the gateway for *)
(* agents.  Which one a behaviour is about is chosen at its start; the     *)
(* others stand still.  The gateway is the extended module.                *)
(***************************************************************************)
EXTENDS MCPGateway, Sequences, TLC

CONSTANTS
    Cap, MaxKeys, MaxEdits, MaxAsks,   \* of DevLoop
    Services, Scopes, Jobs             \* of DevActions

ASSUME LoopAssumption == Cap \in Nat /\ MaxKeys \in Nat /\ MaxEdits \in Nat /\ MaxAsks \in Nat
ASSUME ActionsAssumption == Scopes \subseteq SUBSET Services

B(s, h, c) == [svc |-> s, host |-> h, cont |-> c]

VARIABLES
    part,
    cpc, walking, kept, named, file, box, foreign, override, walks, appPort, found, shifts, failed,
    history, edited, moves,
    spec, read, wrote,
    stage, why, lap, good, version, tried, watching, notice, blind, reload, restart, keys, drain,
    ready, warm, canceled, signaled, ask, count,
    nth, state, again, keep, running, spinner, error, follower, jpc, what, owner, late, mixed,
    downFailed

C == INSTANCE ComposePorts WITH
        Files <- {<<B("db", 1, 10), B("api", 2, 20), B("api", 0, 21), B("aux", 1, 10)>>,
                  <<B("api", 3, 20), B("db", 1, 10), B("db", 2, 11)>>},
        Gated <- {"aux"}, AppBase <- 3, MaxPort <- 3, Attempts <- 4, MaxMoves <- 2,
        pc <- cpc, keep <- kept, seen <- found
F == INSTANCE ComposeFile WITH Numbers <- {80, 5432}
L == INSTANCE DevLoop WITH phase <- stage, gen <- lap
A == INSTANCE DevActions WITH gen <- nth, phase <- state, pc <- jpc, home <- owner

gatewayVars == <<gen, phase, ending, turning, enabled, audit, descriptor, toggles, restartCh,
                 listening, pc, tool, token, home, log, answer, ran, recorded, make, marker, promised>>
portVars    == <<cpc, walking, kept, named, file, box, foreign, override, walks, appPort, found,
                 shifts, failed, history, edited, moves>>
fileVars    == <<spec, read, wrote>>
loopVars    == <<stage, why, lap, good, version, tried, watching, notice, blind, reload, restart,
                 keys, drain, ready, warm, canceled, signaled, ask, count>>
actionVars  == <<nth, state, again, keep, running, spinner, error, follower, jpc, what, owner, late,
                 mixed, downFailed>>
mcvars      == <<part, gatewayVars, portVars, fileVars, loopVars, actionVars>>

MCInit ==
    /\ part \in {"gateway", "ports", "file", "loop", "actions"}
    /\ Init /\ C!Init /\ L!Init /\ A!Init
    /\ IF part = "file" THEN F!Init ELSE spec = "none" /\ read = "none" /\ wrote = "none"
    /\ part # "ports" => walking /\ kept /\ named /\ foreign = {} /\ Len(file) = 4
    /\ part # "loop" => good = L!Files
    /\ part # "actions" => keep /\ running = {}

MCNext ==
    \/ part = "gateway" /\ Next /\ UNCHANGED <<part, portVars, fileVars, loopVars, actionVars>>
    \/ part = "ports" /\ C!Next /\ UNCHANGED <<part, gatewayVars, fileVars, loopVars, actionVars>>
    \/ part = "file" /\ F!Next /\ UNCHANGED <<part, gatewayVars, portVars, loopVars, actionVars>>
    \/ part = "loop" /\ L!Next /\ UNCHANGED <<part, gatewayVars, portVars, fileVars, actionVars>>
    \/ part = "actions" /\ A!Next /\ UNCHANGED <<part, gatewayVars, portVars, fileVars, loopVars>>

\* Requests are served, makes end, and a run whose end was asked for ends.
GatewayFair ==
    /\ WF_gatewayVars(part = "gateway" /\ \E c \in Calls : CallStep(c) \/ WaitOver(c) \/ MakeStep(c))
    /\ WF_gatewayVars(part = "gateway" /\ SetActive)
    /\ WF_gatewayVars(part = "gateway" /\ CloseRun("restart"))
    /\ WF_gatewayVars(part = "gateway" /\ (Boot \/ CloseProxy \/ NextRun))

\* The dev loop reacts; a job's commands and those of a start and a shutdown end.
LoopFair ==
    /\ WF_loopVars(part = "loop" /\ L!Steps)
    /\ WF_actionVars(part = "actions" /\ (A!Inspect \/ \E ok \in BOOLEAN : A!BringUp(ok)))
    /\ WF_actionVars(part = "actions" /\ (A!Follow \/ A!LosesTrack))
    /\ WF_actionVars(part = "actions" /\ (A!FollowerEnds \/ (\E ok \in BOOLEAN : A!TakeDown(ok))
                                                          \/ A!CloseProxy \/ A!NextRun))
    /\ WF_actionVars(part = "actions" /\ \E j \in Jobs, ok \in BOOLEAN : A!JobEnds(j, ok))

MCSpec == MCInit /\ [][MCNext]_mcvars /\ GatewayFair /\ LoopFair

(***************************************************************************)
(* What each of them promises; the gateway's is Inv.                       *)
(***************************************************************************)

\* Ports: what runs stays where it is, what is recorded is true, what is free is
\* taken once; a compose file is read and written as docker means it.
PortsInv   == IF part = "file" THEN F!Inv ELSE C!Inv
\* One reader of hotkeys, no storm of restarts, and the config on disk is served.
LoopInv    == L!Inv
\* No spinner for ever, a stack that is down explained, and taken down at the end.
ActionsInv == A!Inv

\* A call, a start, a shutdown, a reload, a restart or quit that was asked for, a
\* job on a stack: none lasts for ever.
Busy == Waiting \/ (part = "loop" /\ L!Waiting) \/ (part = "actions" /\ A!Waiting)
DevServerSettles == Busy ~> ~Busy
=============================================================================
