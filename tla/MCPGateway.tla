------------------------------ MODULE MCPGateway -------------------------------
(***************************************************************************)
(* The gateway an agent drives `hamr dev` through (mcpgateway.go,          *)
(* mcpgateway_tools.go, mcpaudit.go), the bridge on the agent's side       *)
(* (internal/cli/cmd/mcp.go) and DevActions.RunMake behind make.run.  The  *)
(* bridge reads the descriptor on disk for every call, the gateway checks  *)
(* the call and runs the tool; the M key turns the gateway on and off, and *)
(* every run of the dev server has a gateway, a token and an audit log of  *)
(* its own.                                                                *)
(***************************************************************************)
EXTENDS Integers, FiniteSets

CONSTANTS
    Calls,      \* calls of the agent
    Tools,      \* the tools they may name
    Granted,    \* toolSet: the tools [dev.mcp.access] exposes
    MaxRuns,    \* bound: runs of the dev server
    MaxToggles  \* bound: presses of M

ASSUME GatewayAssumption == MaxRuns \in Nat \ {0} /\ "none" \notin Calls

VARIABLES
    gen,        \* the run
    phase,      \* "booting", "serving", "closing", "closed" (the proxy), "quit"
    ending,     \* what the run ends for: "restart" or "quit"
    enabled,    \* the switch of the gateway
    audit,      \* its audit log: "none", "open", "closed"
    descriptor, \* .hamr/dev.json: the run whose token it holds, 0 none
    turning,    \* how far SetActive has come: "no", or its next step
    toggles,
    restartCh,  \* the call that asked for a restart of the run, or "none"
    listening,  \* Stripe is in listen mode
    pc, tool,   \* each call, and the tool it names
    token,      \* the token the bridge sent it with
    home,       \* the run whose gateway it reached
    log,        \* the audit log it was given: what `audit` was
    answer,     \* what the agent reads
    ran,        \* the tool did something
    recorded,   \* a line of the audit log is about the call
    make,       \* the make of a make.run: its goroutine
    marker,     \* its marker is in the log of the dev server
    promised    \* the run that told the agent it restarts, 0 none

vars == <<gen, phase, ending, turning, enabled, audit, descriptor, toggles, restartCh, listening, pc, tool, token, home,
          log, answer, ran, recorded, make, marker, promised>>

Runs == 1 .. MaxRuns
Alive == phase \in {"booting", "serving", "closing"}

Init ==
    /\ gen = 1
    /\ phase = "booting"
    /\ ending = "quit"
    /\ turning = "no"
    /\ enabled = FALSE
    /\ audit = "none"
    /\ descriptor = 0
    /\ toggles = 0
    /\ restartCh = "none"
    /\ listening = FALSE
    /\ pc = [c \in Calls |-> "idle"]
    /\ tool = [c \in Calls |-> "none"]
    /\ token = [c \in Calls |-> 0]
    /\ home = [c \in Calls |-> 0]
    /\ log = [c \in Calls |-> "none"]
    /\ answer = [c \in Calls |-> "none"]
    /\ ran = [c \in Calls |-> FALSE]
    /\ recorded = [c \in Calls |-> FALSE]
    /\ make = [c \in Calls |-> "none"]
    /\ marker = [c \in Calls |-> FALSE]
    /\ promised = [c \in Calls |-> 0]

calls == <<pc, tool, token, home, log, answer, ran, recorded, make, marker, promised>>
gate  == <<gen, phase, ending, turning, enabled, audit, descriptor, toggles, restartCh, listening>>

---------------------------------------------------------------------------
\* The switch.

\* Run starts, [dev.mcp].enabled or not; the proxy serves.
Boot ==
    /\ phase = "booting"
    /\ phase' = "serving"
    /\ turning' \in {"no", "opening"}
    /\ UNCHANGED <<gen, ending, enabled, audit, descriptor, toggles, restartCh, listening, calls>>

\* The M key, once the run is ready.
Toggle ==
    /\ phase = "serving" /\ turning = "no" /\ toggles < MaxToggles
    /\ toggles' = toggles + 1
    /\ turning' = IF enabled THEN "removing" ELSE "opening"
    /\ enabled' = FALSE
    /\ UNCHANGED <<gen, phase, ending, audit, descriptor, restartCh, listening, calls>>

(* Mutant: the descriptor is out before there is a log. *)
SetActiveLogLast ==
    /\ turning # "no"
    /\ CASE turning = "removing" -> turning' = "no" /\ descriptor' = 0 /\ UNCHANGED <<audit, enabled>>
         [] turning = "opening"  -> turning' = "enabling" /\ descriptor' = gen /\ UNCHANGED <<audit, enabled>>
         [] turning = "enabling" -> turning' = "writing" /\ enabled' = TRUE /\ UNCHANGED <<audit, descriptor>>
         [] turning = "writing"  -> turning' = "no" /\ audit' = "open" /\ UNCHANGED <<enabled, descriptor>>
    /\ UNCHANGED <<gen, phase, ending, toggles, restartCh, listening, calls>>

\* Off: the descriptor is removed. On: the log is opened, unless it is already
\* there, then the switch set, then the descriptor written; opening and writing
\* may fail.
SetActive ==
    /\ turning # "no"
    /\ CASE turning = "removing" -> turning' = "no" /\ descriptor' = 0 /\ UNCHANGED <<audit, enabled>>
         [] turning = "opening"  -> \/ turning' = "enabling" /\ audit' = "open" /\ UNCHANGED <<enabled, descriptor>>
                                    \/ turning' = "no" /\ audit = "none" /\ UNCHANGED <<audit, enabled, descriptor>>
         [] turning = "enabling" -> turning' = "writing" /\ enabled' = TRUE /\ UNCHANGED <<audit, descriptor>>
         [] turning = "writing"  -> turning' = "no" /\ descriptor' \in {descriptor, gen} /\ UNCHANGED <<audit, enabled>>
    /\ UNCHANGED <<gen, phase, ending, toggles, restartCh, listening, calls>>

SwitchStripe ==
    /\ phase = "serving" /\ "stripe.refund" \in Tools
    /\ listening' = ~listening
    /\ UNCHANGED <<gen, phase, ending, turning, enabled, audit, descriptor, toggles, restartCh, calls>>

---------------------------------------------------------------------------
\* A call.

\* The bridge reads the descriptor; without one the agent is told so.
ReadHandshake(c, t) ==
    /\ pc[c] = "idle"
    /\ tool' = [tool EXCEPT ![c] = t]
    /\ token' = [token EXCEPT ![c] = descriptor]
    /\ IF descriptor = 0
       THEN /\ pc' = [pc EXCEPT ![c] = "done"]
            /\ answer' = [answer EXCEPT ![c] = "absent"]
       ELSE /\ pc' = [pc EXCEPT ![c] = "sent"]
            /\ answer' = answer
    /\ UNCHANGED <<gate, home, log, ran, recorded, make, marker, promised>>

Refused(c, a) ==
    /\ pc' = [pc EXCEPT ![c] = "done"]
    /\ answer' = [answer EXCEPT ![c] = a]

Unreachable(c) ==
    /\ pc[c] = "sent"
    /\ phase \in {"booting", "closed"}
    /\ Refused(c, "unreachable")
    /\ UNCHANGED <<gate, tool, token, home, log, ran, recorded, make, marker, promised>>

\* A gateway takes the call: it loads the audit log first.
Arrive(c) ==
    /\ pc[c] = "sent" /\ phase \in {"serving", "closing"}
    /\ pc' = [pc EXCEPT ![c] = "arrived"]
    /\ home' = [home EXCEPT ![c] = gen]
    /\ log' = [log EXCEPT ![c] = audit]
    /\ UNCHANGED <<gate, tool, token, answer, ran, recorded, make, marker, promised>>

\* The log of the run may have been closed under the call.
LogOpen(c) == log[c] = "open" /\ home[c] = gen /\ audit = "open"

Record(c) == recorded' = [recorded EXCEPT ![c] = recorded[c] \/ LogOpen(c)]

(* Mutant: a token of an earlier run is as good. *)
AuthenticatedOnce(c) == token[c] # 0

Authenticated(c) == token[c] = home[c]

(* Mutant: the access map is only what the bridge lists. *)
PermittedAll(c) == TRUE

Permitted(c) == tool[c] \in Granted

\* The token, the switch and the access map, in this order; denials are recorded.
\* The switch of a gateway whose run is over is as it was left.
Check(c) ==
    /\ pc[c] = "arrived"
    /\ \E on \in BOOLEAN :
        /\ home[c] = gen => on = enabled
        /\ CASE ~Authenticated(c) -> Refused(c, "unauthorized") /\ Record(c)
             [] Authenticated(c) /\ ~on -> Refused(c, "off") /\ Record(c)
             [] Authenticated(c) /\ on /\ ~Permitted(c) -> Refused(c, "denied") /\ Record(c)
             [] OTHER -> /\ pc' = [pc EXCEPT ![c] = "dispatch"]
                         /\ UNCHANGED <<answer, recorded>>
    /\ UNCHANGED <<gate, tool, token, home, log, ran, make, marker, promised>>

\* dev.restart is possible once its run is up, and still while that is torn down
\* and after: readyAt is never taken back.
CheckRestart(c) == home[c] # 0 /\ (home[c] = gen => phase # "booting")

\* The end of a tool: its line in the log.
Finish(c, a) ==
    /\ answer' = [answer EXCEPT ![c] = a]
    /\ pc' = [pc EXCEPT ![c] = "reply"]
    /\ Record(c)

\* requestRestart: one that is already queued is enough, and nobody reads the
\* channel of a run that is over.
RequestRestart(c) ==
    restartCh' = IF restartCh = "none" /\ home[c] = gen /\ phase = "serving" THEN c ELSE restartCh

(* Mutant: the restart is asked for while the call is still to be answered. *)
RestartInline(c) ==
    /\ tool[c] = "dev.restart"
    /\ \/ /\ CheckRestart(c)
          /\ Finish(c, "ok")
          /\ promised' = [promised EXCEPT ![c] = home[c]]
          /\ RequestRestart(c)
       \/ Finish(c, "error") /\ UNCHANGED <<promised, restartCh>>
    /\ UNCHANGED <<ran, make>>

\* dev.restart is refused during the cooldown, and else answered first: its
\* effect comes after the response.
Restart(c) ==
    /\ tool[c] = "dev.restart"
    /\ \/ CheckRestart(c) /\ Finish(c, "ok") /\ promised' = [promised EXCEPT ![c] = home[c]]
       \/ Finish(c, "error") /\ promised' = promised
    /\ UNCHANGED <<restartCh, ran, make>>

\* make.run: RunMake, and a wait for its result.
MakeRun(c) ==
    /\ tool[c] = "make.run"
    /\ ran' = [ran EXCEPT ![c] = TRUE]
    /\ make' = [make EXCEPT ![c] = "running"]
    /\ pc' = [pc EXCEPT ![c] = "wait"]
    /\ UNCHANGED <<restartCh, answer, recorded, promised>>

\* Any other tool; the mock's tools are refused while the app talks to Stripe.
Other(c) ==
    /\ tool[c] \notin {"dev.restart", "make.run"}
    /\ LET refused == tool[c] = "stripe.refund" /\ listening
       IN /\ ran' = [ran EXCEPT ![c] = ~refused]
          /\ Finish(c, IF refused THEN "error" ELSE "ok")
    /\ UNCHANGED <<restartCh, make, marker, promised>>

Dispatch(c) ==
    /\ pc[c] = "dispatch"
    /\ Restart(c) \/ MakeRun(c) \/ Other(c)
    /\ UNCHANGED <<gen, phase, ending, turning, enabled, audit, descriptor, toggles, listening, tool,
                   token, home, log, marker>>

\* make_wait is over: the agent is told to poll the log.
WaitOver(c) ==
    /\ pc[c] = "wait" /\ phase # "quit"
    /\ Finish(c, "running")
    /\ UNCHANGED <<gate, tool, token, home, log, ran, make, marker, promised>>

WaitServed(c) ==
    /\ pc[c] = "wait" /\ make[c] = "sent"
    /\ Finish(c, "done")
    /\ UNCHANGED <<gate, tool, token, home, log, ran, make, marker, promised>>

\* The response is written and flushed, if the connection is still there.
Reply(c) ==
    /\ pc[c] = "reply"
    /\ pc' = [pc EXCEPT ![c] = "after"]
    /\ answer' = IF home[c] = gen /\ phase \in {"serving", "closing"} THEN answer
                 ELSE [answer EXCEPT ![c] = "lost"]
    /\ UNCHANGED <<gate, tool, token, home, log, ran, recorded, make, marker, promised>>

\* afterResponse.
After(c) ==
    /\ pc[c] = "after"
    /\ pc' = [pc EXCEPT ![c] = "done"]
    /\ IF promised[c] # 0 THEN RequestRestart(c) ELSE restartCh' = restartCh
    /\ UNCHANGED <<gen, phase, ending, turning, enabled, audit, descriptor, toggles, listening, tool,
                   token, home, log, answer, ran, recorded, make, marker, promised>>

---------------------------------------------------------------------------
\* RunMake's goroutine: the command ends by itself or with its run, then the
\* marker is logged, EvMakeDone broadcast and the result put in the channel.

MakeStep(c) ==
    /\ make[c] \in {"running", "exited", "marked", "told"} /\ phase # "quit"
    /\ make' = [make EXCEPT ![c] = CASE make[c] = "running" -> "exited"
                                      [] make[c] = "exited" -> "marked"
                                      [] make[c] = "marked" -> "told"
                                      [] make[c] = "told" -> "sent"]
    /\ marker' = [marker EXCEPT ![c] = marker[c] \/ make[c] = "exited"]
    /\ UNCHANGED <<gate, pc, tool, token, home, log, answer, ran, recorded, promised>>

---------------------------------------------------------------------------
\* The end of a run: the descriptor goes first, the proxy is closed when all
\* else is down, and the audit log after it.

(* Mutant: the descriptor is left for the next run to overwrite. *)
CloseKeepingHandshake(why) ==
    /\ phase = "serving" /\ turning = "no"
    /\ why = "restart" => restartCh # "none"
    /\ phase' = "closing"
    /\ ending' = why
    /\ UNCHANGED <<gen, turning, enabled, audit, descriptor, toggles, restartCh, listening, calls>>

CloseRun(why) ==
    /\ phase = "serving" /\ turning = "no"
    /\ why = "restart" => restartCh # "none"
    /\ phase' = "closing"
    /\ ending' = why
    /\ descriptor' = 0
    /\ UNCHANGED <<gen, turning, enabled, audit, toggles, restartCh, listening, calls>>

CloseProxy ==
    /\ phase = "closing"
    /\ phase' = "closed"
    /\ UNCHANGED <<gen, ending, turning, enabled, audit, descriptor, toggles, restartCh, listening, calls>>

\* closeAudit; runDevLoop goes round with a new gateway and a new token, or ends.
NextRun ==
    /\ phase = "closed"
    /\ enabled' = FALSE /\ listening' = FALSE
    /\ restartCh' = "none"
    /\ IF ending = "restart" /\ gen < MaxRuns
       THEN gen' = gen + 1 /\ phase' = "booting" /\ audit' = "none"
       ELSE gen' = gen /\ phase' = "quit" /\ audit' = IF audit = "open" THEN "closed" ELSE audit
    /\ UNCHANGED <<ending, turning, descriptor, toggles, calls>>

\* What the goroutines of a call do, as long as the process is there.
CallStep(c) ==
    /\ phase # "quit"
    /\ \/ Unreachable(c) \/ Arrive(c) \/ Check(c) \/ Dispatch(c) \/ WaitServed(c)
       \/ Reply(c) \/ After(c)

Next ==
    \/ Boot \/ Toggle \/ SetActive \/ SwitchStripe
    \/ \E c \in Calls, t \in Tools : ReadHandshake(c, t)
    \/ \E c \in Calls : CallStep(c) \/ WaitOver(c) \/ MakeStep(c)
    \/ \E why \in {"restart", "quit"} : CloseRun(why)
    \/ CloseProxy \/ NextRun

---------------------------------------------------------------------------

TypeOK ==
    /\ gen \in Runs /\ descriptor \in Nat
    /\ phase \in {"booting", "serving", "closing", "closed", "quit"}
    /\ audit \in {"none", "open", "closed"}
    /\ turning \in {"no", "removing", "opening", "enabling", "writing"}
    /\ enabled \in BOOLEAN /\ toggles \in Nat
    /\ ending \in {"restart", "quit"} /\ restartCh \in Calls \cup {"none"}
    /\ pc \in [Calls -> {"idle", "sent", "arrived", "dispatch", "wait", "reply", "after", "done"}]
    /\ tool \in [Calls -> Tools \cup {"none"}]
    /\ token \in [Calls -> Nat] /\ home \in [Calls -> Nat]
    /\ log \in [Calls -> {"none", "open", "closed"}]
    /\ answer \in [Calls -> {"none", "absent", "unreachable", "unauthorized", "off",
                             "denied", "ok", "error", "running", "done", "lost"}]
    /\ ran \in [Calls -> BOOLEAN] /\ recorded \in [Calls -> BOOLEAN] /\ marker \in [Calls -> BOOLEAN]
    /\ make \in [Calls -> {"none", "running", "exited", "marked", "told", "sent"}]
    /\ promised \in [Calls -> Nat]

\* The token on disk is the one of the run that serves, and nothing is left for a
\* bridge to find once the run ends: neither between two runs nor after the last.
TokenIsLive == descriptor # 0 => descriptor = gen /\ phase \in {"booting", "serving"}

\* A tool only ran for a call that held the token of the run it ran in and named
\* a tool the access map exposes, and left a line in the log of that run; but for
\* a call the closing of the run overtook.
RanIsAudited ==
    \A c \in Calls : ran[c] =>
        /\ token[c] = home[c] /\ tool[c] \in Granted
        /\ (pc[c] = "done" /\ home[c] = gen /\ phase \in {"booting", "serving"}) => recorded[c]

\* Whoever has the result of a make, or was told to poll for it, finds the marker
\* in the log once the result is there.
MarkerBeforeResult ==
    \A c \in Calls : make[c] = "sent" \/ answer[c] = "done" => marker[c]

\* The call a run is restarted for has its answer: the restart never takes away
\* the connection its own answer is to go out on.
AnsweredFirst ==
    \A c \in Calls : ending = "restart" /\ restartCh = c => answer[c] = "ok" /\ pc[c] = "done"

Inv == TypeOK /\ TokenIsLive /\ RanIsAudited /\ MarkerBeforeResult /\ AnsweredFirst

\* A call under way, a make that runs, and a restart the agent was told of.
Waiting ==
    /\ phase # "quit"
    /\ \E c \in Calls :
           \/ pc[c] \in {"sent", "arrived", "dispatch", "wait", "reply", "after"}
           \/ make[c] \in {"running", "exited", "marked", "told"}
           \/ promised[c] = gen

\* Requests are served, makes end, and a run whose end was asked for ends.
Fair ==
    /\ \A c \in Calls :
           /\ WF_vars(CallStep(c))
           /\ WF_vars(WaitOver(c))
           /\ WF_vars(MakeStep(c))
    /\ WF_vars(SetActive)
    /\ WF_vars(CloseRun("restart"))
    /\ WF_vars(Boot \/ CloseProxy \/ NextRun)

Spec == Init /\ [][Next]_vars /\ Fair

\* "Close the MCP audit log only after the proxy has stopped serving, so a late
\* in-flight tool call can't write to an already-closed audit file."
\* (internal/devserver/devserver.go:403-404)
AuditComplete == \A c \in Calls : pc[c] \in {"after", "done"} /\ ran[c] => recorded[c]

=============================================================================
