------------------------------ MODULE AppServer ------------------------------
(***************************************************************************)
(* The life of an application's server (Server.Start, pkg/server): it      *)
(* binds, serves in a goroutine of its own, and waits for a signal or for  *)
(* the listener's error; then it shuts down within the timeout and drains  *)
(* what the listener still says.  The application may call Shutdown        *)
(* itself.  The refresh of the Cloudflare ranges runs beside it.           *)
(***************************************************************************)
EXTENDS Integers

CONSTANTS MaxInFlight   \* requests being answered

VARIABLES
    main,         \* what Start is at
    serving,      \* what the goroutine of the listener is at
    failed,       \* the listener's error is not ErrServerClosed
    errCh,        \* "empty", "error", "closed", or "error then closed"
    signaled,     \* a signal waits in quit
    shut,         \* echo.Shutdown was called
    inFlight,
    refresh,      \* the Cloudflare refresh: "none", "running", "stopping" or "ended"
    answer        \* what Start returned

vars == <<main, serving, failed, errCh, signaled, shut, inFlight, refresh, answer>>

TypeOK ==
    /\ main \in {"bind", "wait", "shutdown", "drain", "drainErr", "returned"}
    /\ serving \in {"none", "starting", "accepting", "stopping", "closing", "ended"}
    /\ {failed, signaled, shut} \subseteq BOOLEAN
    /\ errCh \in {"empty", "error", "closed", "error then closed"}
    /\ inFlight \in 0 .. MaxInFlight
    /\ refresh \in {"none", "running", "stopping", "ended"}
    /\ answer \in {"none", "nil", "listen", "listener", "shutdown"}

Init ==
    /\ main = "bind" /\ serving = "none" /\ failed = FALSE /\ errCh = "empty"
    /\ signaled = FALSE /\ shut = FALSE /\ inFlight = 0 /\ refresh = "none" /\ answer = "none"

Return(a) ==
    /\ main' = "returned" /\ answer' = a
    /\ refresh' = IF refresh = "running" THEN "stopping" ELSE refresh

\* net.Listen fails, or the goroutines are started; signals are caught from here.
Bind ==
    /\ main = "bind"
    /\ \/ Return("listen") /\ UNCHANGED serving
       \/ /\ main' = "wait" /\ serving' = "starting"
          /\ refresh' \in {"none", "running"}
          /\ UNCHANGED answer
    /\ UNCHANGED <<failed, errCh, signaled, shut, inFlight>>

(***************************************************************************)
(* The goroutine of the listener (echo.Start)                              *)
(***************************************************************************)

\* A server that was shut down before it serves does not start to.
Serve ==
    /\ serving = "starting"
    /\ serving' = IF shut THEN "stopping" ELSE "accepting"
    /\ UNCHANGED <<main, failed, errCh, signaled, shut, inFlight, refresh, answer>>

Accept ==
    /\ serving = "accepting" /\ ~shut /\ inFlight < MaxInFlight
    /\ inFlight' = inFlight + 1
    /\ UNCHANGED <<main, serving, failed, errCh, signaled, shut, refresh, answer>>

RequestEnds ==
    /\ inFlight > 0
    /\ inFlight' = inFlight - 1
    /\ UNCHANGED <<main, serving, failed, errCh, signaled, shut, refresh, answer>>

\* Shutdown closes the listener; otherwise accepting may fail.
StopServing(why) ==
    /\ serving = "accepting"
    /\ why = "closed" => shut
    /\ serving' = "stopping" /\ failed' = (why = "error")
    /\ UNCHANGED <<main, errCh, signaled, shut, inFlight, refresh, answer>>

\* The error goes into the channel, which has room for it.
SendError ==
    /\ serving = "stopping"
    /\ serving' = "closing"
    /\ errCh' = IF failed THEN "error" ELSE errCh
    /\ UNCHANGED <<main, failed, signaled, shut, inFlight, refresh, answer>>

\* Mutant: the channel is left open.
LeaveOpen ==
    /\ serving = "closing"
    /\ serving' = "ended"
    /\ UNCHANGED <<main, failed, errCh, signaled, shut, inFlight, refresh, answer>>

CloseErrCh ==
    /\ serving = "closing"
    /\ serving' = "ended"
    /\ errCh' = IF errCh = "error" THEN "error then closed" ELSE "closed"
    /\ UNCHANGED <<main, failed, signaled, shut, inFlight, refresh, answer>>

Take == errCh' = IF errCh = "error then closed" THEN "closed" ELSE "empty"

(***************************************************************************)
(* Start                                                                   *)
(***************************************************************************)

Signal ==
    /\ main \in {"wait", "shutdown", "drain", "drainErr"}
    /\ ~signaled
    /\ signaled' = TRUE
    /\ UNCHANGED <<main, serving, failed, errCh, shut, inFlight, refresh, answer>>

\* The application shuts the server down on its own.
ShutdownElsewhere ==
    /\ main = "wait" /\ ~shut
    /\ shut' = TRUE
    /\ UNCHANGED <<main, serving, failed, errCh, signaled, inFlight, refresh, answer>>

\* Whichever of the signal and the channel is ready; a closed channel is no error.
Woken ==
    /\ main = "wait"
    /\ \/ errCh \in {"error", "error then closed"} /\ Return("listener") /\ Take /\ UNCHANGED <<signaled, shut>>
       \/ /\ \/ errCh = "closed" /\ UNCHANGED signaled
             \/ signaled /\ signaled' = FALSE
          /\ main' = "shutdown" /\ shut' = TRUE
          /\ UNCHANGED <<errCh, refresh, answer>>
    /\ UNCHANGED <<serving, failed, inFlight>>

\* Shutdown waits for the requests, or for the timeout.
ShutdownEnds ==
    /\ main = "shutdown"
    /\ \/ main' = "drainErr"
       \/ inFlight = 0 /\ main' = "drain"
    /\ UNCHANGED <<serving, failed, errCh, signaled, shut, inFlight, refresh, answer>>

\* Mutant: what the listener said while Shutdown ran is only looked at.
DrainQuietly ==
    /\ main \in {"drain", "drainErr"}
    /\ errCh # "empty"
    /\ Return(IF main = "drainErr" THEN "shutdown" ELSE "nil")
    /\ UNCHANGED <<serving, failed, errCh, signaled, shut, inFlight>>

\* The drain waits for the error or for the channel to be closed.
Drain ==
    /\ main \in {"drain", "drainErr"}
    /\ errCh # "empty"
    /\ IF errCh = "closed" THEN UNCHANGED errCh ELSE Take
    /\ Return(IF main = "drainErr" THEN "shutdown"
              ELSE IF errCh # "closed" THEN "listener" ELSE "nil")
    /\ UNCHANGED <<serving, failed, signaled, shut, inFlight>>

\* refreshCloudflare sees its context canceled.
RefreshEnds ==
    /\ refresh = "stopping"
    /\ refresh' = "ended"
    /\ UNCHANGED <<main, serving, failed, errCh, signaled, shut, inFlight, answer>>

Next ==
    \/ Bind \/ Serve \/ Accept \/ RequestEnds \/ SendError \/ CloseErrCh
    \/ \E why \in {"closed", "error"} : StopServing(why)
    \/ Signal \/ ShutdownElsewhere \/ Woken \/ ShutdownEnds \/ Drain \/ RefreshEnds

(***************************************************************************)
(* Properties                                                              *)
(***************************************************************************)

\* Start returns nil only after everything went well: the listener's error is
\* not lost, whether it came before the signal or while Shutdown ran, no request
\* is cut off, and the listener's goroutine is through (Start).
NilMeansClean ==
    answer = "nil" => ~failed /\ inFlight = 0 /\ serving \in {"closing", "ended"}

Inv == TypeOK /\ NilMeansClean

\* After a signal, or once the listener is through, Start returns and the
\* refresh ends with it.
Ending == (signaled /\ main \notin {"bind", "returned"}) \/ refresh = "stopping" \/ (serving = "ended" /\ main # "returned")
StartReturns == Ending ~> ~Ending
===============================================================================
