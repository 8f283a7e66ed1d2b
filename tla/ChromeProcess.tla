--------------------------- MODULE ChromeProcess ---------------------------
(***************************************************************************)
(* The Chrome the worker drives: the child process (chrome_process.cc),    *)
(* the DevTools client on its pipes (cdp_client.cc) and the one rendering  *)
(* session at a time that the analyses run over that client.               *)
(*                                                                         *)
(* All of it runs on the worker's event loop.  A callback may call into    *)
(* the manager, which calls back into the client: `stack' is the calls the *)
(* loop still has to make before it can take its next event, the next one  *)
(* first.  An event of the loop needs an empty stack; the threads of the   *)
(* pool run between any two calls.                                         *)
(*                                                                         *)
(* A session sends commands and waits for events of the page in turn; only *)
(* its last outcome matters to the manager, so a session is its stage.     *)
(* While it waits for an event it has no command in the client, and        *)
(* CancelAll does not reach it.                                            *)
(***************************************************************************)
EXTENDS Integers, Sequences

VARIABLES
    chrome,     \* chrome_: the object, and the state of its process and client
    session,    \* stage of the rendering session in progress, or "none"
    orphan,     \* stage of a session left on a Chrome that has been retired
    stack       \* calls the event loop is still making

chromeVars == <<chrome, session, orphan, stack>>

NoChrome == [object |-> FALSE, running |-> FALSE, connected |-> FALSE,
             stop_requested |-> FALSE, alive |-> FALSE]

Started == [object |-> TRUE, running |-> TRUE, connected |-> TRUE,
            stop_requested |-> FALSE, alive |-> TRUE]

Stages == {"css", "page", "validate", "script", "agent"}

NoSession == "none"

\* What a session reports to its callback.  "none" is a css result of zero
\* bytes; a render that failed reports "error".
Results(stage) ==
    IF stage = "css" THEN {"none", "good", "degraded"} ELSE {"ok"}

Call(handler) == [handler |-> handler, result |-> "none"]

\* The callback of a session of a stage, with its outcome.
Done(stage, result) == [handler |-> stage, result |-> result]

Idle == stack = <<>>

ChromeInit ==
    /\ chrome = NoChrome
    /\ session = NoSession
    /\ orphan = "none"

\* A session starts by sending a command; a disconnected client refuses it, and
\* the session reports the error before its caller returns.
StartSession(stage, rest) ==
    IF chrome.connected
    THEN session' = stage /\ stack' = rest
    ELSE session' = NoSession /\ stack' = <<Done(stage, "error")>> \o rest

\* CancelAll runs the callback of every command in the client with an error.  A
\* session on a live client may or may not have one; it sends no more commands
\* once the client is disconnected.
CancelCommands(rest) ==
    \/ /\ session # NoSession /\ chrome.connected
       /\ session' = NoSession
       /\ stack' = <<Done(session, "error")>> \o rest
    \/ /\ UNCHANGED session
       /\ stack' = rest

\* Mutant: a session has no timer of its own.
SessionEndsWithoutTimer ==
    /\ Idle /\ session # NoSession /\ chrome.connected
    /\ \E r \in {"error"} \cup Results(session) : stack' = <<Done(session, r)>>
    /\ session' = NoSession
    /\ UNCHANGED <<chrome, orphan>>

\* Finish: the session's result, an error answer, a command that timed out, or
\* the session's own timer.  Only the timer is left once the client is gone.
SessionEnds ==
    /\ Idle /\ session # NoSession
    /\ \E r \in {"error"} \cup (IF chrome.connected THEN Results(session)
                                                    ELSE {}) :
          stack' = <<Done(session, r)>>
    /\ session' = NoSession
    /\ UNCHANGED <<chrome, orphan>>

\* The timer of a session whose Chrome has exited under it.
OrphanTimesOut ==
    /\ Idle /\ orphan # "none"
    /\ stack' = <<Done(orphan, "error")>>
    /\ orphan' = "none"
    /\ UNCHANGED <<chrome, session>>

\* OnRead sees the end of the pipe, an error or an oversized message, or
\* OnWriteDone a failed write.  The process may or may not have died.
PipeFails ==
    /\ Idle /\ chrome.connected
    /\ \E alive \in BOOLEAN :
          chrome' = [chrome EXCEPT !.connected = FALSE, !.alive = alive]
    /\ CancelCommands(<<>>)
    /\ UNCHANGED orphan

\* The memory check finds Chrome over its limit: Stop.  The process is still
\* running when the cancelled commands call back.
OnRssCheck ==
    /\ Idle /\ chrome.running /\ ~chrome.stop_requested
    /\ chrome' = [chrome EXCEPT !.stop_requested = TRUE, !.connected = FALSE]
    /\ CancelCommands(<<>>)
    /\ UNCHANGED orphan

\* SIGTERM, or SIGKILL from the kill timer, ends a Chrome that is to stop.
OnKillTimeout == chrome.stop_requested

\* The exit of the process: CleanupProcess cancels the commands, then the
\* manager's exit callback runs, which destroys the validation gate first.
OnProcessExit ==
    /\ Idle /\ chrome.running
    /\ chrome' = [chrome EXCEPT !.running = FALSE, !.connected = FALSE]
    /\ CancelCommands(<<Call("ResetGate"), Call("OnChromeExit")>>)
    /\ UNCHANGED orphan

\* The exit is due: the process is dead or will be.  Otherwise it dies only now,
\* with the pipe still open.
ExitDue == OnProcessExit /\ (~chrome.alive \/ OnKillTimeout)

Dies == OnProcessExit /\ chrome.alive /\ ~OnKillTimeout
============================================================================
