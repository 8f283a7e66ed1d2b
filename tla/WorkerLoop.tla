----------------------------- MODULE WorkerLoop -----------------------------
(***************************************************************************)
(* The worker's event loop as the notification path uses it (worker.cc):   *)
(* client connections with their two libuv handles, the dispatch of parsed *)
(* notifications to the thread pool with the in-flight guard and the held  *)
(* origin refreshes, and the graceful shutdown with its timeout.           *)
(*                                                                         *)
(* One action is one callback of the loop, except that the parse loop of   *)
(* OnClientRead takes one step per frame.  After uv_stop the callbacks     *)
(* already due may still run before uv_run returns.  uv_queue_work fails   *)
(* only for a null callback and uv_cancel is never called on notification  *)
(* work, so those two branches are left out.                               *)
(***************************************************************************)
EXTENDS UnixSocket, FiniteSets

CONSTANTS
    max_connections,
    max_buffer_size     \* in chunks

ASSUME LoopAssumption ==
    /\ max_connections \in Nat \ {0} /\ max_buffer_size \in Nat
    /\ IsFiniteSet(Conns)

VARIABLES
    conn,                    \* [Conns -> ClientContext and its handles]
    reading,                 \* the connection OnClientRead is parsing
    active_connections,
    in_flight_work,
    in_flight_urls,
    pending_origin_refresh,  \* [Urls -> held notification or None]
    parsed,                  \* history: [1..MaxSends -> how often it was parsed]
    work,                    \* uv_work_t requests out: [msg, done]
    shutting_down,
    shutdown_async,          \* uv_async_send has been called
    shutdown_timer,
    stop_flag,               \* uv_stop has been called
    forced,                  \* the shutdown timeout closed everything
    loop                     \* uv_run: Run, returned, destructor, closed

connVars == <<conn, reading, active_connections>>
dispatchVars == <<in_flight_work, in_flight_urls, pending_origin_refresh,
                  parsed, work>>
stopVars == <<shutting_down, shutdown_async, shutdown_timer, stop_flag, forced,
              loop>>
loopVars == <<connVars, dispatchVars, stopVars>>

Handles == {"none", "open", "closing", "closed"}

Client == [ctx     : {"none", "live", "freed"},
           closing : BOOLEAN,
           buffer  : Seq(Chunks),
           timer   : Handles,
           thenPipe : BOOLEAN,   \* the timer closes with OnTimerClosedThenPipe
           pipe    : Handles,
           thenFree : BOOLEAN]   \* the pipe closes with OnClientClose

NoClient == [ctx |-> "none", closing |-> FALSE, buffer |-> <<>>,
             timer |-> "none", thenPipe |-> FALSE,
             pipe |-> "none", thenFree |-> FALSE]

NewClient == [ctx |-> "live", closing |-> FALSE, buffer |-> <<>>,
              timer |-> "open", thenPipe |-> FALSE,
              pipe |-> "open", thenFree |-> FALSE]

LoopInit ==
    /\ conn = [c \in Conns |-> NoClient]
    /\ reading = None
    /\ active_connections = 0
    /\ in_flight_work = 0
    /\ in_flight_urls = {}
    /\ pending_origin_refresh = [u \in Urls |-> None]
    /\ parsed = [n \in 1..MaxSends |-> 0]
    /\ work = {}
    /\ shutting_down = FALSE
    /\ shutdown_async = FALSE
    /\ shutdown_timer = "none"
    /\ stop_flag = FALSE
    /\ forced = FALSE
    /\ loop = "run"

\* The loop thread is in uv_run and in no callback.
Running == loop = "run" /\ reading = None

\* The same, or in the destructor's uv_run: close and done callbacks only.
Closing == loop \in {"run", "drain"} /\ reading = None

\* uv_helpers.h
SafeClose(h) == IF h = "open" THEN "closing" ELSE h

-----------------------------------------------------------------------------
(* Shutdown.                                                               *)

\* SignalHandler and RequestShutdown.
RequestShutdown ==
    /\ loop = "run" /\ ~shutdown_async /\ ~shutting_down
    /\ shutdown_async' = TRUE
    /\ UNCHANGED <<connVars, dispatchVars, shutting_down, shutdown_timer,
                   stop_flag, forced, loop, sock, listening>>

\* Mutant of CheckShutdownComplete: only the connections are waited for.
CheckConnectionsOnly(connections, items) ==
    LET complete == shutting_down /\ connections = 0 IN
    /\ shutdown_timer' = IF complete THEN SafeClose(shutdown_timer)
                         ELSE shutdown_timer
    /\ stop_flag' = (stop_flag \/ complete)

\* CheckShutdownComplete, given the counters as its caller left them.
CheckShutdownComplete(connections, items) ==
    LET complete == shutting_down /\ connections = 0 /\ items = 0 IN
    /\ shutdown_timer' = IF complete THEN SafeClose(shutdown_timer)
                         ELSE shutdown_timer
    /\ stop_flag' = (stop_flag \/ complete)

\* Mutant of BeginGracefulShutdown: the timer is started only for connections.
BeginTimerForConnections ==
    /\ Running /\ shutdown_async
    /\ shutdown_async' = FALSE
    /\ shutting_down' = TRUE
    /\ listening' = FALSE
    /\ sock' = [c \in Conns |-> IF sock[c].st = "backlog"
                                THEN ReaderClosed(sock[c]) ELSE sock[c]]
    /\ stop_flag' = (active_connections = 0 /\ in_flight_work = 0)
    /\ shutdown_timer' = IF in_flight_work = 0 THEN "none" ELSE "open"
    /\ UNCHANGED <<connVars, dispatchVars, forced, loop>>

\* OnShutdownAsync, BeginGracefulShutdown: connections waiting to be accepted
\* go with the listening socket.
BeginGracefulShutdown ==
    /\ Running /\ shutdown_async
    /\ shutdown_async' = FALSE
    /\ shutting_down' = TRUE
    /\ listening' = FALSE
    /\ sock' = [c \in Conns |-> IF sock[c].st = "backlog"
                                THEN ReaderClosed(sock[c]) ELSE sock[c]]
    /\ stop_flag' = (active_connections = 0 /\ in_flight_work = 0)
    /\ shutdown_timer' = IF stop_flag' THEN "none" ELSE "open"
    /\ UNCHANGED <<connVars, dispatchVars, forced, loop>>

\* uv_walk with CloseWalkCallback: every handle still open closes, with no
\* callback; closing a pipe closes its socket.
Walk ==
    /\ conn' = [c \in Conns |-> [conn[c] EXCEPT !.timer = SafeClose(@),
                                                !.pipe = SafeClose(@)]]
    /\ sock' = [c \in Conns |-> IF conn[c].pipe = "open"
                                THEN ReaderClosed(sock[c]) ELSE sock[c]]
    /\ shutdown_timer' = SafeClose(shutdown_timer)

OnShutdownTimeout ==
    /\ Running /\ shutdown_timer = "open"
    /\ Walk
    /\ stop_flag' = TRUE
    /\ forced' = TRUE
    /\ UNCHANGED <<reading, active_connections, dispatchVars, shutting_down,
                   shutdown_async, loop, listening>>

ShutdownTimerClosed ==
    /\ Closing /\ shutdown_timer = "closing"
    /\ shutdown_timer' = "closed"
    /\ UNCHANGED <<connVars, dispatchVars, shutting_down, shutdown_async,
                   stop_flag, forced, loop, sock, listening>>

\* uv_run returns to Worker::Run and main.
RunReturns ==
    /\ Running /\ stop_flag
    /\ loop' = "returned"
    /\ UNCHANGED <<connVars, dispatchVars, shutting_down, shutdown_async,
                   shutdown_timer, stop_flag, forced, sock, listening>>

\* ~Worker: close what is left and run the loop until nothing is alive.
Destroy ==
    /\ loop = "returned"
    /\ Walk
    /\ loop' = "drain"
    /\ UNCHANGED <<reading, active_connections, dispatchVars, shutting_down,
                   shutdown_async, stop_flag, forced, listening>>

\* uv_loop_alive: closing handles and requests keep the loop alive.
Alive ==
    \/ work # {} \/ shutdown_timer = "closing"
    \/ \E c \in Conns : "closing" \in {conn[c].timer, conn[c].pipe}

LoopClose ==
    /\ loop = "drain" /\ ~Alive
    /\ loop' = "closed"
    /\ UNCHANGED <<connVars, dispatchVars, shutting_down, shutdown_async,
                   shutdown_timer, stop_flag, forced, sock, listening>>

-----------------------------------------------------------------------------
(* Dispatch to the thread pool.                                            *)

\* DispatchNotification from the state of the guard its caller left: refused
\* when the notification is invalid or the worker is stopping; not run beside
\* an item of the same key, but a turned away origin refresh is held.
DispatchNotification(m, s) ==
    LET refused == shutting_down \/ m.kind = "refused"
        tracked == m.kind # "warmup"
        busy    == tracked /\ m.url \in s.urls
        queued  == ~refused /\ ~busy
    IN  /\ in_flight_urls' = IF queued /\ tracked THEN s.urls \cup {m.url}
                             ELSE s.urls
        /\ pending_origin_refresh' =
               IF ~refused /\ busy /\ m.kind = "refresh"
               THEN [s.pending EXCEPT ![m.url] = m] ELSE s.pending
        /\ work' = IF queued THEN s.work \cup {[msg |-> m, done |-> FALSE]}
                   ELSE s.work
        /\ in_flight_work' = IF queued THEN s.count + 1 ELSE s.count

\* OnNotificationWork, HandleNotification: a pool thread runs the item (what
\* it does to the cache is the subject of VariantWriter).
OnNotificationWork(w) ==
    /\ ~w.done
    /\ work' = (work \ {w}) \cup {[w EXCEPT !.done = TRUE]}
    /\ UNCHANGED <<connVars, in_flight_work, in_flight_urls,
                   pending_origin_refresh, parsed, stopVars,
                   sock, listening>>

\* The guard without a finished item.
Released(w) ==
    IF w.msg.kind = "warmup"
    THEN [urls |-> in_flight_urls, pending |-> pending_origin_refresh,
          work |-> work \ {w}, count |-> in_flight_work - 1]
    ELSE [urls |-> in_flight_urls \ {w.msg.url},
          pending |-> [pending_origin_refresh EXCEPT ![w.msg.url] = None],
          work |-> work \ {w}, count |-> in_flight_work - 1]

Held(w) ==
    IF w.msg.kind = "warmup" THEN None ELSE pending_origin_refresh[w.msg.url]

\* Mutants of OnNotificationDone: the held refresh is left in its map, or
\* taken out and not dispatched.
DoneLeavesHeld(w) ==
    /\ Closing /\ w.done
    /\ in_flight_urls' = Released(w).urls
    /\ work' = Released(w).work
    /\ in_flight_work' = Released(w).count
    /\ CheckShutdownComplete(active_connections, in_flight_work')
    /\ UNCHANGED <<connVars, pending_origin_refresh, parsed,
                   shutting_down, shutdown_async, forced, loop, sock, listening>>
DoneForgetsHeld(w) ==
    /\ Closing /\ w.done
    /\ in_flight_urls' = Released(w).urls
    /\ pending_origin_refresh' = Released(w).pending
    /\ work' = Released(w).work
    /\ in_flight_work' = Released(w).count
    /\ CheckShutdownComplete(active_connections, in_flight_work')
    /\ UNCHANGED <<connVars, parsed, shutting_down,
                   shutdown_async, forced, loop, sock, listening>>

\* OnNotificationDone: the held refresh of the key is dispatched before the
\* item's count is given back.
OnNotificationDone(w) ==
    /\ Closing /\ w.done
    /\ IF Held(w) # None
       THEN DispatchNotification(Held(w), Released(w))
       ELSE /\ in_flight_urls' = Released(w).urls
            /\ pending_origin_refresh' = Released(w).pending
            /\ work' = Released(w).work
            /\ in_flight_work' = Released(w).count
    /\ CheckShutdownComplete(active_connections, in_flight_work')
    /\ UNCHANGED <<connVars, parsed, shutting_down,
                   shutdown_async, forced, loop, sock, listening>>

-----------------------------------------------------------------------------
(* Client connections.                                                     *)

\* Mutant of OnNewConnection: one connection too many.
AcceptAtLimit(c) ==
    /\ Running /\ listening /\ sock[c].st = "backlog"
    /\ active_connections <= max_connections
    /\ active_connections' = active_connections + 1
    /\ conn' = [conn EXCEPT ![c] = NewClient]
    /\ sock' = [sock EXCEPT ![c].st = "accepted"]
    /\ UNCHANGED <<reading, dispatchVars, stopVars, listening>>

\* OnNewConnection below the limit: a context, its timer and its pipe.
OnNewConnection(c) ==
    /\ Running /\ listening /\ sock[c].st = "backlog"
    /\ active_connections < max_connections
    /\ active_connections' = active_connections + 1
    /\ conn' = [conn EXCEPT ![c] = NewClient]
    /\ sock' = [sock EXCEPT ![c].st = "accepted"]
    /\ UNCHANGED <<reading, dispatchVars, stopVars, listening>>

\* At the limit, or uv_accept fails: taken off the queue and closed.
OnNewConnectionReject(c) ==
    /\ Running /\ listening /\ sock[c].st = "backlog"
    /\ sock' = [sock EXCEPT ![c] = [ReaderClosed(@) EXCEPT !.st = "accepted"]]
    /\ UNCHANGED <<loopVars, listening>>

\* Mutant of CloseClientConnection: both handles are closed at once.
CloseBothHandles(cl) ==
    [cl EXCEPT !.closing = TRUE, !.timer = "closing",
               !.pipe = "closing", !.thenFree = TRUE]

\* CloseClientConnection: the timer first, the pipe from its close callback.
CloseClientConnection(cl) ==
    [cl EXCEPT !.closing = TRUE, !.timer = "closing", !.thenPipe = TRUE]

\* The idle timer fires.
OnConnectionTimeout(c) ==
    /\ Running /\ conn[c].timer = "open" /\ ~conn[c].closing
    /\ conn' = [conn EXCEPT ![c] = CloseClientConnection(@)]
    /\ UNCHANGED <<reading, active_connections, dispatchVars, stopVars, sock,
                   listening>>

\* OnTimerClosedThenPipe, or a timer that the walk closed.
TimerClosed(c) ==
    LET then == conn[c].thenPipe /\ conn[c].pipe = "open" IN
    /\ Closing /\ conn[c].timer = "closing"
    /\ conn' = [conn EXCEPT ![c].timer = "closed",
                            ![c].pipe = IF then THEN "closing" ELSE @,
                            ![c].thenFree = @ \/ then]
    /\ sock' = IF then THEN [sock EXCEPT ![c] = ReaderClosed(@)] ELSE sock
    /\ UNCHANGED <<reading, active_connections, dispatchVars, stopVars,
                   listening>>

\* Mutant of OnClientClose: the walk's closes are counted too.
PipeClosedAlwaysCounts(c) ==
    /\ Closing /\ conn[c].pipe = "closing"
    /\ conn' = [conn EXCEPT ![c].pipe = "closed",
                            ![c].ctx = IF conn[c].thenFree THEN "freed" ELSE @]
    /\ active_connections' = active_connections - 1
    /\ CheckShutdownComplete(active_connections', in_flight_work)
    /\ UNCHANGED <<reading, dispatchVars, shutting_down, shutdown_async, forced,
                   loop, sock, listening>>

\* OnClientClose, or a pipe that the walk closed.
OnClientClose(c) ==
    /\ Closing /\ conn[c].pipe = "closing"
    /\ IF conn[c].thenFree
       THEN /\ conn' = [conn EXCEPT ![c].pipe = "closed", ![c].ctx = "freed",
                                    ![c].buffer = <<>>]
            /\ active_connections' = active_connections - 1
            /\ CheckShutdownComplete(active_connections', in_flight_work)
       ELSE /\ conn' = [conn EXCEPT ![c].pipe = "closed"]
            /\ UNCHANGED <<active_connections, shutdown_timer, stop_flag>>
    /\ UNCHANGED <<reading, dispatchVars, shutting_down, shutdown_async, forced,
                   loop, sock, listening>>

\* OnClientRead of a connection that is being torn down: the bytes are lost.
OnClientReadClosing(c) ==
    /\ Running /\ conn[c].pipe = "open" /\ conn[c].closing
    /\ sock[c].data # <<>>
    /\ sock' = [sock EXCEPT ![c].data = <<>>]
    /\ UNCHANGED <<loopVars, listening>>

\* OnClientRead at the end of the stream, or past max_buffer_size.
OnClientReadClose(c) ==
    /\ Running /\ conn[c].pipe = "open" /\ ~conn[c].closing
    /\ IF sock[c].data = <<>>
       THEN ~sock[c].snd
       ELSE Len(conn[c].buffer) + Len(sock[c].data) > max_buffer_size
    /\ conn' = [conn EXCEPT ![c] = CloseClientConnection(@)]
    /\ sock' = [sock EXCEPT ![c].data = <<>>]
    /\ UNCHANGED <<reading, active_connections, dispatchVars, stopVars,
                   listening>>

\* OnClientRead: the bytes join the buffer and the parse loop begins.
OnClientRead(c) ==
    /\ Running /\ conn[c].pipe = "open" /\ ~conn[c].closing
    /\ sock[c].data # <<>>
    /\ Len(conn[c].buffer) + Len(sock[c].data) <= max_buffer_size
    /\ conn' = [conn EXCEPT ![c].buffer = @ \o sock[c].data]
    /\ sock' = [sock EXCEPT ![c].data = <<>>]
    /\ reading' = c
    /\ UNCHANGED <<active_connections, dispatchVars, stopVars, listening>>

\* The header of a frame that the worker refuses may announce more than
\* max_request_size: the connection is closed.
ParseTooLarge(c) ==
    /\ reading = c /\ conn[c].buffer # <<>>
    /\ conn[c].buffer[1].msg.kind = "refused"
    /\ conn' = [conn EXCEPT ![c] = CloseClientConnection(@)]
    /\ reading' = None
    /\ UNCHANGED <<active_connections, dispatchVars, stopVars, sock, listening>>

\* One turn of the parse loop: Deserialize and dispatch, or count a bad frame.
ParseFrame(c) ==
    LET b == conn[c].buffer
        m == b[1].msg
    IN  /\ reading = c /\ Len(b) >= 2
        /\ conn' = [conn EXCEPT ![c].buffer = SubSeq(b, 3, Len(b))]
        /\ IF SubSeq(b, 1, 2) = Frame(m)
           THEN /\ parsed' =
                       [parsed EXCEPT ![m.id] = @ + 1]
                /\ DispatchNotification(m,
                       [urls |-> in_flight_urls, work |-> work,
                        pending |-> pending_origin_refresh,
                        count |-> in_flight_work])
           ELSE UNCHANGED dispatchVars
        /\ UNCHANGED <<reading, active_connections, stopVars, sock, listening>>

\* What is left is an incomplete frame, or nothing.
ReadDone(c) ==
    /\ reading = c /\ Len(conn[c].buffer) < 2
    /\ reading' = None
    /\ UNCHANGED <<conn, active_connections, dispatchVars, stopVars, sock,
                   listening>>

-----------------------------------------------------------------------------
\* What the loop does by itself once there is something to do.
LoopStep ==
    \/ BeginGracefulShutdown \/ OnShutdownTimeout \/ ShutdownTimerClosed
    \/ RunReturns \/ Destroy \/ LoopClose
    \/ \E w \in work : OnNotificationDone(w)
    \/ \E c \in Conns :
          \/ OnNewConnection(c) \/ OnNewConnectionReject(c)
          \/ TimerClosed(c) \/ OnClientClose(c)
          \/ OnClientReadClosing(c) \/ OnClientReadClose(c) \/ OnClientRead(c)
          \/ ParseTooLarge(c) \/ ParseFrame(c) \/ ReadDone(c)

PoolStep == \E w \in work : OnNotificationWork(w)

LoopNext ==
    \/ LoopStep
    \/ PoolStep
    \/ RequestShutdown
    \/ \E c \in Conns : OnConnectionTimeout(c)
=============================================================================
