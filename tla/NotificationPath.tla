-------------------------- MODULE NotificationPath --------------------------
(***************************************************************************)
(* The notification path: nginx worker processes (NotificationSender) and  *)
(* the optimizer worker (WorkerLoop) over the worker's socket.             *)
(***************************************************************************)
EXTENDS NotificationSender, WorkerLoop

vars == <<sock, listening, senderVars, loopVars>>

Init == SockInit /\ SenderInit /\ LoopInit

Next ==
    \/ \E p \in Senders : SenderStep(p) /\ UNCHANGED loopVars
    \/ LoopNext /\ UNCHANGED senderVars

Spec == Init /\ [][Next]_vars

\* The loop goes on as long as a callback is due, and the pool as long as an
\* item is queued; senders, signals and idle timers are free to do nothing.
FairSpec ==
    /\ Spec
    /\ WF_vars(LoopStep /\ UNCHANGED senderVars)
    /\ WF_vars(PoolStep /\ UNCHANGED senderVars)

\* Every variable keeps to its type; OnNewConnection keeps within
\* max_connections.
TypeOK ==
    /\ sock \in [Conns -> Socket] /\ listening \in BOOLEAN
    /\ g_persistent_fd \in [Senders -> Conns \cup {None}]
    /\ attempt \in [Senders -> 0..2]
    /\ message \in [Senders -> Notifications \cup {None}]
    /\ written \in [Senders -> 0..1]
    /\ sends \in 0..MaxSends
    /\ conn \in [Conns -> Client] /\ reading \in Conns \cup {None}
    /\ active_connections \in 0..max_connections
    /\ in_flight_work \in Nat
    /\ in_flight_urls \subseteq Urls
    /\ pending_origin_refresh \in [Urls -> Notifications \cup {None}]
    /\ parsed \in [1..MaxSends -> Nat]
    /\ work \subseteq [msg : Notifications, done : BOOLEAN]
    /\ shutting_down \in BOOLEAN /\ shutdown_async \in BOOLEAN
    /\ stop_flag \in BOOLEAN /\ forced \in BOOLEAN
    /\ shutdown_timer \in Handles
    /\ loop \in {"run", "returned", "drain", "closed"}

\* OnClientClose frees the context, its timer and its pipe: until then the
\* context is there for every handle that can still call back into it, and the
\* timer has finished closing when the pipe's close callback is under way.
\* CloseClientConnection never closes a timer a second time (however timeouts,
\* reads, closes and the shutdown walk interleave).
ContextOutlivesHandles ==
    \A c \in Conns :
        LET cl == conn[c] IN
        /\ "open" \in {cl.timer, cl.pipe} => cl.ctx = "live"
        /\ cl.timer = "closing" => cl.ctx = "live" /\ ~cl.thenFree
        /\ cl.pipe = "closing" => cl.ctx = "live"
        /\ cl.thenFree => cl.timer = "closed"
        /\ cl.pipe = "open" /\ ~cl.closing => cl.timer = "open"

\* active_connections_ and in_flight_work_ are what the shutdown decides on:
\* they count exactly the contexts and the uv_work_t requests that are out.
CountersExact ==
    /\ active_connections = Cardinality({c \in Conns : conn[c].ctx = "live"})
    /\ in_flight_work = Cardinality(work)

\* DispatchNotification against OnNotificationDone: in_flight_urls_ holds the
\* keys of the tracked items, one item each, and a held origin refresh always
\* has an item of its key in flight, whose end will dispatch it.
HeldRefreshHasItem ==
    /\ in_flight_urls = {w.msg.url : w \in {v \in work : v.msg.kind # "warmup"}}
    /\ \A v, w \in work :
           v.msg.kind # "warmup" /\ w.msg.kind # "warmup" /\ v.msg.url = w.msg.url
               => v = w
    /\ \A u \in Urls : pending_origin_refresh[u] # None => u \in in_flight_urls

\* BeginGracefulShutdown and CheckShutdownComplete: unless the timeout fired,
\* the loop is stopped with nothing in flight, and nothing is added after.
GracefulStopIsIdle ==
    stop_flag /\ ~forced =>
        work = {} /\ \A c \in Conns : conn[c].ctx # "live"

\* The framing of OnClientRead stays aligned with what the senders write,
\* through partial writes, timeouts, reconnects and processes that die: in the
\* bytes of a connection every frame is whole, except for a last one.
FramesAligned ==
    \A c \in Conns :
        LET b == conn[c].buffer \o sock[c].data IN
        ~conn[c].closing =>
            \A i \in 1..Len(b) :
                b[i] = Frame(b[i].msg)[IF i % 2 = 1 THEN 1 ELSE 2]
                /\ (i % 2 = 0 => b[i].msg = b[i - 1].msg)

\* SendNotificationPersistent's second attempt never delivers a notification
\* twice: the first one failed with a part of it unwritten.
DeliveredAtMostOnce ==
    \A n \in 1..MaxSends : parsed[n] <= 1

\* The senders and the worker together do what NotificationContract promises:
\* a parsed notification was sent and was not parsed before; it runs, alone on
\* its key, or DispatchNotification had a reason to turn it away; and a held
\* origin refresh is what OnNotificationDone dispatches next for its key.
Contract == INSTANCE NotificationContract
                WITH sent <- sends, taken <- parsed, items <- work,
                     held <- pending_origin_refresh, stopping <- shutting_down
NotificationsHandled == Contract!CSpec

\* The held origin refresh of DispatchNotification does not vanish: it gets
\* its turn, a refresh of the key with none held behind it, unless the worker
\* stops.
HeldRefreshRuns ==
    \A u \in Urls :
        pending_origin_refresh[u] # None ~>
            \/ /\ pending_origin_refresh[u] = None
               /\ \E w \in work : w.msg.url = u /\ w.msg.kind = "refresh"
            \/ shutting_down

\* The shutdown ends, whatever the clients do with their connections.
ShutdownCompletes == shutdown_async ~> loop = "closed"
=============================================================================
