----------------------- MODULE NotificationPathLemmas -----------------------
(***************************************************************************)
(* The steps of the notification path, one group of variables at a time:   *)
(* what they may do to the dispatch guard, the contexts and their handles, *)
(* the shutdown and the types.                                             *)
(***************************************************************************)
EXTENDS NotificationPath, SequenceTheorems, TLAPS

Live == {c \in Conns : conn[c].ctx = "live"}

\* The counters against what they count.  A notification parsed twice would be
\* one member of work and two of the count, so work is only bounded here; ItemInv
\* of NotificationPathProofs makes it exact.
CountInv ==
    /\ IsFiniteSet(work) /\ Cardinality(work) <= in_flight_work
    /\ active_connections = Cardinality(Live)

\* What the shutdown has done when the loop is told to stop.
StopInv ==
    /\ stop_flag => shutting_down
    /\ shutting_down => ~listening
    /\ shutdown_timer = "open" => shutting_down
    /\ GracefulStopIsIdle

\* Two more facts of a connection: the pipe of a context that is to be freed is
\* no longer open, and there is no context before the connection is accepted.
ClientInv ==
    \A c \in Conns :
        /\ conn[c].thenFree => conn[c].pipe # "open"
        /\ sock[c].st # "accepted" => conn[c].ctx = "none"

\* Nothing closes the connection whose buffer OnClientRead is parsing.
ReadInv ==
    reading # None =>
        loop = "run" /\ conn[reading].pipe = "open" /\ ~conn[reading].closing

\* A sender that is sending has a message.
SenderInv == \A p \in Senders : attempt[p] # 0 => message[p] # None

\* The inductive invariant.  The decrements of the two counters need CountInv
\* to stay in their type, CountInv needs to know that a context is new when it
\* is counted and live when its count is given back, and StopInv reads an idle
\* loop off the counters.
LoopInv ==
    /\ TypeOK /\ SenderInv /\ ContextOutlivesHandles /\ ClientInv /\ ReadInv
    /\ CountInv /\ HeldRefreshHasItem /\ StopInv

-----------------------------------------------------------------------------
(* The steps that touch the dispatch guard.                                *)

\* Only the parse loop, the pool threads and OnNotificationDone change the
\* in-flight guard, the held refreshes and the queue.
LEMMA DispatchCases ==
    ASSUME [Next]_vars
    PROVE  \/ UNCHANGED dispatchVars
           \/ \E c \in Conns : ParseFrame(c)
           \/ \E w \in work : OnNotificationWork(w) \/ OnNotificationDone(w)
  <1> USE DEF dispatchVars
  <1>1. CASE UNCHANGED vars
    BY <1>1 DEF vars, loopVars
  <1>2. ASSUME NEW p \in Senders, UNCHANGED loopVars PROVE UNCHANGED dispatchVars
    BY <1>2 DEF loopVars
  <1>3. CASE LoopNext
    <2>1. CASE LoopStep
      <3>1. CASE \E c \in Conns :
               \/ OnNewConnection(c) \/ OnNewConnectionReject(c)
               \/ TimerClosed(c) \/ OnClientClose(c)
               \/ OnClientReadClosing(c) \/ OnClientReadClose(c)
               \/ OnClientRead(c) \/ ParseTooLarge(c) \/ ReadDone(c)
        BY <3>1, ZenonT(60) DEF OnNewConnection, OnNewConnectionReject, TimerClosed,
           OnClientClose, OnClientReadClosing, OnClientReadClose, OnClientRead,
           ParseTooLarge, ReadDone, loopVars
      <3>2. CASE \/ BeginGracefulShutdown \/ OnShutdownTimeout
                 \/ ShutdownTimerClosed \/ RunReturns \/ Destroy \/ LoopClose
        BY <3>2 DEF BeginGracefulShutdown, OnShutdownTimeout,
           ShutdownTimerClosed, RunReturns, Destroy, LoopClose
      <3>3. QED
        BY <2>1, <3>1, <3>2, SMTT(60) DEF LoopStep
    <2>2. CASE PoolStep
      BY <2>2 DEF PoolStep
    <2>3. CASE RequestShutdown \/ \E c \in Conns : OnConnectionTimeout(c)
      BY <2>3 DEF RequestShutdown, OnConnectionTimeout
    <2>4. QED
      BY <1>3, <2>1, <2>2, <2>3 DEF LoopNext
  <1>4. QED
    BY <1>1, <1>2, <1>3 DEF Next

\* HeldRefreshHasItem of given values of the guard, the map and the queue.
HeldOK(urls, pending, items) ==
    /\ urls = {w.msg.url : w \in {v \in items : v.msg.kind # "warmup"}}
    /\ \A v, w \in items :
           v.msg.kind # "warmup" /\ w.msg.kind # "warmup" /\ v.msg.url = w.msg.url
               => v = w
    /\ \A u \in Urls : pending[u] # None => u \in urls

\* DispatchNotification never runs two tracked items of a key and holds a
\* refresh only while an item of its key is out.
LEMMA DispatchHeld ==
    ASSUME NEW m \in Notifications, NEW urls, NEW items, NEW n,
           NEW pending \in [Urls -> Notifications \cup {None}],
           HeldOK(urls, pending, items),
           DispatchNotification(m, [urls |-> urls, pending |-> pending,
                                    work |-> items, count |-> n])
    PROVE  HeldOK(in_flight_urls', pending_origin_refresh', work')
  <1> DEFINE item == [msg |-> m, done |-> FALSE]
  <1>1. item.msg = m /\ m.url \in Urls
    BY DEF Notifications
  <1>2. CASE shutting_down \/ m.kind = "refused"
    BY <1>2 DEF DispatchNotification
  <1>3. CASE ~(shutting_down \/ m.kind = "refused") /\ m.kind = "warmup"
    <2>1. /\ in_flight_urls' = urls /\ pending_origin_refresh' = pending
          /\ work' = items \cup {item}
      BY <1>3 DEF DispatchNotification
    <2>2. {v \in work' : v.msg.kind # "warmup"} = {v \in items : v.msg.kind # "warmup"}
      BY <1>1, <1>3, <2>1
    <2>3. QED
      BY <1>1, <1>3, <2>1, <2>2 DEF HeldOK
  <1>4. CASE /\ ~(shutting_down \/ m.kind = "refused") /\ m.kind # "warmup"
             /\ m.url \in urls
    <2>1. /\ in_flight_urls' = urls /\ work' = items
          /\ \/ pending_origin_refresh' = pending
             \/ pending_origin_refresh' = [pending EXCEPT ![m.url] = m]
      BY <1>4 DEF DispatchNotification
    <2>2. QED
      BY <1>1, <1>4, <2>1 DEF HeldOK
  <1>5. CASE /\ ~(shutting_down \/ m.kind = "refused") /\ m.kind # "warmup"
             /\ m.url \notin urls
    <2>1. /\ in_flight_urls' = urls \cup {m.url}
          /\ pending_origin_refresh' = pending
          /\ work' = items \cup {item}
      BY <1>5 DEF DispatchNotification
    <2>2. {v \in work' : v.msg.kind # "warmup"}
              = {v \in items : v.msg.kind # "warmup"} \cup {item}
      BY <1>1, <1>5, <2>1
    <2>3. in_flight_urls' = {w.msg.url : w \in {v \in work' : v.msg.kind # "warmup"}}
      <3> DEFINE T == {v \in items : v.msg.kind # "warmup"}
      <3>1. {w.msg.url : w \in T \cup {item}} = {w.msg.url : w \in T} \cup {m.url}
        <4> HIDE DEF T, item
        <4>1. QED
          BY <1>1
      <3>2. QED
        BY <2>1, <2>2, <3>1, ZenonT(60) DEF HeldOK
    <2>4. ASSUME NEW v \in items, v.msg.kind # "warmup" PROVE v.msg.url # m.url
      BY <1>5, <2>4 DEF HeldOK
    <2>5. ASSUME NEW v \in work', NEW w \in work', v.msg.kind # "warmup",
                 w.msg.kind # "warmup", v.msg.url = w.msg.url
          PROVE  v = w
      <3>1. CASE v = item \/ w = item
        BY <1>1, <2>1, <2>4, <2>5, <3>1, ZenonT(60)
      <3>2. CASE v # item /\ w # item
        BY <2>1, <2>5, <3>2 DEF HeldOK
      <3>3. QED
        BY <3>1, <3>2
    <2>6. QED
      BY <2>1, <2>3, <2>5, SMTT(60) DEF HeldOK
  <1>6. QED
    BY <1>2, <1>3, <1>4, <1>5

\* A finished item leaves the guard, the map and the queue consistent.
LEMMA ReleasedHeld ==
    ASSUME TypeOK, HeldRefreshHasItem, NEW w \in work
    PROVE  /\ HeldOK(Released(w).urls, Released(w).pending, Released(w).work)
           /\ Released(w).pending \in [Urls -> Notifications \cup {None}]
           /\ Released(w) = [urls |-> Released(w).urls,
                             pending |-> Released(w).pending,
                             work |-> Released(w).work,
                             count |-> Released(w).count]
  <1>1. w.msg.url \in Urls
    BY DEF TypeOK, Notifications
  <1>2. CASE w.msg.kind = "warmup"
    <2>1. /\ Released(w).urls = in_flight_urls
          /\ Released(w).pending = pending_origin_refresh
          /\ Released(w).work = work \ {w}
      BY <1>2 DEF Released
    <2>2. {v \in work \ {w} : v.msg.kind # "warmup"} = {v \in work : v.msg.kind # "warmup"}
      BY <1>2, SMTT(60)
    <2>3. QED
      BY <1>2, <2>1, <2>2, SMTT(60) DEF HeldOK, HeldRefreshHasItem, TypeOK, Released
  <1>3. CASE w.msg.kind # "warmup"
    <2>1. /\ Released(w).urls = in_flight_urls \ {w.msg.url}
          /\ Released(w).pending = [pending_origin_refresh EXCEPT ![w.msg.url] = None]
          /\ Released(w).work = work \ {w}
      BY <1>3 DEF Released
    <2>2. in_flight_urls \ {w.msg.url}
            = {x.msg.url : x \in {v \in work \ {w} : v.msg.kind # "warmup"}}
      BY <1>3 DEF HeldRefreshHasItem
    <2>3. QED
      BY <1>1, <1>3, <2>1, <2>2, SMTT(60) DEF HeldOK, HeldRefreshHasItem, TypeOK, Released
  <1>4. QED
    BY <1>2, <1>3

\* What the parse loop takes off the buffer is a notification.
LEMMA ParsedMessage ==
    ASSUME TypeOK, NEW c \in Conns, ParseFrame(c)
    PROVE  conn[c].buffer[1].msg \in Notifications
  <1>1. conn[c].buffer \in Seq(Chunks) /\ Len(conn[c].buffer) >= 2
    BY DEF ParseFrame, TypeOK, Client
  <1>2. conn[c].buffer[1] \in Chunks
    BY <1>1
  <1>3. QED
    BY <1>2, SMTT(60) DEF Chunks

\* The held refreshes and the in-flight guard stay consistent in every step.
LEMMA HeldNext ==
    ASSUME TypeOK, HeldRefreshHasItem, [Next]_vars
    PROVE  HeldRefreshHasItem'
  <1>1. CASE UNCHANGED dispatchVars
    BY <1>1 DEF HeldRefreshHasItem, dispatchVars
  <1>2. ASSUME NEW c \in Conns, ParseFrame(c) PROVE HeldRefreshHasItem'
    <2> DEFINE m == conn[c].buffer[1].msg
               s == [urls |-> in_flight_urls, pending |-> pending_origin_refresh,
                     work |-> work, count |-> in_flight_work]
    <2>1. m \in Notifications
      BY <1>2, ParsedMessage, SMTT(60)
    <2>2. UNCHANGED dispatchVars \/ DispatchNotification(m, s)
      BY <1>2 DEF ParseFrame
    <2>3. CASE UNCHANGED dispatchVars
      BY <2>3 DEF HeldRefreshHasItem, dispatchVars
    <2>4. CASE DispatchNotification(m, s)
      <3>1. HeldOK(in_flight_urls, pending_origin_refresh, work)
        BY DEF HeldOK, HeldRefreshHasItem
      <3>2. pending_origin_refresh \in [Urls -> Notifications \cup {None}]
        BY DEF TypeOK
      <3>3. HeldOK(in_flight_urls', pending_origin_refresh', work')
        <4> HIDE DEF m
        <4>1. QED
          BY <2>1, <2>4, <3>1, <3>2, DispatchHeld
      <3>4. QED
        BY <3>3 DEF HeldOK, HeldRefreshHasItem
    <2>5. QED
      BY <2>2, <2>3, <2>4
  <1>3. ASSUME NEW w \in work, OnNotificationWork(w) PROVE HeldRefreshHasItem'
    <2> DEFINE x == [w EXCEPT !.done = TRUE]
    <2>1. x.msg = w.msg
      BY DEF TypeOK
    <2>2. /\ work' = (work \ {w}) \cup {x}
          /\ UNCHANGED <<in_flight_urls, pending_origin_refresh>>
      BY <1>3 DEF OnNotificationWork
    <2> HIDE DEF x
    <2>3. {v.msg.url : v \in {v \in work' : v.msg.kind # "warmup"}}
            = {v.msg.url : v \in {v \in work : v.msg.kind # "warmup"}}
      BY <2>1, <2>2
    <2>4. QED
      BY <2>1, <2>2, <2>3 DEF HeldRefreshHasItem
  <1>4. ASSUME NEW w \in work, OnNotificationDone(w) PROVE HeldRefreshHasItem'
    <2>1. /\ HeldOK(Released(w).urls, Released(w).pending, Released(w).work)
          /\ Released(w).pending \in [Urls -> Notifications \cup {None}]
          /\ Released(w) = [urls |-> Released(w).urls,
                            pending |-> Released(w).pending,
                            work |-> Released(w).work,
                            count |-> Released(w).count]
      BY ReleasedHeld
    <2>2. CASE Held(w) # None
      <3>1. Held(w) \in Notifications
        BY <2>2 DEF Held, TypeOK, Notifications
      <3>2. DispatchNotification(Held(w), Released(w))
        BY <1>4, <2>2 DEF OnNotificationDone
      <3>3. HeldOK(in_flight_urls', pending_origin_refresh', work')
        BY <2>1, <3>1, <3>2, DispatchHeld, ZenonT(60)
      <3>4. QED
        BY <3>3 DEF HeldOK, HeldRefreshHasItem
    <2>3. CASE Held(w) = None
      <3>1. HeldOK(in_flight_urls', pending_origin_refresh', work')
        BY <1>4, <2>1, <2>3 DEF OnNotificationDone
      <3>2. QED
        BY <3>1 DEF HeldOK, HeldRefreshHasItem
    <2>4. QED
      BY <2>2, <2>3
  <1>5. QED
    BY <1>1, <1>2, <1>3, <1>4, DispatchCases

-----------------------------------------------------------------------------
(* The contexts and their handles.                                         *)

\* A sender leaves the worker's side alone and never un-accepts a connection.
LEMMA SenderKeeps ==
    ASSUME TypeOK, NEW p \in Senders, SenderStep(p), NEW c \in Conns
    PROVE  sock'[c].st = "accepted" <=> sock[c].st = "accepted"
  <1>1. sock \in [Conns -> Socket] /\ g_persistent_fd[p] \in Conns \cup {None}
    BY DEF TypeOK
  <1>2. CASE \E u \in Urls, k \in Kinds : SendNotificationPersistent(p, u, k)
    BY <1>2 DEF SendNotificationPersistent
  <1>3. CASE \E d \in Conns : EnsureConnected(p, d)
    BY <1>1, <1>3 DEF EnsureConnected, Connected, Socket
  <1>4. CASE ConnectFails(p)
    BY <1>4 DEF ConnectFails
  <1>5. CASE WriteAll(p)
    BY <1>1, <1>5 DEF WriteAll, Socket
  <1>6. CASE WriteFails(p) \/ ProcessExit(p)
    <2> DEFINE f == g_persistent_fd[p]
    <2>1. \/ sock' = sock
          \/ f \in Conns /\ sock' = [sock EXCEPT ![f] = SenderClosed(@)]
      BY <1>1, <1>6, SMTT(60) DEF WriteFails, ProcessExit, ResetPersistentConnection
    <2> HIDE DEF f
    <2>2. QED
      BY <1>1, <2>1, SMTT(60) DEF SenderClosed, Socket
  <1>7. QED
    BY <1>2, <1>3, <1>4, <1>5, <1>6 DEF SenderStep

\* The parse loop is one callback: nothing else of the loop runs in between.
LEMMA ReadNext ==
    ASSUME TypeOK, ReadInv, [Next]_vars
    PROVE  ReadInv'
  <1> USE DEF ReadInv
  <1>1. CASE UNCHANGED <<reading, conn, loop>>
    BY <1>1
  <1>2. CASE reading' = None
    BY <1>2
  <1>3. CASE UNCHANGED vars \/ \E p \in Senders : UNCHANGED loopVars
    BY <1>1, <1>3 DEF vars, loopVars, connVars, stopVars
  <1>4. CASE \/ BeginGracefulShutdown \/ OnShutdownTimeout \/ ShutdownTimerClosed
             \/ RunReturns \/ Destroy \/ LoopClose
             \/ \E w \in work : OnNotificationDone(w)
    BY <1>2, <1>4 DEF BeginGracefulShutdown, OnShutdownTimeout,
       ShutdownTimerClosed, RunReturns, Destroy, LoopClose, OnNotificationDone,
       Running, Closing, connVars
  <1>5. CASE PoolStep \/ RequestShutdown
    BY <1>1, <1>5 DEF PoolStep, OnNotificationWork, RequestShutdown, connVars,
       stopVars
  <1>6. ASSUME NEW c \in Conns,
               \/ OnNewConnection(c) \/ OnNewConnectionReject(c)
               \/ TimerClosed(c) \/ OnClientClose(c) \/ OnConnectionTimeout(c)
               \/ OnClientReadClosing(c) \/ OnClientReadClose(c)
               \/ ParseTooLarge(c) \/ ReadDone(c)
        PROVE  reading' = None
    BY <1>6, ZenonT(60) DEF OnNewConnection, OnNewConnectionReject, TimerClosed,
       OnClientClose, OnConnectionTimeout, OnClientReadClosing,
       OnClientReadClose, ParseTooLarge, ReadDone, Running, Closing, loopVars,
       connVars
  <1>7. ASSUME NEW c \in Conns, OnClientRead(c) \/ ParseFrame(c) PROVE ReadInv'
    <2>1. conn \in [Conns -> Client] /\ c # None
      BY SockAssumption DEF TypeOK
    <2>2. PICK b : conn' = [conn EXCEPT ![c].buffer = b]
      BY <1>7, ZenonT(60) DEF OnClientRead, ParseFrame
    <2>3. /\ reading' = c /\ loop' = loop /\ loop = "run"
          /\ conn[c].pipe = "open" /\ ~conn[c].closing
      BY <1>7, <2>1, ZenonT(60) DEF OnClientRead, ParseFrame, Running, stopVars
    <2>4. QED
      BY <2>1, <2>2, <2>3 DEF Client
  <1>8. QED
    BY <1>2, <1>3, <1>4, <1>5, <1>6, <1>7 DEF Next, LoopNext, LoopStep

\* Contexts outlive their handles in every step, in whatever order timeouts,
\* reads, closes and the shutdown's walk come.
LEMMA ClientNext ==
    ASSUME TypeOK, ContextOutlivesHandles, ClientInv, ReadInv, [Next]_vars
    PROVE  ContextOutlivesHandles' /\ ClientInv'
  <1> USE DEF ContextOutlivesHandles, ClientInv
  <1>t. /\ conn \in [Conns -> Client] /\ sock \in [Conns -> Socket]
    BY DEF TypeOK
  <1>1. CASE UNCHANGED vars
    BY <1>1 DEF vars, loopVars, connVars
  <1>2. ASSUME NEW p \in Senders, SenderStep(p), UNCHANGED loopVars
        PROVE  ContextOutlivesHandles' /\ ClientInv'
    <2>1. conn' = conn
      BY <1>2 DEF loopVars, connVars
    <2>2. QED
      BY <1>2, <2>1, SenderKeeps
  <1>3. CASE BeginGracefulShutdown
    <2>1. conn' = conn /\ \A c \in Conns : sock'[c].st = sock[c].st
      BY <1>3, <1>t, ZenonT(60) DEF BeginGracefulShutdown, ReaderClosed, Socket, connVars
    <2>2. QED
      BY <2>1, SMTT(60)
  <1>4. CASE Walk
    <2>0. \A c \in Conns : sock'[c].st = sock[c].st
      BY <1>4, <1>t, ZenonT(60) DEF Walk, ReaderClosed, Socket
    <2>1. ASSUME NEW c \in Conns
          PROVE
            /\ conn'[c].timer = SafeClose(conn[c].timer)
            /\ conn'[c].pipe = SafeClose(conn[c].pipe)
            /\ conn'[c].ctx = conn[c].ctx
            /\ conn'[c].thenFree = conn[c].thenFree
      <3>1. conn[c] \in Client
        BY <1>t
      <3>2. conn'[c] = [conn[c] EXCEPT !.timer = SafeClose(@), !.pipe = SafeClose(@)]
        BY <1>4, ZenonT(60) DEF Walk
      <3>3. QED
        BY <3>1, <3>2 DEF Client
    <2>2. \A h \in Handles : SafeClose(h) # "open" /\ (SafeClose(h) = "closed" <=> h = "closed")
                             /\ (SafeClose(h) = "closing" <=> h \in {"open", "closing"})
      BY DEF SafeClose, Handles
    <2>3. \A c \in Conns : conn[c].timer \in Handles /\ conn[c].pipe \in Handles
      BY <1>t DEF Client
    <2>4. QED
      BY <2>0, <2>1, <2>2, <2>3, SMTT(60)
  <1>5. CASE UNCHANGED <<conn, sock>>
    BY <1>5
  <1>6. ASSUME NEW c \in Conns, OnNewConnection(c)
        PROVE  ContextOutlivesHandles' /\ ClientInv'
    BY <1>6, <1>t, SMTT(60) DEF OnNewConnection, NewClient, Socket
  <1>7. ASSUME NEW c \in Conns, OnNewConnectionReject(c) \/ OnClientReadClosing(c)
        PROVE  ContextOutlivesHandles' /\ ClientInv'
    <2>1. conn' = conn
      BY <1>7 DEF OnNewConnectionReject, OnClientReadClosing, loopVars, connVars
    <2>2. \A d \in Conns : sock'[d].st # "accepted" => sock[d].st # "accepted"
      BY <1>7, <1>t, SMTT(60) DEF OnNewConnectionReject, OnClientReadClosing, ReaderClosed,
         Socket
    <2>3. QED
      BY <2>1, <2>2
  <1>8. ASSUME NEW c \in Conns,
               OnConnectionTimeout(c) \/ OnClientReadClose(c) \/ ParseTooLarge(c)
        PROVE  ContextOutlivesHandles' /\ ClientInv'
    <2>1. /\ \A d \in Conns : sock'[d].st = sock[d].st
          /\ conn' = [conn EXCEPT ![c] = CloseClientConnection(@)]
          /\ "open" \in {conn[c].timer, conn[c].pipe}
          /\ ~conn[c].thenFree
      <3>1. CASE OnConnectionTimeout(c) \/ OnClientReadClose(c)
        BY <3>1, <1>t, ZenonT(60) DEF OnConnectionTimeout, OnClientReadClose, Socket
      <3>2. CASE ParseTooLarge(c)
        <4>1. reading = c /\ c # None
          BY <3>2, SockAssumption DEF ParseTooLarge
        <4>2. QED
          BY <3>2, <4>1, ZenonT(60) DEF ParseTooLarge, ReadInv
      <3>3. QED
        BY <1>8, <3>1, <3>2
    <2>2. /\ conn'[c].timer = "closing" /\ conn'[c].closing
          /\ conn'[c].pipe = conn[c].pipe /\ conn'[c].ctx = conn[c].ctx
          /\ conn'[c].thenFree = conn[c].thenFree
          /\ \A d \in Conns : d # c => conn'[d] = conn[d]
      BY <2>1, <1>t, ZenonT(60) DEF CloseClientConnection, Client
    <2>3. QED
      BY <2>1, <2>2
  <1>9. ASSUME NEW c \in Conns, TimerClosed(c)
        PROVE  ContextOutlivesHandles' /\ ClientInv'
    <2>1. \A d \in Conns : sock'[d].st = sock[d].st
      BY <1>9, <1>t, SMTT(60) DEF TimerClosed, ReaderClosed, Socket
    <2>2. conn[c].timer = "closing"
      BY <1>9, Zenon DEF TimerClosed
    <2>3. \A d \in Conns : d # c => conn'[d] = conn[d]
      BY <1>9, <1>t, ZenonT(60) DEF TimerClosed, Client
    <2>4. /\ conn'[c].timer = "closed"
          /\ conn'[c].ctx = conn[c].ctx /\ conn'[c].closing = conn[c].closing
          /\ \/ /\ conn'[c].pipe = conn[c].pipe
                /\ conn'[c].thenFree = conn[c].thenFree
             \/ conn[c].pipe = "open" /\ conn'[c].pipe = "closing"
      BY <1>9, <1>t, SMTT(60) DEF TimerClosed, Client
    <2>5. QED
      BY <2>1, <2>2, <2>3, <2>4, SMTT(60)
  <1>10. ASSUME NEW c \in Conns, OnClientClose(c)
         PROVE  ContextOutlivesHandles' /\ ClientInv'
    <2>1. sock' = sock
      BY <1>10 DEF OnClientClose
    <2>2. /\ conn'[c].pipe = "closed"
          /\ conn'[c].ctx = IF conn[c].thenFree THEN "freed" ELSE conn[c].ctx
          /\ conn'[c].timer = conn[c].timer
          /\ conn'[c].thenFree = conn[c].thenFree
          /\ \A d \in Conns : d # c => conn'[d] = conn[d]
          /\ conn[c].pipe = "closing"
      BY <1>10, <1>t DEF OnClientClose, Client
    <2>3. QED
      BY <2>1, <2>2
  <1>11. ASSUME NEW c \in Conns, OnClientRead(c) \/ ParseFrame(c)
         PROVE  ContextOutlivesHandles' /\ ClientInv'
    <2>1. PICK b : conn' = [conn EXCEPT ![c].buffer = b]
      BY <1>11, ZenonT(60) DEF OnClientRead, ParseFrame
    <2>2. \A d \in Conns : sock'[d].st = sock[d].st
      BY <1>11, <1>t, ZenonT(60) DEF OnClientRead, ParseFrame, Socket
    <2>3. /\ \A x \in {"timer", "closing", "pipe", "ctx", "thenFree"} :
                 conn'[c][x] = conn[c][x]
          /\ \A d \in Conns : d # c => conn'[d] = conn[d]
      BY <2>1, <1>t DEF Client
    <2>4. /\ conn'[c].timer = conn[c].timer /\ conn'[c].closing = conn[c].closing
          /\ conn'[c].pipe = conn[c].pipe /\ conn'[c].ctx = conn[c].ctx
          /\ conn'[c].thenFree = conn[c].thenFree
      BY <2>3
    <2>5. QED
      BY <2>2, <2>3, <2>4
  <1>12. CASE LoopNext
    <2>1. CASE OnShutdownTimeout \/ Destroy
      BY <2>1, <1>4, SMTT(60) DEF OnShutdownTimeout, Destroy
    <2>2. CASE \/ ShutdownTimerClosed \/ RunReturns \/ LoopClose \/ PoolStep
               \/ RequestShutdown \/ \E w \in work : OnNotificationDone(w)
               \/ \E c \in Conns : ReadDone(c)
      BY <2>2, <1>5, SMTT(60) DEF ShutdownTimerClosed, RunReturns, LoopClose, PoolStep,
         RequestShutdown, OnNotificationDone, OnNotificationWork, ReadDone,
         connVars
    <2>3. QED
      BY <1>12, <2>1, <2>2, <1>3, <1>6, <1>7, <1>8, <1>9, <1>10, <1>11, ZenonT(60)
         DEF LoopNext, LoopStep
  <1>13. QED
    BY <1>1, <1>2, <1>12 DEF Next

-----------------------------------------------------------------------------
(* The counters.                                                           *)

\* A step accepts a connection, frees a context or leaves both sets alone.
LEMMA LiveCases ==
    ASSUME TypeOK, ContextOutlivesHandles, ClientInv, [Next]_vars
    PROVE  \/ Live' = Live /\ active_connections' = active_connections
           \/ \E c \in Conns \ Live :
                 /\ Live' = Live \cup {c}
                 /\ active_connections' = active_connections + 1
                 /\ active_connections < max_connections /\ listening
           \/ \E c \in Live :
                 /\ Live' = Live \ {c}
                 /\ active_connections' = active_connections - 1
  <1> DEFINE Same == Live' = Live /\ active_connections' = active_connections
  <1>t. conn \in [Conns -> Client]
    BY DEF TypeOK
  <1>s. CASE UNCHANGED <<conn, active_connections>>
    BY <1>s DEF Live
  <1>w. ASSUME Walk, UNCHANGED active_connections PROVE Same
    <2>1. \A c \in Conns : conn'[c].ctx = conn[c].ctx
      BY <1>w, <1>t, ZenonT(60) DEF Walk, Client
    <2>2. QED
      BY <1>w, <2>1, SMTT(60) DEF Live
  <1>1. CASE UNCHANGED vars \/ \E p \in Senders : UNCHANGED loopVars
    BY <1>1, <1>s DEF vars, loopVars, connVars
  <1>2. CASE OnShutdownTimeout \/ Destroy
    BY <1>2, <1>w, SMTT(60) DEF OnShutdownTimeout, Destroy
  <1>3. CASE \/ BeginGracefulShutdown \/ ShutdownTimerClosed \/ RunReturns
             \/ LoopClose \/ PoolStep \/ RequestShutdown
             \/ \E w \in work : OnNotificationDone(w)
             \/ \E c \in Conns : \/ ReadDone(c) \/ OnNewConnectionReject(c)
                                 \/ OnClientReadClosing(c)
    BY <1>3, <1>s DEF BeginGracefulShutdown, ShutdownTimerClosed, RunReturns,
       LoopClose, PoolStep, RequestShutdown, OnNotificationDone,
       OnNotificationWork, ReadDone, OnNewConnectionReject, OnClientReadClosing,
       loopVars, connVars
  <1>4. ASSUME NEW c \in Conns, OnNewConnection(c)
        PROVE  /\ c \notin Live /\ Live' = Live \cup {c}
               /\ active_connections' = active_connections + 1
               /\ active_connections < max_connections /\ listening
    <2>1. conn[c].ctx = "none"
      BY <1>4 DEF OnNewConnection, ClientInv
    <2>2. conn'[c].ctx = "live" /\ \A d \in Conns : d # c => conn'[d] = conn[d]
      BY <1>4, <1>t DEF OnNewConnection, NewClient
    <2>3. QED
      BY <1>4, <2>1, <2>2 DEF OnNewConnection, Live
  <1>5. ASSUME NEW c \in Conns,
               \/ OnConnectionTimeout(c) \/ OnClientReadClose(c)
               \/ TimerClosed(c) \/ OnClientRead(c) \/ ParseTooLarge(c)
               \/ ParseFrame(c)
        PROVE  Same
    <2>1. \A d \in Conns : conn'[d].ctx = conn[d].ctx
      <3>1. CASE OnConnectionTimeout(c) \/ OnClientReadClose(c) \/ ParseTooLarge(c)
        <4>1. conn' = [conn EXCEPT ![c] = CloseClientConnection(@)]
          BY <3>1, ZenonT(60) DEF OnConnectionTimeout, OnClientReadClose,
             ParseTooLarge
        <4>2. QED
          BY <4>1, <1>t DEF CloseClientConnection, Client
      <3>2. CASE TimerClosed(c)
        BY <3>2, <1>t DEF TimerClosed, Client
      <3>3. CASE OnClientRead(c) \/ ParseFrame(c)
        <4>1. PICK b : conn' = [conn EXCEPT ![c].buffer = b]
          BY <3>3, ZenonT(60) DEF OnClientRead, ParseFrame
        <4>2. QED
          BY <4>1, <1>t DEF Client
      <3>4. QED
        BY <1>5, <3>1, <3>2, <3>3
    <2>2. active_connections' = active_connections
      BY <1>5, ZenonT(60) DEF OnConnectionTimeout, OnClientReadClose, TimerClosed,
         OnClientRead, ParseTooLarge, ParseFrame
    <2>3. QED
      BY <2>1, <2>2, SMTT(60) DEF Live
  <1>6. ASSUME NEW c \in Conns, OnClientClose(c)
        PROVE  \/ Same
               \/ /\ c \in Live /\ Live' = Live \ {c}
                  /\ active_connections' = active_connections - 1
    <2>1. CASE conn[c].thenFree
      <3>1. conn[c].ctx = "live"
        BY <1>6 DEF OnClientClose, ContextOutlivesHandles
      <3>2. conn'[c].ctx = "freed" /\ \A d \in Conns : d # c => conn'[d] = conn[d]
        BY <1>6, <2>1, <1>t DEF OnClientClose, Client
      <3>3. QED
        BY <1>6, <2>1, <3>1, <3>2 DEF OnClientClose, Live
    <2>2. CASE ~conn[c].thenFree
      <3>1. /\ conn' = [conn EXCEPT ![c].pipe = "closed"]
            /\ active_connections' = active_connections
        BY <1>6, <2>2 DEF OnClientClose
      <3>2. \A d \in Conns : conn'[d].ctx = conn[d].ctx
        BY <3>1, <1>t, SMTT(60) DEF Client
      <3>3. QED
        BY <3>1, <3>2 DEF Live
    <2>3. QED
      BY <2>1, <2>2
  <1>7. QED
    BY <1>1, <1>2, <1>3, <1>4, <1>5, <1>6, SMTT(60) DEF Next, LoopNext, LoopStep

-----------------------------------------------------------------------------
(* The shutdown.                                                           *)

\* What a step may do to the shutdown's state: the loop is only told to stop by
\* the timeout or with both counters at zero, and shutting down is for good.
StopStep ==
    /\ stop_flag' => \/ stop_flag
                     \/ /\ shutting_down'
                        /\ \/ forced'
                           \/ active_connections' = 0 /\ in_flight_work' = 0
    /\ forced => forced'
    /\ shutting_down => shutting_down'
    /\ shutting_down' => shutting_down \/ ~listening'
    /\ listening' => listening
    /\ shutdown_timer' = "open" => shutdown_timer = "open" \/ shutting_down'

\* Every step is such a step.
LEMMA StopSteps ==
    ASSUME TypeOK, StopInv, [Next]_vars
    PROVE  StopStep
  <1> USE DEF StopStep, stopVars
  <1>1. CASE UNCHANGED <<stopVars, listening>>
    BY <1>1, ZenonT(60)
  <1>2. CASE UNCHANGED vars
    BY <1>1, <1>2 DEF vars, loopVars
  <1>3. ASSUME NEW p \in Senders, SenderStep(p), UNCHANGED loopVars PROVE StopStep
    <2>1. UNCHANGED listening
      BY <1>3 DEF SenderStep, SendNotificationPersistent, EnsureConnected,
         ConnectFails, WriteAll, WriteFails, ProcessExit
    <2>2. QED
      BY <1>1, <1>3, <2>1, SMTT(60) DEF loopVars
  <1>4. CASE RequestShutdown
    BY <1>4, ZenonT(60) DEF RequestShutdown
  <1>5. CASE BeginGracefulShutdown
    BY <1>5, ZenonT(60) DEF BeginGracefulShutdown, connVars, dispatchVars
  <1>6. CASE OnShutdownTimeout
    BY <1>6, ZenonT(60) DEF OnShutdownTimeout, StopInv
  <1>7. CASE ShutdownTimerClosed \/ RunReturns \/ LoopClose
    BY <1>7, SMTT(60) DEF ShutdownTimerClosed, RunReturns, LoopClose
  <1>8. CASE Destroy
    BY <1>8, ZenonT(60) DEF Destroy, Walk, SafeClose
  <1>9. ASSUME CheckShutdownComplete(active_connections', in_flight_work'),
               UNCHANGED <<shutting_down, forced, listening>>
        PROVE  StopStep
    <2>1. \/ stop_flag' = stop_flag
          \/ shutting_down' /\ active_connections' = 0 /\ in_flight_work' = 0
      BY <1>9, ZenonT(60) DEF CheckShutdownComplete, TypeOK
    <2>2. shutdown_timer' = "open" => shutdown_timer = "open"
      BY <1>9 DEF CheckShutdownComplete, SafeClose
    <2>3. /\ shutting_down' = shutting_down /\ forced' = forced
          /\ listening' = listening
      BY <1>9, SMTT(60)
    <2>4. QED
      BY <2>1, <2>2, <2>3
  <1>10. ASSUME NEW w \in work, OnNotificationDone(w) PROVE StopStep
    BY <1>9, <1>10, SMTT(60) DEF OnNotificationDone, connVars
  <1>11. ASSUME NEW c \in Conns, OnClientClose(c) PROVE StopStep
    <2>1. CASE conn[c].thenFree
      BY <1>9, <1>11, <2>1 DEF OnClientClose, dispatchVars
    <2>2. CASE ~conn[c].thenFree
      BY <1>1, <1>11, <2>2, SMTT(60) DEF OnClientClose
    <2>3. QED
      BY <2>1, <2>2
  <1>12. ASSUME NEW c \in Conns,
                \/ OnNewConnection(c) \/ OnNewConnectionReject(c)
                \/ TimerClosed(c) \/ OnClientReadClosing(c)
                \/ OnClientReadClose(c) \/ OnClientRead(c)
                \/ ParseTooLarge(c) \/ ParseFrame(c) \/ ReadDone(c)
                \/ OnConnectionTimeout(c)
         PROVE  StopStep
    BY <1>1, <1>12, ZenonT(60) DEF OnNewConnection, OnNewConnectionReject, TimerClosed,
       OnClientReadClosing, OnClientReadClose, OnClientRead, ParseTooLarge,
       ParseFrame, ReadDone, OnConnectionTimeout, loopVars
  <1>13. CASE PoolStep
    BY <1>1, <1>13 DEF PoolStep, OnNotificationWork
  <1>14. QED
    BY <1>2, <1>3, <1>4, <1>5, <1>6, <1>7, <1>8, <1>10, <1>11, <1>12, <1>13, ZenonT(60)
       DEF Next, LoopNext, LoopStep

-----------------------------------------------------------------------------
(* Type correctness, one group of variables at a time.                     *)

SenderType ==
    /\ g_persistent_fd \in [Senders -> Conns \cup {None}]
    /\ attempt \in [Senders -> 0..2]
    /\ message \in [Senders -> Notifications \cup {None}]
    /\ written \in [Senders -> 0..1]
    /\ sends \in 0..MaxSends

\* The state of a sender that sends or retries.
LEMMA SenderTypeNext ==
    ASSUME TypeOK, NEW p \in Senders, SenderStep(p)
    PROVE  SenderType'
  <1> USE DEF SenderType
  <1>t. SenderType
    BY SMTT(60) DEF TypeOK
  <1>1. ASSUME NEW u \in Urls, NEW k \in Kinds, SendNotificationPersistent(p, u, k)
        PROVE  SenderType'
    <2>1. [id |-> sends + 1, url |-> u, kind |-> k] \in Notifications
      BY <1>1, <1>t, SockAssumption, SMTT(60) DEF SendNotificationPersistent, Notifications
    <2>2. QED
      BY <1>1, <1>t, <2>1, SockAssumption, SMTT(60) DEF SendNotificationPersistent
  <1>2. ASSUME NEW c \in Conns, EnsureConnected(p, c) PROVE SenderType'
    BY <1>2, <1>t, SMTT(60) DEF EnsureConnected
  <1>3. CASE ConnectFails(p)
    BY <1>3, <1>t DEF ConnectFails, NextAttempt
  <1>4. CASE WriteAll(p)
    <2>1. CASE written[p] + 1 = 2
      BY <1>4, <2>1, <1>t DEF WriteAll, Return
    <2>2. CASE written[p] + 1 # 2
      BY <1>4, <2>2, <1>t, SMTT(60) DEF WriteAll
    <2>3. QED
      BY <2>1, <2>2
  <1>5. CASE WriteFails(p)
    BY <1>5, <1>t, SMTT(60) DEF WriteFails, NextAttempt, ResetPersistentConnection
  <1>6. CASE ProcessExit(p)
    BY <1>6, <1>t DEF ProcessExit, Return, ResetPersistentConnection
  <1>7. QED
    BY <1>1, <1>2, <1>3, <1>4, <1>5, <1>6, SMTT(60) DEF SenderStep

SockType == sock \in [Conns -> Socket] /\ listening \in BOOLEAN

\* The operations of the kernel's side yield well-formed connections.
LEMMA SocketOps ==
    ASSUME NEW s \in Socket
    PROVE  /\ Connected(s) \in Socket /\ SenderClosed(s) \in Socket
           /\ ReaderClosed(s) \in Socket
           /\ [s EXCEPT !.st = "accepted"] \in Socket
           /\ [s EXCEPT !.data = <<>>] \in Socket
           /\ \A d \in Seq(Chunks) : [s EXCEPT !.data = d] \in Socket
  <1>1. <<>> \in Seq(Chunks)
    OBVIOUS
  <1>2. QED
    BY <1>1, ZenonT(60) DEF Connected, SenderClosed, ReaderClosed, Socket

\* The message is set before the first attempt and cleared after the last.
LEMMA SenderInvNext ==
    ASSUME TypeOK, SenderInv, [Next]_vars
    PROVE  SenderInv'
  <1> USE DEF SenderInv
  <1>t. SenderType
    BY DEF TypeOK, SenderType
  <1>1. CASE UNCHANGED senderVars
    BY <1>1 DEF senderVars
  <1>2. ASSUME NEW p \in Senders, SenderStep(p) PROVE SenderInv'
    <2>1. ASSUME NEW u \in Urls, NEW k \in Kinds, SendNotificationPersistent(p, u, k)
          PROVE  SenderInv'
      <3>1. [id |-> sends + 1, url |-> u, kind |-> k] \in Notifications
        BY <2>1, <1>t, SockAssumption, SMTT(60)
           DEF SendNotificationPersistent, Notifications, SenderType
      <3>2. QED
        BY <2>1, <3>1, <1>t, SockAssumption, SMTT(60) DEF SendNotificationPersistent, SenderType
    <2>2. CASE (\E c \in Conns : EnsureConnected(p, c))
      BY <2>2 DEF EnsureConnected
    <2>3. CASE NextAttempt(p) /\ attempt[p] # 0
      BY <2>3, <1>t DEF NextAttempt, SenderType
    <2>4. CASE Return(p)
      BY <2>4, <1>t, SMTT(60) DEF Return, SenderType
    <2>5. CASE UNCHANGED <<attempt, message>>
      BY <2>5
    <2>6. QED
      BY <1>2, <2>1, <2>2, <2>3, <2>4, <2>5
         DEF SenderStep, ConnectFails, WriteAll, WriteFails, ProcessExit
  <1>3. QED
    BY <1>1, <1>2 DEF Next, vars

\* Connecting, writing and closing leave a connection well formed.
LEMMA SenderSockNext ==
    ASSUME TypeOK, SenderInv, NEW p \in Senders, SenderStep(p)
    PROVE  SockType'
  <1> USE DEF SockType
  <1>t. SockType /\ SenderType
    BY DEF TypeOK, SenderType
  <1>1. CASE \/ \E u \in Urls, k \in Kinds : SendNotificationPersistent(p, u, k)
             \/ ConnectFails(p)
    BY <1>1, <1>t DEF SendNotificationPersistent, ConnectFails
  <1>2. ASSUME NEW c \in Conns, EnsureConnected(p, c) PROVE SockType'
    BY <1>2, <1>t, SocketOps, ZenonT(60) DEF EnsureConnected
  <1>3. CASE WriteAll(p)
    <2> DEFINE c == g_persistent_fd[p]
               k == Frame(message[p])[written[p] + 1]
    <2>1. c \in Conns /\ message[p] \in Notifications /\ written[p] \in 0..1
      BY <1>3, <1>t DEF WriteAll, SenderType, SenderInv
    <2>2. k \in Chunks
      BY <2>1 DEF Frame, Chunks
    <2>3. /\ sock' = [sock EXCEPT ![c].data = Append(@, k)]
          /\ listening' = listening
      BY <1>3 DEF WriteAll
    <2> HIDE DEF c, k
    <2>4. Append(sock[c].data, k) \in Seq(Chunks)
      BY <2>1, <2>2, <1>t DEF Socket
    <2>5. sock' = [sock EXCEPT ![c] = [sock[c] EXCEPT !.data = Append(sock[c].data, k)]]
      BY <2>3
    <2>6. [sock[c] EXCEPT !.data = Append(sock[c].data, k)] \in Socket
      BY <2>1, <2>4, <1>t, SocketOps, ZenonT(60)
    <2>7. QED
      BY <2>1, <2>3, <2>5, <2>6, <1>t
  <1>4. CASE WriteFails(p) \/ ProcessExit(p)
    <2> DEFINE f == g_persistent_fd[p]
    <2>1. \/ sock' = sock
          \/ f \in Conns /\ sock' = [sock EXCEPT ![f] = SenderClosed(@)]
      BY <1>4, <1>t DEF WriteFails, ProcessExit, ResetPersistentConnection, SenderType
    <2>2. listening' = listening
      BY <1>4 DEF WriteFails, ProcessExit
    <2> HIDE DEF f
    <2>3. QED
      BY <1>t, <2>1, <2>2, SocketOps, ZenonT(60)
  <1>5. QED
    BY <1>1, <1>2, <1>3, <1>4, SMTT(60) DEF SenderStep

ConnType ==
    /\ SockType /\ conn \in [Conns -> Client] /\ reading \in Conns \cup {None}

\* The operations on a connection's context yield well-formed contexts.
LEMMA ClientOps ==
    ASSUME NEW cl \in Client
    PROVE  NewClient \in Client /\ CloseClientConnection(cl) \in Client
  <1>1. <<>> \in Seq(Chunks)
    OBVIOUS
  <1>2. NewClient \in Client
    BY <1>1 DEF NewClient, Client, Handles
  <1>3. CloseClientConnection(cl) \in Client
    BY ZenonT(60) DEF CloseClientConnection, Client, Handles
  <1>4. QED
    BY <1>2, <1>3, SMTT(60)

\* Accepting, reading, parsing and closing leave the connections well formed.
LEMMA ConnTypeNext ==
    ASSUME TypeOK, LoopNext
    PROVE  ConnType'
  <1> USE DEF ConnType, SockType
  <1>t. ConnType
    BY DEF TypeOK
  <1>s. \A c \in Conns : sock[c] \in Socket /\ conn[c] \in Client
    BY <1>t
  <1>0. CASE UNCHANGED <<conn, reading, sock, listening>>
    BY <1>0, <1>t
  <1>1. CASE \/ ShutdownTimerClosed \/ RunReturns \/ LoopClose \/ PoolStep
             \/ RequestShutdown \/ \E w \in work : OnNotificationDone(w)
    BY <1>0, <1>1, SMTT(60) DEF ShutdownTimerClosed, RunReturns, LoopClose, PoolStep,
       RequestShutdown, OnNotificationDone, OnNotificationWork, connVars
  <1>2. CASE BeginGracefulShutdown
    <2>1. \A c \in Conns : ReaderClosed(sock[c]) \in Socket
      BY <1>s, SocketOps, ZenonT(60)
    <2>2. QED
      BY <1>2, <2>1, <1>t, ZenonT(60) DEF BeginGracefulShutdown, connVars
  <1>3. CASE OnShutdownTimeout \/ Destroy
    <2>1. \A c \in Conns : ReaderClosed(sock[c]) \in Socket
      BY <1>s, SocketOps, ZenonT(60)
    <2>2. sock' \in [Conns -> Socket]
      BY <1>3, <2>1, <1>t, ZenonT(60) DEF OnShutdownTimeout, Destroy, Walk
    <2>3. ASSUME NEW c \in Conns
          PROVE  [conn[c] EXCEPT !.timer = SafeClose(@), !.pipe = SafeClose(@)]
                    \in Client
      <3>1. SafeClose(conn[c].timer) \in Handles /\ SafeClose(conn[c].pipe) \in Handles
        BY <1>s DEF SafeClose, Client, Handles
      <3>2. QED
        BY <1>s, <3>1, ZenonT(60) DEF Client
    <2>4. conn' \in [Conns -> Client]
      BY <1>3, <2>3, ZenonT(60) DEF OnShutdownTimeout, Destroy, Walk
    <2>5. UNCHANGED <<reading, listening>>
      BY <1>3 DEF OnShutdownTimeout, Destroy
    <2>6. QED
      BY <2>2, <2>4, <2>5, <1>t
  <1>4. ASSUME NEW c \in Conns, OnNewConnection(c) PROVE ConnType'
    <2>1. /\ NewClient \in Client /\ [sock[c] EXCEPT !.st = "accepted"] \in Socket
      BY <1>s, ClientOps, SocketOps, ZenonT(60)
    <2>2. QED
      BY <1>4, <2>1, <1>t DEF OnNewConnection, stopVars
  <1>5. ASSUME NEW c \in Conns, OnNewConnectionReject(c) PROVE ConnType'
    <2>1. [ReaderClosed(sock[c]) EXCEPT !.st = "accepted"] \in Socket
      BY <1>s, SocketOps, ZenonT(60)
    <2>2. QED
      BY <1>5, <2>1, <1>t DEF OnNewConnectionReject, loopVars, connVars
  <1>6. ASSUME NEW c \in Conns, OnConnectionTimeout(c) PROVE ConnType'
    BY <1>6, <1>t, <1>s, ClientOps DEF OnConnectionTimeout
  <1>7. ASSUME NEW c \in Conns, TimerClosed(c) PROVE ConnType'
    <2> DEFINE then == conn[c].thenPipe /\ conn[c].pipe = "open"
               h == IF then THEN "closing" ELSE conn[c].pipe
               f == conn[c].thenFree \/ then
               cl == [conn[c] EXCEPT !.timer = "closed", !.pipe = h, !.thenFree = f]
    <2>1. cl \in Client
      BY <1>s, ZenonT(60) DEF Client, Handles
    <2>2. conn' = [conn EXCEPT ![c] = cl]
      BY <1>7, <1>t, ZenonT(60) DEF TimerClosed
    <2>3. sock' = sock \/ sock' = [sock EXCEPT ![c] = ReaderClosed(@)]
      BY <1>7 DEF TimerClosed
    <2>4. UNCHANGED <<reading, listening>>
      BY <1>7 DEF TimerClosed
    <2> HIDE DEF cl
    <2>5. QED
      BY <2>1, <2>2, <2>3, <2>4, <1>t, <1>s, SocketOps, ZenonT(60)
  <1>8. ASSUME NEW c \in Conns, OnClientClose(c) PROVE ConnType'
    <2>1. <<>> \in Seq(Chunks)
      OBVIOUS
    <2>2. [conn[c] EXCEPT !.pipe = "closed", !.ctx = "freed", !.buffer = <<>>]
              \in Client
      BY <2>1, <1>s, ZenonT(60) DEF Client, Handles
    <2>3. [conn[c] EXCEPT !.pipe = "closed"] \in Client
      BY <1>s DEF Client, Handles
    <2>4. QED
      BY <1>8, <2>2, <2>3, <1>t DEF OnClientClose
  <1>9. ASSUME NEW c \in Conns, OnClientReadClosing(c) PROVE ConnType'
    BY <1>9, <1>t, <1>s, SocketOps, ZenonT(60) DEF OnClientReadClosing, loopVars, connVars
  <1>10. ASSUME NEW c \in Conns, OnClientReadClose(c) PROVE ConnType'
    BY <1>10, <1>t, <1>s, SocketOps, ClientOps, ZenonT(60) DEF OnClientReadClose
  <1>11. ASSUME NEW c \in Conns, OnClientRead(c) PROVE ConnType'
    <2>1. conn[c].buffer \o sock[c].data \in Seq(Chunks)
      BY <1>s DEF Client, Socket
    <2>2. [conn[c] EXCEPT !.buffer = conn[c].buffer \o sock[c].data] \in Client
      BY <2>1, <1>s, ZenonT(60) DEF Client
    <2>3. QED
      BY <1>11, <2>2, <1>t, <1>s, SocketOps, ZenonT(60) DEF OnClientRead
  <1>12. ASSUME NEW c \in Conns, ParseFrame(c) PROVE ConnType'
    <2> DEFINE b == conn[c].buffer
    <2>1. b \in Seq(Chunks)
      BY <1>s DEF Client
    <2>2. SubSeq(b, 3, Len(b)) \in Seq(Chunks)
      BY <2>1
    <2>3. [conn[c] EXCEPT !.buffer = SubSeq(b, 3, Len(b))] \in Client
      BY <2>2, <1>s, ZenonT(60) DEF Client
    <2>4. QED
      BY <1>12, <2>3, <1>t DEF ParseFrame
  <1>13. ASSUME NEW c \in Conns, ReadDone(c) PROVE ConnType'
    BY <1>13, <1>t DEF ReadDone
  <1>15. ASSUME NEW c \in Conns, ParseTooLarge(c) PROVE ConnType'
    BY <1>15, <1>t, <1>s, ClientOps, ZenonT(60) DEF ParseTooLarge
  <1>14. QED
    BY <1>1, <1>2, <1>3, <1>4, <1>5, <1>6, <1>7, <1>8, <1>9, <1>10, <1>11, <1>12,
       <1>13, <1>15 DEF LoopNext, LoopStep

DispatchType ==
    /\ in_flight_urls \subseteq Urls
    /\ pending_origin_refresh \in [Urls -> Notifications \cup {None}]
    /\ parsed \in [1..MaxSends -> Nat]
    /\ work \subseteq [msg : Notifications, done : BOOLEAN]

\* What DispatchNotification leaves is well formed.
LEMMA DispatchTyped ==
    ASSUME NEW m \in Notifications, NEW s, s.urls \subseteq Urls,
           s.pending \in [Urls -> Notifications \cup {None}],
           s.work \subseteq [msg : Notifications, done : BOOLEAN],
           DispatchNotification(m, s)
    PROVE  /\ in_flight_urls' \subseteq Urls
           /\ pending_origin_refresh' \in [Urls -> Notifications \cup {None}]
           /\ work' \subseteq [msg : Notifications, done : BOOLEAN]
  <1>1. m.url \in Urls
    BY DEF Notifications
  <1>2. in_flight_urls' = s.urls \/ in_flight_urls' = s.urls \cup {m.url}
    BY SMTT(60) DEF DispatchNotification
  <1>3. \/ pending_origin_refresh' = s.pending
        \/ pending_origin_refresh' = [s.pending EXCEPT ![m.url] = m]
    BY SMTT(60) DEF DispatchNotification
  <1>4. \/ work' = s.work
        \/ work' = s.work \cup {[msg |-> m, done |-> FALSE]}
    BY SMTT(60) DEF DispatchNotification
  <1>5. in_flight_urls' \subseteq Urls
    BY <1>1, <1>2, SMTT(60)
  <1>6. pending_origin_refresh' \in [Urls -> Notifications \cup {None}]
    <2> DEFINE f == s.pending
    <2>1. f \in [Urls -> Notifications \cup {None}]
      BY SMTT(60)
    <2>2. pending_origin_refresh' = f \/ pending_origin_refresh' = [f EXCEPT ![m.url] = m]
      BY <1>3, SMTT(60)
    <2> HIDE DEF f
    <2>3. QED
      BY <1>1, <2>1, <2>2, SMTT(60)
  <1>7. work' \subseteq [msg : Notifications, done : BOOLEAN]
    <2> DEFINE x == [msg |-> m, done |-> FALSE]
    <2>1. x \in [msg : Notifications, done : BOOLEAN]
      BY SMTT(60)
    <2>2. work' = s.work \/ work' = s.work \cup {x}
      BY <1>4, SMTT(60)
    <2> HIDE DEF x
    <2>3. QED
      BY <2>1, <2>2, SMTT(60)
  <1>8. QED
    BY <1>5, <1>6, <1>7

\* Parsing, running and finishing items leave the guard well formed.
LEMMA DispatchTypeNext ==
    ASSUME TypeOK, [Next]_vars
    PROVE  DispatchType'
  <1> USE DEF DispatchType
  <1>t. DispatchType
    BY DEF TypeOK
  <1>1. CASE UNCHANGED dispatchVars
    BY <1>1, <1>t, SMTT(60) DEF dispatchVars
  <1>2. ASSUME NEW c \in Conns, ParseFrame(c) PROVE DispatchType'
    <2> DEFINE m == conn[c].buffer[1].msg
               s == [urls |-> in_flight_urls, work |-> work,
                     pending |-> pending_origin_refresh, count |-> in_flight_work]
    <2>1. m \in Notifications
      BY <1>2, ParsedMessage
    <2>2. CASE UNCHANGED dispatchVars
      BY <1>1, <2>2
    <2>3. CASE /\ DispatchNotification(m, s)
               /\ parsed' =
                     [parsed EXCEPT ![m.id] = @ + 1]
      <3> HIDE DEF m
      <3>1. /\ in_flight_urls' \subseteq Urls
            /\ pending_origin_refresh' \in [Urls -> Notifications \cup {None}]
            /\ work' \subseteq [msg : Notifications, done : BOOLEAN]
        BY <1>t, <2>1, <2>3, DispatchTyped, SMTT(60)
      <3>2. parsed' \in [1..MaxSends -> Nat]
        BY <1>t, <2>1, <2>3 DEF Notifications
      <3>3. QED
        BY <3>1, <3>2, SMTT(60)
    <2>4. QED
      BY <1>2, <2>2, <2>3, ZenonT(60) DEF ParseFrame
  <1>3. ASSUME NEW w \in work, OnNotificationWork(w) PROVE DispatchType'
    <2>1. [w EXCEPT !.done = TRUE] \in [msg : Notifications, done : BOOLEAN]
      BY <1>t, ZenonT(60)
    <2>2. QED
      BY <1>3, <2>1, <1>t, ZenonT(60) DEF OnNotificationWork
  <1>4. ASSUME NEW w \in work, OnNotificationDone(w) PROVE DispatchType'
    <2>1. w.msg.url \in Urls
      BY <1>t, SMTT(60) DEF Notifications
    <2>2. /\ Released(w).urls \subseteq Urls
          /\ Released(w).pending \in [Urls -> Notifications \cup {None}]
          /\ Released(w).work \subseteq [msg : Notifications, done : BOOLEAN]
      <3>1. CASE w.msg.kind = "warmup"
        BY <3>1, <1>t, SMTT(60) DEF Released
      <3>2. CASE w.msg.kind # "warmup"
        BY <3>2, <2>1, <1>t, SMTT(60) DEF Released
      <3>3. QED
        BY <3>1, <3>2, SMTT(120)
    <2>3. parsed' = parsed
      BY <1>4 DEF OnNotificationDone
    <2>4. CASE Held(w) # None
      <3>1. Held(w) \in Notifications
        BY <2>1, <2>4, <1>t, SMTT(60) DEF Held
      <3>2. DispatchNotification(Held(w), Released(w))
        BY <1>4, <2>4, SMTT(60) DEF OnNotificationDone
      <3>3. QED
        BY <1>t, <2>2, <2>3, <3>1, <3>2, DispatchTyped, ZenonT(60)
    <2>5. CASE Held(w) = None
      BY <1>4, <1>t, <2>2, <2>3, <2>5, ZenonT(60) DEF OnNotificationDone
    <2>6. QED
      BY <2>4, <2>5
  <1>5. QED
    BY <1>1, <1>2, <1>3, <1>4, DispatchCases, SMTT(60)

StopType ==
    /\ shutting_down \in BOOLEAN /\ shutdown_async \in BOOLEAN
    /\ stop_flag \in BOOLEAN /\ forced \in BOOLEAN
    /\ shutdown_timer \in Handles
    /\ loop \in {"run", "returned", "drain", "closed"}

\* The shutdown's flags, its timer and the loop's progress stay in their types.
LEMMA StopTypeNext ==
    ASSUME TypeOK, LoopNext
    PROVE  StopType'
  <1> USE DEF StopType, stopVars
  <1>t. StopType
    BY DEF TypeOK
  <1>h. \A h \in Handles : SafeClose(h) \in Handles
    BY DEF SafeClose, Handles
  <1>1. CASE UNCHANGED stopVars
    BY <1>1, <1>t, SMTT(60)
  <1>2. CASE RequestShutdown \/ ShutdownTimerClosed \/ RunReturns \/ LoopClose
    BY <1>2, <1>t, ZenonT(60) DEF RequestShutdown, ShutdownTimerClosed, RunReturns,
       LoopClose, Handles
  <1>3. CASE BeginGracefulShutdown
    <2>1. stop_flag' \in BOOLEAN
      BY <1>3, ZenonT(60) DEF BeginGracefulShutdown
    <2>2. shutdown_timer' \in Handles
      BY <1>3 DEF BeginGracefulShutdown, Handles
    <2>3. shutting_down' \in BOOLEAN /\ shutdown_async' \in BOOLEAN
          /\ UNCHANGED <<forced, loop>>
      BY <1>3, ZenonT(60) DEF BeginGracefulShutdown
    <2>4. QED
      BY <2>1, <2>2, <2>3, <1>t
  <1>4. CASE OnShutdownTimeout \/ Destroy
    BY <1>4, <1>t, <1>h, ZenonT(60) DEF OnShutdownTimeout, Destroy, Walk
  <1>5. ASSUME NEW i, NEW j, CheckShutdownComplete(i, j),
               UNCHANGED <<shutting_down, shutdown_async, forced, loop>>
        PROVE  StopType'
    <2>1. stop_flag' \in BOOLEAN
      BY <1>5, ZenonT(60) DEF CheckShutdownComplete
    <2>2. shutdown_timer' \in Handles
      BY <1>5, <1>t, <1>h, SMTT(60) DEF CheckShutdownComplete
    <2>3. QED
      BY <1>5, <2>1, <2>2, <1>t
  <1>6. ASSUME NEW w \in work, OnNotificationDone(w) PROVE StopType'
    BY <1>5, <1>6 DEF OnNotificationDone
  <1>7. ASSUME NEW c \in Conns, OnClientClose(c) PROVE StopType'
    <2>1. CASE conn[c].thenFree
      BY <1>5, <1>7, <2>1 DEF OnClientClose
    <2>2. CASE ~conn[c].thenFree
      BY <1>1, <1>7, <2>2, SMTT(60) DEF OnClientClose
    <2>3. QED
      BY <2>1, <2>2
  <1>8. ASSUME NEW c \in Conns,
               \/ OnNewConnection(c) \/ OnNewConnectionReject(c)
               \/ TimerClosed(c) \/ OnClientReadClosing(c)
               \/ OnClientReadClose(c) \/ OnClientRead(c)
               \/ ParseTooLarge(c) \/ ParseFrame(c) \/ ReadDone(c)
               \/ OnConnectionTimeout(c)
        PROVE  StopType'
    BY <1>1, <1>8, ZenonT(60) DEF OnNewConnection, OnNewConnectionReject, TimerClosed,
       OnClientReadClosing, OnClientReadClose, OnClientRead, ParseTooLarge,
       ParseFrame, ReadDone, OnConnectionTimeout, loopVars
  <1>9. CASE PoolStep
    BY <1>1, <1>9 DEF PoolStep, OnNotificationWork
  <1>10. QED
    BY <1>2, <1>3, <1>4, <1>6, <1>7, <1>8, <1>9, SMTT(60) DEF LoopNext, LoopStep

-----------------------------------------------------------------------------
(* Sequences of chunks.                                                    *)

\* A sequence of chunks is whole frames, except for a last header.
WellFormed(b) ==
    \A i \in 1..Len(b) :
        /\ b[i].part = (IF i % 2 = 1 THEN 1 ELSE 2)
        /\ i % 2 = 0 => b[i].msg = b[i - 1].msg

\* What reads, writes and parsing do to a sequence of chunks: d is b without
\* its end.
Cut(b, d) == Len(d) <= Len(b) /\ \A i \in 1..Len(d) : d[i] = b[i]

\* d is b with one more chunk.
Grown(b, d, x) ==
    /\ Len(d) = Len(b) + 1 /\ d[Len(b) + 1] = x
    /\ \A i \in 1..Len(b) : d[i] = b[i]

LEMMA FrameFacts ==
    ASSUME NEW m, NEW k, k = 0 \/ k = 1
    PROVE  Frame(m)[k + 1].msg = m /\ Frame(m)[k + 1].part = 1 + k
BY DEF Frame

LEMMA FreeFacts == Free.data = <<>>
BY DEF Free

LEMMA ZeroEven == 0 % 2 = 0
OBVIOUS

LEMMA EvenAfterOdd ==
    ASSUME NEW n \in Nat, (n + 1) % 2 = 0
    PROVE  n % 2 = 1
OBVIOUS

\* d is b without its first frame.
Dropped(b, d) == Len(d) = Len(b) - 2 /\ \A i \in 1..Len(d) : d[i] = b[i + 2]

\* The same of the buffer s and the unread bytes t together.
LEMMA CatMoves ==
    ASSUME NEW S, NEW s \in Seq(S), NEW t \in Seq(S)
    PROVE  /\ s \o t \in Seq(S) /\ Len(s \o t) = Len(s) + Len(t)
           /\ (s \o t) \o <<>> = s \o t
           /\ Cut(s \o t, s \o <<>>)
           /\ \A x \in S : Grown(s \o t, s \o Append(t, x), x)
           /\ Len(s) >= 2 => Dropped(s \o t, SubSeq(s, 3, Len(s)) \o t)
           /\ Len(s) >= 2 => (s \o t)[1] = s[1] /\ (s \o t)[2] = s[2]
  <1>1. /\ s \o t \in Seq(S) /\ Len(s \o t) = Len(s) + Len(t)
        /\ \A i \in 1..(Len(s) + Len(t)) :
              (s \o t)[i] = IF i <= Len(s) THEN s[i] ELSE t[i - Len(s)]
    BY ConcatProperties
  <1>2. s \o <<>> = s /\ (s \o t) \o <<>> = s \o t
    BY <1>1, ConcatEmptySeq
  <1>3. Len(s) \in Nat /\ Len(t) \in Nat
    BY LenProperties
  <1>4. Cut(s \o t, s \o <<>>)
    BY <1>1, <1>2, <1>3 DEF Cut
  <1>5. ASSUME NEW x \in S PROVE Grown(s \o t, s \o Append(t, x), x)
    <2>1. /\ Append(t, x) \in Seq(S) /\ Len(Append(t, x)) = Len(t) + 1
          /\ \A i \in 1..Len(t) : Append(t, x)[i] = t[i]
          /\ Append(t, x)[Len(t) + 1] = x
      BY AppendProperties
    <2> DEFINE a == Append(t, x)
    <2> HIDE DEF a
    <2>2. /\ Len(s \o a) = Len(s) + Len(a)
          /\ \A i \in 1..(Len(s) + Len(a)) :
              (s \o a)[i] = IF i <= Len(s) THEN s[i] ELSE a[i - Len(s)]
      BY <2>1, ConcatProperties DEF a
    <2>3. QED
      BY <1>1, <1>3, <2>1, <2>2 DEF Grown, a
  <1>6. ASSUME Len(s) >= 2 PROVE Dropped(s \o t, SubSeq(s, 3, Len(s)) \o t)
    <2> DEFINE a == SubSeq(s, 3, Len(s))
    <2>1. /\ a \in Seq(S) /\ Len(a) = Len(s) - 2
          /\ \A i \in 1..Len(a) : a[i] = s[i + 2]
      <3>1. \A i \in 3..Len(s) : s[i] \in S
        BY <1>3
      <3>2. /\ SubSeq(s, 3, Len(s)) \in Seq(S)
            /\ Len(SubSeq(s, 3, Len(s))) = IF 3 <= Len(s) THEN Len(s) - 3 + 1 ELSE 0
            /\ \A i \in 1..(Len(s) - 3 + 1) : SubSeq(s, 3, Len(s))[i] = s[3 + i - 1]
        BY <1>3, <3>1, SubSeqProperties
      <3>3. Len(a) = Len(s) - 2
        <4> HIDE DEF a
        <4>1. Len(a) = IF 3 <= Len(s) THEN Len(s) - 3 + 1 ELSE 0
          BY Zenon, <3>2 DEF a
        <4>2. Len(s) \in Nat /\ Len(s) >= 2
          BY <1>3, <1>6
        <4>3. \A n \in Nat : n >= 2 => (IF 3 <= n THEN n - 3 + 1 ELSE 0) = n - 2
          OBVIOUS
        <4>4. QED
          BY Zenon, <4>1, <4>2, <4>3
      <3>4. ASSUME NEW i \in 1..Len(a) PROVE a[i] = s[i + 2]
        <4>1. i \in 1..(Len(s) - 3 + 1) /\ 3 + i - 1 = i + 2
          BY <1>3, <3>3
        <4>2. QED
          BY <3>2, <4>1
      <3>5. QED
        BY <3>2, <3>3, <3>4
    <2> HIDE DEF a
    <2>2. /\ Len(a \o t) = Len(a) + Len(t)
          /\ \A i \in 1..(Len(a) + Len(t)) :
              (a \o t)[i] = IF i <= Len(a) THEN a[i] ELSE t[i - Len(a)]
      BY Zenon, <2>1, ConcatProperties
    <2>3. Dropped(s \o t, a \o t)
      BY <1>1, <1>3, <1>6, <2>1, <2>2 DEF Dropped
    <2>4. QED
      BY <2>3 DEF a
  <1>7. QED
    BY <1>1, <1>2, <1>3, <1>4, <1>5, <1>6

\* Odd and even lengths.
LEMMA Parity ==
    \A n \in Nat : n % 2 \in {0, 1} /\ (n + 1) % 2 = 1 - (n % 2)
  OBVIOUS

\* Losing the end, as a closed reader does, keeps the frames.
LEMMA WellFormedCut ==
    ASSUME NEW b, NEW d, Len(b) \in Nat, Len(d) \in Nat, WellFormed(b), Cut(b, d)
    PROVE  WellFormed(d)
  <1> SUFFICES ASSUME NEW i \in 1..Len(d)
               PROVE  /\ d[i].part = (IF i % 2 = 1 THEN 1 ELSE 2)
                      /\ i % 2 = 0 => d[i].msg = d[i - 1].msg
    BY DEF WellFormed
  <1>1. d[i] = b[i] /\ i \in 1..Len(b)
    BY DEF Cut
  <1>2. i % 2 = 0 => i - 1 \in 1..Len(d)
    OBVIOUS
  <1>3. i % 2 = 0 => d[i - 1] = b[i - 1]
    BY <1>2 DEF Cut
  <1>4. /\ b[i].part = (IF i % 2 = 1 THEN 1 ELSE 2)
        /\ i % 2 = 0 => b[i].msg = b[i - 1].msg
    BY <1>1 DEF WellFormed
  <1>5. QED
    BY <1>1, <1>3, <1>4

\* Taking a frame off the front keeps the frames.
LEMMA WellFormedDropped ==
    ASSUME NEW b, NEW d, Len(b) \in Nat, Len(d) \in Nat, WellFormed(b), Dropped(b, d)
    PROVE  WellFormed(d)
  <1> SUFFICES ASSUME NEW i \in 1..Len(d)
               PROVE  /\ d[i].part = (IF i % 2 = 1 THEN 1 ELSE 2)
                      /\ i % 2 = 0 => d[i].msg = d[i - 1].msg
    BY DEF WellFormed
  <1>1. d[i] = b[i + 2] /\ i + 2 \in 1..Len(b) /\ (i + 2) % 2 = i % 2
    BY DEF Dropped
  <1>2. i % 2 = 0 => i - 1 \in 1..Len(d) /\ (i - 1) + 2 = (i + 2) - 1
    OBVIOUS
  <1>3. i % 2 = 0 => d[i - 1] = b[(i + 2) - 1]
    BY <1>2 DEF Dropped
  <1>4. /\ b[i + 2].part = (IF (i + 2) % 2 = 1 THEN 1 ELSE 2)
        /\ (i + 2) % 2 = 0 => b[i + 2].msg = b[(i + 2) - 1].msg
    BY <1>1 DEF WellFormed
  <1>5. QED
    BY <1>1, <1>3, <1>4

\* Writing the chunk that comes next keeps the frames.
LEMMA WellFormedGrown ==
    ASSUME NEW b, NEW d, NEW x, Len(b) \in Nat, WellFormed(b), Grown(b, d, x),
           x.part = 1 + (Len(b) % 2),
           Len(b) % 2 = 1 => b[Len(b)].msg = x.msg
    PROVE  WellFormed(d)
  <1> SUFFICES ASSUME NEW i \in 1..Len(d)
               PROVE  /\ d[i].part = (IF i % 2 = 1 THEN 1 ELSE 2)
                      /\ i % 2 = 0 => d[i].msg = d[i - 1].msg
    BY DEF WellFormed
  <1>1. CASE i \in 1..Len(b)
    <2>1. d[i] = b[i]
      BY <1>1 DEF Grown
    <2>2. i % 2 = 0 => i - 1 \in 1..Len(b)
      BY <1>1
    <2>3. i % 2 = 0 => d[i - 1] = b[i - 1]
      BY <2>2 DEF Grown
    <2>4. /\ b[i].part = (IF i % 2 = 1 THEN 1 ELSE 2)
          /\ i % 2 = 0 => b[i].msg = b[i - 1].msg
      BY <1>1 DEF WellFormed
    <2>5. QED
      BY <2>1, <2>3, <2>4
  <1>2. CASE i = Len(b) + 1
    <2>1. d[i] = x
      BY <1>2 DEF Grown
    <2>2. i % 2 = 0 => Len(b) % 2 = 1 /\ Len(b) \in 1..Len(b) /\ i - 1 = Len(b)
      BY <1>2
    <2>3. i % 2 = 0 => d[i - 1] = b[Len(b)]
      BY <2>2 DEF Grown
    <2>4. 1 + (Len(b) % 2) = (IF i % 2 = 1 THEN 1 ELSE 2)
      <3>1. Len(b) % 2 \in {0, 1} /\ (Len(b) + 1) % 2 = 1 - (Len(b) % 2)
        BY Parity
      <3>2. QED
        BY <1>2, <3>1
    <2>5. QED
      BY Zenon, <2>1, <2>2, <2>3, <2>4
  <1>3. QED
    BY <1>1, <1>2 DEF Grown

-----------------------------------------------------------------------------
(* The connections and the senders that write to them.                     *)

\* What the worker has of a connection, parsed or not.
Stream(c) == conn[c].buffer \o sock[c].data

\* The connection has no context yet.
Untouched(cl) ==
    /\ cl.timer = "none" /\ cl.pipe = "none" /\ cl.buffer = <<>> /\ ~cl.closing

\* A connection has no context before it is accepted and no bytes before it is
\* made, and a context is freed only after CloseClientConnection.
ConnOK(cl, s) ==
    /\ s.st # "accepted" => Untouched(cl)
    /\ s.st = "free" => s = Free
    /\ cl.thenPipe \/ cl.thenFree => cl.closing

ConnInv == \A c \in Conns : ConnOK(conn[c], sock[c])

\* A sender between frames or without a connection has nothing half written,
\* its descriptor is a connection it made, and no two senders share one.
LinkInv ==
    \A p \in Senders :
        /\ attempt[p] = 0 \/ g_persistent_fd[p] = None => written[p] = 0
        /\ g_persistent_fd[p] # None => sock[g_persistent_fd[p]].st # "free"
        /\ \A q \in Senders :
               g_persistent_fd[p] = g_persistent_fd[q] => p = q \/ g_persistent_fd[p] = None

\* The bytes of a connection that is not being closed are whole frames; while
\* the worker reads it, a header at their end is the one its sender is writing.
StreamInv ==
    \A c \in Conns : ~conn[c].closing =>
        /\ WellFormed(Stream(c))
        /\ \A p \in Senders : sock[c].rcv /\ g_persistent_fd[p] = c =>
              /\ Len(Stream(c)) % 2 = written[p]
              /\ written[p] = 1 => Stream(c)[Len(Stream(c))].msg = message[p]

\* What a step of the loop may do to a connection: drop its bytes for good, move
\* them to the buffer, or parse.
Moves(c) ==
    /\ conn[c].closing => conn'[c].closing
    /\ sock'[c].rcv => sock[c].rcv
    /\ \/ conn'[c].closing
       \/ conn'[c].buffer = conn[c].buffer /\ sock'[c].data = sock[c].data
       \/ /\ conn'[c].buffer = conn[c].buffer \o sock[c].data
          /\ sock'[c].data = <<>>
       \/ /\ conn'[c].buffer = conn[c].buffer /\ sock'[c].data = <<>>
          /\ ~sock'[c].rcv
       \/ ParseFrame(c)

\* Closing the worker's end, and clearing the data.
LEMMA ReaderClosedFacts ==
    ASSUME NEW s \in Socket
    PROVE  /\ ReaderClosed(s).data = <<>> /\ ReaderClosed(s).rcv = FALSE
           /\ ReaderClosed(s).st = s.st /\ ReaderClosed(s).snd = s.snd
           /\ [ReaderClosed(s) EXCEPT !.st = "accepted"].data = <<>>
           /\ [ReaderClosed(s) EXCEPT !.st = "accepted"].rcv = FALSE
           /\ [ReaderClosed(s) EXCEPT !.st = "accepted"].st = "accepted"
           /\ [s EXCEPT !.data = <<>>].data = <<>>
           /\ [s EXCEPT !.data = <<>>].rcv = s.rcv
           /\ [s EXCEPT !.data = <<>>].st = s.st
  BY DEF ReaderClosed, Socket

\* Connecting and closing the sender's end.
LEMMA SenderEndFacts ==
    ASSUME NEW s \in Socket
    PROVE  /\ SenderClosed(s).st = s.st /\ SenderClosed(s).data = s.data
           /\ SenderClosed(s).rcv = s.rcv
           /\ Connected(s).st = "backlog" /\ Connected(s).data = s.data
  BY DEF SenderClosed, Connected, Socket

\* The steps of the loop, one connection at a time.
LEMMA LoopMoves ==
    ASSUME TypeOK, ConnInv, LoopNext, NEW c \in Conns
    PROVE  Moves(c)
  <1> USE DEF Moves
  <1>t. /\ conn \in [Conns -> Client] /\ sock \in [Conns -> Socket]
        /\ conn[c] \in Client /\ sock[c] \in Socket
    BY DEF TypeOK
  <1>0. CASE conn'[c] = conn[c] /\ sock'[c] = sock[c]
    BY <1>0
  <1>1. CASE \/ ShutdownTimerClosed \/ RunReturns \/ LoopClose \/ PoolStep
             \/ RequestShutdown \/ \E w \in work : OnNotificationDone(w)
             \/ \E d \in Conns : ReadDone(d)
    <2>1. conn' = conn /\ sock' = sock
      BY ZenonT(60), <1>1 DEF ShutdownTimerClosed, RunReturns, LoopClose, PoolStep,
         RequestShutdown, OnNotificationDone, OnNotificationWork, ReadDone, connVars
    <2>2. QED
      BY <1>0, <2>1
  <1>2. CASE BeginGracefulShutdown
    <2>1. conn' = conn /\ (sock'[c] = sock[c] \/ sock'[c] = ReaderClosed(sock[c]))
      BY ZenonT(60), <1>2 DEF BeginGracefulShutdown, connVars
    <2>2. QED
      BY Zenon, <1>t, <2>1, ReaderClosedFacts
  <1>3. CASE OnShutdownTimeout \/ Destroy
    <2>1. /\ conn'[c] = [conn[c] EXCEPT !.timer = SafeClose(@), !.pipe = SafeClose(@)]
          /\ sock'[c] = sock[c] \/ sock'[c] = ReaderClosed(sock[c])
      BY ZenonT(60), <1>3 DEF OnShutdownTimeout, Destroy, Walk
    <2>2. conn'[c].closing = conn[c].closing /\ conn'[c].buffer = conn[c].buffer
      BY <1>t, <2>1 DEF Client
    <2>3. QED
      BY ZenonT(60), <1>t, <2>1, <2>2, ReaderClosedFacts
  <1>4. ASSUME NEW d \in Conns,
               \/ OnNewConnection(d) \/ OnNewConnectionReject(d)
               \/ OnConnectionTimeout(d) \/ OnClientReadClose(d) \/ ParseTooLarge(d)
               \/ TimerClosed(d) \/ OnClientClose(d) \/ OnClientReadClosing(d)
               \/ OnClientRead(d) \/ ParseFrame(d)
        PROVE  Moves(c)
    <2>1. CASE c # d
      <3>1. /\ conn' = conn \/ \E x : conn' = [conn EXCEPT ![d] = x]
            /\ sock' = sock \/ \E x : sock' = [sock EXCEPT ![d] = x]
        BY ZenonT(60), <1>4
           DEF OnNewConnection, OnNewConnectionReject, OnConnectionTimeout,
               OnClientReadClose, ParseTooLarge, TimerClosed, OnClientClose,
               OnClientReadClosing, OnClientRead, ParseFrame, loopVars, connVars
      <3>2. QED
        BY Zenon, <1>0, <1>t, <2>1, <3>1
    <2>2. CASE c = d /\ OnNewConnection(c)
      <3>1. /\ Untouched(conn[c]) /\ conn'[c] = NewClient
            /\ sock'[c] = [sock[c] EXCEPT !.st = "accepted"]
        BY <1>t, <2>2 DEF OnNewConnection, ConnInv, ConnOK
      <3>2. QED
        BY <1>t, <3>1 DEF Untouched, NewClient, Socket
    <2>3. CASE c = d /\ OnNewConnectionReject(c)
      <3>1. /\ conn' = conn
            /\ sock'[c] = [ReaderClosed(sock[c]) EXCEPT !.st = "accepted"]
        BY <1>t, <2>3 DEF OnNewConnectionReject, loopVars, connVars
      <3>2. QED
        BY Zenon, <1>t, <3>1, ReaderClosedFacts
    <2>4. CASE c = d /\ (OnConnectionTimeout(c) \/ OnClientReadClose(c) \/ ParseTooLarge(c))
      <3>1. /\ conn' = [conn EXCEPT ![c] = CloseClientConnection(@)]
            /\ sock' = sock \/ sock' = [sock EXCEPT ![c].data = <<>>]
        BY Zenon, <2>4 DEF OnConnectionTimeout, OnClientReadClose, ParseTooLarge
      <3>2. conn'[c].closing = TRUE
        BY <1>t, <3>1 DEF CloseClientConnection, Client
      <3>3. sock'[c].rcv = sock[c].rcv
        BY <1>t, <3>1 DEF Socket
      <3>4. QED
        BY Zenon, <3>2, <3>3
    <2>5. CASE c = d /\ TimerClosed(c)
      <3>1. conn'[c].closing = conn[c].closing /\ conn'[c].buffer = conn[c].buffer
        BY <1>t, <2>5 DEF TimerClosed, Client
      <3>2. sock'[c] = sock[c] \/ sock'[c] = ReaderClosed(sock[c])
        BY <1>t, <2>5 DEF TimerClosed
      <3>3. QED
        BY ZenonT(60), <1>t, <3>1, <3>2, ReaderClosedFacts
    <2>6. CASE c = d /\ OnClientClose(c)
      <3>1. sock' = sock
        BY <2>6 DEF OnClientClose
      <3>2. CASE conn[c].thenFree
        <4>1. conn'[c].closing = conn[c].closing
          BY <1>t, <2>6, <3>2 DEF OnClientClose, Client
        <4>2. conn[c].closing
          BY <3>2 DEF ConnInv, ConnOK
        <4>3. QED
          BY <3>1, <4>1, <4>2
      <3>3. CASE ~conn[c].thenFree
        <4>1. conn'[c].closing = conn[c].closing /\ conn'[c].buffer = conn[c].buffer
          BY <1>t, <2>6, <3>3 DEF OnClientClose, Client
        <4>2. QED
          BY <3>1, <4>1
      <3>4. QED
        BY Zenon, <3>2, <3>3
    <2>7. CASE c = d /\ OnClientReadClosing(c)
      <3>1. conn' = conn /\ conn[c].closing /\ sock'[c] = [sock[c] EXCEPT !.data = <<>>]
        BY <1>t, <2>7 DEF OnClientReadClosing, loopVars, connVars
      <3>2. QED
        BY Zenon, <1>t, <3>1, ReaderClosedFacts
    <2>8. CASE c = d /\ OnClientRead(c)
      <3>1. sock'[c] = [sock[c] EXCEPT !.data = <<>>]
        BY <1>t, <2>8 DEF OnClientRead
      <3>2. /\ conn'[c].closing = conn[c].closing
            /\ conn'[c].buffer = conn[c].buffer \o sock[c].data
        BY <1>t, <2>8 DEF OnClientRead, Client
      <3>3. QED
        BY <1>t, <3>1, <3>2, ReaderClosedFacts
    <2>9. CASE c = d /\ ParseFrame(c)
      <3>1. \E b : conn' = [conn EXCEPT ![c].buffer = b]
        BY Zenon, <2>9 DEF ParseFrame
      <3>2. conn'[c].closing = conn[c].closing
        BY <1>t, <3>1 DEF Client
      <3>3. sock' = sock
        BY <2>9 DEF ParseFrame
      <3>4. QED
        BY <2>9, <3>2, <3>3
    <2>10. QED
      BY Zenon, <1>4, <2>1, <2>2, <2>3, <2>4, <2>5, <2>6, <2>7, <2>8, <2>9
  <1>5. QED
    BY ZenonT(60), <1>1, <1>2, <1>3, <1>4 DEF LoopNext, LoopStep

\* The steps of a sender, one connection at a time.
SenderMoves(p, c) ==
    \/ sock'[c] = sock[c] /\ ~EnsureConnected(p, c)
    \/ EnsureConnected(p, c) /\ sock'[c] = Connected(sock[c]) /\ sock[c].st = "free"
    \/ g_persistent_fd[p] = c /\ sock'[c] = SenderClosed(sock[c])
    \/ /\ WriteAll(p) /\ g_persistent_fd[p] = c
       /\ sock'[c] = [sock[c] EXCEPT !.data =
                          Append(@, Frame(message[p])[written[p] + 1])]

\* What a step of a sender may do to the worker's side and to the sockets.
LEMMA SenderSteps ==
    ASSUME TypeOK, NEW p \in Senders, SenderStep(p), NEW c \in Conns
    PROVE  SenderMoves(p, c)
  <1> USE DEF SenderMoves
  <1>t. sock \in [Conns -> Socket] /\ g_persistent_fd[p] \in Conns \cup {None}
    BY DEF TypeOK
  <1>1. CASE sock' = sock /\ ~EnsureConnected(p, c)
    BY <1>1
  <1>2. CASE EnsureConnected(p, c)
    BY <1>t, <1>2 DEF EnsureConnected
  <1>3. ASSUME NEW d \in Conns, EnsureConnected(p, d), ~EnsureConnected(p, c)
        PROVE  SenderMoves(p, c)
    <2>1. c # d /\ sock' = [sock EXCEPT ![d] = Connected(@)]
      BY Zenon, <1>3 DEF EnsureConnected
    <2>2. QED
      BY <1>t, <1>3, <2>1
  <1>4. CASE WriteAll(p) /\ ~EnsureConnected(p, c)
    <2>1. /\ g_persistent_fd[p] # None
          /\ sock' = [sock EXCEPT ![g_persistent_fd[p]].data =
                          Append(@, Frame(message[p])[written[p] + 1])]
      BY Zenon, <1>4 DEF WriteAll
    <2>2. QED
      BY <1>t, <1>4, <2>1
  <1>5. CASE (WriteFails(p) \/ ProcessExit(p)) /\ ~EnsureConnected(p, c)
    <2>1. /\ g_persistent_fd[p] # None
          /\ sock' = [sock EXCEPT ![g_persistent_fd[p]] = SenderClosed(@)]
      BY Zenon, <1>5 DEF WriteFails, ProcessExit, ResetPersistentConnection
    <2>2. QED
      BY <1>t, <1>5, <2>1
  <1>6. CASE ConnectFails(p) \/ \E u \in Urls, k \in Kinds : SendNotificationPersistent(p, u, k)
    <2>1. sock' = sock
      BY Zenon, <1>6 DEF ConnectFails, SendNotificationPersistent
    <2>2. QED
      BY Zenon, <1>1, <1>2, <2>1
  <1>7. QED
    BY Zenon, <1>1, <1>2, <1>3, <1>4, <1>5, <1>6 DEF SenderStep

\* The facts of the connections stay true in every step.
LEMMA ConnNext ==
    ASSUME TypeOK, ConnInv, LinkInv, [Next]_vars
    PROVE  ConnInv'
  <1> SUFFICES ASSUME NEW c \in Conns PROVE ConnOK(conn'[c], sock'[c])
    BY DEF ConnInv
  <1>t. /\ conn \in [Conns -> Client] /\ sock \in [Conns -> Socket]
        /\ conn[c] \in Client /\ sock[c] \in Socket
    BY DEF TypeOK
  <1>i. ConnOK(conn[c], sock[c])
    BY DEF ConnInv
  <1>0. CASE conn'[c] = conn[c] /\ sock'[c] = sock[c]
    BY <1>i, <1>0
  <1>1. ASSUME NEW p \in Senders, SenderStep(p), UNCHANGED loopVars
        PROVE  ConnOK(conn'[c], sock'[c])
    <2>1. conn' = conn
      BY Zenon, <1>1 DEF loopVars, connVars
    <2>2. SenderMoves(p, c)
      BY <1>1, SenderSteps
    <2>3. CASE sock[c].st = "free" /\ sock'[c] = Connected(sock[c])
      BY <1>t, <1>i, <2>1, <2>3 DEF ConnOK, Connected, Socket
    <2>4. CASE g_persistent_fd[p] = c
      <3>1. sock[c].st # "free"
        BY <2>4, SockAssumption DEF LinkInv
      <3>2. sock'[c].st = sock[c].st \/ EnsureConnected(p, c)
        BY <1>t, <2>2 DEF SenderMoves, SenderClosed, Socket
      <3>3. ~EnsureConnected(p, c)
        BY <3>1 DEF EnsureConnected
      <3>4. QED
        BY <1>i, <2>1, <3>1, <3>2, <3>3 DEF ConnOK
    <2>5. CASE sock'[c] = sock[c]
      BY <1>0, <2>1, <2>5
    <2>6. QED
      BY Zenon, <2>2, <2>3, <2>4, <2>5 DEF SenderMoves
  <1>2. CASE \/ ShutdownTimerClosed \/ RunReturns \/ LoopClose \/ PoolStep
             \/ RequestShutdown \/ \E w \in work : OnNotificationDone(w)
             \/ \E d \in Conns : ReadDone(d)
    <2>1. conn' = conn /\ sock' = sock
      BY ZenonT(60), <1>2 DEF ShutdownTimerClosed, RunReturns, LoopClose, PoolStep,
         RequestShutdown, OnNotificationDone, OnNotificationWork, ReadDone, connVars
    <2>2. QED
      BY <1>0, <2>1
  <1>3. CASE BeginGracefulShutdown
    <2>1. /\ conn' = conn
          /\ sock'[c] = sock[c] \/ (sock[c].st = "backlog" /\ sock'[c] = ReaderClosed(sock[c]))
      BY ZenonT(60), <1>3 DEF BeginGracefulShutdown, connVars
    <2>2. sock'[c].st = sock[c].st
      BY Zenon, <1>t, <2>1, ReaderClosedFacts
    <2>3. QED
      BY Zenon, <1>i, <2>1, <2>2 DEF ConnOK
  <1>4. CASE OnShutdownTimeout \/ Destroy
    <2>1. /\ conn'[c] = [conn[c] EXCEPT !.timer = SafeClose(@), !.pipe = SafeClose(@)]
          /\ \/ sock'[c] = sock[c]
             \/ conn[c].pipe = "open" /\ sock'[c] = ReaderClosed(sock[c])
      BY ZenonT(60), <1>4 DEF OnShutdownTimeout, Destroy, Walk
    <2>2. /\ conn'[c].closing = conn[c].closing /\ conn'[c].thenPipe = conn[c].thenPipe
          /\ conn'[c].thenFree = conn[c].thenFree
      BY <1>t, <2>1 DEF Client
    <2>3. conn'[c].buffer = conn[c].buffer
      BY <1>t, <2>1 DEF Client
    <2>4. Untouched(conn[c]) => Untouched(conn'[c]) /\ conn[c].pipe # "open"
      BY <1>t, <2>1, <2>2, <2>3 DEF Client, Untouched, SafeClose
    <2>5. sock'[c].st = sock[c].st
      BY Zenon, <1>t, <2>1, ReaderClosedFacts
    <2>6. sock[c].st = "free" => sock'[c] = sock[c]
      BY <1>i, <2>1, <2>4 DEF ConnOK
    <2>7. QED
      BY <1>i, <2>2, <2>4, <2>5, <2>6 DEF ConnOK
  <1>5. ASSUME NEW d \in Conns,
               \/ OnNewConnection(d) \/ OnNewConnectionReject(d)
               \/ OnConnectionTimeout(d) \/ OnClientReadClose(d) \/ ParseTooLarge(d)
               \/ TimerClosed(d) \/ OnClientClose(d) \/ OnClientReadClosing(d)
               \/ OnClientRead(d) \/ ParseFrame(d)
        PROVE  ConnOK(conn'[c], sock'[c])
    <2>1. CASE c # d
      <3>1. /\ conn' = conn \/ \E x : conn' = [conn EXCEPT ![d] = x]
            /\ sock' = sock \/ \E x : sock' = [sock EXCEPT ![d] = x]
        BY ZenonT(60), <1>5
           DEF OnNewConnection, OnNewConnectionReject, OnConnectionTimeout,
               OnClientReadClose, ParseTooLarge, TimerClosed, OnClientClose,
               OnClientReadClosing, OnClientRead, ParseFrame, loopVars, connVars
      <3>2. QED
        BY <1>0, <1>t, <2>1, <3>1
    <2>2. CASE c = d /\ OnNewConnection(c)
      <3>1. /\ conn'[c] = NewClient
            /\ sock'[c] = [sock[c] EXCEPT !.st = "accepted"]
        BY <1>t, <2>2 DEF OnNewConnection
      <3>2. QED
        BY <1>t, <3>1 DEF ConnOK, NewClient, Socket
    <2>3. CASE c = d /\ OnNewConnectionReject(c)
      <3>1. /\ conn' = conn
            /\ sock'[c] = [ReaderClosed(sock[c]) EXCEPT !.st = "accepted"]
        BY <1>t, <2>3 DEF OnNewConnectionReject, loopVars, connVars
      <3>2. QED
        BY <1>t, <1>i, <3>1, ReaderClosedFacts DEF ConnOK
    <2>4. ASSUME ~Untouched(conn[c]),
                 sock'[c].st = sock[c].st,
                 conn'[c].thenPipe \/ conn'[c].thenFree => conn'[c].closing
          PROVE  ConnOK(conn'[c], sock'[c])
      BY <1>i, <2>4 DEF ConnOK
    <2>5. CASE c = d /\ (OnConnectionTimeout(c) \/ OnClientReadClose(c) \/ ParseTooLarge(c))
      <3>1. /\ conn' = [conn EXCEPT ![c] = CloseClientConnection(@)]
            /\ sock' = sock \/ sock' = [sock EXCEPT ![c].data = <<>>]
            /\ conn[c].timer = "open" \/ conn[c].pipe = "open" \/ conn[c].buffer # <<>>
        BY Zenon, <2>5 DEF OnConnectionTimeout, OnClientReadClose, ParseTooLarge
      <3>2. conn'[c].closing = TRUE
        BY <1>t, <3>1 DEF CloseClientConnection, Client
      <3>3. sock'[c].st = sock[c].st
        BY <1>t, <3>1 DEF Socket
      <3>4. ~Untouched(conn[c])
        BY <3>1 DEF Untouched
      <3>5. QED
        BY <2>4, <3>2, <3>3, <3>4
    <2>6. CASE c = d /\ TimerClosed(c)
      <3>1. /\ conn'[c].closing = conn[c].closing
            /\ conn'[c].thenPipe = conn[c].thenPipe
            /\ conn'[c].thenFree => conn[c].thenFree \/ conn[c].thenPipe
        BY <1>t, <2>6 DEF TimerClosed, Client
      <3>2. sock'[c] = sock[c] \/ sock'[c] = ReaderClosed(sock[c])
        BY <1>t, <2>6 DEF TimerClosed
      <3>3. ~Untouched(conn[c])
        BY <2>6 DEF TimerClosed, Untouched
      <3>4. sock'[c].st = sock[c].st
        BY Zenon, <1>t, <3>2, ReaderClosedFacts
      <3>5. QED
        BY <1>i, <2>4, <3>1, <3>3, <3>4 DEF ConnOK
    <2>7. CASE c = d /\ OnClientClose(c)
      <3>1. sock' = sock /\ ~Untouched(conn[c])
        BY <2>7 DEF OnClientClose, Untouched
      <3>2. /\ conn'[c].closing = conn[c].closing
            /\ conn'[c].thenPipe = conn[c].thenPipe
            /\ conn'[c].thenFree = conn[c].thenFree
        BY <1>t, <2>7 DEF OnClientClose, Client
      <3>3. QED
        BY <1>i, <2>4, <3>1, <3>2 DEF ConnOK
    <2>8. CASE c = d /\ OnClientReadClosing(c)
      <3>1. conn' = conn /\ conn[c].closing /\ sock'[c] = [sock[c] EXCEPT !.data = <<>>]
        BY <1>t, <2>8 DEF OnClientReadClosing, loopVars, connVars
      <3>2. ~Untouched(conn[c])
        BY <3>1 DEF Untouched
      <3>3. sock'[c].st = sock[c].st
        BY <1>t, <3>1, ReaderClosedFacts
      <3>4. QED
        BY Zenon, <2>4, <3>1, <3>2, <3>3
    <2>9. CASE c = d /\ (OnClientRead(c) \/ ParseFrame(c))
      <3>1. \E b : conn' = [conn EXCEPT ![c].buffer = b]
        BY Zenon, <2>9 DEF OnClientRead, ParseFrame
      <3>2. /\ conn'[c].closing = conn[c].closing
            /\ conn'[c].thenPipe = conn[c].thenPipe
            /\ conn'[c].thenFree = conn[c].thenFree
        BY <1>t, <3>1 DEF Client
      <3>3. sock'[c].st = sock[c].st
        <4>1. sock' = sock \/ sock' = [sock EXCEPT ![c].data = <<>>]
          BY Zenon, <2>9 DEF OnClientRead, ParseFrame
        <4>2. QED
          BY <1>t, <4>1 DEF Socket
      <3>4. conn[c].pipe = "open" \/ Len(conn[c].buffer) >= 2
        BY Zenon, <2>9 DEF OnClientRead, ParseFrame
      <3>5. ~Untouched(conn[c])
        BY <3>4 DEF Untouched
      <3>6. QED
        BY <1>i, <2>4, <3>2, <3>3, <3>5 DEF ConnOK
    <2>10. QED
      BY Zenon, <1>5, <2>1, <2>2, <2>3, <2>5, <2>6, <2>7, <2>8, <2>9
  <1>6. CASE UNCHANGED vars
    <2>1. conn' = conn /\ sock' = sock
      BY <1>6 DEF vars, loopVars, connVars
    <2>2. QED
      BY <1>0, <2>1
  <1>7. QED
    BY ZenonT(60), <1>1, <1>2, <1>3, <1>4, <1>5, <1>6 DEF Next, LoopNext, LoopStep

\* The four things a sender does, as the streams see them.
Begins(p) ==
    /\ attempt[p] = 0 /\ attempt'[p] = 1 /\ sends < MaxSends /\ sends' = sends + 1
    /\ message'[p] \in Notifications /\ message'[p].id = sends + 1
    /\ written'[p] = 0 /\ g_persistent_fd'[p] = g_persistent_fd[p] /\ sock' = sock

\* EnsureConnected gets a new connection.
Connects(p) ==
    /\ g_persistent_fd[p] = None /\ UNCHANGED <<attempt, message, written, sends>>
    /\ \E c \in Conns :
          /\ g_persistent_fd'[p] = c /\ sock[c].st = "free"
          /\ sock'[c] = Connected(sock[c])
          /\ \A d \in Conns \ {c} : sock'[d] = sock[d]

\* A failed connect or write, or the end of the process.
GivesUp(p) ==
    /\ g_persistent_fd'[p] = None /\ written'[p] = 0 /\ sends' = sends
    /\ attempt'[p] # 0 => attempt[p] # 0 /\ message'[p] = message[p]
    /\ \A c \in Conns : sock'[c] = sock[c] \/ sock'[c] = SenderClosed(sock[c])

\* One chunk of the frame is written; the second ends the send.
Writes(p) ==
    /\ attempt[p] # 0 /\ g_persistent_fd' = g_persistent_fd /\ sends' = sends
    /\ g_persistent_fd[p] \in Conns /\ sock[g_persistent_fd[p]].rcv
    /\ \/ /\ written[p] = 0 /\ written'[p] = 1 /\ attempt'[p] = attempt[p]
          /\ message'[p] = message[p]
       \/ written[p] = 1 /\ written'[p] = 0 /\ attempt'[p] = 0
    /\ sock' = [sock EXCEPT ![g_persistent_fd[p]].data =
                    Append(@, Frame(message[p])[written[p] + 1])]

\* Every step of a sender is one of the four.
LEMMA SenderEffect ==
    ASSUME TypeOK, NEW p \in Senders, SenderStep(p)
    PROVE  /\ \A q \in Senders \ {p} :
                 /\ g_persistent_fd'[q] = g_persistent_fd[q] /\ attempt'[q] = attempt[q]
                 /\ message'[q] = message[q] /\ written'[q] = written[q]
           /\ Begins(p) \/ Connects(p) \/ GivesUp(p) \/ Writes(p)
  <1>t. /\ sock \in [Conns -> Socket] /\ g_persistent_fd \in [Senders -> Conns \cup {None}]
        /\ attempt \in [Senders -> 0..2] /\ written \in [Senders -> 0..1]
        /\ message \in [Senders -> Notifications \cup {None}] /\ sends \in 0..MaxSends
    BY DEF TypeOK
  <1>1. \A q \in Senders \ {p} :
           /\ g_persistent_fd'[q] = g_persistent_fd[q] /\ attempt'[q] = attempt[q]
           /\ message'[q] = message[q] /\ written'[q] = written[q]
    <2>1. /\ \/ UNCHANGED g_persistent_fd
             \/ \E x : g_persistent_fd' = [g_persistent_fd EXCEPT ![p] = x]
          /\ UNCHANGED attempt \/ \E x : attempt' = [attempt EXCEPT ![p] = x]
          /\ UNCHANGED message \/ \E x : message' = [message EXCEPT ![p] = x]
          /\ UNCHANGED written \/ \E x : written' = [written EXCEPT ![p] = x]
      BY ZenonT(60) DEF SenderStep, SendNotificationPersistent, EnsureConnected,
         ConnectFails, WriteAll, WriteFails, ProcessExit, ResetPersistentConnection,
         NextAttempt, Return
    <2>2. QED
      BY <1>t, <2>1
  <1>2. ASSUME NEW u \in Urls, NEW k \in Kinds, SendNotificationPersistent(p, u, k)
        PROVE  Begins(p)
    <2>1. [id |-> sends + 1, url |-> u, kind |-> k] \in Notifications
      BY SMTT(60), <1>2, <1>t, SockAssumption DEF SendNotificationPersistent, Notifications
    <2>2. QED
      BY <1>2, <1>t, <2>1 DEF SendNotificationPersistent, Begins
  <1>3. ASSUME NEW c \in Conns, EnsureConnected(p, c) PROVE Connects(p)
    <2>1. /\ g_persistent_fd[p] = None /\ UNCHANGED <<attempt, message, written, sends>>
          /\ sock[c].st = "free"
      BY Zenon, <1>3 DEF EnsureConnected
    <2>2. /\ g_persistent_fd'[p] = c /\ sock'[c] = Connected(sock[c])
          /\ \A d \in Conns \ {c} : sock'[d] = sock[d]
      BY <1>3, <1>t DEF EnsureConnected
    <2>3. QED
      BY Zenon, <2>1, <2>2 DEF Connects
  <1>4. ASSUME \/ NextAttempt(p) /\ attempt[p] # 0
               \/ Return(p)
        PROVE  /\ written'[p] = 0
               /\ attempt'[p] # 0 => attempt[p] # 0 /\ message'[p] = message[p]
    BY SMTT(60), <1>4, <1>t DEF NextAttempt, Return
  <1>5. CASE ConnectFails(p)
    <2>1. /\ attempt[p] # 0 /\ g_persistent_fd[p] = None /\ NextAttempt(p)
          /\ UNCHANGED <<g_persistent_fd, sends, sock>>
      BY Zenon, <1>5 DEF ConnectFails
    <2>2. QED
      BY Zenon, <1>1, <1>4, <2>1 DEF GivesUp
  <1>6. CASE WriteFails(p) \/ ProcessExit(p)
    <2>1. /\ (NextAttempt(p) /\ attempt[p] # 0) \/ Return(p)
          /\ ResetPersistentConnection(p) /\ sends' = sends /\ g_persistent_fd[p] # None
      BY Zenon, <1>6 DEF WriteFails, ProcessExit
    <2>2. /\ g_persistent_fd'[p] = None
          /\ \A c \in Conns : sock'[c] = sock[c] \/ sock'[c] = SenderClosed(sock[c])
      BY <1>t, <2>1 DEF ResetPersistentConnection
    <2>3. QED
      BY Zenon, <1>1, <1>4, <2>1, <2>2 DEF GivesUp
  <1>7. CASE WriteAll(p)
    <2>1. /\ attempt[p] # 0 /\ g_persistent_fd' = g_persistent_fd /\ sends' = sends
          /\ g_persistent_fd[p] \in Conns /\ sock[g_persistent_fd[p]].rcv
          /\ sock' = [sock EXCEPT ![g_persistent_fd[p]].data =
                          Append(@, Frame(message[p])[written[p] + 1])]
      BY <1>7, <1>t DEF WriteAll
    <2>2. \/ /\ written[p] = 0 /\ written'[p] = 1 /\ attempt'[p] = attempt[p]
             /\ message'[p] = message[p]
          \/ written[p] = 1 /\ written'[p] = 0 /\ attempt'[p] = 0
      BY <1>7, <1>t DEF WriteAll, Return
    <2>3. QED
      BY Zenon, <1>1, <2>1, <2>2 DEF Writes
  <1>8. QED
    BY Zenon, <1>1, <1>2, <1>3, <1>5, <1>6, <1>7 DEF SenderStep

\* A connection, once made, is never free again.
LEMMA StKept ==
    ASSUME TypeOK, LoopNext, NEW c \in Conns
    PROVE  sock'[c].st = sock[c].st \/ sock'[c].st = "accepted"
  <1>t. sock \in [Conns -> Socket] /\ sock[c] \in Socket
    BY DEF TypeOK
  <1>1. \/ sock' = sock
        \/ sock'[c] = sock[c] \/ sock'[c] = ReaderClosed(sock[c])
        \/ \E d \in Conns : sock' \in {[sock EXCEPT ![d] = ReaderClosed(@)],
                                       [sock EXCEPT ![d].st = "accepted"],
                                       [sock EXCEPT ![d].data = <<>>],
                  [sock EXCEPT ![d] = [ReaderClosed(@) EXCEPT !.st = "accepted"]]}
    BY ZenonT(60)
       DEF LoopNext, LoopStep, PoolStep, ShutdownTimerClosed, RunReturns, LoopClose,
           RequestShutdown, OnNotificationDone, OnNotificationWork, ReadDone,
           BeginGracefulShutdown, OnShutdownTimeout, Destroy, Walk,
           OnNewConnection, OnNewConnectionReject, OnConnectionTimeout,
           OnClientReadClose, ParseTooLarge, TimerClosed, OnClientClose,
           OnClientReadClosing, OnClientRead, ParseFrame
  <1>2. \/ sock'[c] = sock[c] \/ sock'[c] = ReaderClosed(sock[c])
        \/ sock'[c] = [sock[c] EXCEPT !.st = "accepted"]
        \/ sock'[c] = [sock[c] EXCEPT !.data = <<>>]
        \/ sock'[c] = [ReaderClosed(sock[c]) EXCEPT !.st = "accepted"]
    BY <1>t, <1>1
  <1>3. [sock[c] EXCEPT !.st = "accepted"].st = "accepted"
    BY <1>t DEF Socket
  <1>4. QED
    BY Zenon, <1>t, <1>2, <1>3, ReaderClosedFacts

\* The senders keep to their own connections.
LEMMA LinkNext ==
    ASSUME TypeOK, LinkInv, [Next]_vars
    PROVE  LinkInv'
  <1>t. /\ sock \in [Conns -> Socket] /\ g_persistent_fd \in [Senders -> Conns \cup {None}]
        /\ written \in [Senders -> 0..1] /\ None \notin Conns
    BY SockAssumption DEF TypeOK
  <1>1. CASE UNCHANGED vars
    BY Zenon, <1>1 DEF vars, senderVars, LinkInv
  <1>2. ASSUME LoopNext, UNCHANGED senderVars PROVE LinkInv'
    <2>1. UNCHANGED <<g_persistent_fd, attempt, written>>
      BY Zenon, <1>2 DEF senderVars
    <2>2. \A c \in Conns : sock[c].st # "free" => sock'[c].st # "free"
      BY <1>2, StKept
    <2>3. QED
      BY <1>t, <2>1, <2>2 DEF LinkInv
  <1>3. ASSUME NEW p \in Senders, SenderStep(p) PROVE LinkInv'
    <2>1. \A q \in Senders \ {p} :
             /\ g_persistent_fd'[q] = g_persistent_fd[q] /\ attempt'[q] = attempt[q]
             /\ message'[q] = message[q] /\ written'[q] = written[q]
      BY Zenon, <1>3, SenderEffect
    <2>2. CASE Begins(p)
      BY SMTT(60), <1>t, <2>1, <2>2 DEF Begins, LinkInv
    <2>3. CASE Connects(p)
      <3>1. PICK c \in Conns :
               /\ g_persistent_fd'[p] = c /\ sock[c].st = "free"
               /\ sock'[c] = Connected(sock[c])
               /\ \A d \in Conns \ {c} : sock'[d] = sock[d]
        BY Zenon, <2>3 DEF Connects
      <3>2. sock'[c].st = "backlog"
        BY <1>t, <3>1 DEF Connected, Socket
      <3>3. /\ g_persistent_fd[p] = None /\ UNCHANGED <<attempt, written>>
        BY Zenon, <2>3 DEF Connects
      <3>4. \A d \in Conns : sock[d].st # "free" => sock'[d].st # "free"
        BY <3>1, <3>2
      <3>5. \A q \in Senders \ {p} : g_persistent_fd'[q] # c
        <4> SUFFICES ASSUME NEW q \in Senders \ {p}, g_persistent_fd'[q] = c
                     PROVE  FALSE
          OBVIOUS
        <4>1. g_persistent_fd[q] = c /\ c # None
          BY Zenon, <1>t, <2>1
        <4>2. QED
          BY Zenon, <3>1, <4>1 DEF LinkInv
      <3>6. ASSUME NEW q \in Senders
            PROVE  /\ attempt'[q] = 0 \/ g_persistent_fd'[q] = None => written'[q] = 0
                   /\ g_persistent_fd'[q] # None => sock'[g_persistent_fd'[q]].st # "free"
        <4>1. CASE q = p
          BY Zenon, <1>t, <3>1, <3>2, <3>3, <4>1 DEF LinkInv
        <4>2. CASE q # p
          <5>1. g_persistent_fd'[q] = g_persistent_fd[q] /\ written'[q] = written[q]
                /\ attempt'[q] = attempt[q]
            BY Zenon, <2>1, <4>2
          <5>2. g_persistent_fd[q] # None => g_persistent_fd[q] \in Conns
            BY Zenon, <1>t
          <5>3. QED
            BY Zenon, <3>4, <5>1, <5>2 DEF LinkInv
        <4>3. QED
          BY Zenon, <4>1, <4>2
      <3>7. ASSUME NEW q \in Senders, NEW r \in Senders,
                   g_persistent_fd'[q] = g_persistent_fd'[r]
            PROVE  q = r \/ g_persistent_fd'[q] = None
        <4>1. CASE q = p \/ r = p
          BY Zenon, <3>1, <3>5, <3>7, <4>1
        <4>2. CASE q # p /\ r # p
          <5>1. /\ g_persistent_fd'[q] = g_persistent_fd[q]
                /\ g_persistent_fd'[r] = g_persistent_fd[r]
            BY Zenon, <2>1, <4>2
          <5>2. QED
            BY Zenon, <3>7, <5>1 DEF LinkInv
        <4>3. QED
          BY Zenon, <4>1, <4>2
      <3>8. QED
        BY Zenon, <3>6, <3>7 DEF LinkInv
    <2>4. ASSUME \A c \in Conns : sock'[c].st = sock[c].st,
                 \/ g_persistent_fd'[p] = None /\ written'[p] = 0
                 \/ /\ g_persistent_fd'[p] = g_persistent_fd[p]
                    /\ g_persistent_fd[p] # None
                    /\ attempt'[p] = 0 => written'[p] = 0
          PROVE  LinkInv'
      <3>1. ASSUME NEW q \in Senders
            PROVE  /\ attempt'[q] = 0 \/ g_persistent_fd'[q] = None => written'[q] = 0
                   /\ g_persistent_fd'[q] # None => sock'[g_persistent_fd'[q]].st # "free"
                   /\ g_persistent_fd'[q] \in {g_persistent_fd[q], None}
        <4>1. g_persistent_fd[q] # None => g_persistent_fd[q] \in Conns
          BY Zenon, <1>t
        <4>2. CASE q = p
          BY Zenon, <2>4, <4>1, <4>2 DEF LinkInv
        <4>3. CASE q # p
          <5>1. /\ g_persistent_fd'[q] = g_persistent_fd[q]
                /\ attempt'[q] = attempt[q] /\ written'[q] = written[q]
            BY Zenon, <2>1, <4>3
          <5>2. QED
            BY Zenon, <2>4, <4>1, <5>1 DEF LinkInv
        <4>4. QED
          BY Zenon, <4>2, <4>3
      <3>2. ASSUME NEW q \in Senders, NEW r \in Senders,
                   g_persistent_fd'[q] = g_persistent_fd'[r]
            PROVE  q = r \/ g_persistent_fd'[q] = None
        BY Zenon, <3>1, <3>2 DEF LinkInv
      <3>3. QED
        BY Zenon, <3>1, <3>2 DEF LinkInv
    <2>5. CASE GivesUp(p)
      <3>1. \A c \in Conns : sock'[c].st = sock[c].st
        BY Zenon, <1>t, <2>5, SenderEndFacts DEF GivesUp
      <3>2. QED
        BY Zenon, <2>4, <2>5, <3>1 DEF GivesUp
    <2>6. CASE Writes(p)
      <3>1. \A c \in Conns : sock'[c].st = sock[c].st
        BY <1>t, <2>6 DEF Writes, Socket
      <3>2. /\ g_persistent_fd'[p] = g_persistent_fd[p] /\ g_persistent_fd[p] # None
            /\ attempt'[p] = 0 => written'[p] = 0
        <4>1. g_persistent_fd[p] # None
          BY <1>t, <2>6 DEF Writes
        <4>2. attempt'[p] = 0 => written'[p] = 0
          BY Zenon, <2>6 DEF Writes
        <4>3. QED
          BY Zenon, <2>6, <4>1, <4>2 DEF Writes
      <3>3. QED
        BY Zenon, <2>4, <3>1, <3>2
    <2>7. QED
      BY <1>3, <2>2, <2>3, <2>5, <2>6, SenderEffect
  <1>4. QED
    BY Zenon, <1>1, <1>2, <1>3 DEF Next

-----------------------------------------------------------------------------
(* Framing.                                                                *)

\* The bytes of a connection are chunks.
LEMMA StreamType ==
    ASSUME TypeOK, NEW c \in Conns
    PROVE  Stream(c) \in Seq(Chunks) /\ Len(Stream(c)) \in Nat
  <1>1. conn[c] \in Client /\ sock[c] \in Socket
    BY DEF TypeOK
  <1>2. conn[c].buffer \in Seq(Chunks) /\ sock[c].data \in Seq(Chunks)
    BY <1>1 DEF Client, Socket
  <1>3. Stream(c) \in Seq(Chunks)
    BY <1>2, CatMoves DEF Stream
  <1>4. QED
    BY <1>3, LenProperties

\* The same after a step.
LEMMA StreamTypeNext ==
    ASSUME TypeOK', NEW c \in Conns
    PROVE  Stream(c)' \in Seq(Chunks) /\ Len(Stream(c)') \in Nat
  <1>1. conn'[c] \in Client /\ sock'[c] \in Socket
    BY DEF TypeOK
  <1>2. conn'[c].buffer \in Seq(Chunks) /\ sock'[c].data \in Seq(Chunks)
    BY <1>1 DEF Client, Socket
  <1>3. Stream(c)' \in Seq(Chunks)
    BY <1>2, CatMoves DEF Stream
  <1>4. QED
    BY <1>3, LenProperties

\* The bytes of a connection through a step of the loop.
LEMMA StreamLoop ==
    ASSUME TypeOK, ConnInv, LoopNext, NEW c \in Conns, ~conn'[c].closing
    PROVE  /\ ~conn[c].closing /\ (sock'[c].rcv => sock[c].rcv)
           /\ IF ParseFrame(c) THEN Dropped(Stream(c), Stream(c)')
              ELSE \/ Stream(c)' = Stream(c)
                   \/ Cut(Stream(c), Stream(c)') /\ ~sock'[c].rcv
  <1>t. /\ conn \in [Conns -> Client] /\ conn[c] \in Client /\ sock[c] \in Socket
    BY DEF TypeOK
  <1>s. conn[c].buffer \in Seq(Chunks) /\ sock[c].data \in Seq(Chunks)
    BY <1>t DEF Client, Socket
  <1>1. Moves(c)
    BY LoopMoves
  <1>2. CASE ~ParseFrame(c) /\ conn'[c].buffer = conn[c].buffer /\ sock'[c].data = sock[c].data
    BY Zenon, <1>1, <1>2 DEF Moves, Stream
  <1>3. CASE /\ ~ParseFrame(c)
             /\ conn'[c].buffer = conn[c].buffer \o sock[c].data
             /\ sock'[c].data = <<>>
    <2>1. (conn[c].buffer \o sock[c].data) \o <<>> = conn[c].buffer \o sock[c].data
      BY SMTT(60), <1>s, CatMoves
    <2>2. QED
      BY Zenon, <1>1, <1>3, <2>1 DEF Moves, Stream
  <1>4. CASE /\ ~ParseFrame(c)
             /\ conn'[c].buffer = conn[c].buffer /\ sock'[c].data = <<>>
             /\ ~sock'[c].rcv
    <2>1. Cut(conn[c].buffer \o sock[c].data, conn[c].buffer \o <<>>)
      BY <1>s, CatMoves
    <2>2. QED
      BY Zenon, <1>1, <1>4, <2>1 DEF Moves, Stream
  <1>5. CASE ParseFrame(c)
    <2>1. /\ conn' = [conn EXCEPT ![c].buffer =
                          SubSeq(conn[c].buffer, 3, Len(conn[c].buffer))]
          /\ sock' = sock /\ Len(conn[c].buffer) >= 2
      BY Zenon, <1>5 DEF ParseFrame
    <2>2. conn'[c].buffer = SubSeq(conn[c].buffer, 3, Len(conn[c].buffer))
      BY <1>t, <2>1 DEF Client
    <2>3. Dropped(conn[c].buffer \o sock[c].data,
                  SubSeq(conn[c].buffer, 3, Len(conn[c].buffer)) \o sock[c].data)
      BY <1>s, <2>1, CatMoves
    <2>4. QED
      BY Zenon, <1>1, <1>5, <2>1, <2>2, <2>3 DEF Moves, Stream
  <1>6. QED
    BY Zenon, <1>1, <1>2, <1>3, <1>4, <1>5 DEF Moves

\* The bytes of a connection through a step of a sender.
LEMMA StreamSender ==
    ASSUME TypeOK, SenderInv, NEW p \in Senders, conn' = conn, NEW c \in Conns
    PROVE  /\ Begins(p) \/ Connects(p) \/ GivesUp(p) => Stream(c)' = Stream(c)
           /\ Writes(p) /\ g_persistent_fd[p] # c => Stream(c)' = Stream(c)
           /\ Writes(p) /\ g_persistent_fd[p] = c =>
                 Grown(Stream(c), Stream(c)', Frame(message[p])[written[p] + 1])
           /\ Begins(p) \/ GivesUp(p) \/ Writes(p) => sock'[c].rcv = sock[c].rcv
  <1>t. /\ sock \in [Conns -> Socket] /\ conn[c] \in Client /\ sock[c] \in Socket
        /\ message \in [Senders -> Notifications \cup {None}]
        /\ written \in [Senders -> 0..1]
    BY DEF TypeOK
  <1>s. conn[c].buffer \in Seq(Chunks) /\ sock[c].data \in Seq(Chunks)
    BY <1>t DEF Client, Socket
  <1>0. ASSUME sock'[c].data = sock[c].data PROVE Stream(c)' = Stream(c)
    BY Zenon, <1>0 DEF Stream
  <1>1. ASSUME Begins(p) PROVE sock'[c] = sock[c]
    BY Zenon, <1>1 DEF Begins
  <1>2. ASSUME GivesUp(p) PROVE sock'[c].data = sock[c].data /\ sock'[c].rcv = sock[c].rcv
    BY Zenon, <1>t, <1>2, SenderEndFacts DEF GivesUp
  <1>3. ASSUME Connects(p) PROVE sock'[c].data = sock[c].data
    <2>1. PICK e \in Conns : /\ sock'[e] = Connected(sock[e])
                              /\ \A d \in Conns \ {e} : sock'[d] = sock[d]
      BY Zenon, <1>3 DEF Connects
    <2>2. Connected(sock[c]).data = sock[c].data
      BY <1>t DEF Connected, Socket
    <2>3. QED
      BY Zenon, <2>1, <2>2
  <1>4. ASSUME Writes(p), g_persistent_fd[p] # c PROVE sock'[c] = sock[c]
    BY <1>t, <1>4 DEF Writes
  <1>5. ASSUME Writes(p), g_persistent_fd[p] = c
        PROVE  /\ Grown(Stream(c), Stream(c)', Frame(message[p])[written[p] + 1])
               /\ sock'[c].rcv = sock[c].rcv
    <2> DEFINE x == Frame(message[p])[written[p] + 1]
    <2>1. message[p] \in Notifications
      BY <1>t, <1>5 DEF Writes, SenderInv
    <2>2. x \in Chunks
      BY SMTT(60), <1>t, <2>1 DEF Frame, Chunks
    <2>3. sock' = [sock EXCEPT ![c].data = Append(@, x)]
      BY Zenon, <1>5 DEF Writes
    <2> HIDE DEF x
    <2>4. sock'[c].data = Append(sock[c].data, x) /\ sock'[c].rcv = sock[c].rcv
      BY <1>t, <2>3 DEF Socket
    <2>5. Grown(conn[c].buffer \o sock[c].data, conn[c].buffer \o Append(sock[c].data, x), x)
      BY <1>s, <2>2, CatMoves
    <2>6. QED
      BY Zenon, <2>4, <2>5 DEF Stream, x
  <1>6. QED
    BY Zenon, <1>0, <1>1, <1>2, <1>3, <1>4, <1>5

\* Frames stay aligned.
LEMMA StreamNext ==
    ASSUME TypeOK, TypeOK', SenderInv, ConnInv, LinkInv, StreamInv, [Next]_vars
    PROVE  StreamInv'
  <1> DEFINE Ends(c, p) == sock[c].rcv /\ g_persistent_fd[p] = c =>
                /\ Len(Stream(c)) % 2 = written[p]
                /\ written[p] = 1 => Stream(c)[Len(Stream(c))].msg = message[p]
  <1> SUFFICES ASSUME NEW c \in Conns, ~conn'[c].closing
               PROVE  WellFormed(Stream(c)') /\ \A p \in Senders : Ends(c, p)'
    BY DEF StreamInv
  <1>t. /\ Stream(c) \in Seq(Chunks) /\ Stream(c)' \in Seq(Chunks)
        /\ Len(Stream(c)) \in Nat /\ Len(Stream(c)') \in Nat
    BY StreamType, StreamTypeNext
  <1>i. ~conn[c].closing => WellFormed(Stream(c)) /\ \A p \in Senders : Ends(c, p)
    BY DEF StreamInv
  <1>0. ASSUME conn' = conn, sock' = sock, UNCHANGED <<g_persistent_fd, written, message>>
        PROVE  WellFormed(Stream(c)') /\ \A p \in Senders : Ends(c, p)'
    BY Zenon, <1>i, <1>0 DEF Stream
  <1>1. CASE UNCHANGED vars
    BY Zenon, <1>0, <1>1 DEF vars, loopVars, connVars, senderVars
  <1>2. ASSUME LoopNext, UNCHANGED senderVars
        PROVE  WellFormed(Stream(c)') /\ \A p \in Senders : Ends(c, p)'
    <2>1. UNCHANGED <<g_persistent_fd, written, message>>
      BY Zenon, <1>2 DEF senderVars
    <2>2. /\ ~conn[c].closing /\ (sock'[c].rcv => sock[c].rcv)
          /\ \/ Stream(c)' = Stream(c)
             \/ Cut(Stream(c), Stream(c)') /\ ~sock'[c].rcv
             \/ Dropped(Stream(c), Stream(c)')
      BY Zenon, <1>2, StreamLoop
    <2>3. CASE Stream(c)' = Stream(c)
      BY Zenon, <1>i, <2>1, <2>2, <2>3
    <2>4. CASE Cut(Stream(c), Stream(c)') /\ ~sock'[c].rcv
      BY Zenon, <1>i, <1>t, <2>2, <2>4, WellFormedCut
    <2>5. CASE Dropped(Stream(c), Stream(c)')
      <3>1. WellFormed(Stream(c)')
        BY Zenon, <1>i, <1>t, <2>2, <2>5, WellFormedDropped
      <3>2. ASSUME NEW p \in Senders, sock'[c].rcv, g_persistent_fd'[p] = c
            PROVE  /\ Len(Stream(c)') % 2 = written'[p]
                   /\ written'[p] = 1 => (Stream(c)')[Len(Stream(c)')].msg = message'[p]
        <4> DEFINE b == Stream(c)
                   d == Stream(c)'
        <4>1. /\ Len(b) % 2 = written[p]
              /\ written[p] = 1 => b[Len(b)].msg = message[p]
          BY Zenon, <1>i, <2>1, <2>2, <3>2
        <4>2. /\ Len(d) = Len(b) - 2 /\ Len(b) \in Nat /\ Len(d) \in Nat
              /\ \A i \in 1..Len(d) : d[i] = b[i + 2]
          BY Zenon, <1>t, <2>5 DEF Dropped
        <4> HIDE DEF b, d
        <4>3. Len(d) % 2 = Len(b) % 2
          BY <4>2
        <4>4. Len(b) % 2 = 1 => d[Len(d)] = b[Len(b)]
          <5>1. Len(b) % 2 = 1 => Len(d) \in 1..Len(d) /\ Len(d) + 2 = Len(b)
            BY <4>2
          <5>2. QED
            BY <4>2, <5>1
        <4>5. QED
          BY Zenon, <2>1, <4>1, <4>3, <4>4 DEF b, d
      <3>3. QED
        BY Zenon, <3>1, <3>2
    <2>6. QED
      BY Zenon, <2>2, <2>3, <2>4, <2>5
  <1>3. ASSUME NEW p \in Senders, SenderStep(p), UNCHANGED loopVars
        PROVE  WellFormed(Stream(c)') /\ \A q \in Senders : Ends(c, q)'
    <2>1. conn' = conn /\ ~conn[c].closing
      BY Zenon, <1>3 DEF loopVars, connVars
    <2>2. /\ \A q \in Senders \ {p} :
                /\ g_persistent_fd'[q] = g_persistent_fd[q]
                /\ message'[q] = message[q] /\ written'[q] = written[q]
          /\ Begins(p) \/ Connects(p) \/ GivesUp(p) \/ Writes(p)
      BY Zenon, <1>3, SenderEffect
    <2>3. /\ Begins(p) \/ Connects(p) \/ GivesUp(p) => Stream(c)' = Stream(c)
          /\ Writes(p) /\ g_persistent_fd[p] # c => Stream(c)' = Stream(c)
          /\ Writes(p) /\ g_persistent_fd[p] = c =>
                Grown(Stream(c), Stream(c)', Frame(message[p])[written[p] + 1])
          /\ Begins(p) \/ GivesUp(p) \/ Writes(p) => sock'[c].rcv = sock[c].rcv
      BY Zenon, <2>1, StreamSender
    <2>4. ASSUME Stream(c)' = Stream(c), sock'[c].rcv => sock[c].rcv, Ends(c, p)'
          PROVE  WellFormed(Stream(c)') /\ \A q \in Senders : Ends(c, q)'
      <3>1. ASSUME NEW q \in Senders \ {p} PROVE Ends(c, q)'
        BY Zenon, <1>i, <2>1, <2>2, <2>4, <3>1
      <3>2. QED
        BY Zenon, <1>i, <2>1, <2>4, <3>1
    <2>5. CASE Begins(p)
      <3>1. /\ g_persistent_fd'[p] = g_persistent_fd[p] /\ written'[p] = 0
            /\ written[p] = 0
        BY Zenon, <2>5 DEF Begins, LinkInv
      <3>2. Ends(c, p)'
        <4>1. ASSUME sock'[c].rcv, g_persistent_fd'[p] = c
              PROVE  Len(Stream(c)') % 2 = written'[p]
          BY Zenon, <1>i, <2>1, <2>3, <2>5, <3>1, <4>1
        <4>2. written'[p] # 1
          BY <3>1
        <4>3. QED
          BY Zenon, <4>1, <4>2
      <3>3. QED
        BY Zenon, <2>3, <2>4, <2>5, <3>2
    <2>6. CASE GivesUp(p)
      <3>1. g_persistent_fd'[p] # c
        BY <2>6, SockAssumption DEF GivesUp
      <3>2. QED
        BY Zenon, <2>3, <2>4, <2>6, <3>1
    <2>7. CASE Connects(p)
      <3>1. PICK e \in Conns :
               /\ g_persistent_fd'[p] = e /\ sock[e].st = "free"
               /\ \A d \in Conns \ {e} : sock'[d] = sock[d]
        BY Zenon, <2>7 DEF Connects
      <3>2. CASE c # e
        BY Zenon, <2>3, <2>4, <2>7, <3>1, <3>2
      <3>3. CASE c = e
        <4>1. sock[c] = Free /\ Untouched(conn[c])
          <5>1. ConnOK(conn[c], sock[c]) /\ sock[c].st = "free"
            BY <3>1, <3>3 DEF ConnInv
          <5>2. QED
            BY <5>1 DEF ConnOK
        <4>2. Stream(c) = <<>> \o <<>>
          <5>1. sock[c].data = <<>>
            BY Zenon, <4>1, FreeFacts
          <5>2. QED
            BY Zenon, <4>1, <5>1 DEF Stream, Untouched
        <4>3. Len(Stream(c)) = 0
          BY <4>2
        <4>4. Len(Stream(c)') = 0 /\ 0 % 2 = 0
          BY Zenon, <2>3, <2>7, <4>3, ZeroEven
        <4>5. \A q \in Senders \ {p} : g_persistent_fd'[q] # c
          <5> SUFFICES ASSUME NEW q \in Senders \ {p}, g_persistent_fd'[q] = c
                       PROVE  FALSE
            OBVIOUS
          <5>1. g_persistent_fd[q] = c /\ c # None
            BY Zenon, <2>2, SockAssumption
          <5>2. QED
            BY Zenon, <3>1, <3>3, <5>1 DEF LinkInv
        <4>6. written'[p] = 0
          BY Zenon, <2>7 DEF Connects, LinkInv
        <4>7. WellFormed(Stream(c)')
          BY Zenon, <1>i, <2>1, <2>3, <2>7
        <4>8. \A q \in Senders : Ends(c, q)'
          <5>1. written'[p] # 1
            BY <4>6
          <5>2. QED
            BY Zenon, <4>4, <4>5, <4>6, <5>1
        <4>9. QED
          BY <4>7, <4>8
      <3>4. QED
        BY Zenon, <3>2, <3>3
    <2>8. CASE Writes(p) /\ g_persistent_fd[p] # c
      <3>1. g_persistent_fd'[p] # c
        BY Zenon, <2>8 DEF Writes
      <3>2. QED
        BY Zenon, <2>3, <2>4, <2>8, <3>1
    <2>9. CASE Writes(p) /\ g_persistent_fd[p] = c
      <3> DEFINE x == Frame(message[p])[written[p] + 1]
                 b == Stream(c)
                 d == Stream(c)'
      <3>1. /\ sock[c].rcv /\ attempt[p] # 0 /\ g_persistent_fd' = g_persistent_fd
            /\ \/ written[p] = 0 /\ written'[p] = 1 /\ message'[p] = message[p]
               \/ written[p] = 1 /\ written'[p] = 0
        BY Zenon, <2>9 DEF Writes
      <3>2. Grown(b, d, x) /\ WellFormed(b)
        BY Zenon, <1>i, <2>1, <2>3, <2>9
      <3>3. /\ Len(b) % 2 = written[p]
            /\ written[p] = 1 => b[Len(b)].msg = message[p]
        BY Zenon, <1>i, <2>1, <2>9, <3>1
      <3>4. x.msg = message[p] /\ x.part = 1 + written[p]
        <4>1. written[p] = 0 \/ written[p] = 1
          BY Zenon, <3>1
        <4>2. QED
          BY Zenon, <4>1, FrameFacts
      <3>5. Len(b) \in Nat /\ Len(d) \in Nat
        BY <1>t
      <3> HIDE DEF b, d, x
      <3>6. WellFormed(d)
        <4>1. x.part = 1 + (Len(b) % 2) /\ (Len(b) % 2 = 1 => b[Len(b)].msg = x.msg)
          BY Zenon, <3>3, <3>4
        <4>2. QED
          BY <3>2, <3>5, <4>1, WellFormedGrown
      <3>7. Len(d) = Len(b) + 1 /\ d[Len(d)] = x
        BY <3>2, <3>5 DEF Grown
      <3>8. Len(d) % 2 = written'[p]
        BY <3>1, <3>3, <3>5, <3>7, Parity
      <3>9. written'[p] = 1 => d[Len(d)].msg = message'[p]
        BY <3>1, <3>4, <3>7
      <3>10. \A q \in Senders \ {p} : g_persistent_fd'[q] # c
        BY <2>9, <3>1, SockAssumption DEF LinkInv
      <3>11. \A q \in Senders : Ends(c, q)'
        BY Zenon, <3>8, <3>9, <3>10 DEF d
      <3>12. QED
        BY Zenon, <3>6, <3>11 DEF d
    <2>10. QED
      BY Zenon, <2>2, <2>5, <2>6, <2>7, <2>8, <2>9
  <1>4. QED
    BY Zenon, <1>1, <1>2, <1>3 DEF Next

-----------------------------------------------------------------------------
(* One delivery.                                                           *)

\* Connection c still carries a whole frame of notification n, ending at i.
Carries(c, i, n) ==
    /\ ~conn[c].closing /\ i \in 1..Len(Stream(c)) /\ i % 2 = 0
    /\ Stream(c)[i].msg.id = n

\* Sender p is sending notification n.
Sending(p, n) == attempt[p] # 0 /\ message[p].id = n

\* Notification n was sent and not parsed.
Unparsed(n) == n \in 1..sends /\ parsed[n] = 0

\* A notification is in one place until it is parsed.
OnceInv ==
    /\ \A n \in 1..MaxSends : parsed[n] <= 1 /\ (n > sends => parsed[n] = 0)
    /\ \A n : \A p \in Senders : Sending(p, n) =>
         Unparsed(n) /\ \A q \in Senders : Sending(q, n) => p = q
    /\ \A n, i : \A c \in Conns : Carries(c, i, n) =>
         /\ Unparsed(n) /\ \A q \in Senders : ~Sending(q, n)
         /\ \A j : \A d \in Conns : Carries(d, j, n) => c = d /\ i = j

\* The loop adds no frame to a connection; parsing moves them up by one.
LEMMA CarriesLoop ==
    ASSUME TypeOK, TypeOK', ConnInv, LoopNext,
           NEW c \in Conns, NEW i, NEW n, Carries(c, i, n)'
    PROVE  /\ i \in Nat \ {0}
           /\ IF ParseFrame(c) THEN Carries(c, i + 2, n) ELSE Carries(c, i, n)
  <1> DEFINE b == Stream(c)
             d == Stream(c)'
  <1>1. ~conn'[c].closing /\ i \in 1..Len(d) /\ i % 2 = 0 /\ d[i].msg.id = n
    BY Zenon DEF Carries
  <1>2. Len(b) \in Nat /\ Len(d) \in Nat
    BY StreamType, StreamTypeNext
  <1>3. /\ ~conn[c].closing
        /\ IF ParseFrame(c) THEN Dropped(b, d) ELSE d = b \/ Cut(b, d)
    BY Zenon, <1>1, StreamLoop
  <1> HIDE DEF b, d
  <1>4. i \in Nat \ {0}
    BY <1>1, <1>2
  <1>5. CASE ParseFrame(c)
    <2>1. Dropped(b, d)
      BY Zenon, <1>3, <1>5
    <2>2. i + 2 \in 1..Len(b) /\ (i + 2) % 2 = 0 /\ d[i] = b[i + 2]
      BY <1>1, <1>2, <2>1 DEF Dropped
    <2>3. QED
      BY Zenon, <1>1, <1>3, <1>4, <1>5, <2>2 DEF Carries, b
  <1>6. CASE ~ParseFrame(c)
    <2>1. d = b \/ Cut(b, d)
      BY Zenon, <1>3, <1>6
    <2>2. i \in 1..Len(b) /\ d[i] = b[i]
      BY <1>1, <1>2, <2>1 DEF Cut
    <2>3. QED
      BY Zenon, <1>1, <1>3, <1>4, <1>6, <2>2 DEF Carries, b
  <1>7. QED
    BY Zenon, <1>5, <1>6

\* The frame at the head of the buffer is one the connection carries.
LEMMA ParsedCarried ==
    ASSUME TypeOK, ReadInv, StreamInv, NEW c \in Conns, ParseFrame(c)
    PROVE  Carries(c, 2, conn[c].buffer[1].msg.id)
  <1> DEFINE m == conn[c].buffer[1].msg
  <1>2. reading = c /\ Len(conn[c].buffer) >= 2
    BY Zenon DEF ParseFrame
  <1>3. ~conn[c].closing
    BY <1>2, SockAssumption DEF ReadInv
  <1>4. conn[c].buffer \in Seq(Chunks) /\ sock[c].data \in Seq(Chunks)
    BY DEF TypeOK, Client, Socket
  <1>5. /\ Len(Stream(c)) = Len(conn[c].buffer) + Len(sock[c].data)
        /\ Stream(c)[1] = conn[c].buffer[1]
    <2> DEFINE b == conn[c].buffer
               d == sock[c].data
    <2> HIDE DEF b, d
    <2>1. b \in Seq(Chunks) /\ d \in Seq(Chunks) /\ Len(b) >= 2
      BY <1>2, <1>4 DEF b, d
    <2>2. Len(b \o d) = Len(b) + Len(d) /\ (b \o d)[1] = b[1]
      BY <2>1, CatMoves
    <2>3. QED
      BY Zenon, <2>2 DEF Stream, b, d
  <1>6. Len(conn[c].buffer) \in Nat /\ Len(sock[c].data) \in Nat
    BY <1>4, LenProperties
  <1>7. 2 \in 1..Len(Stream(c)) /\ 2 % 2 = 0 /\ 2 - 1 = 1
    <2>1. \A k, l \in Nat : k >= 2 => 2 \in 1..(k + l)
      OBVIOUS
    <2>2. 2 \in 1..Len(Stream(c))
      BY Zenon, <1>2, <1>5, <1>6, <2>1
    <2>3. QED
      BY <2>2
  <1>8. Stream(c)[2].msg = m
    BY Zenon, <1>3, <1>5, <1>7 DEF StreamInv, WellFormed
  <1>9. QED
    BY Zenon, <1>3, <1>7, <1>8 DEF Carries

\* Only the parse loop changes the history, for a frame it takes whole.
LEMMA ParsedLoop ==
    ASSUME TypeOK, ReadInv, StreamInv, [Next]_vars
    PROVE  \/ parsed' = parsed
           \/ \E c \in Conns : \E m \in Notifications :
                 /\ ParseFrame(c) /\ Carries(c, 2, m.id)
                 /\ parsed' = [parsed EXCEPT ![m.id] = @ + 1]
  <1>1. ASSUME NEW c \in Conns, ParseFrame(c), parsed' # parsed
        PROVE  \E m \in Notifications :
                 /\ Carries(c, 2, m.id)
                 /\ parsed' = [parsed EXCEPT ![m.id] = @ + 1]
    <2> DEFINE m == conn[c].buffer[1].msg
    <2>1. m \in Notifications
      BY <1>1, ParsedMessage
    <2>2. /\ reading = c /\ Len(conn[c].buffer) >= 2
          /\ parsed' = [parsed EXCEPT ![m.id] = @ + 1]
      BY Zenon, <1>1 DEF ParseFrame, dispatchVars
    <2>3. Carries(c, 2, m.id)
      BY <1>1, ParsedCarried
    <2>4. QED
      BY Zenon, <2>1, <2>2, <2>3
  <1>2. ASSUME \A c \in Conns : ~ParseFrame(c) PROVE parsed' = parsed
    <2>1. CASE \E w \in work : OnNotificationDone(w) \/ OnNotificationWork(w)
      BY Zenon, <2>1 DEF OnNotificationDone, OnNotificationWork
    <2>2. CASE UNCHANGED dispatchVars
      BY Zenon, <2>2 DEF dispatchVars
    <2>3. QED
      BY Zenon, <1>2, <2>1, <2>2, DispatchCases
  <1>3. QED
    BY Zenon, <1>1, <1>2

LEMMA LastIndex ==
    ASSUME NEW k \in Nat, NEW j \in 1..(k + 1)
    PROVE  j \in 1..k \/ j = k + 1
OBVIOUS

\* A sender adds a frame only by writing the end of the one it is sending.
LEMMA CarriesSender ==
    ASSUME TypeOK, TypeOK', SenderInv, StreamInv, NEW p \in Senders, conn' = conn,
           Begins(p) \/ Connects(p) \/ GivesUp(p) \/ Writes(p),
           NEW c \in Conns, NEW i, NEW n, Carries(c, i, n)'
    PROVE  \/ Carries(c, i, n)
           \/ /\ Writes(p) /\ written[p] = 1 /\ g_persistent_fd[p] = c
              /\ i = Len(Stream(c)) + 1 /\ Sending(p, n)
  <1> DEFINE b == Stream(c)
             d == Stream(c)'
             x == Frame(message[p])[written[p] + 1]
  <1>1. /\ ~conn[c].closing /\ i \in 1..Len(d) /\ i % 2 = 0 /\ d[i].msg.id = n
    BY Zenon DEF Carries
  <1>2. CASE d = b
    BY Zenon, <1>1, <1>2 DEF Carries
  <1>3. ASSUME Writes(p), g_persistent_fd[p] = c, d # b
        PROVE  Carries(c, i, n) \/ (written[p] = 1 /\ i = Len(b) + 1 /\ Sending(p, n))
    <2>1. Grown(b, d, x)
      BY Zenon, <1>3, StreamSender
    <2>2. /\ sock[c].rcv /\ attempt[p] # 0 /\ (written[p] = 0 \/ written[p] = 1)
      BY Zenon, <1>3 DEF Writes
    <2>3. Len(b) % 2 = written[p]
      BY Zenon, <1>1, <1>3, <2>2 DEF StreamInv
    <2>4. Len(b) \in Nat
      BY StreamType
    <2>5. x.msg = message[p]
      BY Zenon, <2>2, FrameFacts
    <2> HIDE DEF b, d, x
    <2>6. i \in 1..Len(b) \/ i = Len(b) + 1
      <3>1. i \in 1..(Len(b) + 1)
        BY Zenon, <1>1, <2>1 DEF Grown
      <3>2. QED
        BY Zenon, <2>4, <3>1, LastIndex
    <2>7. CASE i \in 1..Len(b)
      <3>1. d[i] = b[i]
        BY <2>1, <2>7 DEF Grown
      <3>2. QED
        BY Zenon, <1>1, <2>7, <3>1 DEF Carries, b
    <2>8. CASE i = Len(b) + 1
      <3>1. written[p] = 1
        BY Zenon, <1>1, <2>3, <2>4, <2>8, EvenAfterOdd
      <3>2. d[i] = x
        BY <2>1, <2>8 DEF Grown
      <3>3. QED
        BY Zenon, <1>1, <2>2, <2>5, <2>8, <3>1, <3>2 DEF Sending
    <2>9. QED
      BY Zenon, <2>6, <2>7, <2>8
  <1>4. QED
    BY Zenon, <1>2, <1>3, StreamSender

\* No step makes a second copy of a notification.
LEMMA OnceNext ==
    ASSUME TypeOK, TypeOK', SenderInv, ReadInv, ConnInv, StreamInv, OnceInv, [Next]_vars
    PROVE  OnceInv'
  <1>t. /\ parsed \in [1..MaxSends -> Nat] /\ sends \in 0..MaxSends /\ MaxSends \in Nat
        /\ \A m \in Notifications : m.id \in 1..MaxSends
    BY SockAssumption DEF TypeOK, Notifications
  <1>a. ASSUME NEW c \in Conns, NEW i, NEW n, Carries(c, i, n)
        PROVE  Unparsed(n) /\ \A q \in Senders : ~Sending(q, n)
    BY Zenon, <1>a DEF OnceInv
  <1>b. ASSUME NEW c \in Conns, NEW i, NEW d \in Conns, NEW j, NEW n,
               Carries(c, i, n), Carries(d, j, n)
        PROVE  c = d /\ i = j
    BY Zenon, <1>b DEF OnceInv
  <1>c. ASSUME NEW p \in Senders, NEW n, Sending(p, n)
        PROVE  Unparsed(n) /\ \A q \in Senders : Sending(q, n) => p = q
    BY Zenon, <1>c DEF OnceInv
  <1>1. ASSUME UNCHANGED <<conn, sock, parsed, senderVars>> PROVE OnceInv'
    <2>1. /\ \A n : Unparsed(n)' <=> Unparsed(n)
          /\ \A p \in Senders : \A n : Sending(p, n)' <=> Sending(p, n)
          /\ \A c \in Conns : \A i, n : Carries(c, i, n)' <=> Carries(c, i, n)
          /\ UNCHANGED <<parsed, sends>>
      BY Zenon, <1>1 DEF Carries, Stream, Sending, Unparsed, senderVars
    <2>2. QED
      <3>1. \A n \in 1..MaxSends : parsed'[n] <= 1 /\ (n > sends' => parsed'[n] = 0)
        BY Zenon, <2>1 DEF OnceInv
      <3>2. ASSUME NEW n, NEW q \in Senders, Sending(q, n)'
            PROVE  Unparsed(n)' /\ \A r \in Senders : Sending(r, n)' => q = r
        BY Zenon, <1>c, <2>1, <3>2
      <3>3. ASSUME NEW n, NEW i, NEW c \in Conns, Carries(c, i, n)'
            PROVE  /\ Unparsed(n)' /\ \A q \in Senders : ~Sending(q, n)'
                   /\ \A j : \A d \in Conns : Carries(d, j, n)' => c = d /\ i = j
        BY Zenon, <1>a, <1>b, <2>1, <3>3
      <3>4. QED
        BY Zenon, <3>1, <3>2, <3>3 DEF OnceInv
  <1>2. ASSUME LoopNext, UNCHANGED senderVars PROVE OnceInv'
    <2>1. /\ sends' = sends
          /\ \A q \in Senders : \A n : Sending(q, n)' <=> Sending(q, n)
      BY Zenon, <1>2 DEF Sending, senderVars
    <2>2. ASSUME NEW c \in Conns, NEW i, NEW n, Carries(c, i, n)'
          PROVE  /\ i \in Nat \ {0}
                 /\ IF ParseFrame(c) THEN Carries(c, i + 2, n) ELSE Carries(c, i, n)
      BY <1>2, <2>2, CarriesLoop
    <2>3. ASSUME NEW c \in Conns, NEW i, NEW d \in Conns, NEW j, NEW n,
                 Carries(c, i, n)', Carries(d, j, n)'
          PROVE  c = d /\ i = j
      <3>0. /\ Carries(c, i, n) \/ Carries(c, i + 2, n)
            /\ Carries(d, j, n) \/ Carries(d, j + 2, n)
        BY Zenon, <2>2, <2>3
      <3>1. c = d
        BY Zenon, <1>b, <3>0
      <3>2. i \in Nat /\ j \in Nat
        BY <2>2, <2>3
      <3>3. CASE ParseFrame(c)
        <4>1. i + 2 = j + 2
          <5>1. Carries(c, i + 2, n) /\ Carries(d, j + 2, n)
            BY Zenon, <2>2, <2>3, <3>1, <3>3
          <5>2. QED
            BY Zenon, <1>b, <5>1
        <4>2. QED
          BY <3>1, <3>2, <4>1
      <3>4. CASE ~ParseFrame(c)
        <4>1. Carries(c, i, n) /\ Carries(d, j, n)
          BY Zenon, <2>2, <2>3, <3>1, <3>4
        <4>2. QED
          BY Zenon, <1>b, <4>1
      <3>5. QED
        BY <3>3, <3>4
    <2>4. ASSUME NEW c \in Conns, NEW i, NEW n, Carries(c, i, n)'
          PROVE  Unparsed(n) /\ \A q \in Senders : ~Sending(q, n)
      <3>1. Carries(c, i, n) \/ Carries(c, i + 2, n)
        BY Zenon, <2>2, <2>4
      <3>2. QED
        BY Zenon, <1>a, <3>1
    <2>5. CASE parsed' = parsed
      <3>1. \A n : Unparsed(n)' <=> Unparsed(n)
        BY Zenon, <2>1, <2>5 DEF Unparsed
      <3>2. QED
        BY Zenon, <2>1, <2>3, <2>4, <2>5, <3>1 DEF OnceInv
    <2>6. ASSUME NEW c \in Conns, NEW m \in Notifications,
                 ParseFrame(c), Carries(c, 2, m.id),
                 parsed' = [parsed EXCEPT ![m.id] = @ + 1]
          PROVE  OnceInv'
      <3>1. Unparsed(m.id) /\ \A q \in Senders : ~Sending(q, m.id)
        BY Zenon, <2>6 DEF OnceInv
      <3>2. \A n : n # m.id => (Unparsed(n)' <=> Unparsed(n))
        BY <1>t, <2>1, <2>6 DEF Unparsed
      <3>3. \A n \in 1..MaxSends : parsed'[n] <= 1 /\ (n > sends' => parsed'[n] = 0)
        BY SMTT(60), <1>t, <2>1, <2>6, <3>1 DEF Unparsed, OnceInv
      <3>4. ASSUME NEW d \in Conns, NEW j, Carries(d, j, m.id)' PROVE FALSE
        <4>1. CASE d = c
          <5>1. j \in Nat \ {0} /\ Carries(c, j + 2, m.id)
            BY Zenon, <2>2, <2>6, <3>4, <4>1
          <5>2. j + 2 = 2
            BY Zenon, <1>b, <2>6, <5>1
          <5>3. QED
            BY <5>1, <5>2
        <4>2. CASE d # c
          <5>1. Carries(d, j, m.id) \/ Carries(d, j + 2, m.id)
            BY Zenon, <2>2, <3>4
          <5>2. QED
            BY Zenon, <1>b, <2>6, <4>2, <5>1
        <4>3. QED
          BY <4>1, <4>2
      <3>5. ASSUME NEW n, NEW q \in Senders, Sending(q, n)'
            PROVE  Unparsed(n)' /\ \A r \in Senders : Sending(r, n)' => q = r
        BY ZenonT(60), <2>1, <3>1, <3>2, <3>5 DEF OnceInv
      <3>6. ASSUME NEW n, NEW i, NEW d \in Conns, Carries(d, i, n)'
            PROVE  Unparsed(n)' /\ \A q \in Senders : ~Sending(q, n)'
        BY Zenon, <2>1, <2>4, <3>2, <3>4, <3>6
      <3>7. QED
        BY Zenon, <2>3, <3>3, <3>5, <3>6 DEF OnceInv
    <2>7. QED
      BY Zenon, <1>2, <2>5, <2>6, ParsedLoop
  <1>3. ASSUME NEW p \in Senders, SenderStep(p), UNCHANGED loopVars PROVE OnceInv'
    <2>1. conn' = conn /\ parsed' = parsed
      BY Zenon, <1>3 DEF loopVars, connVars, dispatchVars
    <2>2. Begins(p) \/ Connects(p) \/ GivesUp(p) \/ Writes(p)
      BY Zenon, <1>3, SenderEffect
    <2>3. \A q \in Senders \ {p} : \A n : Sending(q, n)' <=> Sending(q, n)
      BY Zenon, <1>3, SenderEffect DEF Sending
    <2>4. ASSUME NEW c \in Conns, NEW i, NEW n, Carries(c, i, n)'
          PROVE  \/ Carries(c, i, n)
                 \/ /\ Writes(p) /\ written[p] = 1 /\ g_persistent_fd[p] = c
                    /\ i = Len(Stream(c)) + 1 /\ Sending(p, n)
      BY Zenon, <2>1, <2>2, <2>4, CarriesSender
    <2>5. CASE Begins(p)
      <3>1. /\ sends' = sends + 1 /\ sends + 1 \in 1..MaxSends
            /\ \A n : Sending(p, n)' => n = sends + 1
        BY <1>t, <2>5 DEF Begins, Sending
      <3>2. ASSUME NEW n, Unparsed(n) PROVE Unparsed(n)' /\ n # sends + 1
        BY <1>t, <2>1, <3>1, <3>2 DEF Unparsed
      <3>3. \A n : n = sends + 1 => Unparsed(n)'
        <4>1. parsed[sends + 1] = 0
          BY <1>t, <3>1 DEF OnceInv
        <4>2. sends + 1 \in 1..(sends + 1)
          BY <1>t
        <4>3. QED
          BY Zenon, <2>1, <3>1, <4>1, <4>2 DEF Unparsed
      <3>4. \A n \in 1..MaxSends : parsed'[n] <= 1 /\ (n > sends' => parsed'[n] = 0)
        BY <1>t, <2>1, <3>1 DEF OnceInv
      <3>5. ASSUME NEW n, NEW q \in Senders, Sending(q, n)'
            PROVE  Unparsed(n)' /\ \A r \in Senders : Sending(r, n)' => q = r
        <4>1. CASE q = p
          <5>1. n = sends + 1
            BY Zenon, <3>1, <3>5, <4>1
          <5>2. ASSUME NEW r \in Senders, Sending(r, n)', r # p PROVE FALSE
            BY Zenon, <1>c, <2>3, <3>2, <5>1, <5>2
          <5>3. QED
            BY Zenon, <3>3, <4>1, <5>1, <5>2
        <4>2. CASE q # p
          <5>1. Sending(q, n) /\ Unparsed(n)
            BY Zenon, <1>c, <2>3, <3>5, <4>2
          <5>2. ~Sending(p, n)'
            BY Zenon, <3>1, <3>2, <5>1
          <5>3. QED
            BY Zenon, <1>c, <2>3, <3>2, <5>1, <5>2
        <4>3. QED
          BY <4>1, <4>2
      <3>6. ASSUME NEW n, NEW i, NEW c \in Conns, Carries(c, i, n)'
            PROVE  /\ Carries(c, i, n)
                   /\ Unparsed(n)' /\ \A q \in Senders : ~Sending(q, n)'
        <4>1. Carries(c, i, n)
          <5>1. ~Sending(p, n)
            BY Zenon, <2>5 DEF Begins, Sending
          <5>2. QED
            BY Zenon, <2>4, <3>6, <5>1
        <4>2. QED
          BY Zenon, <2>3, <3>1, <3>2, <4>1 DEF OnceInv
      <3>7. QED
        BY ZenonT(60), <3>4, <3>5, <3>6 DEF OnceInv
    <2>6. ASSUME sends' = sends PROVE \A n : Unparsed(n)' <=> Unparsed(n)
      BY Zenon, <2>1, <2>6 DEF Unparsed
    <2>7. CASE Connects(p) \/ GivesUp(p) \/ (Writes(p) /\ written[p] = 0)
      <3>1. sends' = sends /\ \A n : Sending(p, n)' => Sending(p, n)
        BY Zenon, <2>7 DEF Connects, GivesUp, Writes, Sending
      <3>2. ASSUME NEW c \in Conns, NEW i, NEW n, Carries(c, i, n)'
            PROVE  Carries(c, i, n)
        <4>1. ~(Writes(p) /\ written[p] = 1)
          BY <2>7, SockAssumption DEF Connects, GivesUp, Writes
        <4>2. QED
          BY Zenon, <2>4, <3>2, <4>1
      <3>3. QED
        <4>1. \A q \in Senders : \A n : Sending(q, n)' => Sending(q, n)
          BY Zenon, <2>3, <3>1
        <4>2. \A n \in 1..MaxSends : parsed'[n] <= 1 /\ (n > sends' => parsed'[n] = 0)
          BY Zenon, <2>1, <3>1 DEF OnceInv
        <4>3. \A n : Unparsed(n)' <=> Unparsed(n)
          BY Zenon, <2>6, <3>1
        <4>4. ASSUME NEW n, NEW q \in Senders, Sending(q, n)'
              PROVE  Unparsed(n)' /\ \A r \in Senders : Sending(r, n)' => q = r
          BY Zenon, <1>c, <4>1, <4>3, <4>4
        <4>5. ASSUME NEW n, NEW i, NEW c \in Conns, Carries(c, i, n)'
              PROVE  /\ Unparsed(n)' /\ \A q \in Senders : ~Sending(q, n)'
                     /\ \A j : \A d \in Conns : Carries(d, j, n)' => c = d /\ i = j
          BY Zenon, <1>a, <1>b, <3>2, <4>1, <4>3, <4>5
        <4>6. QED
          BY Zenon, <4>2, <4>4, <4>5 DEF OnceInv
    <2>8. CASE Writes(p) /\ written[p] = 1
      <3>1. sends' = sends /\ \A n : ~Sending(p, n)'
        <4>1. written[p] # 0
          BY <2>8
        <4>2. QED
          BY Zenon, <2>8, <4>1 DEF Writes, Sending
      <3>2. ASSUME NEW n, NEW i, NEW c \in Conns, Carries(c, i, n)'
            PROVE  /\ Unparsed(n) /\ \A q \in Senders : ~Sending(q, n)'
                   /\ \A j : \A d \in Conns : Carries(d, j, n)' => c = d /\ i = j
        <4>1. CASE Carries(c, i, n)
          BY Zenon, <2>3, <2>4, <3>1, <4>1 DEF OnceInv
        <4>2. CASE g_persistent_fd[p] = c /\ i = Len(Stream(c)) + 1 /\ Sending(p, n)
          BY ZenonT(60), <2>3, <2>4, <3>1, <4>2 DEF OnceInv
        <4>3. QED
          BY Zenon, <2>4, <3>2, <4>1, <4>2
      <3>3. QED
        BY Zenon, <2>1, <2>3, <2>6, <3>1, <3>2 DEF OnceInv
    <2>9. written[p] = 0 \/ written[p] = 1
      <3>1. written \in [Senders -> 0..1]
        BY Zenon DEF TypeOK
      <3>2. QED
        BY <3>1
    <2>10. QED
      BY Zenon, <2>2, <2>5, <2>7, <2>8, <2>9
  <1>4. QED
    <2>1. CASE UNCHANGED vars
      BY Zenon, <1>1, <2>1 DEF vars, loopVars, connVars, dispatchVars
    <2>2. QED
      BY Zenon, <1>2, <1>3, <2>1 DEF Next
=============================================================================
