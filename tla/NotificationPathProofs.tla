----------------------- MODULE NotificationPathProofs -----------------------
(***************************************************************************)
(* The worker's side of the notification path for any number of senders,   *)
(* connections, keys and notifications: the contexts outlive their         *)
(* handles, a held origin refresh has an item in flight, and a shutdown    *)
(* that did not time out stops an idle loop.  Then delivery: the framing   *)
(* stays aligned, no notification is parsed twice, and the counters that   *)
(* the shutdown waits for are exact.                                       *)
(***************************************************************************)
EXTENDS NotificationPathLemmas, FiniteSetTheorems

(* The counters.                                                           *)

\* DispatchNotification counts what it queues.
LEMMA DispatchCount ==
    ASSUME NEW m, NEW urls, NEW pending, NEW items, NEW n \in Nat,
           IsFiniteSet(items), Cardinality(items) <= n,
           DispatchNotification(m, [urls |-> urls, pending |-> pending,
                                    work |-> items, count |-> n])
    PROVE  /\ IsFiniteSet(work') /\ Cardinality(work') <= in_flight_work'
           /\ in_flight_work' \in Nat
  <1> DEFINE item == [msg |-> m, done |-> FALSE]
  <1>1. \/ work' = items /\ in_flight_work' = n
        \/ work' = items \cup {item} /\ in_flight_work' = n + 1
    BY DEF DispatchNotification
  <1> HIDE DEF item
  <1>2. Cardinality(items) \in Nat
    BY FS_CardinalityType
  <1>3. /\ IsFiniteSet(items \cup {item})
        /\ Cardinality(items \cup {item}) <= Cardinality(items) + 1
        /\ Cardinality(items \cup {item}) \in Nat
    BY <1>2, FS_AddElement, FS_CardinalityType, SMTT(60)
  <1>4. QED
    BY <1>1, <1>2, <1>3, SMTT(60)

\* OnNotificationDone gives back the count of the item it removes.
LEMMA ReleasedCount ==
    ASSUME in_flight_work \in Nat, IsFiniteSet(work),
           Cardinality(work) <= in_flight_work, NEW w \in work
    PROVE  /\ Released(w).count \in Nat
           /\ IsFiniteSet(Released(w).work)
           /\ Cardinality(Released(w).work) <= Released(w).count
           /\ Released(w) = [urls |-> Released(w).urls,
                             pending |-> Released(w).pending,
                             work |-> Released(w).work,
                             count |-> Released(w).count]
  <1>1. /\ Released(w).work = work \ {w}
        /\ Released(w).count = in_flight_work - 1
    BY DEF Released
  <1>2. /\ IsFiniteSet(work \ {w}) /\ Cardinality(work \ {w}) = Cardinality(work) - 1
        /\ Cardinality(work) \in Nat /\ Cardinality(work \ {w}) \in Nat
    BY FS_RemoveElement, FS_CardinalityType, SMTT(60)
  <1>3. Released(w) = [urls |-> Released(w).urls, pending |-> Released(w).pending,
                       work |-> Released(w).work, count |-> Released(w).count]
    BY ZenonT(60) DEF Released
  <1>4. QED
    BY <1>1, <1>2, <1>3, SMTT(60)

\* The counters keep counting what the shutdown waits for.
LEMMA CountNext ==
    ASSUME TypeOK, ContextOutlivesHandles, ClientInv, CountInv, [Next]_vars
    PROVE  CountInv' /\ in_flight_work' \in Nat
  <1> DEFINE Items == /\ IsFiniteSet(work') /\ Cardinality(work') <= in_flight_work'
                      /\ in_flight_work' \in Nat
  <1>t. in_flight_work \in Nat /\ IsFiniteSet(work)
        /\ Cardinality(work) <= in_flight_work
    BY DEF TypeOK, CountInv
  <1>1. ASSUME UNCHANGED dispatchVars PROVE Items
    BY <1>1, <1>t DEF dispatchVars
  <1>2. ASSUME NEW c \in Conns, ParseFrame(c) PROVE Items
    <2> DEFINE m == conn[c].buffer[1].msg
    <2>1. \/ UNCHANGED dispatchVars
          \/ DispatchNotification(m,
                 [urls |-> in_flight_urls, pending |-> pending_origin_refresh,
                  work |-> work, count |-> in_flight_work])
      BY <1>2 DEF ParseFrame
    <2> HIDE DEF m
    <2>2. QED
      BY <2>1, <1>1, <1>t, DispatchCount, SMTT(60)
  <1>3. ASSUME NEW w \in work, OnNotificationWork(w) PROVE Items
    <2> DEFINE x == [w EXCEPT !.done = TRUE]
    <2>1. work' = (work \ {w}) \cup {x} /\ in_flight_work' = in_flight_work
      BY <1>3, SMTT(60) DEF OnNotificationWork
    <2> HIDE DEF x
    <2>2. /\ IsFiniteSet(work \ {w}) /\ Cardinality(work \ {w}) = Cardinality(work) - 1
          /\ Cardinality(work) \in Nat
      BY <1>t, FS_RemoveElement, FS_CardinalityType, SMTT(60)
    <2>3. /\ IsFiniteSet((work \ {w}) \cup {x})
          /\ Cardinality((work \ {w}) \cup {x}) \in
                 {Cardinality(work \ {w}), Cardinality(work \ {w}) + 1}
      BY <2>2, FS_AddElement
    <2>4. QED
      BY <2>1, <2>2, <2>3, <1>t
  <1>4. ASSUME NEW w \in work, OnNotificationDone(w) PROVE Items
    <2>1. ASSUME Held(w) # None PROVE Items
      BY <1>4, <2>1, <1>t, ReleasedCount, DispatchCount, ZenonT(60)
         DEF OnNotificationDone
    <2>2. ASSUME Held(w) = None PROVE Items
      BY <1>4, <2>2, <1>t, ReleasedCount DEF OnNotificationDone
    <2>3. QED
      BY <2>1, <2>2
  <1>5. Items
    BY <1>1, <1>2, <1>3, <1>4, DispatchCases, SMTT(60)
  <1>6. active_connections' = Cardinality(Live')
    <2>1. IsFiniteSet(Live) /\ Cardinality(Live) \in Nat
      <3>1. Live \in SUBSET Conns
        BY DEF Live
      <3>2. QED
        BY <3>1, LoopAssumption, FS_Subset, FS_CardinalityType
    <2>2. active_connections = Cardinality(Live)
      BY SMTT(60) DEF CountInv
    <2>3. QED
      BY <2>1, <2>2, LiveCases, FS_AddElement, FS_RemoveElement
  <1>7. QED
    BY <1>5, <1>6 DEF CountInv

-----------------------------------------------------------------------------
(* The shutdown and the types.                                             *)

\* Unless the timeout fired, the loop stops idle and stays idle.
LEMMA StopNext ==
    ASSUME LoopInv, CountInv', [Next]_vars
    PROVE  StopInv'
  <1> USE DEF LoopInv
  <1>1. StopStep
    BY StopSteps
  <1>2. /\ stop_flag' => shutting_down'
        /\ shutting_down' => ~listening'
        /\ shutdown_timer' = "open" => shutting_down'
    BY <1>1 DEF StopStep, StopInv
  <1>3. ASSUME stop_flag', ~forced' PROVE work' = {} /\ Live' = {}
    <2>1. CASE stop_flag
      <3>1. /\ work = {} /\ Live = {} /\ shutting_down /\ ~listening
        BY <1>1, <1>3, <2>1 DEF StopStep, StopInv, GracefulStopIsIdle, Live
      <3>2. Live' = {}
        BY <3>1, LiveCases, SMTT(60)
      <3>3. work' = {}
        BY <3>1, DispatchCases DEF ParseFrame, DispatchNotification, dispatchVars
      <3>4. QED
        BY <3>2, <3>3, SMTT(60)
    <2>2. CASE ~stop_flag
      <3>1. active_connections' = 0 /\ in_flight_work' = 0
        BY <1>1, <1>3, <2>2 DEF StopStep
      <3>2. /\ IsFiniteSet(work') /\ Cardinality(work') <= 0
            /\ Cardinality(Live') = 0
        BY <3>1 DEF CountInv
      <3>3. IsFiniteSet(Live')
        <4>1. Live' \in SUBSET Conns
          BY DEF Live
        <4>2. QED
          BY <4>1, LoopAssumption, FS_Subset
      <3>4. Cardinality(work') \in Nat
        BY <3>2, FS_CardinalityType, SMTT(60)
      <3>5. QED
        BY <3>2, <3>3, <3>4, FS_EmptySet
    <2>3. QED
      BY <2>1, <2>2
  <1>4. QED
    BY <1>2, <1>3 DEF StopInv, GracefulStopIsIdle, Live

\* active_connections_ stays between zero and max_connections.
LEMMA ActiveNext ==
    ASSUME TypeOK, ContextOutlivesHandles, ClientInv, CountInv, [Next]_vars
    PROVE  active_connections' \in 0..max_connections
  <1>1. active_connections \in 0..max_connections /\ max_connections \in Nat
    BY LoopAssumption DEF TypeOK
  <1>2. ASSUME NEW c \in Live PROVE active_connections > 0
    <2>1. Live \in SUBSET Conns
      BY DEF Live
    <2>2. IsFiniteSet(Live) /\ Cardinality(Live) \in Nat
      BY <2>1, LoopAssumption, FS_Subset, FS_CardinalityType
    <2>3. Cardinality(Live) # 0
      BY <1>2, <2>2, FS_EmptySet, SMTT(60)
    <2>4. QED
      BY <2>2, <2>3, SMTT(60) DEF CountInv
  <1>3. QED
    BY <1>1, <1>2, LiveCases, SMTT(60)

\* TypeOK is kept by every step.
LEMMA TypeNext ==
    ASSUME LoopInv, in_flight_work' \in Nat, [Next]_vars
    PROVE  TypeOK'
  <1> USE DEF LoopInv
  <1>1. DispatchType' /\ active_connections' \in 0..max_connections
    BY DispatchTypeNext, ActiveNext
  <1>2. SenderType' /\ ConnType' /\ StopType'
    <2>1. SenderType /\ ConnType /\ StopType
      BY SMTT(60) DEF TypeOK, SenderType, ConnType, SockType, StopType
    <2>2. CASE UNCHANGED vars
      BY <2>1, <2>2, SMTT(60) DEF vars, senderVars, loopVars, connVars, stopVars,
         SenderType, ConnType, SockType, StopType
    <2>3. ASSUME NEW p \in Senders, SenderStep(p), UNCHANGED loopVars
          PROVE  SenderType' /\ ConnType' /\ StopType'
      <3>1. SenderType' /\ SockType'
        BY <2>3, SenderTypeNext, SenderSockNext, SMTT(60)
      <3>2. QED
        BY <2>1, <2>3, <3>1 DEF loopVars, connVars, stopVars, ConnType, StopType
    <2>4. ASSUME LoopNext, UNCHANGED senderVars
          PROVE  SenderType' /\ ConnType' /\ StopType'
      <3>1. ConnType' /\ StopType'
        BY <2>4, ConnTypeNext, StopTypeNext, SMTT(60)
      <3>2. QED
        BY <2>1, <2>4, <3>1 DEF senderVars, SenderType
    <2>5. QED
      BY <2>2, <2>3, <2>4, SMTT(60) DEF Next
  <1>3. QED
    BY <1>1, <1>2 DEF TypeOK, DispatchType, SenderType, ConnType, SockType, StopType

-----------------------------------------------------------------------------
(* The theorems.                                                           *)

\* The initial state of the sockets, the senders and the loop.
LEMMA InitInv ==
    ASSUME Init
    PROVE  LoopInv
  <1> USE DEF Init, SockInit, SenderInit, LoopInit
  <1>1. <<>> \in Seq(Chunks)
    BY SMTT(60)
  <1>2. NoClient \in Client /\ Free \in Socket
    BY <1>1, SMTT(60) DEF NoClient, Client, Free, Socket, Handles
  <1>3. TypeOK
    <2>1. SenderType
      BY SockAssumption DEF SenderType
    <2>2. sock \in [Conns -> Socket] /\ conn \in [Conns -> Client]
      BY <1>2, SMTT(60)
    <2>3. DispatchType
      BY DEF DispatchType
    <2>4. StopType
      BY ZenonT(60) DEF StopType, Handles
    <2>5. /\ listening \in BOOLEAN /\ reading \in Conns \cup {None}
          /\ active_connections \in 0..max_connections /\ in_flight_work \in Nat
      BY LoopAssumption
    <2>6. QED
      BY <2>1, <2>2, <2>3, <2>4, <2>5, SMTT(60) DEF TypeOK, SenderType, DispatchType, StopType
  <1>4. /\ SenderInv /\ ContextOutlivesHandles /\ ClientInv /\ ReadInv
        /\ HeldRefreshHasItem /\ StopInv
    BY ZenonT(60) DEF SenderInv, ContextOutlivesHandles, ClientInv, ReadInv, HeldRefreshHasItem,
       StopInv, GracefulStopIsIdle, NoClient
  <1>5. CountInv
    <2>1. Live = {}
      BY DEF Live, NoClient
    <2>2. QED
      BY <2>1, FS_EmptySet, SMTT(60) DEF CountInv
  <1>6. QED
    BY <1>3, <1>4, <1>5, SMTT(60) DEF LoopInv

\* Every step keeps the inductive invariant.
LEMMA StepInv ==
    ASSUME LoopInv, [Next]_vars
    PROVE  LoopInv'
  <1>1. CountInv' /\ in_flight_work' \in Nat
    BY CountNext DEF LoopInv
  <1>2. TypeOK'
    BY <1>1, TypeNext
  <1>3. /\ SenderInv' /\ ContextOutlivesHandles' /\ ClientInv' /\ ReadInv'
        /\ HeldRefreshHasItem'
    BY SenderInvNext, ClientNext, ReadNext, HeldNext DEF LoopInv
  <1>4. StopInv'
    BY <1>1, StopNext
  <1>5. QED
    BY <1>1, <1>2, <1>3, <1>4 DEF LoopInv

\* The inductive invariant holds throughout.
LEMMA Invariant == Spec => []LoopInv
  <1>1. QED
    BY InitInv, StepInv, PTL DEF Spec

\* Every variable of the notification path stays in its type; in particular no
\* counter is decremented below zero and max_connections is never exceeded.
THEOREM TypeCorrect == Spec => []TypeOK
  <1>1. LoopInv => TypeOK
    BY DEF LoopInv
  <1>2. QED
    BY <1>1, Invariant, PTL

\* OnClientClose never frees a context that a handle can still call back into.
THEOREM ContextSafe == Spec => []ContextOutlivesHandles
  <1>1. LoopInv => ContextOutlivesHandles
    BY DEF LoopInv
  <1>2. QED
    BY <1>1, Invariant, PTL

\* A held origin refresh always has an item of its key in flight, and no key
\* has two.
THEOREM HeldSafe == Spec => []HeldRefreshHasItem
  <1>1. LoopInv => HeldRefreshHasItem
    BY DEF LoopInv
  <1>2. QED
    BY <1>1, Invariant, PTL

\* A shutdown that did not time out stops the loop with nothing in flight.
THEOREM StopSafe == Spec => []GracefulStopIsIdle
  <1>1. LoopInv => GracefulStopIsIdle
    BY DEF LoopInv, StopInv
  <1>2. QED
    BY <1>1, Invariant, PTL

-----------------------------------------------------------------------------
(* The queue against its counter.                                          *)

\* The queue and the held refreshes hold different notifications, all parsed,
\* and the counter counts the queue; h is the history of the parse loop.
ItemOK(h, pending, items, n) ==
    /\ IsFiniteSet(items) /\ n = Cardinality(items)
    /\ \A v \in items : h[v.msg.id] # 0 /\ \A w \in items : v.msg.id = w.msg.id => v = w
    /\ \A u \in Urls : pending[u] # None =>
          /\ h[pending[u].id] # 0 /\ \A v \in items : v.msg.id # pending[u].id
          /\ \A x \in Urls : pending[x] # None /\ pending[x].id = pending[u].id => x = u

ItemInv == ItemOK(parsed, pending_origin_refresh, work, in_flight_work)

\* Notification m is neither queued nor held.
Fresh(m, pending, items) ==
    /\ \A v \in items : v.msg.id # m.id
    /\ \A u \in Urls : pending[u] # None => pending[u].id # m.id

\* DispatchNotification of a new notification keeps the queue counted.
LEMMA DispatchItems ==
    ASSUME NEW m \in Notifications, NEW urls, NEW items, NEW n, NEW h,
           NEW pending \in [Urls -> Notifications \cup {None}],
           ItemOK(h, pending, items, n), Fresh(m, pending, items), h[m.id] # 0,
           DispatchNotification(m, [urls |-> urls, pending |-> pending,
                                    work |-> items, count |-> n])
    PROVE  ItemOK(h, pending_origin_refresh', work', in_flight_work')
  <1> DEFINE item == [msg |-> m, done |-> FALSE]
  <1>1. item.msg = m /\ m.url \in Urls
    BY DEF Notifications
  <1>2. \/ /\ pending_origin_refresh' = pending /\ work' = items /\ in_flight_work' = n
        \/ /\ pending_origin_refresh' = [pending EXCEPT ![m.url] = m]
           /\ work' = items /\ in_flight_work' = n
        \/ /\ pending_origin_refresh' = pending
           /\ work' = items \cup {item} /\ in_flight_work' = n + 1
    BY DEF DispatchNotification
  <1>3. CASE /\ pending_origin_refresh' = pending /\ work' = items /\ in_flight_work' = n
    BY Zenon, <1>3 DEF ItemOK
  <1>4. CASE /\ pending_origin_refresh' = [pending EXCEPT ![m.url] = m]
             /\ work' = items /\ in_flight_work' = n
    <2> DEFINE q == [pending EXCEPT ![m.url] = m]
    <2>1. /\ q[m.url] = m /\ \A u \in Urls : u # m.url => q[u] = pending[u]
      BY <1>1
    <2> HIDE DEF q
    <2>2. ASSUME NEW u \in Urls, q[u] # None
          PROVE  /\ h[q[u].id] # 0 /\ \A v \in items : v.msg.id # q[u].id
                 /\ \A x \in Urls : q[x] # None /\ q[x].id = q[u].id => x = u
      <3>1. CASE u = m.url
        BY Zenon, <2>1, <2>2, <3>1 DEF Fresh
      <3>2. CASE u # m.url
        <4>1. q[u] = pending[u] /\ pending[u] # None
          BY Zenon, <2>1, <2>2, <3>2
        <4>2. /\ h[pending[u].id] # 0 /\ \A v \in items : v.msg.id # pending[u].id
              /\ \A x \in Urls : pending[x] # None /\ pending[x].id = pending[u].id => x = u
              /\ pending[u].id # m.id
          BY Zenon, <4>1 DEF ItemOK, Fresh
        <4>3. ASSUME NEW x \in Urls, q[x] # None, q[x].id = q[u].id PROVE x = u
          BY Zenon, <2>1, <4>1, <4>2, <4>3
        <4>4. QED
          BY Zenon, <4>1, <4>2, <4>3
      <3>3. QED
        BY <3>1, <3>2
    <2>3. QED
      BY Zenon, <1>4, <2>2 DEF ItemOK, q
  <1>5. CASE /\ pending_origin_refresh' = pending
             /\ work' = items \cup {item} /\ in_flight_work' = n + 1
    <2> HIDE DEF item
    <2>1. item \notin items
      BY Zenon, <1>1 DEF Fresh
    <2>2. IsFiniteSet(items \cup {item}) /\ Cardinality(items \cup {item}) = n + 1
      BY Zenon, <2>1, FS_AddElement DEF ItemOK
    <2>3. ASSUME NEW v \in items \cup {item}
          PROVE  /\ h[v.msg.id] # 0
                 /\ \A w \in items \cup {item} : v.msg.id = w.msg.id => v = w
      BY Zenon, <1>1, <2>3 DEF ItemOK, Fresh
    <2>4. ASSUME NEW u \in Urls, pending[u] # None
          PROVE  \A v \in items \cup {item} : v.msg.id # pending[u].id
      BY Zenon, <1>1, <2>4 DEF ItemOK, Fresh
    <2>5. QED
      BY Zenon, <1>5, <2>2, <2>3, <2>4 DEF ItemOK
  <1>6. QED
    BY <1>2, <1>3, <1>4, <1>5

\* So does taking a finished item out, and its held refresh is new then.
LEMMA ReleasedItems ==
    ASSUME TypeOK, ItemInv, NEW w \in work
    PROVE  /\ ItemOK(parsed, Released(w).pending, Released(w).work, Released(w).count)
           /\ Held(w) # None => /\ Fresh(Held(w), Released(w).pending, Released(w).work)
                                /\ parsed[Held(w).id] # 0
  <1>t. /\ w.msg.url \in Urls
        /\ pending_origin_refresh \in [Urls -> Notifications \cup {None}]
    BY DEF TypeOK, Notifications
  <1> DEFINE q == Released(w).pending
  <1>1. Released(w).work = work \ {w} /\ Released(w).count = in_flight_work - 1
    BY DEF Released
  <1>2. /\ \A u \in Urls : q[u] = pending_origin_refresh[u] \/ q[u] = None
        /\ Held(w) # None => /\ Held(w) = pending_origin_refresh[w.msg.url]
                             /\ q[w.msg.url] = None
    <2>1. CASE w.msg.kind = "warmup"
      BY <2>1 DEF Released, Held
    <2>2. CASE w.msg.kind # "warmup"
      <3>1. q = [pending_origin_refresh EXCEPT ![w.msg.url] = None]
        BY <2>2 DEF Released
      <3> HIDE DEF q
      <3>2. Held(w) = pending_origin_refresh[w.msg.url]
        BY Zenon, <2>2 DEF Held
      <3>3. QED
        BY <1>t, <3>1, <3>2
    <2>3. QED
      BY <2>1, <2>2
  <1> HIDE DEF q
  <1>3. IsFiniteSet(work \ {w}) /\ in_flight_work - 1 = Cardinality(work \ {w})
    BY FS_RemoveElement, FS_CardinalityType DEF ItemInv, ItemOK
  <1>4. ASSUME NEW v \in work \ {w}
        PROVE  /\ parsed[v.msg.id] # 0
               /\ \A x \in work \ {w} : v.msg.id = x.msg.id => v = x
    BY Zenon, <1>4 DEF ItemInv, ItemOK
  <1>5. ASSUME NEW u \in Urls, q[u] # None
        PROVE  /\ parsed[q[u].id] # 0 /\ \A v \in work \ {w} : v.msg.id # q[u].id
               /\ \A x \in Urls : q[x] # None /\ q[x].id = q[u].id => x = u
    BY Zenon, <1>2, <1>5 DEF ItemInv, ItemOK
  <1>6. ASSUME Held(w) # None
        PROVE  Fresh(Held(w), q, work \ {w}) /\ parsed[Held(w).id] # 0
    <2> DEFINE m == Held(w)
    <2>1. m = pending_origin_refresh[w.msg.url] /\ m # None /\ q[w.msg.url] = None
      BY Zenon, <1>2, <1>6
    <2> HIDE DEF m
    <2>2. /\ parsed[m.id] # 0 /\ \A v \in work : v.msg.id # m.id
          /\ \A x \in Urls : pending_origin_refresh[x] # None
                /\ pending_origin_refresh[x].id = m.id => x = w.msg.url
      BY Zenon, <1>t, <2>1 DEF ItemInv, ItemOK
    <2>3. \A u \in Urls : q[u] # None => q[u].id # m.id
      BY Zenon, <1>2, <2>1, <2>2
    <2>4. QED
      BY Zenon, <2>2, <2>3 DEF Fresh, m
  <1>7. QED
    BY Zenon, <1>1, <1>3, <1>4, <1>5, <1>6 DEF ItemOK, q

\* in_flight_work_ counts the queue in every step.
LEMMA ItemNext ==
    ASSUME TypeOK, ReadInv, StreamInv, OnceInv, HeldRefreshHasItem, ItemInv, [Next]_vars
    PROVE  ItemInv'
  <1>t. /\ pending_origin_refresh \in [Urls -> Notifications \cup {None}]
        /\ parsed \in [1..MaxSends -> Nat]
        /\ work \subseteq [msg : Notifications, done : BOOLEAN]
        /\ \A m \in Notifications : m.id \in 1..MaxSends
    BY DEF TypeOK, Notifications
  <1>1. CASE UNCHANGED dispatchVars
    BY Zenon, <1>1 DEF ItemInv, dispatchVars
  <1>2. ASSUME NEW c \in Conns, ParseFrame(c) PROVE ItemInv'
    <2> DEFINE m == conn[c].buffer[1].msg
               s == [urls |-> in_flight_urls, pending |-> pending_origin_refresh,
                     work |-> work, count |-> in_flight_work]
    <2>1. m \in Notifications
      BY <1>2, ParsedMessage
    <2>2. parsed[m.id] = 0
      BY Zenon, <1>2, ParsedCarried DEF OnceInv, Unparsed
    <2>3. \/ UNCHANGED dispatchVars
          \/ parsed' = [parsed EXCEPT ![m.id] = @ + 1] /\ DispatchNotification(m, s)
      BY <1>2 DEF ParseFrame
    <2> HIDE DEF m
    <2>4. ASSUME parsed' = [parsed EXCEPT ![m.id] = @ + 1], DispatchNotification(m, s)
          PROVE  ItemInv'
      <3>1. parsed'[m.id] # 0 /\ \A k \in 1..MaxSends : parsed[k] # 0 => parsed'[k] # 0
        BY <1>t, <2>1, <2>4
      <3>2. /\ \A v \in work : v.msg.id \in 1..MaxSends
            /\ \A u \in Urls : pending_origin_refresh[u] # None =>
                  pending_origin_refresh[u].id \in 1..MaxSends
        BY <1>t
      <3>3. ItemOK(parsed', pending_origin_refresh, work, in_flight_work)
        BY Zenon, <3>1, <3>2 DEF ItemInv, ItemOK
      <3>4. Fresh(m, pending_origin_refresh, work)
        BY Zenon, <2>2 DEF Fresh, ItemInv, ItemOK
      <3>5. ItemOK(parsed', pending_origin_refresh', work', in_flight_work')
        BY Zenon, <1>t, <2>1, <2>4, <3>1, <3>3, <3>4, DispatchItems
      <3>6. QED
        BY Zenon, <3>5 DEF ItemInv
    <2>5. QED
      BY <1>1, <2>3, <2>4
  <1>3. ASSUME NEW w \in work, OnNotificationWork(w) PROVE ItemInv'
    <2> DEFINE x == [w EXCEPT !.done = TRUE]
    <2>1. x.msg = w.msg /\ x.done = TRUE
      BY <1>t
    <2>2. /\ work' = (work \ {w}) \cup {x} /\ ~w.done
          /\ UNCHANGED <<in_flight_work, parsed, pending_origin_refresh>>
      BY <1>3 DEF OnNotificationWork
    <2> HIDE DEF x
    <2>3. x \notin work
      BY Zenon, <2>1, <2>2 DEF ItemInv, ItemOK
    <2>4. /\ IsFiniteSet(work \ {w}) /\ in_flight_work - 1 = Cardinality(work \ {w})
          /\ in_flight_work \in Nat
      BY FS_RemoveElement, FS_CardinalityType DEF ItemInv, ItemOK
    <2>5. /\ IsFiniteSet((work \ {w}) \cup {x})
          /\ in_flight_work = Cardinality((work \ {w}) \cup {x})
      <3> DEFINE rest == work \ {w}
      <3>1. x \notin rest /\ IsFiniteSet(rest) /\ Cardinality(rest) = in_flight_work - 1
        BY <2>3, <2>4
      <3> HIDE DEF rest
      <3>2. /\ IsFiniteSet(rest \cup {x})
            /\ Cardinality(rest \cup {x}) = Cardinality(rest) + 1
        BY <3>1, FS_AddElement
      <3>3. in_flight_work = Cardinality(rest \cup {x})
        BY <2>4, <3>1, <3>2
      <3>4. QED
        BY Zenon, <3>2, <3>3 DEF rest
    <2>6. \A v \in work' : \E y \in work :
             y.msg = v.msg /\ ((v = y /\ y # w) \/ (v = x /\ y = w))
      BY Zenon, <2>1, <2>2
    <2>7. ASSUME NEW v \in work'
          PROVE  parsed[v.msg.id] # 0 /\ \A y \in work' : v.msg.id = y.msg.id => v = y
      <3>1. PICK a \in work : a.msg = v.msg /\ ((v = a /\ a # w) \/ (v = x /\ a = w))
        BY Zenon, <2>6, <2>7
      <3>2. ASSUME NEW y \in work', v.msg.id = y.msg.id PROVE v = y
        <4>1. PICK b \in work : b.msg = y.msg /\ ((y = b /\ b # w) \/ (y = x /\ b = w))
          BY Zenon, <2>6, <3>2
        <4>2. a = b
          <5>1. a.msg.id = b.msg.id
            BY Zenon, <3>1, <3>2, <4>1
          <5>2. QED
            BY Zenon, <5>1 DEF ItemInv, ItemOK
        <4>3. CASE a = w
          <5>1. v = x /\ y = x
            BY <3>1, <4>1, <4>2, <4>3
          <5>2. QED
            BY <5>1
        <4>4. CASE a # w
          <5>1. v = a /\ y = b
            BY <3>1, <4>1, <4>2, <4>4
          <5>2. QED
            BY <4>2, <5>1
        <4>5. QED
          BY <4>3, <4>4
      <3>3. parsed[a.msg.id] # 0
        BY Zenon DEF ItemInv, ItemOK
      <3>4. QED
        BY Zenon, <3>1, <3>2, <3>3
    <2>8. ASSUME NEW u \in Urls, pending_origin_refresh[u] # None
          PROVE  \A v \in work' : v.msg.id # pending_origin_refresh[u].id
      <3>1. \A y \in work : y.msg.id # pending_origin_refresh[u].id
        BY Zenon, <2>8 DEF ItemInv, ItemOK
      <3>2. ASSUME NEW v \in work' PROVE v.msg.id # pending_origin_refresh[u].id
        <4>1. PICK y \in work : y.msg = v.msg
          BY Zenon, <2>6, <3>2
        <4>2. QED
          BY Zenon, <3>1, <4>1
      <3>3. QED
        BY Zenon, <3>2
    <2>9. QED
      BY Zenon, <2>2, <2>5, <2>7, <2>8 DEF ItemInv, ItemOK
  <1>4. ASSUME NEW w \in work, OnNotificationDone(w) PROVE ItemInv'
    <2>0. parsed' = parsed
      BY Zenon, <1>4 DEF OnNotificationDone
    <2>1. /\ ItemOK(parsed, Released(w).pending, Released(w).work, Released(w).count)
          /\ Held(w) # None => /\ Fresh(Held(w), Released(w).pending, Released(w).work)
                               /\ parsed[Held(w).id] # 0
      BY ReleasedItems
    <2>2. /\ Released(w).pending \in [Urls -> Notifications \cup {None}]
          /\ Released(w) = [urls |-> Released(w).urls,
                            pending |-> Released(w).pending,
                            work |-> Released(w).work,
                            count |-> Released(w).count]
      BY ReleasedHeld
    <2>3. CASE Held(w) # None
      <3>1. Held(w) \in Notifications
        BY <2>3 DEF Held, TypeOK, Notifications
      <3>2. DispatchNotification(Held(w), Released(w))
        BY Zenon, <1>4, <2>3 DEF OnNotificationDone
      <3>3. ItemOK(parsed, pending_origin_refresh', work', in_flight_work')
        BY <2>1, <2>2, <2>3, <3>1, <3>2, DispatchItems, ZenonT(60)
      <3>4. QED
        BY Zenon, <2>0, <3>3 DEF ItemInv
    <2>4. CASE Held(w) = None
      <3>1. ItemOK(parsed, pending_origin_refresh', work', in_flight_work')
        BY Zenon, <1>4, <2>1, <2>4 DEF OnNotificationDone
      <3>2. QED
        BY Zenon, <2>0, <3>1 DEF ItemInv
    <2>5. QED
      BY <2>3, <2>4
  <1>5. QED
    BY <1>1, <1>2, <1>3, <1>4, DispatchCases

-----------------------------------------------------------------------------
(* The theorems about delivery.                                            *)

\* The inductive invariant of delivery, on top of LoopInv.  That work holds no
\* item twice needs OnceInv, OnceInv needs to know where the frames of a
\* connection begin, and that needs each connection to have one writer.
DeliveryInv == ConnInv /\ LinkInv /\ StreamInv /\ OnceInv /\ ItemInv

\* Nothing has been written, read or parsed.
LEMMA DeliveryInit ==
    ASSUME Init
    PROVE  DeliveryInv
  <1> USE DEF Init, SockInit, SenderInit, LoopInit
  <1>1. ASSUME NEW c \in Conns
        PROVE  /\ conn[c] = NoClient /\ sock[c] = Free /\ ConnOK(conn[c], sock[c])
               /\ Len(Stream(c)) = 0
    <2>1. conn[c] = NoClient /\ sock[c] = Free
      BY Zenon
    <2>2. ConnOK(NoClient, Free)
      BY DEF ConnOK, Untouched, NoClient, Free
    <2>3. NoClient.buffer = <<>> /\ Free.data = <<>>
      BY DEF NoClient, Free
    <2>4. Len(<<>> \o <<>>) = 0
      OBVIOUS
    <2>5. QED
      BY Zenon, <2>1, <2>2, <2>3, <2>4 DEF Stream
  <1>2. ConnInv
    BY Zenon, <1>1 DEF ConnInv
  <1>3. LinkInv
    BY Zenon DEF LinkInv
  <1>4. 1..0 = {} /\ 0 % 2 = 0 /\ 0 # 1
    OBVIOUS
  <1>5. StreamInv
    <2>1. ASSUME NEW c \in Conns
          PROVE  /\ WellFormed(Stream(c))
                 /\ \A p \in Senders : Len(Stream(c)) % 2 = written[p] /\ written[p] # 1
      BY Zenon, <1>1, <1>4, <2>1 DEF WellFormed
    <2>2. QED
      BY Zenon, <2>1 DEF StreamInv
  <1>6. OnceInv
    <2>1. ASSUME NEW c \in Conns, NEW i, NEW n PROVE ~Carries(c, i, n)
      BY Zenon, <1>1, <1>4, <2>1 DEF Carries
    <2>2. ASSUME NEW p \in Senders, NEW n PROVE ~Sending(p, n)
      BY Zenon DEF Sending
    <2>3. \A n \in 1..MaxSends : parsed[n] = 0 /\ parsed[n] <= 1
      OBVIOUS
    <2>4. QED
      BY Zenon, <2>1, <2>2, <2>3 DEF OnceInv
  <1>7. ItemInv
    BY FS_EmptySet DEF ItemInv, ItemOK
  <1>8. QED
    BY Zenon, <1>2, <1>3, <1>5, <1>6, <1>7 DEF DeliveryInv

\* Every step keeps the second invariant.
LEMMA DeliveryStep ==
    ASSUME LoopInv, LoopInv', DeliveryInv, [Next]_vars
    PROVE  DeliveryInv'
  <1>1. /\ TypeOK /\ TypeOK' /\ SenderInv /\ ReadInv /\ HeldRefreshHasItem
        /\ ConnInv /\ LinkInv /\ StreamInv /\ OnceInv /\ ItemInv
    BY Zenon DEF LoopInv, DeliveryInv
  <1>2. ConnInv' /\ LinkInv'
    BY <1>1, ConnNext, LinkNext
  <1>3. StreamInv'
    BY <1>1, StreamNext
  <1>4. OnceInv'
    BY <1>1, OnceNext
  <1>5. ItemInv'
    BY <1>1, ItemNext
  <1>6. QED
    BY Zenon, <1>2, <1>3, <1>4, <1>5 DEF DeliveryInv

\* The second invariant holds throughout.
LEMMA Delivery == Spec => []DeliveryInv
  <1>1. QED
    BY DeliveryInit, DeliveryStep, Invariant, PTL DEF Spec

\* OnClientRead never parses from the middle of a frame, however the writes of
\* the senders stop and resume and however connections are lost and remade.
THEOREM FramesSafe == Spec => []FramesAligned
  <1>1. ASSUME TypeOK, StreamInv PROVE FramesAligned
    <2>1. ASSUME NEW c \in Conns, ~conn[c].closing, NEW i \in 1..Len(Stream(c))
          PROVE  /\ Stream(c)[i] = Frame(Stream(c)[i].msg)[IF i % 2 = 1 THEN 1 ELSE 2]
                 /\ i % 2 = 0 => Stream(c)[i].msg = Stream(c)[i - 1].msg
      <3> DEFINE b == Stream(c)
      <3>1. b \in Seq(Chunks) /\ Len(b) \in Nat /\ WellFormed(b)
        BY <1>1, <2>1, StreamType DEF StreamInv
      <3>2. i \in 1..Len(b)
        BY <2>1
      <3> HIDE DEF b
      <3>3. b[i] \in Chunks
        BY <3>1, <3>2
      <3>4. /\ b[i].part = (IF i % 2 = 1 THEN 1 ELSE 2)
            /\ i % 2 = 0 => b[i].msg = b[i - 1].msg
        BY <3>1, <3>2 DEF WellFormed
      <3>5. b[i] = [msg |-> b[i].msg, part |-> b[i].part]
        BY <3>3 DEF Chunks
      <3>6. /\ Frame(b[i].msg)[1] = [msg |-> b[i].msg, part |-> 1]
            /\ Frame(b[i].msg)[2] = [msg |-> b[i].msg, part |-> 2]
        BY DEF Frame
      <3>7. b[i] = Frame(b[i].msg)[IF i % 2 = 1 THEN 1 ELSE 2]
        <4>1. CASE i % 2 = 1
          BY Zenon, <3>4, <3>5, <3>6, <4>1
        <4>2. CASE i % 2 # 1
          BY Zenon, <3>4, <3>5, <3>6, <4>2
        <4>3. QED
          BY <4>1, <4>2
      <3>8. QED
        BY Zenon, <3>4, <3>7 DEF b
    <2>2. QED
      BY Zenon, <2>1 DEF FramesAligned, Stream
  <1>2. LoopInv /\ DeliveryInv => FramesAligned
    BY <1>1 DEF LoopInv, DeliveryInv
  <1>3. QED
    BY <1>2, Invariant, Delivery, PTL

\* SendNotificationPersistent's second attempt, on a new connection, never
\* delivers a notification the first one delivered.
THEOREM DeliveredOnce == Spec => []DeliveredAtMostOnce
  <1>1. DeliveryInv => DeliveredAtMostOnce
    BY Zenon DEF DeliveryInv, OnceInv, DeliveredAtMostOnce
  <1>2. QED
    BY <1>1, Delivery, PTL

\* active_connections_ and in_flight_work_, which CheckShutdownComplete compares
\* with zero, count exactly the live contexts and the requests that are out.
THEOREM CountersSafe == Spec => []CountersExact
  <1>1. LoopInv /\ DeliveryInv => CountersExact
    BY Zenon DEF LoopInv, DeliveryInv, CountInv, Live, ItemInv, ItemOK, CountersExact
  <1>2. QED
    BY <1>1, Invariant, Delivery, PTL
-----------------------------------------------------------------------------
(* The contract of the notification path.                                  *)

\* What is held is an origin refresh of the key it is held under.
HeldInv ==
    \A u \in Urls : pending_origin_refresh[u] # None =>
        pending_origin_refresh[u].kind = "refresh" /\ pending_origin_refresh[u].url = u

\* DispatchNotification holds nothing else.
LEMMA DispatchKinds ==
    ASSUME NEW m \in Notifications, NEW urls, NEW items, NEW n,
           NEW pending \in [Urls -> Notifications \cup {None}],
           \A u \in Urls : pending[u] # None =>
               pending[u].kind = "refresh" /\ pending[u].url = u,
           DispatchNotification(m, [urls |-> urls, pending |-> pending,
                                    work |-> items, count |-> n])
    PROVE  HeldInv'
  <1>1. m.url \in Urls
    BY DEF Notifications
  <1>2. \/ pending_origin_refresh' = pending
        \/ m.kind = "refresh" /\ pending_origin_refresh' = [pending EXCEPT ![m.url] = m]
    BY DEF DispatchNotification
  <1>3. CASE pending_origin_refresh' = pending
    BY Zenon, <1>3 DEF HeldInv
  <1>4. CASE m.kind = "refresh" /\ pending_origin_refresh' = [pending EXCEPT ![m.url] = m]
    <2>1. ASSUME NEW u \in Urls
          PROVE  pending_origin_refresh'[u] = IF u = m.url THEN m ELSE pending[u]
      BY <1>1, <1>4
    <2>2. QED
      BY Zenon, <1>4, <2>1 DEF HeldInv
  <1>5. QED
    BY <1>2, <1>3, <1>4

\* Taking a finished item out forgets at most the refresh of its key.
LEMMA ReleasedPending ==
    ASSUME TypeOK, NEW w \in work
    PROVE  /\ w.msg.url \in Urls
           /\ w.msg.kind = "warmup" => Released(w).pending = pending_origin_refresh
           /\ w.msg.kind # "warmup" => Released(w).pending =
                 [pending_origin_refresh EXCEPT ![w.msg.url] = None]
           /\ \A u \in Urls : Released(w).pending[u] # None =>
                 Released(w).pending[u] = pending_origin_refresh[u]
  <1>1. /\ w.msg.url \in Urls
        /\ pending_origin_refresh \in [Urls -> Notifications \cup {None}]
    BY DEF TypeOK, Notifications
  <1>2. /\ w.msg.kind = "warmup" => Released(w).pending = pending_origin_refresh
        /\ w.msg.kind # "warmup" => Released(w).pending =
              [pending_origin_refresh EXCEPT ![w.msg.url] = None]
    BY DEF Released
  <1>3. QED
    BY Zenon, <1>1, <1>2

\* HeldInv is kept by every step.
LEMMA HeldKindNext ==
    ASSUME TypeOK, HeldRefreshHasItem, HeldInv, [Next]_vars
    PROVE  HeldInv'
  <1>t. pending_origin_refresh \in [Urls -> Notifications \cup {None}]
    BY Zenon DEF TypeOK
  <1>1. CASE pending_origin_refresh' = pending_origin_refresh
    BY Zenon, <1>1 DEF HeldInv
  <1>2. ASSUME NEW c \in Conns, ParseFrame(c) PROVE HeldInv'
    <2> DEFINE m == conn[c].buffer[1].msg
    <2>1. m \in Notifications
      BY <1>2, ParsedMessage
    <2>2. \/ pending_origin_refresh' = pending_origin_refresh
          \/ DispatchNotification(m, [urls |-> in_flight_urls,
                                      pending |-> pending_origin_refresh,
                                      work |-> work, count |-> in_flight_work])
      BY <1>2 DEF ParseFrame, dispatchVars
    <2> HIDE DEF m
    <2>3. QED
      BY Zenon, <1>1, <1>t, <2>1, <2>2, DispatchKinds DEF HeldInv
  <1>3. ASSUME NEW w \in work, OnNotificationDone(w) PROVE HeldInv'
    <2>1. \A u \in Urls : Released(w).pending[u] # None =>
             /\ Released(w).pending[u].kind = "refresh"
             /\ Released(w).pending[u].url = u
      BY Zenon, ReleasedPending DEF HeldInv
    <2>2. CASE Held(w) # None
      <3>1. Held(w) \in Notifications
        BY <2>2 DEF Held, TypeOK, Notifications
      <3>2. DispatchNotification(Held(w), Released(w))
        BY Zenon, <1>3, <2>2 DEF OnNotificationDone
      <3>3. QED
        BY ZenonT(60), <2>1, <3>1, <3>2, ReleasedHeld, DispatchKinds
    <2>3. CASE Held(w) = None
      <3>1. pending_origin_refresh' = Released(w).pending
        BY Zenon, <1>3, <2>3 DEF OnNotificationDone
      <3>2. QED
        BY Zenon, <2>1, <3>1 DEF HeldInv
    <2>4. QED
      BY <2>2, <2>3
  <1>4. ASSUME NEW w \in work, OnNotificationWork(w)
        PROVE  pending_origin_refresh' = pending_origin_refresh
    BY Zenon, <1>4 DEF OnNotificationWork
  <1>5. QED
    BY Zenon, <1>1, <1>2, <1>3, <1>4, DispatchCases DEF dispatchVars

\* The guard's set of keys is the contract's Busy.
LEMMA BusyKeys ==
    ASSUME NEW urls, NEW pending, NEW items, HeldOK(urls, pending, items), NEW u
    PROVE  u \in urls <=> Contract!Busy(u, items)
BY DEF HeldOK, Contract!Busy, Contract!Keyed

\* DispatchNotification of an arriving notification is one of the contract's
\* three ways to take it.
LEMMA DispatchTakes ==
    ASSUME HeldRefreshHasItem, NEW m,
           DispatchNotification(m, [urls |-> in_flight_urls,
                                    pending |-> pending_origin_refresh,
                                    work |-> work, count |-> in_flight_work])
    PROVE  Contract!Start(m) \/ Contract!Hold(m) \/ Contract!TurnAway(m)
  <1>1. m.url \in in_flight_urls <=> Contract!Busy(m.url, work)
    BY Zenon, BusyKeys DEF HeldOK, HeldRefreshHasItem
  <1>2. /\ work' = IF ~(shutting_down \/ m.kind = "refused")
                      /\ ~(m.kind # "warmup" /\ m.url \in in_flight_urls)
                   THEN work \cup {[msg |-> m, done |-> FALSE]} ELSE work
        /\ pending_origin_refresh' =
              IF /\ ~(shutting_down \/ m.kind = "refused")
                 /\ m.kind # "warmup" /\ m.url \in in_flight_urls /\ m.kind = "refresh"
              THEN [pending_origin_refresh EXCEPT ![m.url] = m]
              ELSE pending_origin_refresh
    BY DEF DispatchNotification
  <1>3. "refresh" # "warmup" /\ "refresh" # "refused"
    OBVIOUS
  <1>4. CASE shutting_down \/ m.kind = "refused"
    BY Zenon, <1>2, <1>4 DEF Contract!TurnAway
  <1>5. CASE /\ ~shutting_down /\ m.kind # "refused"
             /\ ~(m.kind # "warmup" /\ m.url \in in_flight_urls)
    BY Zenon, <1>1, <1>2, <1>5 DEF Contract!Start, Contract!Keyed, Contract!Item
  <1>6. CASE /\ ~shutting_down /\ m.kind # "refused"
             /\ m.kind # "warmup" /\ m.url \in in_flight_urls /\ m.kind = "refresh"
    BY Zenon, <1>1, <1>2, <1>6 DEF Contract!Hold
  <1>7. CASE /\ ~shutting_down /\ m.kind # "refused"
             /\ m.kind # "warmup" /\ m.url \in in_flight_urls /\ m.kind # "refresh"
    BY Zenon, <1>1, <1>2, <1>7 DEF Contract!TurnAway
  <1>8. QED
    BY Zenon, <1>4, <1>5, <1>6, <1>7

\* A turn of the parse loop takes a notification that was sent and not yet
\* taken.
LEMMA ParseTakes ==
    ASSUME LoopInv, DeliveryInv, NEW c \in Conns, ParseFrame(c), UNCHANGED senderVars
    PROVE  [Contract!CNext]_(Contract!cvars)
  <1> DEFINE m == conn[c].buffer[1].msg
  <1>i. /\ TypeOK /\ ReadInv /\ HeldRefreshHasItem /\ StreamInv /\ OnceInv
    BY Zenon DEF LoopInv, DeliveryInv
  <1>1. m \in Notifications /\ m \in Contract!Asked
    BY <1>i, ParsedMessage DEF Notifications, Contract!Asked
  <1>2. m.id \in 1..sends /\ parsed[m.id] = 0
    BY Zenon, <1>i, ParsedCarried DEF OnceInv, Unparsed
  <1>3. sends' = sends /\ shutting_down' = shutting_down
    BY Zenon DEF ParseFrame, senderVars, stopVars
  <1>4. \/ UNCHANGED dispatchVars
        \/ /\ parsed' = [parsed EXCEPT ![m.id] = @ + 1]
           /\ DispatchNotification(m, [urls |-> in_flight_urls,
                                       pending |-> pending_origin_refresh,
                                       work |-> work, count |-> in_flight_work])
    BY DEF ParseFrame
  <1> HIDE DEF m
  <1>5. CASE UNCHANGED dispatchVars
    BY Zenon, <1>3, <1>5 DEF dispatchVars, Contract!cvars
  <1>6. CASE /\ parsed' = [parsed EXCEPT ![m.id] = @ + 1]
             /\ DispatchNotification(m, [urls |-> in_flight_urls,
                                         pending |-> pending_origin_refresh,
                                         work |-> work, count |-> in_flight_work])
    <2>1. m.id <= sends
      BY <1>2, <1>i DEF TypeOK
    <2>2. parsed' = [parsed EXCEPT ![m.id] = 1]
      BY <1>2, <1>6
    <2>3. Contract!Start(m) \/ Contract!Hold(m) \/ Contract!TurnAway(m)
      BY Zenon, <1>i, <1>6, DispatchTakes
    <2>4. Contract!Take(m)
      BY Zenon, <1>2, <1>3, <2>1, <2>2, <2>3 DEF Contract!Take
    <2>5. QED
      BY Zenon, <1>1, <2>4 DEF Contract!CNext
  <1>7. QED
    BY Zenon, <1>4, <1>5, <1>6

\* OnNotificationDone ends an item, and the refresh held behind it follows.
LEMMA DoneFinishes ==
    ASSUME LoopInv, HeldInv, NEW w \in work, OnNotificationDone(w), UNCHANGED senderVars
    PROVE  Contract!Finish(w) \/ Contract!FinishHeld(w)
  <1> DEFINE u == w.msg.url
  <1>i. TypeOK /\ HeldRefreshHasItem
    BY Zenon DEF LoopInv
  <1>1. /\ w.done /\ sends' = sends /\ shutting_down' = shutting_down
        /\ parsed' = parsed
    BY Zenon DEF OnNotificationDone, senderVars
  <1>2. /\ u \in Urls
        /\ pending_origin_refresh \in [Urls -> Notifications \cup {None}]
    BY <1>i DEF TypeOK, Notifications
  <1>3. /\ Released(w).work = work \ {w}
        /\ w.msg.kind # "warmup" => Released(w).urls = in_flight_urls \ {u}
    BY DEF Released
  <1>4. CASE Held(w) = None
    <2>1. work' = work \ {w} /\ pending_origin_refresh' = Released(w).pending
      BY Zenon, <1>3, <1>4 DEF OnNotificationDone
    <2>2. w.msg.kind # "warmup" => pending_origin_refresh[u] = None
      BY Zenon, <1>4 DEF Held
    <2>3. Released(w).pending = pending_origin_refresh
      <3>1. pending_origin_refresh[u] = None =>
               [pending_origin_refresh EXCEPT ![u] = None] = pending_origin_refresh
        BY <1>2
      <3>2. QED
        BY Zenon, <1>i, <2>2, <3>1, ReleasedPending
    <2>4. QED
      BY Zenon, <1>1, <2>1, <2>2, <2>3 DEF Contract!Finish, Contract!Keyed
  <1>5. CASE Held(w) # None
    <2> DEFINE m == Held(w)
    <2>1. w.msg.kind # "warmup" /\ m = pending_origin_refresh[u] /\ m # None
      BY Zenon, <1>5 DEF Held
    <2>2. m.kind = "refresh" /\ m.url = u
      BY Zenon, <1>2, <2>1 DEF HeldInv
    <2>3. DispatchNotification(m, Released(w))
      BY Zenon, <1>5 DEF OnNotificationDone
    <2>4. Released(w).pending = [pending_origin_refresh EXCEPT ![u] = None]
      BY Zenon, <1>i, <2>1, ReleasedPending
    <2>5. u \notin Released(w).urls
      BY Zenon, <1>3, <2>1
    <2>6. ~Contract!Busy(u, work \ {w})
      <3>1. HeldOK(Released(w).urls, Released(w).pending, work \ {w})
        BY Zenon, <1>i, <1>3, ReleasedHeld
      <3>2. QED
        BY Zenon, <2>5, <3>1, BusyKeys
    <2> HIDE DEF m
    <2>7. /\ work' = IF shutting_down THEN Released(w).work
                     ELSE Released(w).work \cup {[msg |-> m, done |-> FALSE]}
          /\ pending_origin_refresh' = Released(w).pending
      BY <2>2, <2>3, <2>5 DEF DispatchNotification
    <2>8. QED
      BY Zenon, <1>1, <1>3, <2>1, <2>2, <2>4, <2>6, <2>7
         DEF Contract!FinishHeld, Contract!Keyed, Contract!Item
  <1>6. QED
    BY <1>4, <1>5

\* Every step of the senders and of the worker is a step of the contract.
LEMMA ContractStep ==
    ASSUME LoopInv, DeliveryInv, HeldInv, [Next]_vars
    PROVE  [Contract!CNext]_(Contract!cvars)
  <1>1. CASE UNCHANGED vars
    BY Zenon, <1>1 DEF vars, senderVars, loopVars, dispatchVars, stopVars, Contract!cvars
  <1>2. ASSUME NEW p \in Senders, SenderStep(p), UNCHANGED loopVars
        PROVE  [Contract!CNext]_(Contract!cvars)
    <2>1. UNCHANGED <<parsed, work, pending_origin_refresh, shutting_down>>
      BY Zenon, <1>2 DEF loopVars, dispatchVars, stopVars
    <2>2. sends' = sends \/ (sends < MaxSends /\ sends' = sends + 1)
      BY Zenon, <1>2 DEF SenderStep, SendNotificationPersistent, EnsureConnected,
         ConnectFails, WriteAll, WriteFails, ProcessExit
    <2>3. QED
      BY Zenon, <2>1, <2>2 DEF Contract!CNext, Contract!Send, Contract!cvars
  <1>3. ASSUME LoopNext, UNCHANGED senderVars
        PROVE  [Contract!CNext]_(Contract!cvars)
    <2>1. sends' = sends
      BY Zenon, <1>3 DEF senderVars
    <2>2. CASE UNCHANGED dispatchVars
      <3>1. shutting_down => shutting_down'
        <4>1. TypeOK /\ StopInv
          BY Zenon DEF LoopInv
        <4>2. StopStep
          BY Zenon, <4>1, StopSteps
        <4>3. QED
          BY Zenon, <4>2 DEF StopStep
      <3>2. UNCHANGED <<parsed, work, pending_origin_refresh>>
        BY Zenon, <2>2 DEF dispatchVars
      <3>3. shutting_down \in BOOLEAN /\ shutting_down' \in BOOLEAN
        BY Zenon, StepInv DEF LoopInv, TypeOK
      <3>4. shutting_down' = shutting_down \/ (~shutting_down /\ shutting_down' = TRUE)
        BY Zenon, <3>1, <3>3
      <3>5. QED
        BY Zenon, <2>1, <3>2, <3>4 DEF Contract!CNext, Contract!Stop, Contract!cvars
    <2>3. CASE \E c \in Conns : ParseFrame(c)
      BY Zenon, <1>3, <2>3, ParseTakes
    <2>4. CASE \E w \in work : OnNotificationWork(w)
      <3>1. PICK w \in work : OnNotificationWork(w)
        BY Zenon, <2>4
      <3>2. Contract!Run(w)
        BY Zenon, <2>1, <3>1 DEF OnNotificationWork, stopVars, Contract!Run
      <3>3. QED
        BY Zenon, <3>2 DEF Contract!CNext
    <2>5. CASE \E w \in work : OnNotificationDone(w)
      <3>1. PICK w \in work : OnNotificationDone(w)
        BY Zenon, <2>5
      <3>2. Contract!Finish(w) \/ Contract!FinishHeld(w)
        BY Zenon, <1>3, <3>1, DoneFinishes
      <3>3. QED
        BY Zenon, <3>2 DEF Contract!CNext
    <2>6. QED
      BY Zenon, <2>2, <2>3, <2>4, <2>5, DispatchCases
  <1>4. QED
    BY Zenon, <1>1, <1>2, <1>3 DEF Next

\* For any number of senders, connections, keys and notifications the path
\* implements its contract: every notification the worker parses was sent and
\* had not been parsed before, it runs alone on its key unless it may be turned
\* away, and the origin refresh DispatchNotification holds follows the item it
\* waited for.
THEOREM ContractRefined == Spec => NotificationsHandled
  <1>1. Init => Contract!CInit /\ HeldInv
    BY DEF Init, SenderInit, LoopInit, Contract!CInit, HeldInv
  <1>2. LoopInv /\ HeldInv /\ [Next]_vars => HeldInv'
    BY Zenon, HeldKindNext DEF LoopInv
  <1>3. LoopInv /\ DeliveryInv /\ HeldInv /\ [Next]_vars => [Contract!CNext]_(Contract!cvars)
    BY Zenon, ContractStep
  <1>4. QED
    BY <1>1, <1>2, <1>3, Invariant, Delivery, PTL DEF Spec, NotificationsHandled, Contract!CSpec
=============================================================================
