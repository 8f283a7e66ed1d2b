------------------------ MODULE BrowserAnalysisProofs ------------------------
(***************************************************************************)
(* The inductive invariant of the browser analysis manager, ManagerInv,    *)
(* for every set of templates, any number of pool threads and viewports    *)
(* and any queue size, with no bound on faults or notifications: what the  *)
(* queue holds, which calls may be nested in which, what a retry and a     *)
(* pool thread carry; and, with a strengthening of its own, that a         *)
(* template is recorded as analysed only once its profile was written.     *)
(* AnalysisOutcomeProofs builds on it.                                     *)
(***************************************************************************)
EXTENDS BrowserAnalysisManager, FiniteSetTheorems, SequenceTheorems, TLAPS

\* The items the manager queues: all of one priority.
AnalysisItem ==
    {x \in [template : Templates, force : BOOLEAN, retry_count : Nat,
            template_hash : Service!Requests, is_warmup : {FALSE},
            frequency : {1}] :
        x.template_hash = [template |-> x.template, force |-> x.force]}

Keys(items) == {items[i].template_hash : i \in DOMAIN items}

QueueInv ==
    /\ queue \in [items : Seq(AnalysisItem), pending : SUBSET Service!Requests,
                  shutdown : BOOLEAN]
    /\ QueueExact

-----------------------------------------------------------------------------
(* The queue.                                                              *)

LEMMA ItemType ==
    ASSUME NEW t \in Templates, NEW f \in BOOLEAN, NEW n \in Nat
    PROVE  Item(t, f, n) \in AnalysisItem
BY DEF Item, AnalysisItem, Service!Requests

\* The manager queues every item with the same priority.
LEMMA NoneHigher ==
    ASSUME NEW y \in AnalysisItem, NEW z \in AnalysisItem
    PROVE  ~Higher(y, z)
<1>1. y.is_warmup = FALSE /\ z.is_warmup = FALSE
  BY Zenon DEF AnalysisItem
<1>2. y.frequency = 1 /\ z.frequency = 1
  BY DEF AnalysisItem
<1>3. ~(y.frequency > z.frequency)
  BY <1>2
<1> QED
  BY <1>1, <1>3 DEF Higher

\* With one priority an item is accepted only into free room, and goes first.
LEMMA EnqueuedIsFirst ==
    ASSUME NEW x \in AnalysisItem, QueueInv, Accepts(queue, x)
    PROVE  /\ Len(queue.items) < browser_queue_size
           /\ ~queue.shutdown
           /\ x.template_hash \notin queue.pending
           /\ Enqueued(queue, x).items = <<x>> \o queue.items
           /\ Enqueued(queue, x).pending = queue.pending \cup {x.template_hash}
           /\ Enqueued(queue, x).shutdown = queue.shutdown
           /\ Enqueued(queue, x) \in [items : Seq(AnalysisItem),
                    pending : SUBSET Service!Requests, shutdown : BOOLEAN]
<1> DEFINE s == queue.items
<1>1. /\ s \in Seq(AnalysisItem)
      /\ queue.pending \in SUBSET Service!Requests
      /\ queue.shutdown \in BOOLEAN
  BY DEF QueueInv
<1>2. \A y, z \in AnalysisItem : ~Higher(y, z)
  BY NoneHigher
<1>3. ~Full(queue)
  <2> SUFFICES ASSUME Full(queue) PROVE FALSE
    OBVIOUS
  <2>1. Len(s) >= 1
    BY <1>1, QueueAssumption DEF Full
  <2>2. Back(s) \in AnalysisItem
    BY <1>1, <2>1 DEF Back
  <2> QED
    BY <1>2, <2>2 DEF Accepts
<1>4. InsertionPoint(s, x) = 1
  <2> DEFINE P(i) == /\ \A j \in 1..(i - 1) : Higher(s[j], x)
                     /\ i <= Len(s) => ~Higher(s[i], x)
  <2>1. 1 \in 1..(Len(s) + 1) /\ P(1)
    BY <1>1, <1>2
  <2>2. \A i \in 1..(Len(s) + 1) : P(i) => i = 1
    <3> SUFFICES ASSUME NEW i \in 1..(Len(s) + 1), P(i), i # 1 PROVE FALSE
      OBVIOUS
    <3>1. 1 \in 1..(i - 1) /\ s[1] \in AnalysisItem
      BY <1>1
    <3> QED
      BY <1>2, <3>1
  <2> HIDE DEF P
  <2>3. (CHOOSE i \in 1..(Len(s) + 1) : P(i)) = 1
    BY <2>1, <2>2
  <2> QED
    BY <2>3 DEF InsertionPoint, P
<1>5. InsertBefore(s, 1, x) = <<x>> \o s
  BY <1>1 DEF InsertBefore
<1>6. Enqueued(queue, x) = [queue EXCEPT !.items = <<x>> \o s,
                                         !.pending = @ \cup {x.template_hash}]
  BY Zenon, <1>3, <1>4, <1>5 DEF Enqueued, Insert
<1>7. x.template_hash \in Service!Requests
  BY DEF AnalysisItem
<1>8. <<x>> \o s \in Seq(AnalysisItem)
  BY <1>1
<1>9. /\ Enqueued(queue, x).items = <<x>> \o s
      /\ Enqueued(queue, x).pending = queue.pending \cup {x.template_hash}
      /\ Enqueued(queue, x).shutdown = queue.shutdown
  BY <1>6 DEF QueueInv
<1>10. Enqueued(queue, x) \in [items : Seq(AnalysisItem),
                    pending : SUBSET Service!Requests, shutdown : BOOLEAN]
  BY Zenon, <1>1, <1>6, <1>7, <1>8 DEF QueueInv
<1>11. Len(s) < browser_queue_size
  BY <1>1, <1>3, QueueAssumption DEF Full
<1>12. ~queue.shutdown /\ x.template_hash \notin queue.pending
  BY DEF Accepts
<1> QED
  BY <1>9, <1>10, <1>11, <1>12

\* A queued item keeps the queue exact and adds its key.
LEMMA EnqueueStep ==
    ASSUME NEW x \in AnalysisItem, QueueInv, Accepts(queue, x),
           queue' = Enqueued(queue, x)
    PROVE  /\ QueueInv'
           /\ Keys(queue'.items) = Keys(queue.items) \cup {x.template_hash}
           /\ x.template_hash \notin Keys(queue.items)
           /\ queue'.shutdown = queue.shutdown
<1> DEFINE s == queue.items
           r == queue'.items
<1>1. /\ Len(s) < browser_queue_size /\ x.template_hash \notin queue.pending
      /\ r = <<x>> \o s
      /\ queue'.pending = queue.pending \cup {x.template_hash}
      /\ queue'.shutdown = queue.shutdown
      /\ queue' \in [items : Seq(AnalysisItem),
                     pending : SUBSET Service!Requests, shutdown : BOOLEAN]
  BY EnqueuedIsFirst
<1>2. s \in Seq(AnalysisItem)
  BY DEF QueueInv
<1>3. /\ Len(r) = Len(s) + 1 /\ DOMAIN r = 1..(Len(s) + 1)
      /\ DOMAIN s = 1..Len(s) /\ Len(s) \in Nat
      /\ r[1] = x
      /\ \A i \in 1..Len(s) : r[i + 1] = s[i]
      /\ \A i \in 2..(Len(s) + 1) : i - 1 \in 1..Len(s) /\ r[i] = s[i - 1]
  BY <1>1, <1>2
<1>4. Keys(s) = queue.pending
  BY DEF QueueInv, QueueExact, Keys
<1>5. Keys(r) = Keys(s) \cup {x.template_hash}
  <2>1. \A i \in DOMAIN r : r[i].template_hash \in Keys(s) \cup {x.template_hash}
    <3> SUFFICES ASSUME NEW i \in DOMAIN r
                 PROVE  r[i].template_hash \in Keys(s) \cup {x.template_hash}
      OBVIOUS
    <3>1. CASE i = 1
      BY <1>3, <3>1
    <3>2. CASE i # 1
      <4>1. i - 1 \in DOMAIN s /\ r[i] = s[i - 1]
        BY <1>3, <3>2
      <4> QED
        BY <4>1 DEF Keys
    <3> QED
      BY <3>1, <3>2
  <2>2. \A i \in DOMAIN s : s[i].template_hash \in Keys(r)
    <3> SUFFICES ASSUME NEW i \in DOMAIN s PROVE s[i].template_hash \in Keys(r)
      OBVIOUS
    <3>1. i + 1 \in DOMAIN r /\ r[i + 1] = s[i]
      BY <1>3
    <3> QED
      BY <3>1 DEF Keys
  <2>3. x.template_hash \in Keys(r)
    <3>1. 1 \in DOMAIN r /\ r[1] = x
      BY <1>3
    <3> QED
      BY <3>1 DEF Keys
  <2>4. Keys(r) \subseteq Keys(s) \cup {x.template_hash}
    BY <2>1 DEF Keys
  <2>5. Keys(s) \subseteq Keys(r)
    BY <2>2 DEF Keys
  <2> QED
    BY <2>3, <2>4, <2>5
<1>6. \A i, j \in DOMAIN r : r[i].template_hash = r[j].template_hash => i = j
  <2>1. \A i \in DOMAIN s : s[i].template_hash # x.template_hash
    BY <1>1, <1>4 DEF Keys
  <2>2. \A i, j \in DOMAIN s : s[i].template_hash = s[j].template_hash => i = j
    BY DEF QueueInv, QueueExact
  <2> SUFFICES ASSUME NEW i \in DOMAIN r, NEW j \in DOMAIN r,
                      r[i].template_hash = r[j].template_hash
               PROVE  i = j
    OBVIOUS
  <2> HIDE DEF r, s
  <2>3. \A k \in DOMAIN r : k # 1 => k - 1 \in DOMAIN s /\ r[k] = s[k - 1]
    BY <1>3
  <2>4. r[1] = x /\ i \in Int /\ j \in Int
    BY <1>3
  <2>5. CASE i = 1
    BY <2>1, <2>3, <2>4, <2>5
  <2>6. CASE j = 1
    BY <2>1, <2>3, <2>4, <2>6
  <2>7. CASE i # 1 /\ j # 1
    <3>1. i - 1 = j - 1
      BY <2>2, <2>3, <2>7
    <3> QED
      BY <2>4, <3>1
  <2> QED
    BY <2>5, <2>6, <2>7
<1>7. QueueExact'
  <2>1. Len(r) <= browser_queue_size
    BY <1>1, <1>3, QueueAssumption
  <2>2. queue'.pending = Keys(r)
    BY <1>1, <1>4, <1>5
  <2> QED
    BY <1>6, <2>1, <2>2 DEF QueueExact, Keys
<1> QED
  BY <1>1, <1>4, <1>5, <1>7 DEF QueueInv

LEMMA EmptyQueueInv ==
    ASSUME queue = EmptyQueue
    PROVE  QueueInv /\ queue.items = <<>> /\ queue.shutdown = FALSE
<1>1. queue.items = <<>> /\ queue.pending = {} /\ queue.shutdown = FALSE
  BY DEF EmptyQueue
<1>2. queue \in [items : Seq(AnalysisItem), pending : SUBSET Service!Requests,
                shutdown : BOOLEAN]
  BY DEF EmptyQueue
<1>3. Len(queue.items) = 0 /\ DOMAIN queue.items = {}
  BY <1>1
<1>4. QueueExact
  BY <1>1, <1>3, QueueAssumption DEF QueueExact
<1> QED
  BY <1>1, <1>2, <1>4 DEF QueueInv

\* An item taken from the queue takes its key with it.
LEMMA DequeueStep ==
    ASSUME QueueInv, queue.items # <<>>, queue' = Dequeued(queue)
    PROVE  /\ QueueInv'
           /\ Head(queue.items) \in AnalysisItem
           /\ Head(queue.items).template_hash \in Keys(queue.items)
           /\ Keys(queue'.items) =
                 Keys(queue.items) \ {Head(queue.items).template_hash}
           /\ queue'.shutdown = queue.shutdown
<1> DEFINE s == queue.items
           r == queue'.items
           x == Head(s)
<1>1. /\ s \in Seq(AnalysisItem)
      /\ queue.pending \in SUBSET Service!Requests
      /\ queue.shutdown \in BOOLEAN
  BY DEF QueueInv
<1>2. /\ r = Tail(s)
      /\ queue'.pending = queue.pending \ {x.template_hash}
      /\ queue'.shutdown = queue.shutdown
  BY DEF Dequeued, QueueInv
<1>3. /\ Len(s) \in Nat /\ Len(s) >= 1 /\ DOMAIN s = 1..Len(s)
      /\ x = s[1] /\ x \in AnalysisItem
      /\ r \in Seq(AnalysisItem) /\ Len(r) = Len(s) - 1
      /\ DOMAIN r = 1..(Len(s) - 1)
      /\ \A i \in 1..(Len(s) - 1) : i + 1 \in DOMAIN s /\ r[i] = s[i + 1]
  BY <1>1, <1>2
<1>4. Keys(s) = queue.pending
  BY DEF QueueInv, QueueExact, Keys
<1>5. \A i, j \in DOMAIN s : s[i].template_hash = s[j].template_hash => i = j
  BY DEF QueueInv, QueueExact
<1>6. Keys(r) = Keys(s) \ {x.template_hash}
  <2>1. \A i \in DOMAIN r : r[i].template_hash \in Keys(s) \ {x.template_hash}
    <3> SUFFICES ASSUME NEW i \in DOMAIN r
                 PROVE  r[i].template_hash \in Keys(s) \ {x.template_hash}
      OBVIOUS
    <3>1. i + 1 \in DOMAIN s /\ r[i] = s[i + 1] /\ i + 1 # 1 /\ 1 \in DOMAIN s
      BY SMTT(60), <1>3
    <3> QED
      BY ZenonT(60), <1>3, <1>5, <3>1 DEF Keys
  <2>2. \A i \in DOMAIN s : i # 1 => s[i].template_hash \in Keys(r)
    <3> SUFFICES ASSUME NEW i \in DOMAIN s, i # 1
                 PROVE  s[i].template_hash \in Keys(r)
      OBVIOUS
    <3>1. i - 1 \in DOMAIN r /\ r[i - 1] = s[i]
      BY SMTT(60), <1>3
    <3> QED
      BY <3>1 DEF Keys
  <2>3. Keys(r) \subseteq Keys(s) \ {x.template_hash}
    BY <2>1 DEF Keys
  <2>4. Keys(s) \ {x.template_hash} \subseteq Keys(r)
    BY ZenonT(60), <1>3, <2>2 DEF Keys
  <2> QED
    BY <2>3, <2>4
<1>7. x.template_hash \in Keys(s)
  <2>1. 1 \in DOMAIN s
    BY <1>3
  <2> QED
    BY <1>3, <2>1 DEF Keys
<1>8. QueueExact'
  <2>1. Len(r) <= browser_queue_size
    BY <1>3, QueueAssumption DEF QueueInv, QueueExact
  <2>2. queue'.pending = Keys(r)
    BY <1>2, <1>4, <1>6
  <2>3. \A i, j \in DOMAIN r : r[i].template_hash = r[j].template_hash => i = j
    <3> SUFFICES ASSUME NEW i \in DOMAIN r, NEW j \in DOMAIN r,
                        r[i].template_hash = r[j].template_hash
                 PROVE  i = j
      OBVIOUS
    <3> HIDE DEF r, s
    <3>1. /\ i \in Int /\ j \in Int
          /\ i + 1 \in DOMAIN s /\ r[i] = s[i + 1]
          /\ j + 1 \in DOMAIN s /\ r[j] = s[j + 1]
      BY <1>3
    <3>2. i + 1 = j + 1
      BY <1>5, <3>1
    <3> QED
      BY <3>1, <3>2
  <2> QED
    BY <2>1, <2>2, <2>3 DEF QueueExact, Keys
<1>9. queue' \in [items : Seq(AnalysisItem), pending : SUBSET Service!Requests,
                 shutdown : BOOLEAN]
  <2>1. queue' = [items |-> r, pending |-> queue'.pending,
                  shutdown |-> queue'.shutdown]
    BY Zenon DEF Dequeued, QueueInv
  <2> QED
    BY <1>1, <1>2, <1>3, <2>1
<1> QED
  BY <1>2, <1>3, <1>6, <1>7, <1>8, <1>9 DEF QueueInv

\* The queue holds one item per key.
LEMMA KeysCounted ==
    ASSUME QueueInv
    PROVE  /\ IsFiniteSet(Keys(queue.items))
           /\ Cardinality(Keys(queue.items)) = Len(queue.items)
<1> DEFINE s == queue.items
           f == [i \in 1..Len(s) |-> s[i].template_hash]
<1>1. s \in Seq(AnalysisItem) /\ Len(s) \in Nat /\ DOMAIN s = 1..Len(s)
  BY DEF QueueInv
<1>2. f \in Bijection(1..Len(s), Keys(s))
  <2>1. \A i, j \in 1..Len(s) : f[i] = f[j] => i = j
    BY <1>1 DEF QueueInv, QueueExact
  <2>2. f \in [1..Len(s) -> Keys(s)]
    BY <1>1 DEF Keys
  <2>3. \A k \in Keys(s) : \E i \in 1..Len(s) : f[i] = k
    BY <1>1 DEF Keys
  <2> QED
    BY Zenon, <2>1, <2>2, <2>3 DEF Bijection, Injection, Surjection, IsInjective
<1>3. IsFiniteSet(1..Len(s)) /\ Cardinality(1..Len(s)) = Len(s)
  BY <1>1, FS_Interval
<1>4. ExistsBijection(1..Len(s), Keys(s))
  BY <1>2 DEF ExistsBijection
<1> HIDE DEF f
<1> QED
  BY <1>3, <1>4, FS_Bijection

-----------------------------------------------------------------------------
(* The invariant.                                                          *)

Handlers ==
    Stages \cup {"StartChrome", "DrainQueue", "OnAnalysisComplete",
                "AdvanceToNextViewport", "FinishAnalysis", "StoreProfile",
                "RecordProfile", "ResetGate", "OnChromeExit", "CloseAsync"}

Outcomes == {"none", "good", "degraded", "ok", "error"}

Frames == [handler : Handlers, result : Outcomes]

\* The calls that may stand below the one being made: those of an exit.
Unwind == {"ResetGate", "OnChromeExit"}

\* The sessions and the calls that only a full analysis has.
PassStages == {"css", "page", "validate", "script"}

PassCalls == {"AdvanceToNextViewport", "FinishAnalysis", "StoreProfile",
              "RecordProfile"}

Found == {"empty", "good", "degraded"}

Contexts == [item : AnalysisItem, viewports_done : Int, inlinable : BOOLEAN,
             found : Found]

ChromeStates == [object : BOOLEAN, running : BOOLEAN, connected : BOOLEAN,
                 stop_requested : BOOLEAN, alive : BOOLEAN]

InCall(handlers) == stack # <<>> /\ Head(stack).handler \in handlers

\* The stack of a single call.
LEMMA OneCall ==
    ASSUME NEW x
    PROVE  /\ Head(<<x>>) = x /\ <<x>> = <<x>> \o <<>> /\ 2..Len(<<x>>) = {}
           /\ \A S : x \in S => <<x>> \in Seq(S)
  OBVIOUS

\* Initialize ends in StartChrome, with the handle open.
LEMMA FreshCalls ==
    ASSUME Init
    PROVE  /\ Head(stack).handler = "StartChrome"
           /\ async = [open |-> TRUE, signalled |-> FALSE]
<1>1. stack = Fresh.stack /\ async = Fresh.async
  BY Zenon DEF Init
<1>2. /\ Fresh.stack = <<Call("StartChrome")>>
      /\ Fresh.async = [open |-> TRUE, signalled |-> FALSE]
  BY Zenon DEF Fresh
<1>3. Call("StartChrome").handler = "StartChrome"
  BY Zenon DEF Call
<1>4. Head(<<Call("StartChrome")>>) = Call("StartChrome")
  OBVIOUS
<1> QED
  BY Zenon, <1>1, <1>2, <1>3, <1>4

Analysing == current_analysis # None /\ ~current_analysis.item.force

StackInv ==
    /\ stack \in Seq(Frames)
    /\ \A i \in 2..Len(stack) : stack[i].handler \in Unwind

PassInv ==
    /\ session \in PassStages => (current_analysis = None \/ Analysing)
    /\ InCall(PassStages) => (current_analysis = None \/ Analysing)
    /\ InCall(PassCalls) => Analysing

LoopInv ==
    /\ StackInv
    /\ chrome \in ChromeStates
    /\ session \in Stages \cup {"none"}
    /\ orphan \in Stages \cup {"none"}
    /\ current_analysis \in {None} \cup Contexts
    /\ ~analysis_in_progress => current_analysis = None
    /\ OrphanAlone
    /\ PassInv

RetryInv ==
    /\ pending_reanalysis \in {None} \cup AnalysisItem
    /\ pending_reanalysis # None => reanalysis_timer
    /\ reanalysis_timer => pending_reanalysis # None
    /\ shutting_down => current_analysis = None /\ pending_reanalysis = None

PoolInv ==
    pool \in [Workers -> [pc : {"idle", "read", "remove", "enqueue", "send"},
                         page : Templates \cup {None}, force : BOOLEAN]]

AskedInv == \A w \in Workers : pool[w].pc # "idle" => pool[w].page \in Templates

SharedInv ==
    /\ QueueInv
    /\ queue.shutdown = shutting_down
    /\ PoolInv
    /\ AskedInv

StoreInv == profile \in [Templates -> Found \cup {"none", "gone"}]

ManagerInv == LoopInv /\ RetryInv /\ SharedInv /\ StoreInv

-----------------------------------------------------------------------------
(* The stack of calls.                                                     *)

LEMMA StackPush ==
    ASSUME StackInv, stack # <<>>, NEW f \in Frames,
           stack' = <<f>> \o Tail(stack)
    PROVE  StackInv' /\ stack' # <<>> /\ Head(stack') = f
<1>1. /\ stack \in Seq(Frames) /\ Len(stack) >= 1
      /\ Tail(stack) \in Seq(Frames) /\ Len(Tail(stack)) = Len(stack) - 1
      /\ \A i \in 1..(Len(stack) - 1) : Tail(stack)[i] = stack[i + 1]
  BY DEF StackInv
<1>2. /\ stack' \in Seq(Frames) /\ Len(stack') = Len(stack)
      /\ Head(stack') = f
      /\ \A i \in 2..Len(stack) : stack'[i] = stack[i]
  BY <1>1
<1>3. stack' # <<>>
  BY <1>1, <1>2
<1> QED
  BY <1>2, <1>3 DEF StackInv

LEMMA StackPop ==
    ASSUME StackInv, stack # <<>>, stack' = Tail(stack)
    PROVE  StackInv' /\ (stack' # <<>> => Head(stack').handler \in Unwind)
<1>1. /\ stack \in Seq(Frames) /\ Len(stack) >= 1
      /\ stack' \in Seq(Frames) /\ Len(stack') = Len(stack) - 1
      /\ \A i \in 1..(Len(stack) - 1) : stack'[i] = stack[i + 1]
  BY DEF StackInv
<1>2. \A i \in 1..Len(stack') : stack'[i].handler \in Unwind
  BY <1>1 DEF StackInv
<1>3. stack' # <<>> => 1 \in 1..Len(stack') /\ Head(stack') = stack'[1]
  BY <1>1
<1> QED
  BY <1>1, <1>2, <1>3 DEF StackInv

LEMMA NoneIsNone == \A x \in AnalysisItem \cup Contexts : x # None
<1>1. \A x \in AnalysisItem : "template" \in DOMAIN x
  BY DEF AnalysisItem
<1>2. \A x \in Contexts : "item" \in DOMAIN x
  BY DEF Contexts
<1>3. DOMAIN None = {"none"}
  BY DEF None
<1> QED
  BY <1>1, <1>2, <1>3

\* What a call leaves for the loop when it replaces itself by another call, or
\* starts a session and returns.
LEMMA CallsNext ==
    ASSUME LoopInv, stack # <<>>, NEW h \in Handlers, NEW r \in Outcomes,
           stack' = <<[handler |-> h, result |-> r]>> \o Tail(stack)
    PROVE  StackInv' /\ stack' # <<>> /\ Head(stack').handler = h
<1>1. [handler |-> h, result |-> r] \in Frames
  BY DEF Frames
<1>2. StackInv
  BY DEF LoopInv
<1>3. StackInv' /\ stack' # <<>> /\ Head(stack') = [handler |-> h, result |-> r]
  BY <1>1, <1>2, StackPush
<1> QED
  BY <1>3

LEMMA Returns ==
    ASSUME LoopInv, stack # <<>>, stack' = Tail(stack)
    PROVE  StackInv' /\ (stack' # <<>> => Head(stack').handler \in Unwind)
BY StackPop DEF LoopInv

LEMMA SessionStarts ==
    ASSUME LoopInv, stack # <<>>, NEW stage \in Stages,
           StartSession(stage, Tail(stack))
    PROVE  /\ StackInv'
           /\ session' \in {stage, "none"}
           /\ stack' # <<>> => Head(stack').handler \in Unwind \cup {stage}
<1>1. CASE chrome.connected
  <2>1. session' = stage /\ stack' = Tail(stack)
    BY <1>1 DEF StartSession
  <2> QED
    BY <2>1, Returns
<1>2. CASE ~chrome.connected
  <2>1. /\ session' = "none"
        /\ stack' = <<[handler |-> stage, result |-> "error"]>> \o Tail(stack)
    BY <1>2 DEF StartSession, NoSession, Done
  <2>2. stage \in Handlers /\ "error" \in Outcomes
    BY DEF Handlers, Outcomes
  <2>3. StackInv' /\ stack' # <<>> /\ Head(stack').handler = stage
    BY <2>1, <2>2, CallsNext
  <2> QED
    BY <2>1, <2>3
<1> QED
  BY <1>1, <1>2

-----------------------------------------------------------------------------
(* The state of the event loop.                                            *)

LEMMA LoopKept ==
    ASSUME LoopInv, UNCHANGED <<chromeVars, analysisVars>>
    PROVE  LoopInv'
BY DEF LoopInv, chromeVars, analysisVars, StackInv, OrphanAlone, PassInv, InCall,
       Analysing

\* A call of a full analysis may leave any session and any call behind it.
LEMMA PassStep ==
    ASSUME LoopInv, Analysing, Analysing', current_analysis' \in Contexts,
           UNCHANGED <<chrome, orphan, analysis_in_progress>>,
           StackInv', session' \in Stages \cup {"none"}
    PROVE  LoopInv'
<1>1. analysis_in_progress' /\ orphan' = "none"
  BY DEF LoopInv, OrphanAlone, Analysing
<1>2. OrphanAlone' /\ PassInv'
  BY <1>1 DEF OrphanAlone, PassInv
<1> QED
  BY <1>1, <1>2 DEF LoopInv

\* A call that leaves no call of an analysis behind it, and no new session.
LEMMA QuietStep ==
    ASSUME LoopInv, StackInv', chrome' \in ChromeStates,
           session' \in {session, "none"},
           current_analysis' \in {current_analysis, None},
           ~analysis_in_progress' => current_analysis' = None,
           orphan' \in Stages \cup {"none"}, OrphanAlone',
           stack' # <<>> => Head(stack').handler \in
               Unwind \cup {"StartChrome", "DrainQueue", "OnAnalysisComplete",
                            "CloseAsync"}
    PROVE  LoopInv'
<1>1. ~InCall(PassStages)' /\ ~InCall(PassCalls)'
  BY DEF InCall, PassStages, PassCalls, Unwind
<1>2. session' \in PassStages => (current_analysis' = None \/ Analysing')
  BY DEF LoopInv, PassInv, Analysing, PassStages
<1>3. PassInv'
  BY <1>1, <1>2 DEF PassInv
<1> QED
  BY <1>3 DEF LoopInv

LEMMA TakeKeepsLoop ==
    ASSUME ManagerInv, DrainQueueTakes
    PROVE  LoopInv'
<1> DEFINE item == Head(queue.items)
<1>1. /\ LoopInv /\ stack # <<>> /\ Running /\ QueueInv
      /\ queue.items # <<>> /\ queue' = Dequeued(queue)
      /\ RunAnalysis(item) /\ UNCHANGED <<chrome, orphan>>
      /\ analysis_in_progress' = TRUE
  BY DEF ManagerInv, SharedInv, DrainQueueTakes, MayTake, Calling
<1>2. item \in AnalysisItem
  BY <1>1, DequeueStep
<1>3. orphan' = "none" /\ chrome' \in ChromeStates
  BY <1>1 DEF LoopInv, OrphanAlone, Running
<1>4. Context(item) \in Contexts /\ Context(item).item = item
  BY <1>2 DEF Context, Contexts, Found
<1>5. Context(item) # None
  BY <1>4, NoneIsNone
<1>6. OrphanAlone'
  BY <1>3 DEF OrphanAlone
<1>7. CASE current_analysis' = None /\ GoTo("OnAnalysisComplete") /\ UNCHANGED session
  <2>1. StackInv' /\ stack' # <<>> /\ Head(stack').handler = "OnAnalysisComplete"
    BY Zenon, <1>1, <1>7, CallsNext DEF GoTo, Call, Handlers, Outcomes
  <2>2. session' \in Stages \cup {"none"}
    BY <1>1, <1>7 DEF LoopInv
  <2>3. PassInv'
    BY <1>7, <2>1 DEF PassInv, InCall, PassCalls, PassStages, Unwind
  <2> QED
    BY <1>1, <1>3, <1>6, <1>7, <2>1, <2>2, <2>3 DEF LoopInv
<1>8. CASE /\ item.force
           /\ current_analysis' = Context(item)
           /\ StartSession("agent", Tail(stack))
  <2>1. /\ StackInv' /\ session' \in {"agent", "none"}
        /\ stack' # <<>> => Head(stack').handler \in Unwind \cup {"agent"}
    BY <1>1, <1>8, SessionStarts DEF Stages
  <2>2. PassInv'
    BY <2>1 DEF PassInv, InCall, PassCalls, PassStages, Unwind
  <2>3. session' \in Stages \cup {"none"}
    BY <2>1 DEF Stages
  <2> QED
    BY Zenon, <1>1, <1>3, <1>4, <1>6, <1>8, <2>1, <2>2, <2>3 DEF LoopInv
<1>9. CASE ~item.force /\ RunViewportAnalysis(Context(item))
  <2>1. current_analysis' = Context(item)
    BY <1>9 DEF RunViewportAnalysis
  <2>2. Analysing'
    BY <1>4, <1>5, <1>9, <2>1 DEF Analysing
  <2>3. StackInv' /\ session' \in Stages \cup {"none"}
    <3>1. CASE StartSession("css", Tail(stack))
      BY <1>1, <3>1, SessionStarts DEF Stages
    <3>2. CASE /\ stack' = <<Done("css", "error")>> \o Tail(stack)
               /\ UNCHANGED session
      <4>1. StackInv'
        BY Zenon, <1>1, <3>2, CallsNext DEF Done, Handlers, Outcomes, Stages
      <4> QED
        BY <1>1, <3>2, <4>1 DEF LoopInv
    <3> QED
      BY <1>9, <3>1, <3>2 DEF RunViewportAnalysis
  <2>4. PassInv'
    BY <2>2 DEF PassInv
  <2> QED
    BY <1>1, <1>3, <1>4, <1>6, <2>1, <2>3, <2>4 DEF LoopInv
<1> QED
  BY <1>1, <1>7, <1>8, <1>9 DEF RunAnalysis

LEMMA PassCallsKeepLoop ==
    ASSUME ManagerInv,
           \/ OnCssExtractionDone \/ OnPageAnalysisDone
           \/ OnCriticalCssValidationDone \/ OnScriptAnalysisDone
           \/ AdvanceToNextViewport \/ FinishAnalysis
           \/ StoreProfile \/ RecordStoredProfile
    PROVE  /\ LoopInv' /\ Analysing /\ Analysing'
           /\ current_analysis'.item = current_analysis.item
<1>1. LoopInv /\ StackInv
  BY DEF ManagerInv, LoopInv
<1>2. /\ stack # <<>> /\ Analysing
      /\ UNCHANGED <<chrome, orphan, analysis_in_progress>>
  <2>1. UNCHANGED <<chrome, orphan, analysis_in_progress>>
    BY DEF OnCssExtractionDone, OnPageAnalysisDone, OnCriticalCssValidationDone,
           OnScriptAnalysisDone, AdvanceToNextViewport, FinishAnalysis,
           StoreProfile, RecordStoredProfile, AnalysisFrame, StoreFrame
  <2>2. \/ InCall(PassStages) /\ current_analysis # None
        \/ InCall(PassCalls)
    BY DEF OnCssExtractionDone, OnPageAnalysisDone, OnCriticalCssValidationDone,
           OnScriptAnalysisDone, AdvanceToNextViewport, FinishAnalysis,
           StoreProfile, RecordStoredProfile, Calling, InCall, PassStages,
           PassCalls
  <2> QED
    BY <1>1, <2>1, <2>2 DEF LoopInv, PassInv, InCall
<1>3. current_analysis \in Contexts
  BY <1>1, <1>2 DEF LoopInv, Analysing
<1> DEFINE SameItem == /\ current_analysis' \in Contexts
                       /\ current_analysis'.item = current_analysis.item
           Left == StackInv' /\ session' \in Stages \cup {"none"}
<1>4. ASSUME NEW stage \in Stages, StartSession(stage, Tail(stack))
      PROVE  Left
  BY <1>1, <1>2, <1>4, SessionStarts
<1>5. ASSUME NEW h \in Handlers, GoTo(h), UNCHANGED session
      PROVE  Left
  <2>1. "none" \in Outcomes
    BY DEF Outcomes
  <2>2. stack' = <<[handler |-> h, result |-> "none"]>> \o Tail(stack)
    BY <1>5 DEF GoTo, Call
  <2>3. StackInv'
    BY <1>1, <1>2, <2>1, <2>2, CallsNext
  <2> QED
    BY <1>1, <1>5, <2>3 DEF LoopInv
<1>6. ASSUME AgentRenderOrComplete PROVE Left
  BY <1>4, <1>5, <1>6 DEF AgentRenderOrComplete, Stages, Handlers
<1> SUFFICES SameItem /\ Left
  <2>1. Analysing'
    BY <1>2, NoneIsNone DEF Analysing
  <2> QED
    BY <1>1, <1>2, <2>1, PassStep
<1> HIDE DEF Left
<1>7. CASE OnCssExtractionDone
  <2>1. SameItem
    <3>1. CASE Result = "error"
      BY <1>3, <1>7, <3>1 DEF OnCssExtractionDone
    <3>2. CASE Result # "error"
      <4>1. current_analysis' = [current_analysis EXCEPT
                  !.inlinable = (Result = "good"), !.found = WithViewport(@, Result)]
        BY <1>7, <3>2 DEF OnCssExtractionDone
      <4>2. WithViewport(current_analysis.found, Result) \in Found
        BY <1>3 DEF WithViewport, Contexts, Found
      <4> QED
        BY Zenon, <1>3, <4>1, <4>2 DEF Contexts
    <3> QED
      BY <3>1, <3>2
  <2>2. Left
    BY <1>4, <1>5, <1>7 DEF OnCssExtractionDone, Stages, Handlers
  <2> QED
    BY <2>1, <2>2
<1>8. CASE OnPageAnalysisDone
  <2>1. SameItem
    BY <1>3, <1>8 DEF OnPageAnalysisDone
  <2>2. Left
    BY <1>4, <1>5, <1>8 DEF OnPageAnalysisDone, RunCriticalCssValidation, Stages,
                            Handlers
  <2> QED
    BY <2>1, <2>2
<1>9. CASE \/ OnCriticalCssValidationDone \/ OnScriptAnalysisDone
           \/ FinishAnalysis
  <2>1. SameItem
    BY <1>3, <1>9 DEF OnCriticalCssValidationDone, OnScriptAnalysisDone,
                      FinishAnalysis
  <2>2. Left
    BY <1>5, <1>9 DEF OnCriticalCssValidationDone, OnScriptAnalysisDone,
                      FinishAnalysis, Handlers
  <2> QED
    BY <2>1, <2>2
<1>10. CASE AdvanceToNextViewport
  <2> DEFINE ctx == [current_analysis EXCEPT
                       !.viewports_done = current_analysis.viewports_done + 1,
                       !.inlinable = FALSE]
  <2>1. ctx \in Contexts /\ ctx.item = current_analysis.item
    <3>1. current_analysis.viewports_done + 1 \in Int
      BY <1>3 DEF Contexts
    <3> QED
      BY Zenon, <1>3, <3>1 DEF Contexts
  <2>2. current_analysis' = ctx
    BY <1>10 DEF AdvanceToNextViewport, RunViewportAnalysis
  <2>3. \/ \E stage \in {"css", "script"} : StartSession(stage, Tail(stack))
        \/ GoTo("FinishAnalysis") /\ UNCHANGED session
        \/ /\ stack' = <<Done("css", "error")>> \o Tail(stack)
           /\ UNCHANGED session
    BY <1>10 DEF AdvanceToNextViewport, RunViewportAnalysis
  <2>4. ASSUME /\ stack' = <<Done("css", "error")>> \o Tail(stack)
               /\ UNCHANGED session
        PROVE  Left
    <3>1. StackInv'
      BY Zenon, <1>1, <1>2, <2>4, CallsNext DEF Done, Handlers, Outcomes, Stages
    <3> QED
      BY <1>1, <2>4, <3>1 DEF LoopInv, Left
  <2>5. Left
    BY <1>4, <1>5, <2>3, <2>4 DEF Stages, Handlers
  <2> QED
    BY <2>1, <2>2, <2>5
<1>11. CASE StoreProfile \/ RecordStoredProfile
  <2>1. SameItem
    BY <1>3, <1>11 DEF StoreProfile, RecordStoredProfile, StoreFrame
  <2>2. Left
    BY <1>5, <1>6, <1>11 DEF StoreProfile, RecordStoredProfile, Handlers
  <2> QED
    BY <2>1, <2>2
<1> QED
  BY <1>7, <1>8, <1>9, <1>10, <1>11

\* The calls of the loop.
LEMMA CallsKeepLoop ==
    ASSUME ManagerInv, LoopCall
    PROVE  LoopInv'
<1>0. LoopInv
  BY DEF ManagerInv
<1>1. CASE StartChromeSucceeds
  <2>1. /\ stack # <<>> /\ chrome' = Started /\ orphan' = "none"
        /\ GoTo("DrainQueue")
        /\ UNCHANGED <<session, current_analysis, analysis_in_progress>>
    BY <1>1 DEF StartChromeSucceeds, Calling, analysisVars
  <2>2. StackInv' /\ stack' # <<>> /\ Head(stack').handler = "DrainQueue"
    BY Zenon, <1>0, <2>1, CallsNext DEF GoTo, Call, Handlers, Outcomes
  <2>3. chrome' \in ChromeStates /\ OrphanAlone'
    BY <2>1 DEF Started, ChromeStates, OrphanAlone
  <2>4. ~analysis_in_progress' => current_analysis' = None
    BY <1>0, <2>1 DEF LoopInv
  <2> QED
    BY <1>0, <2>1, <2>2, <2>3, <2>4, QuietStep
<1>2. CASE StartChromeFails
  <2>1. /\ stack # <<>> /\ chrome' = NoChrome /\ orphan' = "none" /\ Return
        /\ UNCHANGED <<session, current_analysis, analysis_in_progress>>
    BY <1>2 DEF StartChromeFails, Calling, analysisVars
  <2>2. StackInv' /\ (stack' # <<>> => Head(stack').handler \in Unwind)
    BY <1>0, <2>1, Returns DEF Return
  <2>3. chrome' \in ChromeStates /\ OrphanAlone'
    BY <2>1 DEF NoChrome, ChromeStates, OrphanAlone
  <2>4. ~analysis_in_progress' => current_analysis' = None
    BY <1>0, <2>1 DEF LoopInv
  <2> QED
    BY <1>0, <2>1, <2>2, <2>3, <2>4, QuietStep
<1>3. CASE DrainQueueReturns \/ CallbackReturns
  <2>1. /\ stack # <<>> /\ Return
        /\ UNCHANGED <<chrome, session, orphan, current_analysis,
                       analysis_in_progress>>
    BY <1>3 DEF DrainQueueReturns, CallbackReturns, Calling, analysisVars
  <2>2. StackInv' /\ (stack' # <<>> => Head(stack').handler \in Unwind)
    BY <1>0, <2>1, Returns DEF Return
  <2>3. /\ chrome' \in ChromeStates /\ OrphanAlone'
        /\ orphan' \in Stages \cup {"none"}
        /\ ~analysis_in_progress' => current_analysis' = None
    BY <1>0, <2>1 DEF LoopInv, OrphanAlone
  <2> QED
    BY <1>0, <2>1, <2>2, <2>3, QuietStep
<1>4. CASE DrainQueueTakes
  BY <1>4, TakeKeepsLoop
<1>5. CASE OnAnalysisComplete
  <2>1. /\ stack # <<>> /\ GoTo("DrainQueue")
        /\ current_analysis' = None
        /\ UNCHANGED <<chrome, session, orphan>>
    BY <1>5 DEF OnAnalysisComplete, Calling
  <2>2. StackInv' /\ stack' # <<>> /\ Head(stack').handler = "DrainQueue"
    BY Zenon, <1>0, <2>1, CallsNext DEF GoTo, Call, Handlers, Outcomes
  <2>3. /\ chrome' \in ChromeStates /\ OrphanAlone'
        /\ orphan' \in Stages \cup {"none"}
    BY <1>0, <2>1 DEF LoopInv, OrphanAlone
  <2> QED
    BY <1>0, <2>1, <2>2, <2>3, QuietStep
<1>6. CASE \/ OnCssExtractionDone \/ OnPageAnalysisDone
           \/ OnCriticalCssValidationDone \/ OnScriptAnalysisDone
           \/ AdvanceToNextViewport \/ FinishAnalysis
           \/ StoreProfile \/ RecordStoredProfile
  BY <1>6, PassCallsKeepLoop
<1>7. CASE OnAgentRenderDone
  <2>1. /\ stack # <<>> /\ GoTo("OnAnalysisComplete")
        /\ UNCHANGED <<chrome, session, orphan, current_analysis,
                       analysis_in_progress>>
    BY <1>7 DEF OnAgentRenderDone, Calling, AnalysisFrame
  <2>2. /\ StackInv' /\ stack' # <<>>
        /\ Head(stack').handler = "OnAnalysisComplete"
    BY Zenon, <1>0, <2>1, CallsNext DEF GoTo, Call, Handlers, Outcomes
  <2>3. /\ chrome' \in ChromeStates /\ OrphanAlone'
        /\ orphan' \in Stages \cup {"none"}
        /\ ~analysis_in_progress' => current_analysis' = None
    BY <1>0, <2>1 DEF LoopInv, OrphanAlone
  <2> QED
    BY <1>0, <2>1, <2>2, <2>3, QuietStep
<1>8. CASE ResetGate
  <2>1. stack # <<>> /\ UNCHANGED <<chrome, orphan, current_analysis,
                                     analysis_in_progress>>
    BY <1>8 DEF ResetGate, Calling, analysisVars
  <2>2. /\ chrome' \in ChromeStates /\ OrphanAlone'
        /\ orphan' \in Stages \cup {"none"}
        /\ ~analysis_in_progress' => current_analysis' = None
    BY <1>0, <2>1 DEF LoopInv, OrphanAlone
  <2>3. CASE session = "validate"
    <3>1. /\ session' = "none"
          /\ stack' = <<[handler |-> "validate", result |-> "error"]>>
                      \o Tail(stack)
      BY <1>8, <2>3 DEF ResetGate, Done, NoSession
    <3>2. /\ StackInv' /\ stack' # <<>> /\ Head(stack').handler = "validate"
      BY Zenon, <1>0, <2>1, <3>1, CallsNext DEF Handlers, Outcomes, Stages
    <3>3. current_analysis' = None \/ Analysing'
      BY <1>0, <2>1, <2>3 DEF LoopInv, PassInv, PassStages, Analysing
    <3>4. PassInv'
      BY <3>1, <3>2, <3>3 DEF PassInv, InCall, PassStages, PassCalls
    <3> QED
      BY <1>0, <2>1, <2>2, <3>1, <3>2, <3>4 DEF LoopInv
  <2>4. CASE session # "validate"
    <3>1. Return /\ UNCHANGED session
      BY <1>8, <2>4 DEF ResetGate
    <3>2. StackInv' /\ (stack' # <<>> => Head(stack').handler \in Unwind)
      BY <1>0, <2>1, <3>1, Returns DEF Return
    <3> QED
      BY <1>0, <2>1, <2>2, <3>1, <3>2, QuietStep
  <2> QED
    BY <2>3, <2>4
<1>9. CASE OnChromeExit
  <2>1. /\ stack # <<>> /\ Return /\ chrome' = NoChrome /\ orphan' = session
        /\ session' = "none" /\ current_analysis' = None
    BY <1>9 DEF OnChromeExit, Calling, NoSession
  <2>2. StackInv' /\ (stack' # <<>> => Head(stack').handler \in Unwind)
    BY <1>0, <2>1, Returns DEF Return
  <2>3. /\ chrome' \in ChromeStates /\ OrphanAlone'
        /\ orphan' \in Stages \cup {"none"}
    BY <1>0, <2>1 DEF LoopInv, OrphanAlone, NoChrome, ChromeStates
  <2> QED
    BY <1>0, <2>1, <2>2, <2>3, QuietStep
<1> QED
  BY <1>1, <1>2, <1>3, <1>4, <1>5, <1>6, <1>7, <1>8, <1>9 DEF LoopCall

\* The calls that the exit of Chrome leaves for the loop.
LEMMA ExitFrames ==
    ASSUME NEW rest \in {<<>>, <<Call("ResetGate"), Call("OnChromeExit")>>}
    PROVE  /\ rest \in Seq(Frames)
           /\ \A i \in 1..Len(rest) : rest[i].handler \in Unwind
<1> DEFINE a == Call("ResetGate")
           b == Call("OnChromeExit")
<1>1. /\ a \in Frames /\ b \in Frames
      /\ a.handler \in Unwind /\ b.handler \in Unwind
  BY DEF Call, Unwind, Frames, Handlers, Outcomes
<1>2. rest \in {<<>>, <<a, b>>}
  OBVIOUS
<1> HIDE DEF a, b
<1>3. CASE rest = <<>>
  BY <1>3
<1>4. CASE rest = <<a, b>>
  <2>1. rest \in Seq(Frames) /\ Len(rest) = 2 /\ rest[1] = a /\ rest[2] = b
    BY <1>1, <1>4
  <2>2. \A i \in 1..Len(rest) : i = 1 \/ i = 2
    BY <2>1
  <2> QED
    BY <1>1, <2>1, <2>2
<1> QED
  BY <1>2, <1>3, <1>4

\* A callback of a session, above those calls.
LEMMA CallbackStack ==
    ASSUME NEW stage \in Stages, NEW r \in Outcomes, NEW rest \in Seq(Frames),
           \A i \in 1..Len(rest) : rest[i].handler \in Unwind,
           stack' = <<Done(stage, r)>> \o rest
    PROVE  StackInv' /\ stack' # <<>> /\ Head(stack').handler = stage
<1> DEFINE d == Done(stage, r)
<1>1. d \in Frames /\ d.handler = stage
  BY DEF Done, Frames, Handlers
<1>2. stack' = <<d>> \o rest
  OBVIOUS
<1> HIDE DEF d
<1>3. /\ stack' \in Seq(Frames) /\ Len(stack') = Len(rest) + 1
      /\ Head(stack') = d
      /\ \A i \in 2..Len(stack') : stack'[i] = rest[i - 1]
  BY <1>1, <1>2
<1>4. stack' # <<>>
  BY <1>3
<1>5. \A i \in 2..Len(stack') : i - 1 \in 1..Len(rest)
  BY <1>3
<1> QED
  BY <1>1, <1>3, <1>4, <1>5 DEF StackInv

\* The events of Chrome.
LEMMA ChromeKeepsLoop ==
    ASSUME LoopInv, ChromeEvent
    PROVE  LoopInv'
<1>1. UNCHANGED <<current_analysis, analysis_in_progress>>
  BY DEF ChromeEvent, analysisVars
<1>2. chrome \in ChromeStates /\ session \in Stages \cup {"none"}
      /\ orphan \in Stages \cup {"none"}
  BY DEF LoopInv
<1>3. /\ current_analysis' \in {None} \cup Contexts
      /\ ~analysis_in_progress' => current_analysis' = None
  BY <1>1 DEF LoopInv
<1>4. ASSUME NEW rest \in {<<>>, <<Call("ResetGate"), Call("OnChromeExit")>>},
             CancelCommands(rest)
      PROVE  /\ StackInv' /\ session' \in Stages \cup {"none"}
             /\ PassInv'
  <2>1. CASE /\ session # NoSession /\ session' = NoSession
             /\ stack' = <<Done(session, "error")>> \o rest
    <3>1. session \in Stages /\ "error" \in Outcomes
      BY <1>2, <2>1 DEF NoSession, Outcomes
    <3>2. StackInv' /\ stack' # <<>> /\ Head(stack').handler = session
      BY Zenon, ExitFrames, CallbackStack, <2>1, <3>1
    <3>3. session \in PassStages => (current_analysis' = None \/ Analysing')
      BY <1>1 DEF LoopInv, PassInv, Analysing
    <3>4. session \notin PassCalls
      BY <3>1 DEF Stages, PassCalls
    <3>5. session' \notin PassStages
      BY <2>1 DEF NoSession, PassStages
    <3> QED
      BY <2>1, <3>2, <3>3, <3>4, <3>5 DEF PassInv, InCall, NoSession
  <2>2. CASE UNCHANGED session /\ stack' = rest
    <3>1. /\ rest \in Seq(Frames)
          /\ \A i \in 1..Len(rest) : rest[i].handler \in Unwind
      BY Zenon, ExitFrames
    <3>2. stack' # <<>> => 1 \in 1..Len(stack') /\ Head(stack') = stack'[1]
      BY <2>2, <3>1
    <3>3. StackInv' /\ (stack' # <<>> => Head(stack').handler \in Unwind)
      BY <2>2, <3>1, <3>2 DEF StackInv
    <3>4. session \in PassStages => (current_analysis' = None \/ Analysing')
      BY <1>1 DEF LoopInv, PassInv, Analysing
    <3> QED
      BY <1>2, <2>2, <3>3, <3>4 DEF PassInv, InCall, Unwind, PassStages, PassCalls
  <2> QED
    BY <1>4, <2>1, <2>2 DEF CancelCommands
<1>5. CASE SessionEnds
  <2>1. PICK r \in {"error"} \cup Results(session) :
            stack' = <<Done(session, r)>>
    BY <1>5 DEF SessionEnds
  <2>2. /\ session # NoSession /\ session' = NoSession
        /\ UNCHANGED <<chrome, orphan>>
    BY <1>5 DEF SessionEnds
  <2>3. session \in Stages /\ r \in Outcomes
    BY <1>2, <2>2, <2>1 DEF NoSession, Results, Outcomes
  <2>4. stack' = <<Done(session, r)>> \o <<>>
    BY <2>1
  <2>5. StackInv' /\ stack' # <<>> /\ Head(stack').handler = session
    BY Zenon, ExitFrames, CallbackStack, <2>3, <2>4
  <2>6. session \in PassStages => (current_analysis' = None \/ Analysing')
    BY <1>1 DEF LoopInv, PassInv, Analysing
  <2>7. PassInv'
    BY <2>2, <2>3, <2>5, <2>6
       DEF PassInv, InCall, NoSession, Stages, PassStages, PassCalls
  <2>8. OrphanAlone'
    BY <1>1, <2>2 DEF LoopInv, OrphanAlone
  <2> QED
    BY <1>2, <1>3, <2>2, <2>5, <2>7, <2>8 DEF LoopInv, NoSession
<1>6. CASE OrphanTimesOut
  <2>1. /\ orphan # "none" /\ stack' = <<Done(orphan, "error")>>
        /\ orphan' = "none" /\ UNCHANGED <<chrome, session>>
    BY <1>6 DEF OrphanTimesOut
  <2>2. orphan \in Stages /\ "error" \in Outcomes
    BY <1>2, <2>1 DEF Outcomes
  <2>3. stack' = <<Done(orphan, "error")>> \o <<>>
    BY <2>1
  <2>4. StackInv' /\ stack' # <<>> /\ Head(stack').handler = orphan
    BY Zenon, ExitFrames, CallbackStack, <2>2, <2>3
  <2>5. current_analysis' = None
    BY <1>1, <2>1 DEF LoopInv, OrphanAlone
  <2>6. PassInv' /\ OrphanAlone'
    BY <2>1, <2>2, <2>4, <2>5 DEF PassInv, InCall, OrphanAlone, Stages, PassCalls
  <2> QED
    BY <1>2, <1>3, <2>1, <2>4, <2>6 DEF LoopInv
<1>7. CASE ExitDue \/ Dies \/ PipeFails \/ OnRssCheck
  <2>1. /\ UNCHANGED orphan
        /\ \E rest \in {<<>>, <<Call("ResetGate"), Call("OnChromeExit")>>} :
              CancelCommands(rest)
    BY Zenon, <1>7 DEF ExitDue, Dies, OnProcessExit, PipeFails, OnRssCheck
  <2>2. chrome' \in ChromeStates /\ chrome'.object = chrome.object
    BY Zenon, <1>2, <1>7 DEF ExitDue, Dies, OnProcessExit, PipeFails, OnRssCheck,
                      ChromeStates
  <2>3. StackInv' /\ session' \in Stages \cup {"none"} /\ PassInv'
    BY <1>4, <2>1
  <2>4. OrphanAlone'
    BY <1>1, <2>1, <2>2 DEF LoopInv, OrphanAlone
  <2> QED
    BY <1>2, <1>3, <2>1, <2>2, <2>3, <2>4 DEF LoopInv
<1> QED
  BY <1>5, <1>6, <1>7 DEF ChromeEvent

LEMMA LoopInvariant ==
    ASSUME ManagerInv, [Next]_vars
    PROVE  LoopInv'
<1>0. LoopInv
  BY DEF ManagerInv
<1>1. CASE LoopCall
  BY <1>1, CallsKeepLoop
<1>2. CASE ChromeEvent
  BY <1>0, <1>2, ChromeKeepsLoop
<1>3. CASE CloseAsync
  <2>1. /\ stack # <<>> /\ Return
        /\ UNCHANGED <<chrome, session, orphan, current_analysis,
                       analysis_in_progress>>
    BY <1>3 DEF CloseAsync, Calling, analysisVars
  <2>2. StackInv' /\ (stack' # <<>> => Head(stack').handler \in Unwind)
    BY <1>0, <2>1, Returns DEF Return
  <2>3. /\ chrome' \in ChromeStates /\ OrphanAlone'
        /\ orphan' \in Stages \cup {"none"}
        /\ ~analysis_in_progress' => current_analysis' = None
    BY <1>0, <2>1 DEF LoopInv, OrphanAlone
  <2> QED
    BY <1>0, <2>1, <2>2, <2>3, QuietStep
<1>4. ASSUME NEW h \in {"DrainQueue", "StartChrome", "CloseAsync"},
             stack' = <<Call(h)>>
      PROVE  StackInv' /\ stack' # <<>> /\ Head(stack').handler = h
  <2>1. Call(h) \in Frames /\ Call(h).handler = h
    BY DEF Call, Frames, Handlers, Outcomes
  <2> QED
    BY <1>4, <2>1 DEF StackInv
<1>5. CASE OnAnalysisReady \/ OnRestartTimer
  <2>1. /\ UNCHANGED <<chrome, session, orphan, current_analysis,
                       analysis_in_progress>>
        /\ \E h \in {"DrainQueue", "StartChrome"} : stack' = <<Call(h)>>
    BY <1>5 DEF OnAnalysisReady, OnRestartTimer, analysisVars
  <2>2. /\ StackInv' /\ stack' # <<>>
        /\ Head(stack').handler \in {"DrainQueue", "StartChrome"}
    BY <1>4, <2>1
  <2>3. /\ chrome' \in ChromeStates /\ OrphanAlone'
        /\ orphan' \in Stages \cup {"none"}
        /\ ~analysis_in_progress' => current_analysis' = None
    BY <1>0, <2>1 DEF LoopInv, OrphanAlone
  <2> QED
    BY Zenon, <1>0, <2>1, <2>2, <2>3, QuietStep
<1>6. CASE Shutdown \/ WorkerRestarts
  <2>1. /\ chrome' = NoChrome /\ session' = "none" /\ orphan' = "none"
        /\ current_analysis' = None
        /\ \E h \in {"CloseAsync", "StartChrome"} : stack' = <<Call(h)>>
    BY <1>6 DEF Shutdown, WorkerRestarts, NoSession, Fresh
  <2>2. /\ StackInv' /\ stack' # <<>>
        /\ Head(stack').handler \in {"CloseAsync", "StartChrome"}
    BY <1>4, <2>1
  <2>3. chrome' \in ChromeStates /\ OrphanAlone'
    BY <2>1 DEF NoChrome, ChromeStates, OrphanAlone
  <2> QED
    BY Zenon, <1>0, <2>1, <2>2, <2>3, QuietStep
<1>7. CASE \/ OnHealthyTimer \/ OnReanalysisTimer
           \/ \E w \in Workers : LookupRecord(w) \/ PoolStep(w)
           \/ ProfileEvicted \/ PagePurged \/ UNCHANGED vars
  <2>1. UNCHANGED <<chromeVars, analysisVars>>
    BY Zenon, <1>7 DEF OnHealthyTimer, OnReanalysisTimer, LookupRecord, PoolStep,
                LookupCache, DropRecord, EnqueueAnalysis, SendAsync, poolFrame,
                ProfileEvicted, PagePurged, vars
  <2> QED
    BY <1>0, <2>1, LoopKept
<1> QED
  BY <1>1, <1>2, <1>3, <1>5, <1>6, <1>7 DEF Next

-----------------------------------------------------------------------------
(* The retry, the queue and the threads, and the store.                    *)

\* What the calls of the loop leave alone, but for the four that do not.
LEMMA CallsUntouched ==
    ASSUME LoopCall
    PROVE  /\ UNCHANGED <<shutting_down, pool>>
           /\ DrainQueueTakes \/ UNCHANGED queue
           /\ FinishAnalysis \/ UNCHANGED retryVars
           /\ StoreProfile \/ UNCHANGED profile
BY Zenon DEF LoopCall, StartChromeSucceeds, StartChromeFails, DrainQueueReturns,
       DrainQueueTakes, OnAnalysisComplete, CallbackReturns, OnCssExtractionDone,
       OnPageAnalysisDone, OnCriticalCssValidationDone, AdvanceToNextViewport,
       OnScriptAnalysisDone, FinishAnalysis, StoreProfile, RecordStoredProfile,
       OnAgentRenderDone, ResetGate, OnChromeExit, AnalysisFrame, StoreFrame,
       storeVars, retryVars

\* The events that touch none of them.
QuietEvent ==
    \/ CloseAsync \/ OnAnalysisReady \/ OnRestartTimer \/ OnHealthyTimer
    \/ ChromeEvent \/ PagePurged \/ UNCHANGED vars

LEMMA QuietUntouched ==
    ASSUME QuietEvent
    PROVE  UNCHANGED <<queue, analysisVars, retryVars, profile, shutting_down,
                       pool>>
BY DEF QuietEvent, CloseAsync, OnAnalysisReady, OnRestartTimer, OnHealthyTimer,
       ChromeEvent, PagePurged, storeVars, retryVars, vars

\* Each step of a thread changes the thread, and the queue only to add to it.
LEMMA ThreadUntouched ==
    ASSUME NEW w \in Workers, LookupRecord(w) \/ PoolStep(w)
    PROVE  /\ UNCHANGED <<chromeVars, analysisVars, retryVars, profile,
                          shutting_down>>
           /\ EnqueueAnalysis(w) \/ UNCHANGED queue
BY DEF LookupRecord, PoolStep, LookupCache, DropRecord, EnqueueAnalysis,
       SendAsync, poolFrame

LEMMA RetryItem ==
    ASSUME ManagerInv, FinishAnalysis, MayReanalyse
    PROVE  BuildReanalysisItem(current_analysis.item) \in AnalysisItem
<1>1. Analysing
  BY PassCallsKeepLoop
<1>2. current_analysis.item \in AnalysisItem
  BY <1>1 DEF ManagerInv, LoopInv, Analysing, Contexts
<1>3. /\ current_analysis.item.template \in Templates
      /\ current_analysis.item.force \in BOOLEAN
      /\ current_analysis.item.retry_count \in Nat
  BY <1>2, Zenon DEF AnalysisItem
<1>4. current_analysis.item.retry_count + 1 \in Nat
  BY <1>3
<1> QED
  BY <1>3, <1>4, ItemType DEF BuildReanalysisItem

\* An analysis only begins with an item that is taken.
LEMMA AnalysisContinues ==
    ASSUME ManagerInv, LoopCall, ~DrainQueueTakes
    PROVE  current_analysis' # None => current_analysis # None
<1>1. CASE \/ OnCssExtractionDone \/ OnPageAnalysisDone
           \/ OnCriticalCssValidationDone \/ OnScriptAnalysisDone
           \/ AdvanceToNextViewport \/ FinishAnalysis
           \/ StoreProfile \/ RecordStoredProfile
  BY <1>1, PassCallsKeepLoop DEF Analysing
<1>2. CASE \/ StartChromeSucceeds \/ StartChromeFails \/ DrainQueueReturns
           \/ OnAnalysisComplete \/ CallbackReturns \/ OnAgentRenderDone
           \/ ResetGate \/ OnChromeExit
  BY Zenon, <1>2 DEF StartChromeSucceeds, StartChromeFails, DrainQueueReturns,
              OnAnalysisComplete, CallbackReturns, OnAgentRenderDone, ResetGate,
              OnChromeExit, analysisVars
<1> QED
  BY <1>1, <1>2 DEF LoopCall

LEMMA RetryInvariant ==
    ASSUME ManagerInv, [Next]_vars
    PROVE  RetryInv'
<1>0. RetryInv
  BY DEF ManagerInv
<1>1. ASSUME UNCHANGED <<retryVars, analysisVars, shutting_down>>
      PROVE  RetryInv'
  BY <1>0, <1>1 DEF RetryInv, retryVars, analysisVars
<1>2. CASE OnReanalysisTimer
  <2>1. /\ pending_reanalysis' = None /\ reanalysis_timer' = FALSE
        /\ UNCHANGED <<current_analysis, shutting_down>>
    BY <1>2 DEF OnReanalysisTimer, analysisVars
  <2> QED
    BY <1>0, <2>1 DEF RetryInv
<1>3. CASE Shutdown \/ WorkerRestarts
  <2>1. /\ pending_reanalysis' = None /\ reanalysis_timer' = FALSE
        /\ current_analysis' = None
    BY <1>3 DEF Shutdown, WorkerRestarts
  <2> QED
    BY <2>1 DEF RetryInv
<1>4. CASE LoopCall
  <2>0. UNCHANGED shutting_down /\ (FinishAnalysis \/ UNCHANGED retryVars)
    BY <1>4, CallsUntouched
  <2>1. CASE FinishAnalysis /\ MayReanalyse
    <3>1. BuildReanalysisItem(current_analysis.item) \in AnalysisItem
      BY <2>1, RetryItem
    <3>2. /\ pending_reanalysis' = BuildReanalysisItem(current_analysis.item)
          /\ reanalysis_timer' = TRUE
      BY <2>1 DEF FinishAnalysis
    <3>3. ~shutting_down
      BY <1>0, <2>1, PassCallsKeepLoop DEF RetryInv, Analysing
    <3> QED
      BY <2>0, <3>1, <3>2, <3>3, NoneIsNone DEF RetryInv
  <2>2. CASE UNCHANGED retryVars
    <3>1. shutting_down => current_analysis' = None
      <4>1. DrainQueueTakes => ~shutting_down
        BY DEF DrainQueueTakes, MayTake
      <4> QED
        BY <1>0, <1>4, <4>1, AnalysisContinues DEF RetryInv
    <3> QED
      BY <1>0, <2>0, <2>2, <3>1 DEF RetryInv, retryVars
  <2> QED
    BY Zenon, <2>0, <2>1, <2>2 DEF FinishAnalysis
<1>5. CASE QuietEvent
  BY <1>1, <1>5, QuietUntouched
<1>6. CASE \E w \in Workers : LookupRecord(w) \/ PoolStep(w)
  BY <1>1, <1>6, ThreadUntouched
<1>7. CASE ProfileEvicted
  BY <1>1, <1>7 DEF ProfileEvicted
<1> QED
  BY <1>2, <1>3, <1>4, <1>5, <1>6, <1>7 DEF Next, QuietEvent

LEMMA StoreInvariant ==
    ASSUME ManagerInv, [Next]_vars
    PROVE  StoreInv'
<1>0. StoreInv
  BY DEF ManagerInv
<1>1. CASE UNCHANGED profile
  BY <1>0, <1>1 DEF StoreInv
<1>2. CASE StoreProfile
  <2>1. Analysing
    BY <1>2, PassCallsKeepLoop
  <2>2. current_analysis.found \in Found
    BY <2>1 DEF ManagerInv, LoopInv, Analysing, Contexts
  <2>3. \/ UNCHANGED profile
        \/ profile' = [profile EXCEPT ![current_analysis.item.template] =
                          current_analysis.found]
    BY <1>2 DEF StoreProfile
  <2> QED
    BY <1>0, <2>2, <2>3 DEF StoreInv
<1>3. CASE ProfileEvicted
  BY <1>0, <1>3 DEF ProfileEvicted, StoreInv
<1>4. CASE LoopCall
  BY <1>1, <1>2, <1>4, CallsUntouched
<1>5. CASE QuietEvent
  BY <1>1, <1>5, QuietUntouched
<1>6. CASE \E w \in Workers : LookupRecord(w) \/ PoolStep(w)
  BY <1>1, <1>6, ThreadUntouched
<1>7. CASE OnReanalysisTimer \/ Shutdown \/ WorkerRestarts
  BY <1>1, <1>7 DEF OnReanalysisTimer, Shutdown, WorkerRestarts, storeVars
<1> QED
  BY <1>3, <1>4, <1>5, <1>6, <1>7 DEF Next, QuietEvent

\* A step of one thread keeps the others as they are.
LEMMA ThreadInvariant ==
    ASSUME PoolInv, AskedInv, NEW w \in Workers, LookupRecord(w) \/ PoolStep(w)
    PROVE  PoolInv' /\ AskedInv'
<1> DEFINE Threads == [pc : {"idle", "read", "remove", "enqueue", "send"},
                       page : Templates \cup {None}, force : BOOLEAN]
<1>1. pool[w] \in Threads
  BY DEF PoolInv
<1>2. SUFFICES ASSUME NEW x \in Threads, x.pc # "idle" => x.page \in Templates,
                      pool' = [pool EXCEPT ![w] = x]
               PROVE  PoolInv' /\ AskedInv'
  <2>1. IdleThread \in Threads /\ IdleThread.pc = "idle"
    BY DEF IdleThread
  <2>2. ASSUME NEW pc \in {"remove", "enqueue", "send"}, To(w, pc), ~At(w, "idle")
        PROVE  \E x \in Threads : /\ x.pc # "idle" => x.page \in Templates
                                  /\ pool' = [pool EXCEPT ![w] = x]
    <3> DEFINE x == [pool[w] EXCEPT !.pc = pc]
    <3>1. x \in Threads /\ x.page = pool[w].page
      BY <1>1
    <3>2. pool[w].page \in Templates
      BY <2>2 DEF AskedInv, At
    <3>3. pool' = [pool EXCEPT ![w] = x]
      BY <2>2 DEF To
    <3> QED
      BY Zenon, <3>1, <3>2, <3>3
  <2>3. CASE Leaves(w)
    BY Zenon, <1>2, <2>1, <2>3 DEF Leaves
  <2>4. CASE LookupRecord(w)
    <3>1. PICK t \in Templates :
              pool' = [pool EXCEPT ![w] =
                          [pc |-> IF HasProfile(t) THEN "read" ELSE "enqueue",
                           page |-> t, force |-> FALSE]]
      BY Zenon, <2>4 DEF LookupRecord
    <3> DEFINE x == [pc |-> IF HasProfile(t) THEN "read" ELSE "enqueue",
                     page |-> t, force |-> FALSE]
    <3>2. x \in Threads /\ x.page \in Templates
      OBVIOUS
    <3> QED
      BY Zenon, <1>2, <3>1, <3>2
  <2>5. CASE pool' = [pool EXCEPT ![w].pc = "enqueue", ![w].force = TRUE]
             /\ At(w, "read")
    <3> DEFINE x == [pool[w] EXCEPT !.pc = "enqueue", !.force = TRUE]
    <3>1. x \in Threads /\ x.page = pool[w].page
      BY Zenon, <1>1
    <3>2. pool[w].page \in Templates
      BY <2>5 DEF AskedInv, At
    <3>3. pool' = [pool EXCEPT ![w] = x]
      BY Zenon, <2>5
    <3> QED
      BY Zenon, <1>2, <3>1, <3>2, <3>3
  <2>6. CASE \E pc \in {"remove", "enqueue", "send"} : To(w, pc) /\ ~At(w, "idle")
    BY <1>2, <2>2, <2>6
  <2> QED
    BY <2>3, <2>4, <2>5, <2>6
       DEF PoolStep, LookupCache, DropRecord, EnqueueAnalysis, SendAsync, At
<1> QED
  BY <1>2 DEF PoolInv, AskedInv

\* The item a thread hands to the queue.
LEMMA AskedItem ==
    ASSUME PoolInv, AskedInv, NEW w \in Workers, At(w, "enqueue")
    PROVE  /\ Item(pool[w].page, pool[w].force, 0) \in AnalysisItem
           /\ pool[w].page \in Templates /\ pool[w].force \in BOOLEAN
<1>1. pool[w].page \in Templates /\ pool[w].force \in BOOLEAN
  BY DEF PoolInv, AskedInv, At
<1> QED
  BY <1>1, ItemType

LEMMA SharedInvariant ==
    ASSUME ManagerInv, [Next]_vars
    PROVE  SharedInv'
<1>0. /\ QueueInv /\ queue.shutdown = shutting_down
      /\ PoolInv /\ AskedInv
  BY DEF ManagerInv, SharedInv
<1>1. ASSUME UNCHANGED queue PROVE QueueInv'
  BY <1>0, <1>1 DEF QueueInv, QueueExact
<1>2. ASSUME UNCHANGED pool PROVE PoolInv' /\ AskedInv'
  BY <1>0, <1>2 DEF PoolInv, AskedInv
<1>3. CASE LoopCall
  <2>1. CASE DrainQueueTakes
    <3>1. queue.items # <<>> /\ queue' = Dequeued(queue)
      BY <2>1 DEF DrainQueueTakes, MayTake
    <3> QED
      BY Zenon, <1>0, <1>2, <1>3, <3>1, DequeueStep, CallsUntouched DEF SharedInv
  <2> QED
    BY Zenon, <1>0, <1>1, <1>2, <1>3, <2>1, CallsUntouched DEF SharedInv
<1>4. CASE QuietEvent
  BY <1>0, <1>1, <1>2, <1>4, QuietUntouched DEF SharedInv
<1>5. CASE OnReanalysisTimer
  <2>1. UNCHANGED <<shutting_down, pool>>
    BY <1>5 DEF OnReanalysisTimer
  <2>2. QueueInv' /\ queue'.shutdown = queue.shutdown
    <3>1. CASE Accepts(queue, pending_reanalysis)
      <4>1. pending_reanalysis \in AnalysisItem
        BY <1>5 DEF OnReanalysisTimer, ManagerInv, RetryInv
      <4>2. queue' = Enqueued(queue, pending_reanalysis)
        BY <1>5, <3>1 DEF OnReanalysisTimer
      <4> QED
        BY <1>0, <3>1, <4>1, <4>2, EnqueueStep
    <3>2. CASE ~Accepts(queue, pending_reanalysis)
      BY <1>1, <1>5, <3>2 DEF OnReanalysisTimer
    <3> QED
      BY <3>1, <3>2
  <2> QED
    BY <1>0, <1>2, <2>1, <2>2 DEF SharedInv
<1>6. CASE \E w \in Workers : LookupRecord(w) \/ PoolStep(w)
  <2>1. PICK w \in Workers : LookupRecord(w) \/ PoolStep(w)
    BY <1>6
  <2>2. UNCHANGED shutting_down /\ PoolInv' /\ AskedInv'
    BY <1>0, <2>1, ThreadUntouched, ThreadInvariant
  <2>3. QueueInv' /\ queue'.shutdown = queue.shutdown
    <3>1. CASE UNCHANGED queue
      BY <1>1, <3>1
    <3>2. CASE EnqueueAnalysis(w)
      <4> DEFINE item == Item(pool[w].page, pool[w].force, 0)
      <4>1. item \in AnalysisItem
        BY Zenon, <1>0, <3>2, AskedItem DEF EnqueueAnalysis
      <4>2. UNCHANGED queue \/ (Accepts(queue, item) /\ queue' = Enqueued(queue, item))
        BY <3>2 DEF EnqueueAnalysis
      <4> HIDE DEF item
      <4> QED
        BY Zenon, <1>0, <1>1, <4>1, <4>2, EnqueueStep
    <3> QED
      BY <2>1, <3>1, <3>2, ThreadUntouched
  <2> QED
    BY <1>0, <2>2, <2>3 DEF SharedInv
<1>7. CASE Shutdown
  <2>1. /\ shutting_down' = TRUE /\ queue' = [queue EXCEPT !.shutdown = TRUE]
        /\ UNCHANGED pool
    BY <1>7 DEF Shutdown
  <2>2. QueueInv' /\ queue'.shutdown = TRUE
    BY Zenon, <1>0, <2>1 DEF QueueInv, QueueExact
  <2> QED
    BY <1>2, <2>1, <2>2 DEF SharedInv
<1>8. CASE WorkerRestarts
  <2>1. /\ queue' = EmptyQueue /\ shutting_down' = FALSE
        /\ pool' = [w \in Workers |-> IdleThread]
    BY <1>8 DEF WorkerRestarts, Fresh
  <2>2. QueueInv' /\ queue'.shutdown = FALSE
    <3>1. /\ queue'.items = <<>> /\ queue'.pending = {} /\ queue'.shutdown = FALSE
          /\ Len(queue'.items) = 0 /\ DOMAIN queue'.items = {}
      BY <2>1 DEF EmptyQueue
    <3>2. queue' \in [items : Seq(AnalysisItem),
                      pending : SUBSET Service!Requests, shutdown : BOOLEAN]
      BY <2>1 DEF EmptyQueue
    <3>3. QueueExact'
      BY <3>1, QueueAssumption DEF QueueExact
    <3> QED
      BY <3>1, <3>2, <3>3 DEF QueueInv
  <2>3. PoolInv' /\ AskedInv'
    BY <2>1 DEF PoolInv, AskedInv, IdleThread
  <2> QED
    BY Zenon, <2>1, <2>2, <2>3 DEF SharedInv
<1>9. CASE ProfileEvicted
  <2>1. UNCHANGED <<queue, shutting_down, pool>>
    BY <1>9 DEF ProfileEvicted
  <2> QED
    BY <1>0, <1>1, <1>2, <2>1 DEF SharedInv
<1> QED
  BY <1>3, <1>4, <1>5, <1>6, <1>7, <1>8, <1>9 DEF Next, QuietEvent

\* The invariant of the manager: the stack of calls only ever unwinds an exit,
\* a call of a full analysis finds that analysis, a retry waits exactly while
\* its timer does, and the queue and its flag agree with the manager's.
THEOREM ManagerInvariant == Spec => []ManagerInv
<1>1. Init => ManagerInv
  <2> SUFFICES ASSUME Init PROVE ManagerInv
    OBVIOUS
  <2>1. LoopInv
    <3>1. stack = <<Call("StartChrome")>> /\ Call("StartChrome") \in Frames
          /\ Call("StartChrome").handler = "StartChrome"
      BY DEF Init, Fresh, Call, Frames, Handlers, Outcomes
    <3>2. StackInv /\ Head(stack).handler = "StartChrome"
      <4>1. stack \in Seq(Frames) /\ Head(stack) = Call("StartChrome")
            /\ 2..Len(stack) = {}
        BY Zenon, <3>1, OneCall
      <4> QED
        BY Zenon, <3>1, <4>1 DEF StackInv
    <3>3. PassInv /\ OrphanAlone /\ chrome \in ChromeStates
      BY <3>2 DEF Init, ChromeInit, PassInv, InCall, PassStages, PassCalls,
                  OrphanAlone, NoSession, NoChrome, ChromeStates
    <3> QED
      BY Zenon, <3>2, <3>3 DEF Init, ChromeInit, LoopInv, NoSession
  <2>2. RetryInv
    BY DEF Init, RetryInv
  <2>3. SharedInv
    <3>1. QueueInv /\ queue.shutdown = FALSE
      BY Zenon, EmptyQueueInv DEF Init, Fresh
    <3>2. PoolInv /\ AskedInv
      BY DEF Init, Fresh, IdleThread, PoolInv, AskedInv
    <3> QED
      BY Zenon, <3>1, <3>2 DEF Init, SharedInv
  <2>4. StoreInv
    BY DEF Init, StoreInv
  <2> QED
    BY <2>1, <2>2, <2>3, <2>4 DEF ManagerInv
<1>2. ManagerInv /\ [Next]_vars => ManagerInv'
  BY LoopInvariant, RetryInvariant, SharedInvariant, StoreInvariant DEF ManagerInv
<1> QED
  BY <1>1, <1>2, PTL DEF Spec

\* The pending set of the queue is exactly its items' keys, for every queue
\* size, pool and number of templates.
THEOREM QueueStaysExact == Spec => []QueueExact
<1>1. ManagerInv => QueueExact
  BY DEF ManagerInv, SharedInv, QueueInv
<1> QED
  BY <1>1, ManagerInvariant, PTL

\* A session left on a Chrome that exited never meets a later analysis, whatever
\* the number of viewports, retries and exits.
THEOREM OrphanStaysAlone == Spec => []OrphanAlone
<1>1. ManagerInv => OrphanAlone
  BY DEF ManagerInv, LoopInv
<1> QED
  BY <1>1, ManagerInvariant, PTL

-----------------------------------------------------------------------------
(* The records of the template detector.                                   *)

Records ==
    /\ insertion_order \in Seq(Templates)
    /\ Len(insertion_order) <= kMaxTemplates
    /\ \A i, j \in 1..Len(insertion_order) :
          insertion_order[i] = insertion_order[j] => i = j

LEMMA RecordFacts ==
    ASSUME Records
    PROVE  /\ insertion_order \in Seq(Templates)
           /\ Len(insertion_order) \in Nat
           /\ DOMAIN insertion_order = 1..Len(insertion_order)
           /\ Len(insertion_order) <= kMaxTemplates
           /\ \A i \in 1..Len(insertion_order) : insertion_order[i] \in Templates
           /\ \A i, j \in 1..Len(insertion_order) :
                 insertion_order[i] = insertion_order[j] => i = j
<1>1. insertion_order \in Seq(Templates)
  BY Zenon DEF Records
<1>2. /\ Len(insertion_order) \in Nat
      /\ DOMAIN insertion_order = 1..Len(insertion_order)
      /\ \A i \in 1..Len(insertion_order) : insertion_order[i] \in Templates
  BY Zenon, <1>1, LenProperties, ElementOfSeq
<1> QED
  BY Zenon, <1>1, <1>2 DEF Records

\* The entries before and behind the k-th, and those of a sequence without its
\* first m.
LEMMA LaterIndex ==
    ASSUME NEW n \in Nat, NEW k \in 1..n, NEW i \in (k + 1)..n
    PROVE  i \in 1..n
  OBVIOUS

LEMMA FirstPart ==
    ASSUME NEW S, NEW s \in Seq(S), NEW k \in 1..Len(s)
    PROVE  /\ SubSeq(s, 1, k - 1) \in Seq(S) /\ Len(SubSeq(s, 1, k - 1)) = k - 1
           /\ \A i \in 1..(k - 1) : SubSeq(s, 1, k - 1)[i] = s[i]
  OBVIOUS

LEMMA LastPart ==
    ASSUME NEW S, NEW s \in Seq(S), NEW k \in 1..Len(s)
    PROVE  /\ SubSeq(s, k + 1, Len(s)) \in Seq(S)
           /\ Len(SubSeq(s, k + 1, Len(s))) = Len(s) - k
           /\ \A i \in 1..(Len(s) - k) : SubSeq(s, k + 1, Len(s))[i] = s[i + k]
<1> DEFINE n == Len(s)
           b == SubSeq(s, k + 1, n)
<1>1. n \in Nat /\ \A i \in (k + 1)..n : s[i] \in S
  BY Zenon, LenProperties, ElementOfSeq, LaterIndex
<1>2. /\ b \in Seq(S)
      /\ Len(b) = IF k + 1 <= n THEN n - (k + 1) + 1 ELSE 0
      /\ \A i \in 1..(n - (k + 1) + 1) : b[i] = s[(k + 1) + i - 1]
  BY <1>1, SubSeqProperties
<1>3. \A i \in 1..(n - k) : (k + 1) + i - 1 = i + k
  BY <1>1
<1> HIDE DEF b, n
<1>4. Len(b) = n - k /\ \A i \in 1..(n - k) : b[i] = s[i + k]
  BY <1>1, <1>2, <1>3 DEF n
<1> QED
  BY Zenon, <1>2, <1>4 DEF n, b

LEMMA ShiftedIndex ==
    ASSUME NEW n \in Nat, NEW m \in {0, 1}, m <= n, NEW i \in 1..(n - m)
    PROVE  i + m \in 1..n
  OBVIOUS

\* An entry that is erased is gone, and every other one stays: the detector
\* holds a template at most once.
LEMMA RemovedRecord ==
    ASSUME Records, NEW t \in Templates, insertion_order' = Removed(t)
    PROVE  /\ Records'
           /\ Range(insertion_order') = Range(insertion_order) \ {t}
<1> DEFINE s == insertion_order
           n == Len(s)
<1>0. /\ s \in Seq(Templates) /\ n \in Nat /\ DOMAIN s = 1..n /\ n <= kMaxTemplates
      /\ kMaxTemplates \in Nat
      /\ \A i \in 1..n : s[i] \in Templates
      /\ \A i, j \in 1..n : s[i] = s[j] => i = j
  <2>1. kMaxTemplates \in Nat
    BY ManagerAssumption
  <2> QED
    BY Zenon, <2>1, RecordFacts
<1>1. CASE ~HasProfile(t)
  <2>1. UNCHANGED insertion_order /\ t \notin Range(insertion_order)
    BY <1>1 DEF Removed, HasProfile
  <2> QED
    BY <2>1 DEF Records
<1>2. CASE HasProfile(t)
  <2> DEFINE k == CHOOSE i \in DOMAIN s : s[i] = t
             a == SubSeq(s, 1, k - 1)
             b == SubSeq(s, k + 1, n)
             r == a \o b
  <2>1. k \in 1..n /\ s[k] = t
    BY Zenon, <1>0, <1>2 DEF HasProfile, Range
  <2>2. insertion_order' = r
    BY Zenon, <1>2 DEF Removed
  <2> HIDE DEF k
  <2>3. /\ a \in Seq(Templates) /\ Len(a) = k - 1
        /\ \A i \in 1..(k - 1) : a[i] = s[i]
    BY Zenon, <1>0, <2>1, FirstPart
  <2>4. /\ b \in Seq(Templates) /\ Len(b) = n - k
        /\ \A i \in 1..(n - k) : b[i] = s[i + k]
    <3>1. s \in Seq(Templates) /\ k \in 1..Len(s)
      BY Zenon, <1>0, <2>1
    <3> QED
      BY Zenon, <3>1, LastPart
  <2> HIDE DEF a, b
  <2>5. /\ r \in Seq(Templates) /\ Len(r) = n - 1
        /\ \A i \in 1..(n - 1) : r[i] = IF i < k THEN s[i] ELSE s[i + 1]
    <3>1. r \in Seq(Templates) /\ Len(r) = n - 1
      <4> HIDE DEF n, s
      <4>1. r \in Seq(Templates) /\ Len(r) = Len(a) + Len(b)
        BY Zenon, <2>3, <2>4, ConcatProperties
      <4> QED
        BY <1>0, <2>1, <2>3, <2>4, <4>1
    <3>2. ASSUME NEW i \in 1..(n - 1), i < k PROVE r[i] = s[i]
      BY <1>0, <2>1, <2>3, <2>4, <3>2
    <3>3. ASSUME NEW i \in 1..(n - 1), ~(i < k) PROVE r[i] = s[i + 1]
      <4>1. r[i] = b[i - (k - 1)]
        BY <1>0, <2>1, <2>3, <2>4, <3>3
      <4>2. i - (k - 1) \in 1..(n - k) /\ i - (k - 1) + k = i + 1
        BY <1>0, <2>1, <3>3
      <4> QED
        BY <2>4, <4>1, <4>2
    <3> QED
      BY Zenon, <3>1, <3>2, <3>3
  <2> HIDE DEF r, s, n
  <2>6. \A i, j \in 1..Len(r) : r[i] = r[j] => i = j
    <3> SUFFICES ASSUME NEW i \in 1..(n - 1), NEW j \in 1..(n - 1), r[i] = r[j]
                 PROVE  i = j
      BY <2>5
    <3> DEFINE p == IF i < k THEN i ELSE i + 1
               q == IF j < k THEN j ELSE j + 1
    <3>1. p \in 1..n /\ q \in 1..n /\ r[i] = s[p] /\ r[j] = s[q]
      BY <1>0, <2>1, <2>5
    <3>2. p = q
      BY Zenon, <1>0, <3>1
    <3> QED
      BY <1>0, <2>1, <3>2
  <2>7. ASSUME NEW i \in 1..(n - 1)
        PROVE  \E j \in 1..n : r[i] = s[j] /\ j # k
    <3> DEFINE p == IF i < k THEN i ELSE i + 1
    <3>1. p \in 1..n /\ r[i] = s[p] /\ p # k
      BY <1>0, <2>1, <2>5
    <3> QED
      BY Zenon, <3>1
  <2>8. ASSUME NEW j \in 1..n, j # k
        PROVE  \E i \in 1..(n - 1) : r[i] = s[j]
    <3> DEFINE p == IF j < k THEN j ELSE j - 1
    <3>1. p \in 1..(n - 1) /\ r[p] = s[j]
      BY <1>0, <2>1, <2>5, <2>8
    <3> QED
      BY Zenon, <3>1
  <2>9. DOMAIN r = 1..(n - 1)
    BY <1>0, <2>5
  <2>10. Range(r) = Range(s) \ {t}
    <3>1. ASSUME NEW x \in Range(r) PROVE x \in Range(s) \ {t}
      <4>1. PICK i \in 1..(n - 1) : x = r[i]
        BY Zenon, <2>9 DEF Range
      <4>2. PICK j \in 1..n : x = s[j] /\ j # k
        BY Zenon, <2>7, <4>1
      <4>3. x # t
        BY Zenon, <1>0, <2>1, <4>2
      <4> QED
        BY Zenon, <1>0, <4>2, <4>3 DEF Range
    <3>2. ASSUME NEW x \in Range(s) \ {t} PROVE x \in Range(r)
      <4>1. PICK j \in 1..n : x = s[j]
        BY Zenon, <1>0 DEF Range
      <4>2. j # k
        BY Zenon, <2>1, <4>1
      <4>3. PICK i \in 1..(n - 1) : r[i] = s[j]
        BY Zenon, <2>8, <4>2
      <4> QED
        BY Zenon, <2>9, <4>1, <4>3 DEF Range
    <3> QED
      BY Zenon, <3>1, <3>2
  <2>11. Len(r) <= kMaxTemplates
    BY <1>0, <2>5
  <2> QED
    BY ZenonT(60), <2>2, <2>5, <2>6, <2>10, <2>11 DEF Records, s
<1> QED
  BY Zenon, <1>1, <1>2

\* A template that is recorded is one more entry, in place of the oldest when
\* the detector is full.
LEMMA AddedRecord ==
    ASSUME Records, NEW t \in Templates, RecordProfile(t)
    PROVE  /\ Records'
           /\ Range(insertion_order') \subseteq Range(insertion_order) \cup {t}
<1> DEFINE s == insertion_order
           n == Len(s)
<1>0. /\ s \in Seq(Templates) /\ n \in Nat /\ DOMAIN s = 1..n /\ n <= kMaxTemplates
      /\ kMaxTemplates \in Nat /\ kMaxTemplates > 0
      /\ \A i \in 1..n : s[i] \in Templates
      /\ \A i, j \in 1..n : s[i] = s[j] => i = j
  <2>1. kMaxTemplates \in Nat /\ kMaxTemplates > 0
    BY ManagerAssumption
  <2> QED
    BY Zenon, <2>1, RecordFacts
<1>1. CASE HasProfile(t)
  <2>1. UNCHANGED insertion_order
    BY <1>1 DEF RecordProfile
  <2> QED
    BY <2>1 DEF Records
<1>2. CASE ~HasProfile(t)
  <2> DEFINE m == IF n >= kMaxTemplates THEN 1 ELSE 0
             base == IF n >= kMaxTemplates THEN Tail(s) ELSE s
             r == Append(base, t)
  <2>1. /\ m \in {0, 1} /\ m <= n
        /\ base \in Seq(Templates) /\ Len(base) = n - m
        /\ \A i \in 1..(n - m) : base[i] = s[i + m]
    BY <1>0
  <2>2. n - m < kMaxTemplates
    BY <1>0
  <2>3. insertion_order' = r
    BY <1>2 DEF RecordProfile
  <2> HIDE DEF m, base
  <2>4. /\ r \in Seq(Templates) /\ Len(r) = n - m + 1
        /\ \A i \in 1..(n - m) : r[i] = s[i + m]
        /\ r[n - m + 1] = t
    BY <1>0, <2>1
  <2>5. \A i \in 1..n : s[i] # t
    BY <1>0, <1>2 DEF HasProfile, Range
  <2> HIDE DEF r, s, n
  <2>6. \A i \in 1..(n - m + 1) : i \in 1..(n - m) \/ i = n - m + 1
    BY <1>0, <2>1
  <2>7. \A i \in 1..(n - m) : i + m \in 1..n /\ r[i] # t
    <3> SUFFICES ASSUME NEW i \in 1..(n - m) PROVE i + m \in 1..n /\ r[i] # t
      OBVIOUS
    <3>1. i + m \in 1..n
      BY Zenon, <1>0, <2>1, ShiftedIndex
    <3>2. r[i] = s[i + m]
      BY Zenon, <2>4
    <3> QED
      BY Zenon, <2>5, <3>1, <3>2
  <2>8. \A i, j \in 1..Len(r) : r[i] = r[j] => i = j
    <3> SUFFICES ASSUME NEW i \in 1..(n - m + 1), NEW j \in 1..(n - m + 1),
                        r[i] = r[j]
                 PROVE  i = j
      BY <2>4
    <3>1. CASE i \in 1..(n - m) /\ j \in 1..(n - m)
      <4>1. i + m = j + m
        <5>1. i + m \in 1..n /\ j + m \in 1..n
          BY Zenon, <2>7, <3>1
        <5>2. s[i + m] = s[j + m]
          BY Zenon, <2>4, <3>1
        <5> QED
          BY Zenon, <1>0, <5>1, <5>2
      <4> QED
        BY <2>1, <4>1
    <3>2. CASE i = n - m + 1 \/ j = n - m + 1
      BY Zenon, <2>4, <2>6, <2>7, <3>2
    <3> QED
      BY <2>6, <3>1, <3>2
  <2>9. ASSUME NEW i \in DOMAIN r PROVE r[i] \in Range(s) \cup {t}
    <3>1. i \in 1..(n - m + 1)
      BY <1>0, <2>1, <2>4
    <3>2. CASE i \in 1..(n - m)
      <4>1. i + m \in DOMAIN s /\ r[i] = s[i + m]
        BY Zenon, <1>0, <2>4, <2>7, <3>2
      <4> QED
        BY Zenon, <4>1 DEF Range
    <3> QED
      BY Zenon, <2>4, <2>6, <3>1, <3>2
  <2>10. Range(r) \subseteq Range(s) \cup {t}
    BY Zenon, <2>9 DEF Range
  <2>11. Len(r) <= kMaxTemplates
    BY <1>0, <2>1, <2>2, <2>4
  <2> QED
    BY Zenon, <2>3, <2>4, <2>8, <2>10, <2>11 DEF Records, s
<1> QED
  BY <1>1, <1>2

-----------------------------------------------------------------------------
(* The record of a template follows its profile.                           *)

Spents == [notifications : Nat, faults : Nat, cache : Nat]

Written(t) == profile[t] \notin {"none", "gone"}

\* Between the commit of a profile and its record a call is left to be made,
\* which finds the profile as long as the cache has failed nothing.
RecordsInv ==
    /\ Records
    /\ spent \in Spents
    /\ spent.cache = 0 => /\ \A t \in Range(insertion_order) : Written(t)
                          /\ InCall({"RecordProfile"}) =>
                                Written(current_analysis.item.template)

\* An event of a bounded kind is counted, and only those of the cache as such.
LEMMA Spends ==
    ASSUME spent \in Spents, NEW bound
    PROVE  /\ Spend("notifications", bound) =>
                 spent' \in Spents /\ spent'.cache = spent.cache
           /\ Spend("faults", bound) =>
                 spent' \in Spents /\ spent'.cache = spent.cache
           /\ Spend("cache", bound) =>
                 spent' \in Spents /\ spent'.cache # 0
<1>1. /\ spent.notifications \in Nat /\ spent.faults \in Nat /\ spent.cache \in Nat
  BY DEF Spents
<1>2. /\ spent.notifications + 1 \in Nat /\ spent.faults + 1 \in Nat
      /\ spent.cache + 1 \in Nat /\ spent.cache + 1 # 0
  BY <1>1
<1>3. ASSUME Spend("notifications", bound)
      PROVE  spent' \in Spents /\ spent'.cache = spent.cache
  BY Zenon, <1>2, <1>3 DEF Spend, Spents
<1>4. ASSUME Spend("faults", bound)
      PROVE  spent' \in Spents /\ spent'.cache = spent.cache
  BY Zenon, <1>2, <1>4 DEF Spend, Spents
<1>5. ASSUME Spend("cache", bound)
      PROVE  spent' \in Spents /\ spent'.cache # 0
  <2>1. spent' \in Spents /\ spent'.cache = spent.cache + 1
    BY Zenon, <1>2, <1>5 DEF Spend, Spents
  <2> QED
    BY <1>2, <2>1
<1> QED
  BY <1>3, <1>4, <1>5

\* A step that touches neither the records nor the profiles, and does not come
\* to the call that makes the record.
LEMMA RecordsKept ==
    ASSUME RecordsInv, UNCHANGED <<insertion_order, profile>>,
           spent' \in Spents, spent'.cache = 0 => spent.cache = 0,
           \/ ~InCall({"RecordProfile"})'
           \/ UNCHANGED <<stack, current_analysis>>
    PROVE  RecordsInv'
<1>1. Records'
  BY DEF RecordsInv, Records
<1>2. spent'.cache = 0 => \A t \in Range(insertion_order') : Written(t)'
  BY DEF RecordsInv, Written
<1>3. (spent'.cache = 0 /\ InCall({"RecordProfile"})') =>
          Written(current_analysis.item.template)'
  BY DEF RecordsInv, Written, InCall
<1> QED
  BY <1>1, <1>2, <1>3 DEF RecordsInv

\* The handlers of what a call leaves to be made.
LEMMA NextCall ==
    ASSUME LoopInv, stack # <<>>
    PROVE  /\ Return => ~InCall({"RecordProfile"})'
           /\ \A h \in Handlers \ {"RecordProfile"} :
                 GoTo(h) => ~InCall({"RecordProfile"})'
           /\ \A stage \in Stages : 
                 StartSession(stage, Tail(stack)) => ~InCall({"RecordProfile"})'
           /\ \A stage \in Stages :
                 stack' = <<Done(stage, "error")>> \o Tail(stack)
                    => ~InCall({"RecordProfile"})'
<1>1. Return => ~InCall({"RecordProfile"})'
  BY Returns DEF Return, InCall, Unwind
<1>2. ASSUME NEW h \in Handlers \ {"RecordProfile"}, GoTo(h)
      PROVE  ~InCall({"RecordProfile"})'
  <2>1. "none" \in Outcomes
    BY DEF Outcomes
  <2>2. Head(stack').handler = h
    BY <1>2, <2>1, CallsNext DEF GoTo, Call
  <2> QED
    BY <1>2, <2>2 DEF InCall
<1>3. ASSUME NEW stage \in Stages, StartSession(stage, Tail(stack))
      PROVE  ~InCall({"RecordProfile"})'
  BY <1>3, SessionStarts DEF InCall, Unwind, Stages
<1>4. ASSUME NEW stage \in Stages, stack' = <<Done(stage, "error")>> \o Tail(stack)
      PROVE  ~InCall({"RecordProfile"})'
  <2>1. stage \in Handlers /\ "error" \in Outcomes /\ stage # "RecordProfile"
    BY DEF Outcomes, Handlers, Stages
  <2>2. Head(stack').handler = stage
    BY Zenon, <1>4, <2>1, CallsNext DEF Done
  <2> QED
    BY <2>1, <2>2 DEF InCall
<1> QED
  BY <1>1, <1>2, <1>3, <1>4

\* What an event of Chrome leaves to be called: the callback of the session
\* that ends, that of an orphan while there is no analysis, or an exit's calls.
LEMMA ChromeLeaves ==
    ASSUME LoopInv, ChromeEvent
    PROVE  \/ /\ stack' # <<>> /\ Head(stack').handler = session
              /\ session \in Stages /\ session' = "none"
           \/ /\ stack' # <<>> /\ Head(stack').handler = orphan
              /\ orphan \in Stages /\ current_analysis = None
              /\ UNCHANGED session
           \/ /\ stack' # <<>> => Head(stack').handler \in Unwind
              /\ UNCHANGED session
<1>1. ASSUME NEW stage \in Stages, NEW r \in Outcomes,
             NEW rest \in {<<>>, <<Call("ResetGate"), Call("OnChromeExit")>>},
             stack' = <<Done(stage, r)>> \o rest
      PROVE  stack' # <<>> /\ Head(stack').handler = stage
  BY Zenon, <1>1, ExitFrames, CallbackStack
<1>2. session \in Stages \cup {"none"} /\ orphan \in Stages \cup {"none"}
  BY DEF LoopInv
<1>3. CASE SessionEnds
  <2>1. PICK r \in {"error"} \cup Results(session) :
            stack' = <<Done(session, r)>>
    BY <1>3 DEF SessionEnds
  <2>2. session \in Stages /\ session' = "none" /\ r \in Outcomes
    BY <1>2, <1>3 DEF SessionEnds, NoSession, Results, Outcomes
  <2>3. stack' = <<Done(session, r)>> \o <<>>
    BY <2>1
  <2> QED
    BY <1>1, <2>2, <2>3
<1>4. CASE OrphanTimesOut
  <2>1. /\ orphan # "none" /\ stack' = <<Done(orphan, "error")>>
        /\ UNCHANGED session
    BY <1>4 DEF OrphanTimesOut
  <2>2. orphan \in Stages /\ "error" \in Outcomes /\ current_analysis = None
    BY <1>2, <2>1 DEF LoopInv, OrphanAlone, Outcomes
  <2>3. stack' = <<Done(orphan, "error")>> \o <<>>
    BY Zenon, <2>1, OneCall
  <2> QED
    BY <1>1, <2>1, <2>2, <2>3
<1>5. CASE ExitDue \/ Dies \/ PipeFails \/ OnRssCheck
  <2>1. PICK rest \in {<<>>, <<Call("ResetGate"), Call("OnChromeExit")>>} :
            CancelCommands(rest)
    BY Zenon, <1>5 DEF ExitDue, Dies, OnProcessExit, PipeFails, OnRssCheck
  <2>2. CASE /\ session # NoSession /\ session' = NoSession
             /\ stack' = <<Done(session, "error")>> \o rest
    <3>1. session \in Stages /\ "error" \in Outcomes /\ session' = "none"
      BY <1>2, <2>2 DEF NoSession, Outcomes
    <3> QED
      BY Zenon, <1>1, <2>2, <3>1
  <2>3. CASE UNCHANGED session /\ stack' = rest
    <3>1. /\ rest \in Seq(Frames)
          /\ \A i \in 1..Len(rest) : rest[i].handler \in Unwind
      BY Zenon, ExitFrames
    <3>2. stack' # <<>> => 1 \in 1..Len(stack') /\ Head(stack') = stack'[1]
      BY <2>3, <3>1
    <3> QED
      BY <2>3, <3>1, <3>2
  <2> QED
    BY <2>1, <2>2, <2>3 DEF CancelCommands
<1> QED
  BY <1>3, <1>4, <1>5 DEF ChromeEvent

LEMMA CallsKeepRecords ==
    ASSUME ManagerInv, RecordsInv, LoopCall
    PROVE  RecordsInv'
<1>0. LoopInv /\ stack # <<>>
  BY Zenon DEF ManagerInv, LoopCall, StartChromeSucceeds, StartChromeFails,
         DrainQueueReturns, DrainQueueTakes, OnAnalysisComplete, CallbackReturns,
         OnCssExtractionDone, OnPageAnalysisDone, OnCriticalCssValidationDone,
         AdvanceToNextViewport, OnScriptAnalysisDone, FinishAnalysis,
         StoreProfile, RecordStoredProfile, OnAgentRenderDone, ResetGate,
         OnChromeExit, Calling
<1>1. spent \in Spents /\ Records
  BY DEF RecordsInv
<1>2. CASE StartChromeFails
  <2>1. /\ Return /\ UNCHANGED <<insertion_order, profile>>
        /\ spent' \in Spents /\ spent'.cache = spent.cache
    BY Zenon, <1>1, <1>2, Spends DEF StartChromeFails, storeVars
  <2> QED
    BY <1>0, <2>1, NextCall, RecordsKept
<1>3. CASE \/ StartChromeSucceeds \/ DrainQueueReturns \/ DrainQueueTakes
           \/ OnAnalysisComplete \/ CallbackReturns
           \/ OnCssExtractionDone \/ OnPageAnalysisDone
           \/ OnCriticalCssValidationDone \/ AdvanceToNextViewport
           \/ OnScriptAnalysisDone \/ FinishAnalysis \/ OnAgentRenderDone
           \/ ResetGate \/ OnChromeExit
  <2>1. UNCHANGED <<insertion_order, profile, spent>>
    BY Zenon, <1>3 DEF StartChromeSucceeds, DrainQueueReturns, DrainQueueTakes,
           OnAnalysisComplete, CallbackReturns, OnCssExtractionDone,
           OnPageAnalysisDone, OnCriticalCssValidationDone,
           AdvanceToNextViewport, OnScriptAnalysisDone, FinishAnalysis,
           OnAgentRenderDone, ResetGate, OnChromeExit, AnalysisFrame, storeVars
  <2>2. \/ Return
        \/ \E h \in {"DrainQueue", "OnAnalysisComplete", "FinishAnalysis",
                     "AdvanceToNextViewport", "StoreProfile"} : GoTo(h)
        \/ \E stage \in Stages : StartSession(stage, Tail(stack))
        \/ \E stage \in Stages : stack' = <<Done(stage, "error")>> \o Tail(stack)
    BY Zenon, <1>3 DEF StartChromeSucceeds, DrainQueueReturns, DrainQueueTakes,
           RunAnalysis, RunViewportAnalysis,
           OnAnalysisComplete, CallbackReturns, OnCssExtractionDone,
           OnPageAnalysisDone, RunCriticalCssValidation,
           OnCriticalCssValidationDone, AdvanceToNextViewport,
           OnScriptAnalysisDone, FinishAnalysis, OnAgentRenderDone, ResetGate,
           OnChromeExit, Stages, Return
  <2>3. {"DrainQueue", "OnAnalysisComplete", "FinishAnalysis",
         "AdvanceToNextViewport", "StoreProfile"}
            \subseteq Handlers \ {"RecordProfile"}
    BY DEF Handlers
  <2>4. ~InCall({"RecordProfile"})'
    BY Zenon, <1>0, <2>2, <2>3, NextCall
  <2> QED
    BY Zenon, <1>1, <2>1, <2>4, RecordsKept
<1>4. ASSUME AgentRenderOrComplete PROVE ~InCall({"RecordProfile"})'
  <2>1. "OnAnalysisComplete" \in Handlers \ {"RecordProfile"} /\ "agent" \in Stages
    BY DEF Handlers, Stages
  <2> QED
    BY Zenon, <1>0, <1>4, <2>1, NextCall DEF AgentRenderOrComplete
<1> DEFINE t == current_analysis.item.template
<1>5. ASSUME StoreProfile \/ RecordStoredProfile
      PROVE  /\ t \in Templates /\ current_analysis.found \in Found
             /\ UNCHANGED current_analysis
  <2>1. Analysing
    BY <1>5, PassCallsKeepLoop
  <2>2. current_analysis \in Contexts
    BY <1>0, <2>1 DEF LoopInv, Analysing
  <2>3. current_analysis.item \in AnalysisItem /\ current_analysis.found \in Found
    BY <2>2 DEF Contexts
  <2>4. t \in Templates
    BY Zenon, <2>3 DEF AnalysisItem
  <2> QED
    BY <1>5, <2>3, <2>4 DEF StoreProfile, RecordStoredProfile, StoreFrame
<1> HIDE DEF t
<1>6. CASE StoreProfile
  <2>0. UNCHANGED <<insertion_order, current_analysis>>
    BY <1>6 DEF StoreProfile, StoreFrame
  <2>1. CASE /\ profile' = [profile EXCEPT ![t] = current_analysis.found]
             /\ UNCHANGED spent
    <3>1. t \in Templates /\ current_analysis.found \notin {"none", "gone"}
      BY <1>5, <1>6 DEF Found
    <3>2. profile \in [Templates -> Found \cup {"none", "gone"}]
      BY DEF ManagerInv, StoreInv
    <3>3. profile'[t] \notin {"none", "gone"}
          /\ \A u \in Templates : u # t => profile'[u] = profile[u]
      BY <2>1, <3>1, <3>2
    <3>4. Range(insertion_order) \subseteq Templates
      BY <1>1 DEF Records, Range
    <3>5. Records' /\ spent' \in Spents
      BY Zenon, <1>1, <2>0, <2>1 DEF Records
    <3>6. spent'.cache = 0 => \A u \in Range(insertion_order') : Written(u)'
      BY Zenon, <2>0, <2>1, <3>3, <3>4 DEF RecordsInv, Written
    <3>7. Written(current_analysis.item.template)'
      BY <2>0, <3>3 DEF Written, t
    <3> QED
      BY <3>5, <3>6, <3>7 DEF RecordsInv
  <2>2. CASE Spend("cache", MaxCacheEvents)
    <3>1. spent' \in Spents /\ spent'.cache # 0
      BY Zenon, <1>1, <2>2, Spends
    <3>2. Records'
      BY <1>1, <2>0 DEF Records
    <3> QED
      BY <3>1, <3>2 DEF RecordsInv
  <2>3. CASE AgentRenderOrComplete /\ UNCHANGED <<profile, spent>>
    BY Zenon, <1>1, <1>4, <2>0, <2>3, RecordsKept
  <2> QED
    BY Zenon, <1>6, <2>1, <2>2, <2>3 DEF StoreProfile, t
<1>7. CASE RecordStoredProfile
  <2>1. /\ RecordProfile(t) /\ UNCHANGED <<profile, spent>> /\ t \in Templates
        /\ ~InCall({"RecordProfile"})'
        /\ InCall({"RecordProfile"})
    BY <1>4, <1>5, <1>7 DEF RecordStoredProfile, AnalysisFrame, Calling, InCall, t
  <2>2. /\ Records'
        /\ Range(insertion_order') \subseteq Range(insertion_order) \cup {t}
    BY <1>1, <2>1, AddedRecord
  <2>3. spent.cache = 0 => \A u \in Range(insertion_order) \cup {t} : Written(u)
    BY <2>1 DEF RecordsInv, t
  <2>4. spent'.cache = 0 => \A u \in Range(insertion_order') : Written(u)'
    BY <2>1, <2>2, <2>3 DEF Written
  <2> QED
    BY Zenon, <1>1, <2>1, <2>2, <2>4 DEF RecordsInv
<1> QED
  BY <1>2, <1>3, <1>6, <1>7 DEF LoopCall

LEMMA RecordsInvariant ==
    ASSUME ManagerInv, RecordsInv, [Next]_vars
    PROVE  RecordsInv'
<1>0. spent \in Spents /\ Records
  BY DEF RecordsInv
<1>1. CASE LoopCall
  BY <1>1, CallsKeepRecords
<1>2. CASE \/ CloseAsync \/ OnAnalysisReady \/ OnRestartTimer \/ Shutdown
  <2>1. UNCHANGED <<insertion_order, profile, spent>>
    BY <1>2 DEF CloseAsync, OnAnalysisReady, OnRestartTimer, Shutdown, storeVars
  <2>2. ~InCall({"RecordProfile"})'
    <3>1. CASE CloseAsync
      BY <3>1, NextCall DEF CloseAsync, Calling, ManagerInv
    <3>2. CASE OnAnalysisReady \/ OnRestartTimer \/ Shutdown
      <4>1. PICK h \in {"DrainQueue", "StartChrome", "CloseAsync"} :
                stack' = <<Call(h)>>
        BY <3>2 DEF OnAnalysisReady, OnRestartTimer, Shutdown
      <4>2. Head(stack').handler = h
        BY <4>1 DEF Call
      <4> QED
        BY <4>2 DEF InCall
    <3> QED
      BY Zenon, <1>2, <3>1, <3>2
  <2> QED
    BY <1>0, <2>1, <2>2, RecordsKept
<1>3. CASE ChromeEvent
  <2>1. UNCHANGED <<insertion_order, profile>>
    BY <1>3 DEF ChromeEvent, storeVars
  <2>2. spent' \in Spents /\ spent'.cache = spent.cache
    BY Zenon, <1>0, <1>3, Spends DEF ChromeEvent
  <2>3. ~InCall({"RecordProfile"})'
    BY <1>3, ChromeLeaves DEF ManagerInv, InCall, Stages, Unwind
  <2> QED
    BY <2>1, <2>2, <2>3, RecordsKept
<1>4. CASE OnHealthyTimer \/ UNCHANGED vars
  <2>1. UNCHANGED <<insertion_order, profile, spent, stack, current_analysis>>
    BY Zenon, <1>4 DEF OnHealthyTimer, vars, storeVars, chromeVars, analysisVars
  <2> QED
    BY Zenon, <1>0, <2>1, RecordsKept
<1>5. CASE WorkerRestarts
  <2>1. /\ insertion_order' = <<>> /\ stack' = <<Call("StartChrome")>>
        /\ Spend("faults", MaxFaults)
    BY <1>5 DEF WorkerRestarts, Fresh
  <2>2. spent' \in Spents
    BY Zenon, <1>0, <2>1, Spends
  <2>3. ~InCall({"RecordProfile"})'
    <3>1. Head(stack') = Call("StartChrome")
      BY Zenon, <2>1, OneCall
    <3>2. Call("StartChrome").handler \notin {"RecordProfile"}
      BY DEF Call
    <3> QED
      BY Zenon, <3>1, <3>2 DEF InCall
  <2>4. Records' /\ Range(insertion_order') = {}
    BY <2>1, ManagerAssumption DEF Records, Range
  <2> QED
    BY Zenon, <2>2, <2>3, <2>4 DEF RecordsInv
\* Some record may be dropped, and nothing else changes.
<1>6. ASSUME UNCHANGED <<stack, current_analysis, profile, spent>>, Records',
             Range(insertion_order') \subseteq Range(insertion_order)
      PROVE  RecordsInv'
  <2>1. spent'.cache = 0 => \A t \in Range(insertion_order') : Written(t)'
    BY <1>6 DEF RecordsInv, Written
  <2>2. (spent'.cache = 0 /\ InCall({"RecordProfile"})') =>
            Written(current_analysis.item.template)'
    BY <1>6 DEF RecordsInv, Written, InCall
  <2> QED
    BY Zenon, <1>0, <1>6, <2>1, <2>2 DEF RecordsInv
<1>7. CASE OnReanalysisTimer
  <2>1. UNCHANGED <<stack, current_analysis, profile, spent>>
    BY <1>7 DEF OnReanalysisTimer, chromeVars, analysisVars
  <2>2. \/ UNCHANGED insertion_order
        \/ insertion_order' = Removed(pending_reanalysis.template)
    BY <1>7 DEF OnReanalysisTimer
  <2>3. pending_reanalysis.template \in Templates
    BY Zenon, <1>7 DEF OnReanalysisTimer, ManagerInv, RetryInv, AnalysisItem
  <2>4. Records' /\ Range(insertion_order') \subseteq Range(insertion_order)
    <3>1. CASE UNCHANGED insertion_order
      BY <1>0, <3>1 DEF Records
    <3>2. CASE insertion_order' = Removed(pending_reanalysis.template)
      <4>1. /\ Records'
            /\ Range(insertion_order') =
                  Range(insertion_order) \ {pending_reanalysis.template}
        BY Zenon, <1>0, <2>3, <3>2, RemovedRecord
      <4> QED
        BY Zenon, <4>1
    <3> QED
      BY <2>2, <3>1, <3>2
  <2> QED
    BY <1>6, <2>1, <2>4
<1>8. ASSUME NEW w \in Workers, LookupRecord(w) \/ PoolStep(w)
      PROVE  RecordsInv'
  <2>1. UNCHANGED <<stack, current_analysis, profile>>
    BY <1>8, ThreadUntouched DEF chromeVars, analysisVars
  <2>2. CASE LookupRecord(w)
    <3>1. UNCHANGED insertion_order /\ spent' \in Spents /\ spent'.cache = spent.cache
      BY Zenon, <1>0, <2>2, Spends DEF LookupRecord
    <3> QED
      BY <2>1, <3>1, RecordsKept
  <2>3. CASE DropRecord(w)
    <3>1. /\ insertion_order' = Removed(pool[w].page) /\ UNCHANGED spent
          /\ pool[w].pc = "remove"
      BY <2>3 DEF DropRecord, At
    <3>2. pool[w].page \in Templates
      BY <3>1 DEF ManagerInv, SharedInv, AskedInv
    <3>3. Records' /\ Range(insertion_order') = Range(insertion_order) \ {pool[w].page}
      BY Zenon, <1>0, <3>1, <3>2, RemovedRecord
    <3>4. Range(insertion_order') \subseteq Range(insertion_order)
      BY Zenon, <3>3
    <3> QED
      BY Zenon, <1>6, <2>1, <3>1, <3>3, <3>4
  <2>4. CASE LookupCache(w) \/ EnqueueAnalysis(w) \/ SendAsync(w)
    <3>1. UNCHANGED <<insertion_order, spent>>
      BY Zenon, <2>4 DEF LookupCache, EnqueueAnalysis, SendAsync
    <3> QED
      BY <1>0, <2>1, <3>1, RecordsKept
  <2> QED
    BY Zenon, <1>8, <2>2, <2>3, <2>4 DEF PoolStep
<1>9. CASE ProfileEvicted \/ PagePurged
  <2>1. UNCHANGED insertion_order /\ spent' \in Spents /\ spent'.cache # 0
    BY Zenon, <1>0, <1>9, Spends DEF ProfileEvicted, PagePurged
  <2>2. Records'
    BY <1>0, <2>1 DEF Records
  <2> QED
    BY <2>1, <2>2 DEF RecordsInv
<1> QED
  BY <1>1, <1>2, <1>3, <1>4, <1>5, <1>7, <1>8, <1>9 DEF Next

LEMMA RecordsInitially == Init => RecordsInv
<1> SUFFICES ASSUME Init PROVE RecordsInv
  OBVIOUS
<1>1. Records /\ Range(insertion_order) = {}
  <2>1. insertion_order = <<>>
    BY Zenon DEF Init
  <2> QED
    BY SMTT(60), <2>1, ManagerAssumption DEF Records, Range
<1>2. spent \in Spents
  BY DEF Init, Spents
<1>3. ~InCall({"RecordProfile"})
  <2>1. Head(stack).handler = "StartChrome"
    BY FreshCalls
  <2> QED
    BY <2>1 DEF InCall
<1> QED
  BY <1>1, <1>2, <1>3 DEF RecordsInv

\* While the cache has lost nothing, a template that the detector has a record
\* of has its profile written: for every number of templates and threads, any
\* size of the detector and any number of exits, retries and restarts.
THEOREM RecordsAreWritten == Spec => []RecordedIsWritten
<1>1. Init => RecordsInv
  BY RecordsInitially
<1>2. ManagerInv /\ RecordsInv /\ [Next]_vars => RecordsInv'
  BY RecordsInvariant
<1>3. RecordsInv => RecordedIsWritten
  BY DEF RecordsInv, RecordedIsWritten, Written
<1> QED
  BY <1>1, <1>2, <1>3, ManagerInvariant, PTL DEF Spec
=============================================================================
