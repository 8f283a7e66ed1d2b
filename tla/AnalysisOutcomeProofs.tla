------------------------ MODULE AnalysisOutcomeProofs ------------------------
(***************************************************************************)
(* What the manager promises, on top of its inductive invariant: it        *)
(* implements AnalysisService (a case analysis of the actions: each is a   *)
(* step of the service or leaves what the service sees unchanged), an      *)
(* analysis in progress always has something that drives it, and after     *)
(* Shutdown nothing is left to run.  From these invariants and the bounds  *)
(* on retries, viewports and delays follows that every variable stays in   *)
(* its type.                                                               *)
(***************************************************************************)
EXTENDS BrowserAnalysisProofs

-----------------------------------------------------------------------------
(* The manager implements the service.                                     *)

\* What the service knows of the analysis in progress.
InProgress == IF current_analysis = None THEN None
              ELSE current_analysis.item.template_hash

LEMMA KeyIsSomething == \A r \in Service!Requests : r # None
<1>1. \A r \in Service!Requests : "template" \in DOMAIN r
  BY DEF Service!Requests
<1>2. DOMAIN None = {"none"}
  BY DEF None
<1> QED
  BY <1>1, <1>2

LEMMA ItemKey ==
    ASSUME NEW x \in AnalysisItem
    PROVE  /\ x.template_hash = [template |-> x.template, force |-> x.force]
           /\ x.template_hash \in Service!Requests
           /\ x.template \in Templates /\ x.force \in BOOLEAN
BY Zenon DEF AnalysisItem

LEMMA Stutters ==
    ASSUME UNCHANGED <<queue, InProgress, pending_reanalysis, profile>>
    PROVE  UNCHANGED Service!serviceVars
BY DEF Service!serviceVars, InProgress, Key

LEMMA AdmitsKeys ==
    ASSUME NEW r
    PROVE  Service!Admits(r) <=> /\ r \notin Keys(queue.items)
                                 /\ Cardinality(Keys(queue.items)) < browser_queue_size
BY DEF Service!Admits, Keys, Cardinality, Service!Cardinality

LEMMA AcceptsAdmits ==
    ASSUME QueueInv, ~queue.shutdown, NEW x \in AnalysisItem
    PROVE  Accepts(queue, x) <=> Service!Admits(x.template_hash)
<1>1. /\ queue.items \in Seq(AnalysisItem) /\ Len(queue.items) \in Nat
      /\ queue.pending = Keys(queue.items)
  BY DEF QueueInv, QueueExact, Keys
<1>2. Cardinality(Keys(queue.items)) = Len(queue.items)
  BY KeysCounted
<1>3. Full(queue) <=> ~(Len(queue.items) < browser_queue_size)
  BY <1>1, QueueAssumption DEF Full
<1>4. Full(queue) => ~Higher(x, Back(queue.items))
  <2>1. Full(queue) => Back(queue.items) \in AnalysisItem
    BY <1>1, QueueAssumption DEF Full, Back
  <2> QED
    BY <2>1, NoneHigher
<1>5. Accepts(queue, x) <=>
          /\ x.template_hash \notin Keys(queue.items)
          /\ Cardinality(Keys(queue.items)) < browser_queue_size
  BY <1>1, <1>2, <1>3, <1>4 DEF Accepts
<1> QED
  BY <1>5, AdmitsKeys

LEMMA TakeRefines ==
    ASSUME ManagerInv, DrainQueueTakes
    PROVE  Service!Take
<1> DEFINE item == Head(queue.items)
<1>1. /\ QueueInv /\ queue.items # <<>> /\ queue' = Dequeued(queue)
      /\ ~queue.shutdown /\ current_analysis = None
      /\ UNCHANGED <<pending_reanalysis, profile>>
  BY DEF ManagerInv, SharedInv, LoopInv, DrainQueueTakes, MayTake, retryVars,
         storeVars
<1>2. /\ item \in AnalysisItem
      /\ item.template_hash \in Keys(queue.items)
      /\ Keys(queue'.items) = Keys(queue.items) \ {item.template_hash}
      /\ queue'.shutdown = queue.shutdown
  BY <1>1, DequeueStep
<1>3. Context(item) # None /\ Context(item).item = item
  <2>1. Context(item) \in Contexts /\ Context(item).item = item
    BY <1>2 DEF Context, Contexts, Found
  <2> QED
    BY <2>1, NoneIsNone
<1>4. current_analysis' \in {None, Context(item)}
  BY DEF DrainQueueTakes, RunAnalysis, RunViewportAnalysis
<1>5. InProgress = None /\ InProgress' \in {item.template_hash, None}
  BY <1>1, <1>3, <1>4 DEF InProgress
<1> HIDE DEF item
<1> QED
  BY Zenon, <1>1, <1>2, <1>5 DEF Service!Take, InProgress, Keys, Key

LEMMA StoreRefines ==
    ASSUME ManagerInv, StoreProfile
    PROVE  Service!Store \/ UNCHANGED Service!serviceVars
<1> DEFINE item == current_analysis.item
           t == item.template
<1>1. Analysing /\ Analysing' /\ current_analysis'.item = item
  BY PassCallsKeepLoop
<1>2. item \in AnalysisItem /\ current_analysis.found \in Found
  BY <1>1 DEF ManagerInv, LoopInv, Analysing, Contexts
<1>3. /\ t \in Templates /\ ~item.force
      /\ item.template_hash = [template |-> t, force |-> item.force]
      /\ item.force \in BOOLEAN
  BY <1>1, <1>2, ItemKey DEF Analysing
<1>4. InProgress = item.template_hash /\ UNCHANGED InProgress
  BY <1>1 DEF Analysing, InProgress
<1>5. UNCHANGED <<queue, pending_reanalysis>>
  BY DEF StoreProfile, StoreFrame, retryVars
<1>6. item.template_hash = [template |-> t, force |-> FALSE]
  BY Zenon, <1>3
<1>7. UNCHANGED profile \/ profile' = [profile EXCEPT ![t] = current_analysis.found]
  BY DEF StoreProfile
<1>8. CASE UNCHANGED profile
  BY <1>4, <1>5, <1>8, Stutters
<1>9. CASE profile' = [profile EXCEPT ![t] = current_analysis.found]
  <2> HIDE DEF t, item
  <2> QED
    BY Zenon, <1>2, <1>3, <1>4, <1>5, <1>6, <1>9
       DEF Service!Store, Service!Analyses, InProgress, Found, Key
<1> QED
  BY <1>7, <1>8, <1>9

LEMMA FinishRefines ==
    ASSUME ManagerInv, FinishAnalysis
    PROVE  Service!SetAside \/ UNCHANGED Service!serviceVars
<1> DEFINE item == current_analysis.item
           next == BuildReanalysisItem(item)
<1>1. Analysing /\ current_analysis' = current_analysis
  BY Zenon, PassCallsKeepLoop DEF FinishAnalysis
<1>2. item \in AnalysisItem
  BY <1>1 DEF ManagerInv, LoopInv, Analysing, Contexts
<1>3. /\ item.template \in Templates /\ ~item.force
      /\ item.template_hash = [template |-> item.template, force |-> item.force]
      /\ item.force \in BOOLEAN
  BY <1>1, <1>2, ItemKey DEF Analysing
<1>4. InProgress = item.template_hash /\ UNCHANGED InProgress
  BY <1>1 DEF Analysing, InProgress
<1>5. UNCHANGED <<queue, profile>>
  BY DEF FinishAnalysis, AnalysisFrame, storeVars
<1>6. CASE ~MayReanalyse
  <2>1. UNCHANGED pending_reanalysis
    BY <1>6 DEF FinishAnalysis, retryVars
  <2> QED
    BY <1>4, <1>5, <2>1, Stutters
<1>7. CASE MayReanalyse
  <2>1. pending_reanalysis = None /\ pending_reanalysis' = next
    BY <1>7 DEF FinishAnalysis, MayReanalyse, ManagerInv, RetryInv
  <2>2. next # None /\ next.template_hash = item.template_hash
    <3>1. next \in AnalysisItem
      BY <1>7, RetryItem
    <3> QED
      BY Zenon, <1>3, <3>1, NoneIsNone DEF BuildReanalysisItem, Item
  <2>3. item.template_hash = [template |-> item.template, force |-> FALSE]
    BY Zenon, <1>3
  <2> HIDE DEF item, next
  <2>4. \E t \in Templates : item.template_hash = [template |-> t, force |-> FALSE]
    BY Zenon, <1>3, <2>3
  <2> QED
    BY Zenon, <1>4, <1>5, <2>1, <2>2, <2>4
       DEF Service!SetAside, Service!Analyses, InProgress, Key
<1> QED
  BY <1>6, <1>7

LEMMA CallRefines ==
    ASSUME ManagerInv, LoopCall
    PROVE  Service!ServiceNext \/ UNCHANGED Service!serviceVars
<1>1. CASE DrainQueueTakes
  BY <1>1, TakeRefines DEF Service!ServiceNext
<1>2. CASE StoreProfile
  BY <1>2, StoreRefines DEF Service!ServiceNext
<1>3. CASE FinishAnalysis
  BY <1>3, FinishRefines DEF Service!ServiceNext
<1>4. CASE ~DrainQueueTakes /\ ~StoreProfile /\ ~FinishAnalysis
  <2>1. UNCHANGED <<queue, pending_reanalysis, profile>>
    BY <1>4, CallsUntouched DEF retryVars
  <2>2. CASE UNCHANGED InProgress
    BY <2>1, <2>2, Stutters
  <2>3. CASE OnAnalysisComplete \/ OnChromeExit
    <3>1. InProgress' = None
      BY Zenon, <2>3 DEF OnAnalysisComplete, OnChromeExit, InProgress
    <3> QED
      BY <2>1, <2>2, <3>1 DEF Service!ServiceNext, Service!End, InProgress, Key
  <2>4. CASE \/ OnCssExtractionDone \/ OnPageAnalysisDone
             \/ OnCriticalCssValidationDone \/ OnScriptAnalysisDone
             \/ AdvanceToNextViewport \/ RecordStoredProfile
    <3>1. /\ Analysing /\ Analysing'
          /\ current_analysis'.item = current_analysis.item
      BY <2>4, PassCallsKeepLoop
    <3>2. UNCHANGED InProgress
      BY <3>1 DEF Analysing, InProgress
    <3> QED
      BY <2>2, <3>2
  <2>5. CASE \/ StartChromeSucceeds \/ StartChromeFails \/ DrainQueueReturns
             \/ CallbackReturns \/ OnAgentRenderDone \/ ResetGate
    <3>1. UNCHANGED current_analysis
      BY <2>5 DEF StartChromeSucceeds, StartChromeFails, DrainQueueReturns,
                  CallbackReturns, OnAgentRenderDone, ResetGate, analysisVars
    <3>2. UNCHANGED InProgress
      BY <3>1 DEF InProgress
    <3> QED
      BY <2>2, <3>2
  <2> QED
    BY <1>4, <2>3, <2>4, <2>5 DEF LoopCall
<1> QED
  BY <1>1, <1>2, <1>3, <1>4

LEMMA RetryRefines ==
    ASSUME ManagerInv, OnReanalysisTimer
    PROVE  Service!RetryDue
<1> DEFINE item == pending_reanalysis
<1>1. /\ item \in AnalysisItem /\ item # None /\ ~queue.shutdown /\ QueueInv
      /\ pending_reanalysis' = None /\ UNCHANGED <<current_analysis, profile>>
  BY DEF OnReanalysisTimer, ManagerInv, RetryInv, SharedInv, analysisVars
<1>2. item.template_hash # None
  BY Zenon, <1>1, ItemKey, KeyIsSomething
<1>3. Key(item) = item.template_hash /\ Key(pending_reanalysis') = None
  BY <1>1 DEF Key
<1>4. UNCHANGED InProgress
  BY <1>1 DEF InProgress
<1>5. CASE Accepts(queue, item)
  <2>1. queue' = Enqueued(queue, item)
    BY <1>5 DEF OnReanalysisTimer
  <2>2. /\ Keys(queue'.items) = Keys(queue.items) \cup {item.template_hash}
        /\ queue'.shutdown = queue.shutdown
    BY <1>1, <1>5, <2>1, EnqueueStep
  <2>3. Service!Admits(item.template_hash)
    BY <1>1, <1>5, AcceptsAdmits
  <2> QED
    BY <1>1, <1>2, <1>3, <1>4, <2>2, <2>3
       DEF Service!RetryDue, Service!Admits, InProgress, Keys, Key
<1>6. CASE ~Accepts(queue, item)
  <2>1. UNCHANGED queue
    BY <1>6 DEF OnReanalysisTimer
  <2>2. ~Service!Admits(item.template_hash)
    BY <1>1, <1>6, AcceptsAdmits
  <2> QED
    BY Zenon, <1>1, <1>2, <1>3, <1>4, <2>1, <2>2
       DEF Service!RetryDue, Service!Admits, InProgress, Keys, Key
<1> QED
  BY <1>5, <1>6

LEMMA ThreadRefines ==
    ASSUME ManagerInv, NEW w \in Workers, LookupRecord(w) \/ PoolStep(w)
    PROVE  Service!Accept \/ UNCHANGED Service!serviceVars
<1>1. /\ UNCHANGED <<current_analysis, pending_reanalysis, profile>>
      /\ EnqueueAnalysis(w) \/ UNCHANGED queue
  BY ThreadUntouched DEF analysisVars, retryVars
<1>2. UNCHANGED InProgress
  BY <1>1 DEF InProgress
<1>3. CASE UNCHANGED queue
  BY <1>1, <1>2, <1>3, Stutters
<1>4. CASE EnqueueAnalysis(w)
  <2> DEFINE item == Item(pool[w].page, pool[w].force, 0)
  <2>1. item \in AnalysisItem
    BY <1>4, AskedItem DEF EnqueueAnalysis, ManagerInv, SharedInv
  <2>2. UNCHANGED queue \/ (Accepts(queue, item) /\ queue' = Enqueued(queue, item))
    BY <1>4 DEF EnqueueAnalysis
  <2> HIDE DEF item
  <2>3. CASE Accepts(queue, item) /\ queue' = Enqueued(queue, item)
    <3>1. QueueInv /\ ~queue.shutdown
      BY <2>3 DEF ManagerInv, SharedInv, Accepts
    <3>2. /\ Keys(queue'.items) = Keys(queue.items) \cup {item.template_hash}
          /\ queue'.shutdown = queue.shutdown
      BY <2>1, <2>3, <3>1, EnqueueStep
    <3>3. Service!Admits(item.template_hash) /\ item.template_hash \in Service!Requests
      BY Zenon, <2>1, <2>3, <3>1, AcceptsAdmits, ItemKey
    <3> QED
      BY Zenon, <1>1, <1>2, <3>1, <3>2, <3>3
         DEF Service!Accept, Service!Admits, InProgress, Keys, Key
  <2> QED
    BY <1>3, <2>2, <2>3
<1> QED
  BY <1>1, <1>3, <1>4

\* The manager implements the service it promises, for every number of
\* templates, threads, viewports and retries and every queue size.
THEOREM ServiceIsRefined == Spec => ServiceRefined
<1>1. Init => Service!ServiceInit
  BY DEF Init, Fresh, EmptyQueue, Service!ServiceInit, Key
<1>2. ManagerInv /\ [Next]_vars => [Service!ServiceNext]_(Service!serviceVars)
  <2> SUFFICES ASSUME ManagerInv, [Next]_vars
               PROVE  Service!ServiceNext \/ UNCHANGED Service!serviceVars
    OBVIOUS
  <2>1. CASE LoopCall
    BY <2>1, CallRefines
  <2>2. CASE QuietEvent
    <3>1. UNCHANGED <<queue, current_analysis, pending_reanalysis, profile>>
      BY <2>2, QuietUntouched DEF analysisVars, retryVars
    <3>2. UNCHANGED InProgress
      BY <3>1 DEF InProgress
    <3> QED
      BY <3>1, <3>2, Stutters
  <2>3. CASE OnReanalysisTimer
    BY <2>3, RetryRefines DEF Service!ServiceNext
  <2>4. CASE \E w \in Workers : LookupRecord(w) \/ PoolStep(w)
    BY <2>4, ThreadRefines DEF Service!ServiceNext
  <2>5. CASE ProfileEvicted
    <3>1. UNCHANGED <<queue, current_analysis, pending_reanalysis>>
      BY <2>5 DEF ProfileEvicted, analysisVars, retryVars
    <3>2. \E t \in Templates : /\ profile[t] # "none"
                               /\ profile' = [profile EXCEPT ![t] = "gone"]
      BY Zenon, <2>5 DEF ProfileEvicted
    <3> QED
      BY Zenon, <3>1, <3>2 DEF Service!ServiceNext, Service!GiveUp, Key
  <2>6. CASE Shutdown
    <3>1. /\ current_analysis' = None /\ pending_reanalysis' = None
          /\ UNCHANGED profile /\ queue' = [queue EXCEPT !.shutdown = TRUE]
      BY <2>6 DEF Shutdown, storeVars
    <3>2. queue'.items = queue.items /\ queue'.shutdown = TRUE
      BY <3>1 DEF ManagerInv, SharedInv, QueueInv
    <3> QED
      BY <3>1, <3>2 DEF Service!ServiceNext, Service!Stop, Key
  <2>7. CASE WorkerRestarts
    <3>1. /\ current_analysis' = None /\ pending_reanalysis' = None
          /\ UNCHANGED profile /\ queue' = EmptyQueue
      BY <2>7 DEF WorkerRestarts, Fresh
    <3>2. queue'.items = <<>> /\ queue'.shutdown = FALSE
      BY <3>1 DEF EmptyQueue
    <3> QED
      BY <3>1, <3>2 DEF Service!ServiceNext, Service!Restart, Key
  <2> QED
    BY <2>1, <2>2, <2>3, <2>4, <2>5, <2>6, <2>7 DEF Next, QuietEvent
<1> QED
  BY <1>1, <1>2, ManagerInvariant, PTL DEF Spec, ServiceRefined, Service!ServiceSpec

-----------------------------------------------------------------------------
(* An analysis in progress always has a session or a call that drives it.  *)

\* No session runs while one of its callbacks, or a call that follows from it,
\* is being made; the calls between analyses find all three pieces in step.
DrivenInv ==
    /\ analysis_in_progress \in BOOLEAN
    /\ IF InCall(Stages)
       THEN session = "none" /\ analysis_in_progress = (current_analysis # None)
       ELSE IF InCall(PassCalls \cup {"OnAnalysisComplete"})
       THEN session = "none" /\ analysis_in_progress
       ELSE /\ analysis_in_progress = (current_analysis # None)
            /\ analysis_in_progress = (session # "none")

\* The handlers between two analyses.
Between == Unwind \cup {"StartChrome", "DrainQueue", "CloseAsync"}

LEMMA BetweenDriven ==
    ASSUME stack' # <<>> => Head(stack').handler \in Between,
           analysis_in_progress' \in BOOLEAN,
           analysis_in_progress' = (current_analysis' # None),
           analysis_in_progress' = (session' # "none")
    PROVE  DrivenInv'
<1>1. ~InCall(Stages)' /\ ~InCall(PassCalls \cup {"OnAnalysisComplete"})'
  BY DEF InCall, Between, Unwind, Stages, PassCalls
<1> QED
  BY <1>1 DEF DrivenInv

\* A call of an analysis that calls the next one, or starts a session.
LEMMA PassDriven ==
    ASSUME LoopInv, stack # <<>>, session = "none", analysis_in_progress' = TRUE,
           current_analysis' # None,
           \/ /\ \E h \in PassCalls \cup {"OnAnalysisComplete"} : GoTo(h)
              /\ UNCHANGED session
           \/ \E stage \in Stages : StartSession(stage, Tail(stack))
           \/ /\ \E stage \in Stages :
                    stack' = <<Done(stage, "error")>> \o Tail(stack)
              /\ UNCHANGED session
    PROVE  DrivenInv'
<1>1. CASE /\ \E h \in PassCalls \cup {"OnAnalysisComplete"} : GoTo(h)
           /\ UNCHANGED session
  <2>1. PICK h \in PassCalls \cup {"OnAnalysisComplete"} : GoTo(h)
    BY <1>1
  <2>2. h \in Handlers /\ "none" \in Outcomes /\ h \notin Stages
    BY DEF Handlers, PassCalls, Outcomes, Stages
  <2>3. stack' # <<>> /\ Head(stack').handler = h
    BY <2>1, <2>2, CallsNext DEF GoTo, Call
  <2>4. ~InCall(Stages)' /\ InCall(PassCalls \cup {"OnAnalysisComplete"})'
    BY <2>2, <2>3 DEF InCall
  <2> QED
    BY <1>1, <2>4 DEF DrivenInv
<1>2. ASSUME NEW stage \in Stages,
             stack' = <<Done(stage, "error")>> \o Tail(stack), session' = "none"
      PROVE  DrivenInv'
  <2>1. stage \in Handlers /\ "error" \in Outcomes
    BY DEF Handlers, Outcomes
  <2>2. stack' # <<>> /\ Head(stack').handler = stage
    BY <1>2, <2>1, CallsNext DEF Done
  <2>3. InCall(Stages)'
    BY <2>2 DEF InCall
  <2> QED
    BY Zenon, <1>2, <2>3 DEF DrivenInv
<1>3. ASSUME NEW stage \in Stages, StartSession(stage, Tail(stack))
      PROVE  DrivenInv'
  <2>1. CASE chrome.connected
    <3>1. session' = stage /\ stack' = Tail(stack) /\ stage # "none"
      BY <1>3, <2>1 DEF StartSession, Stages
    <3>2. stack' # <<>> => Head(stack').handler \in Between
      BY <3>1, Returns DEF Between
    <3> QED
      BY Zenon, <3>1, <3>2, BetweenDriven
  <2>2. CASE ~chrome.connected
    BY <1>2, <1>3, <2>2 DEF StartSession, NoSession
  <2> QED
    BY <2>1, <2>2
<1> QED
  BY Zenon, <1>1, <1>2, <1>3

LEMMA CallsKeepDriven ==
    ASSUME ManagerInv, DrivenInv, LoopCall
    PROVE  DrivenInv'
<1>0. LoopInv /\ stack # <<>>
  BY Zenon DEF ManagerInv, LoopCall, StartChromeSucceeds, StartChromeFails,
         DrainQueueReturns, DrainQueueTakes, OnAnalysisComplete, CallbackReturns,
         OnCssExtractionDone, OnPageAnalysisDone, OnCriticalCssValidationDone,
         AdvanceToNextViewport, OnScriptAnalysisDone, FinishAnalysis,
         StoreProfile, RecordStoredProfile, OnAgentRenderDone, ResetGate,
         OnChromeExit, Calling
<1>1. ASSUME NEW h \in Between, GoTo(h)
      PROVE  stack' # <<>> /\ Head(stack').handler \in Between
  <2>1. h \in Handlers /\ "none" \in Outcomes
    BY DEF Between, Unwind, Handlers, Outcomes
  <2> QED
    BY <1>0, <1>1, <2>1, CallsNext DEF GoTo, Call
<1>2. ASSUME Return
      PROVE  stack' # <<>> => Head(stack').handler \in Between
  BY <1>0, <1>2, Returns DEF Return, Between
<1>3. ASSUME Head(stack).handler \in Between
      PROVE  /\ analysis_in_progress \in BOOLEAN
             /\ analysis_in_progress = (current_analysis # None)
             /\ analysis_in_progress = (session # "none")
  <2>1. ~InCall(Stages) /\ ~InCall(PassCalls \cup {"OnAnalysisComplete"})
    BY <1>3 DEF InCall, Between, Unwind, Stages, PassCalls
  <2> QED
    BY <2>1 DEF DrivenInv
<1>4. ASSUME Head(stack).handler \in Stages
      PROVE  /\ analysis_in_progress \in BOOLEAN /\ session = "none"
             /\ analysis_in_progress = (current_analysis # None)
  BY <1>0, <1>4 DEF DrivenInv, InCall
<1>5. ASSUME Head(stack).handler \in PassCalls \cup {"OnAnalysisComplete"}
      PROVE  session = "none" /\ analysis_in_progress = TRUE
  <2>1. ~InCall(Stages) /\ InCall(PassCalls \cup {"OnAnalysisComplete"})
    BY <1>0, <1>5 DEF InCall, PassCalls, Stages
  <2> QED
    BY <2>1 DEF DrivenInv
<1>6. CASE StartChromeSucceeds \/ StartChromeFails \/ DrainQueueReturns
  <2>1. /\ Head(stack).handler \in Between
        /\ UNCHANGED <<session, current_analysis, analysis_in_progress>>
        /\ GoTo("DrainQueue") \/ Return
    BY <1>6 DEF StartChromeSucceeds, StartChromeFails, DrainQueueReturns, Calling,
                Between, analysisVars
  <2>2. stack' # <<>> => Head(stack').handler \in Between
    BY <1>1, <1>2, <2>1 DEF Between
  <2> QED
    BY <1>3, <2>1, <2>2, BetweenDriven
<1>7. CASE DrainQueueTakes
  <2> DEFINE item == Head(queue.items)
  <2>1. /\ Head(stack).handler \in Between /\ ~analysis_in_progress
        /\ analysis_in_progress' = TRUE /\ RunAnalysis(item) /\ QueueInv
        /\ queue.items # <<>> /\ queue' = Dequeued(queue)
    BY <1>7 DEF DrainQueueTakes, Calling, MayTake, Between, ManagerInv, SharedInv
  <2>2. session = "none"
    BY <1>3, <2>1
  <2>3. Context(item) # None
    <3>1. item \in AnalysisItem
      BY <2>1, DequeueStep
    <3>2. Context(item) \in Contexts
      BY <3>1 DEF Context, Contexts, Found
    <3> QED
      BY <3>2, NoneIsNone
  <2>4. CASE GoTo("OnAnalysisComplete") /\ UNCHANGED session
    <3>1. "OnAnalysisComplete" \in Handlers /\ "none" \in Outcomes
      BY DEF Handlers, Outcomes
    <3>2. stack' # <<>> /\ Head(stack').handler = "OnAnalysisComplete"
      BY <1>0, <2>4, <3>1, CallsNext DEF GoTo, Call
    <3>3. ~InCall(Stages)' /\ InCall(PassCalls \cup {"OnAnalysisComplete"})'
      BY <3>2 DEF InCall, Stages
    <3> QED
      BY <2>1, <2>2, <2>4, <3>3 DEF DrivenInv
  <2>5. CASE /\ current_analysis' = Context(item)
             /\ \/ \E stage \in Stages : StartSession(stage, Tail(stack))
                \/ /\ \E stage \in Stages :
                         stack' = <<Done(stage, "error")>> \o Tail(stack)
                   /\ UNCHANGED session
    BY <1>0, <2>1, <2>2, <2>3, <2>5, PassDriven
  <2> QED
    BY Zenon, <2>1, <2>4, <2>5 DEF RunAnalysis, RunViewportAnalysis, Stages
<1>8. CASE OnAnalysisComplete
  <2>1. /\ session = "none" /\ UNCHANGED session /\ GoTo("DrainQueue")
        /\ current_analysis' = None /\ analysis_in_progress' = FALSE
    BY Zenon, <1>5, <1>8 DEF OnAnalysisComplete, Calling
  <2>2. stack' # <<>> => Head(stack').handler \in Between
    BY <1>1, <2>1 DEF Between
  <2> QED
    BY Zenon, <2>1, <2>2, BetweenDriven
<1>9. CASE CallbackReturns
  <2>1. /\ Return /\ Head(stack).handler \in Stages /\ current_analysis = None
        /\ UNCHANGED <<session, current_analysis, analysis_in_progress>>
    BY <1>9 DEF CallbackReturns, analysisVars
  <2>2. session = "none" /\ analysis_in_progress = FALSE
    BY <1>4, <2>1
  <2> QED
    BY Zenon, <1>2, <2>1, <2>2, BetweenDriven
<1>10. CASE \/ OnCssExtractionDone \/ OnPageAnalysisDone
            \/ OnCriticalCssValidationDone \/ OnScriptAnalysisDone
            \/ AdvanceToNextViewport \/ FinishAnalysis
            \/ StoreProfile \/ RecordStoredProfile
  <2>1. UNCHANGED analysis_in_progress
    BY <1>10 DEF OnCssExtractionDone, OnPageAnalysisDone,
           OnCriticalCssValidationDone, OnScriptAnalysisDone,
           AdvanceToNextViewport, FinishAnalysis, StoreProfile,
           RecordStoredProfile, AnalysisFrame, StoreFrame
  <2>2. current_analysis # None /\ current_analysis' # None
    BY <1>10, PassCallsKeepLoop DEF Analysing
  <2>3. Head(stack).handler \in Stages \cup PassCalls
    BY <1>10 DEF OnCssExtractionDone, OnPageAnalysisDone,
           OnCriticalCssValidationDone, OnScriptAnalysisDone,
           AdvanceToNextViewport, FinishAnalysis, StoreProfile,
           RecordStoredProfile, Calling, Stages, PassCalls
  <2>4. session = "none" /\ analysis_in_progress' = TRUE
    BY Zenon, <1>4, <1>5, <2>1, <2>2, <2>3
  <2>5. \/ /\ \E h \in PassCalls \cup {"OnAnalysisComplete"} : GoTo(h)
           /\ UNCHANGED session
        \/ \E stage \in Stages : StartSession(stage, Tail(stack))
        \/ /\ \E stage \in Stages :
                 stack' = <<Done(stage, "error")>> \o Tail(stack)
           /\ UNCHANGED session
    BY <1>10 DEF OnCssExtractionDone, OnPageAnalysisDone, RunCriticalCssValidation,
           OnCriticalCssValidationDone, OnScriptAnalysisDone,
           AdvanceToNextViewport, RunViewportAnalysis, FinishAnalysis,
           StoreProfile, RecordStoredProfile, AgentRenderOrComplete, Stages,
           PassCalls
  <2> QED
    BY <1>0, <2>2, <2>4, <2>5, PassDriven
<1>11. CASE OnAgentRenderDone
  <2>1. /\ Head(stack).handler \in Stages /\ current_analysis # None
        /\ UNCHANGED <<session, current_analysis, analysis_in_progress>>
        /\ GoTo("OnAnalysisComplete")
    BY <1>11 DEF OnAgentRenderDone, Calling, Stages, AnalysisFrame
  <2>2. session = "none" /\ analysis_in_progress' = TRUE /\ current_analysis' # None
    BY <1>4, <2>1
  <2> QED
    BY <1>0, <2>1, <2>2, PassDriven
<1>12. CASE ResetGate
  <2>1. /\ Head(stack).handler \in Between
        /\ UNCHANGED <<current_analysis, analysis_in_progress>>
    BY <1>12 DEF ResetGate, Calling, Between, Unwind, analysisVars
  <2>2. CASE session = "validate"
    <3>1. /\ session' = "none"
          /\ stack' = <<Done("validate", "error")>> \o Tail(stack)
      BY <1>12, <2>2 DEF ResetGate, NoSession
    <3>2. "validate" \in Handlers /\ "error" \in Outcomes
      BY DEF Handlers, Outcomes, Stages
    <3>3. stack' # <<>> /\ Head(stack').handler = "validate"
      BY <1>0, <3>1, <3>2, CallsNext DEF Done
    <3>4. InCall(Stages)'
      BY <3>3 DEF InCall, Stages
    <3> QED
      BY <1>3, <2>1, <3>1, <3>4 DEF DrivenInv
  <2>3. CASE session # "validate"
    <3>1. Return /\ UNCHANGED session
      BY <1>12, <2>3 DEF ResetGate
    <3> QED
      BY <1>2, <1>3, <2>1, <3>1, BetweenDriven
  <2> QED
    BY <2>2, <2>3
<1>13. CASE OnChromeExit
  <2>1. /\ Return /\ session' = "none" /\ current_analysis' = None
        /\ analysis_in_progress' = FALSE
    BY <1>13 DEF OnChromeExit, NoSession
  <2> QED
    BY Zenon, <1>2, <2>1, BetweenDriven
<1> QED
  BY <1>6, <1>7, <1>8, <1>9, <1>10, <1>11, <1>12, <1>13 DEF LoopCall

LEMMA ChromeKeepsDriven ==
    ASSUME LoopInv, DrivenInv, ChromeEvent
    PROVE  DrivenInv'
<1>1. UNCHANGED <<current_analysis, analysis_in_progress>>
  BY DEF ChromeEvent, analysisVars
<1>2. stack = <<>>
  BY Zenon DEF ChromeEvent, SessionEnds, OrphanTimesOut, ExitDue, Dies, OnProcessExit,
         PipeFails, OnRssCheck, Idle
<1>3. /\ analysis_in_progress \in BOOLEAN
      /\ analysis_in_progress = (current_analysis # None)
      /\ analysis_in_progress = (session # "none")
  BY <1>2 DEF DrivenInv, InCall
<1>4. ASSUME NEW stage \in Stages, NEW r \in Outcomes, session' = "none",
             NEW rest \in {<<>>, <<Call("ResetGate"), Call("OnChromeExit")>>},
             stack' = <<Done(stage, r)>> \o rest
      PROVE  DrivenInv'
  <2>1. stack' # <<>> /\ Head(stack').handler = stage
    BY Zenon, <1>4, ExitFrames, CallbackStack
  <2>2. InCall(Stages)'
    BY <2>1 DEF InCall
  <2> QED
    BY <1>1, <1>3, <1>4, <2>2 DEF DrivenInv
<1>5. ASSUME NEW rest \in {<<>>, <<Call("ResetGate"), Call("OnChromeExit")>>},
             CancelCommands(rest)
      PROVE  DrivenInv'
  <2>1. CASE /\ session # NoSession /\ session' = NoSession
             /\ stack' = <<Done(session, "error")>> \o rest
    <3>1. session \in Stages /\ "error" \in Outcomes /\ session' = "none"
      BY <2>1 DEF LoopInv, NoSession, Outcomes
    <3> QED
      BY Zenon, <1>4, <2>1, <3>1
  <2>2. CASE UNCHANGED session /\ stack' = rest
    <3>1. /\ rest \in Seq(Frames)
          /\ \A i \in 1..Len(rest) : rest[i].handler \in Unwind
      BY Zenon, ExitFrames
    <3>2. stack' # <<>> => 1 \in 1..Len(stack') /\ Head(stack') = stack'[1]
      BY <2>2, <3>1
    <3>3. stack' # <<>> => Head(stack').handler \in Between
      BY <2>2, <3>1, <3>2 DEF Between
    <3> QED
      BY <1>1, <1>3, <2>2, <3>3, BetweenDriven
  <2> QED
    BY <1>5, <2>1, <2>2 DEF CancelCommands
<1>6. CASE SessionEnds
  <2>1. PICK r \in {"error"} \cup Results(session) :
            stack' = <<Done(session, r)>>
    BY <1>6 DEF SessionEnds
  <2>2. session \in Stages /\ session' = "none" /\ r \in Outcomes
    BY <1>6 DEF SessionEnds, LoopInv, NoSession, Results, Outcomes
  <2>3. stack' = <<Done(session, r)>> \o <<>>
    BY <2>1
  <2> QED
    BY <1>4, <2>2, <2>3
<1>7. CASE OrphanTimesOut
  <2>1. /\ orphan # "none" /\ stack' = <<Done(orphan, "error")>>
        /\ UNCHANGED session
    BY <1>7 DEF OrphanTimesOut
  <2>2. orphan \in Stages /\ "error" \in Outcomes /\ session' = "none"
    BY <1>3, <2>1 DEF LoopInv, OrphanAlone, Outcomes
  <2>3. stack' = <<Done(orphan, "error")>> \o <<>>
    BY <2>1
  <2> QED
    BY <1>4, <2>2, <2>3
<1>8. CASE ExitDue \/ Dies \/ PipeFails \/ OnRssCheck
  BY Zenon, <1>5, <1>8 DEF ExitDue, Dies, OnProcessExit, PipeFails, OnRssCheck
<1> QED
  BY <1>6, <1>7, <1>8 DEF ChromeEvent

LEMMA DrivenInvariant ==
    ASSUME ManagerInv, DrivenInv, [Next]_vars
    PROVE  DrivenInv'
<1>0. LoopInv
  BY DEF ManagerInv
<1>1. CASE LoopCall
  BY <1>1, CallsKeepDriven
<1>2. CASE ChromeEvent
  BY <1>0, <1>2, ChromeKeepsDriven
<1>3. ASSUME stack = <<>> \/ Head(stack).handler \in Between
      PROVE  /\ analysis_in_progress \in BOOLEAN
             /\ analysis_in_progress = (current_analysis # None)
             /\ analysis_in_progress = (session # "none")
  <2>1. ~InCall(Stages) /\ ~InCall(PassCalls \cup {"OnAnalysisComplete"})
    BY <1>3 DEF InCall, Between, Unwind, Stages, PassCalls
  <2> QED
    BY <2>1 DEF DrivenInv
<1>4. CASE CloseAsync
  <2>1. /\ stack # <<>> /\ Head(stack).handler \in Between /\ Return
        /\ UNCHANGED <<session, current_analysis, analysis_in_progress>>
    BY <1>4 DEF CloseAsync, Calling, analysisVars, Between
  <2>2. stack' # <<>> => Head(stack').handler \in Between
    BY <1>0, <2>1, Returns DEF Return, Between
  <2> QED
    BY <1>3, <2>1, <2>2, BetweenDriven
<1>5. ASSUME NEW h \in {"DrainQueue", "StartChrome", "CloseAsync"},
             stack' = <<Call(h)>>
      PROVE  stack' # <<>> => Head(stack').handler \in Between
  BY <1>5 DEF Call, Between
<1>6. CASE OnAnalysisReady \/ OnRestartTimer
  <2>1. /\ stack = <<>>
        /\ UNCHANGED <<session, current_analysis, analysis_in_progress>>
        /\ \E h \in {"DrainQueue", "StartChrome"} : stack' = <<Call(h)>>
    BY <1>6 DEF OnAnalysisReady, OnRestartTimer, analysisVars, Idle
  <2> QED
    BY <1>3, <1>5, <2>1, BetweenDriven
<1>7. CASE Shutdown \/ WorkerRestarts
  <2>1. /\ session' = "none" /\ current_analysis' = None
        /\ analysis_in_progress' = FALSE
        /\ \E h \in {"CloseAsync", "StartChrome"} : stack' = <<Call(h)>>
    BY <1>7 DEF Shutdown, WorkerRestarts, NoSession, Fresh
  <2>2. stack' # <<>> => Head(stack').handler \in Between
    BY <1>5, <2>1
  <2>3. /\ analysis_in_progress' \in BOOLEAN
        /\ analysis_in_progress' = (current_analysis' # None)
        /\ analysis_in_progress' = (session' # "none")
    BY Zenon, <2>1
  <2> QED
    BY <2>2, <2>3, BetweenDriven
<1>8. CASE \/ OnHealthyTimer \/ OnReanalysisTimer
           \/ \E w \in Workers : LookupRecord(w) \/ PoolStep(w)
           \/ ProfileEvicted \/ PagePurged \/ UNCHANGED vars
  <2>1. UNCHANGED <<chromeVars, analysisVars>>
    BY <1>8, ThreadUntouched
       DEF OnHealthyTimer, OnReanalysisTimer, ProfileEvicted, PagePurged, vars
  <2> QED
    BY Zenon, <2>1 DEF DrivenInv, InCall, chromeVars, analysisVars
<1> QED
  BY <1>1, <1>2, <1>4, <1>6, <1>7, <1>8 DEF Next

LEMMA DrivenInitially == Init => DrivenInv
<1> SUFFICES ASSUME Init PROVE DrivenInv
  OBVIOUS
<1>1. Head(stack).handler = "StartChrome"
  BY FreshCalls
<1>2. ~InCall(Stages) /\ ~InCall(PassCalls \cup {"OnAnalysisComplete"})
  BY <1>1 DEF InCall, Stages, PassCalls
<1> QED
  BY Zenon, <1>2 DEF Init, ChromeInit, NoSession, DrivenInv

\* Whenever the event loop is back in its poll, an analysis in progress has its
\* context and a session that will call back, and nothing else has: for every
\* number of viewports and whatever exits, failures and shutdowns came between.
THEOREM AnalysisStaysDriven == Spec => []AnalysisDriven
<1>1. Init => DrivenInv
  BY DrivenInitially
<1>2. ManagerInv /\ DrivenInv /\ [Next]_vars => DrivenInv'
  BY DrivenInvariant
<1>3. DrivenInv => AnalysisDriven
  BY DEF DrivenInv, InCall, AnalysisDriven, Idle, NoSession
<1> QED
  BY <1>1, <1>2, <1>3, ManagerInvariant, PTL DEF Spec

-----------------------------------------------------------------------------
(* Shutdown.                                                               *)

\* From Shutdown on the loop has nothing to do but close the handle, and the
\* handle is only closed there.
ShutInv ==
    /\ async \in [open : BOOLEAN, signalled : BOOLEAN]
    /\ async.signalled => async.open
    /\ ~shutting_down => async.open
    /\ InCall({"CloseAsync"}) => shutting_down
    /\ shutting_down => /\ chrome = NoChrome /\ session = "none" /\ orphan = "none"
                        /\ ~analysis_in_progress /\ restart_delay = 0
                        /\ ~reanalysis_timer
                        /\ stack # <<>> => stack = <<Call("CloseAsync")>>
                        /\ stack = <<>> => ~async.open

LEMMA CallsStayOpen ==
    ASSUME ManagerInv, LoopCall
    PROVE  /\ stack # <<>> /\ ~InCall({"CloseAsync"}) /\ UNCHANGED async
           /\ ~InCall({"CloseAsync"})'
<1> DEFINE Pushes == \E h \in Handlers \ {"CloseAsync"}, r \in Outcomes :
                        stack' = <<[handler |-> h, result |-> r]>> \o Tail(stack)
<1>1. /\ LoopInv /\ stack # <<>> /\ ~InCall({"CloseAsync"})
      /\ UNCHANGED async
  BY Zenon DEF ManagerInv, LoopCall, StartChromeSucceeds, StartChromeFails,
         DrainQueueReturns, DrainQueueTakes, OnAnalysisComplete, CallbackReturns,
         OnCssExtractionDone, OnPageAnalysisDone, OnCriticalCssValidationDone,
         AdvanceToNextViewport, OnScriptAnalysisDone, FinishAnalysis,
         StoreProfile, RecordStoredProfile, OnAgentRenderDone, ResetGate,
         OnChromeExit, Calling, InCall, AnalysisFrame, StoreFrame, Stages
<1>2. ASSUME NEW h \in Handlers \ {"CloseAsync"}, GoTo(h) PROVE Pushes
  BY <1>2 DEF GoTo, Call, Outcomes
<1>3. ASSUME NEW stage \in Stages,
             stack' = <<Done(stage, "error")>> \o Tail(stack)
      PROVE  Pushes
  BY Zenon, <1>3 DEF Done, Outcomes, Handlers, Stages
<1>4. ASSUME NEW stage \in Stages, StartSession(stage, Tail(stack))
      PROVE  Pushes \/ Return
  BY Zenon, <1>3, <1>4 DEF StartSession, Return
<1>5. Pushes \/ Return
  <2> HIDE DEF Pushes
  <2>1. \/ \E h \in Handlers \ {"CloseAsync"} : GoTo(h)
        \/ \E stage \in Stages :
              \/ StartSession(stage, Tail(stack))
              \/ stack' = <<Done(stage, "error")>> \o Tail(stack)
        \/ Return
    BY Zenon DEF LoopCall, StartChromeSucceeds, StartChromeFails,
         DrainQueueReturns, DrainQueueTakes, OnAnalysisComplete, CallbackReturns,
         OnCssExtractionDone, OnPageAnalysisDone, OnCriticalCssValidationDone,
         AdvanceToNextViewport, OnScriptAnalysisDone, FinishAnalysis,
         StoreProfile, RecordStoredProfile, OnAgentRenderDone, ResetGate,
         OnChromeExit, RunAnalysis, RunViewportAnalysis, RunCriticalCssValidation,
         AgentRenderOrComplete, Stages, Handlers
  <2> QED
    BY Zenon, <1>2, <1>3, <1>4, <2>1
<1>6. CASE Return
  <2>1. stack' # <<>> => Head(stack').handler \in Unwind
    BY <1>1, <1>6, Returns DEF Return
  <2> QED
    BY <1>1, <2>1 DEF InCall, Unwind
<1>7. CASE Pushes
  <2>1. PICK h \in Handlers \ {"CloseAsync"}, r \in Outcomes :
            stack' = <<[handler |-> h, result |-> r]>> \o Tail(stack)
    BY <1>7
  <2>2. Head(stack').handler = h
    BY <1>1, <2>1, CallsNext
  <2> QED
    BY <1>1, <2>2 DEF InCall
<1> QED
  BY Zenon, <1>5, <1>6, <1>7

LEMMA ShutInvariant ==
    ASSUME ManagerInv, ShutInv, [Next]_vars
    PROVE  ShutInv'
<1>1. CASE LoopCall
  <2>1. /\ UNCHANGED <<shutting_down, async>> /\ ~InCall({"CloseAsync"})'
        /\ stack # <<>> /\ ~InCall({"CloseAsync"})
    BY <1>1, CallsUntouched, CallsStayOpen
  <2>2. ~shutting_down
    BY <2>1 DEF ShutInv, InCall, Call
  <2> QED
    BY <2>1, <2>2 DEF ShutInv
<1>2. CASE ChromeEvent
  <2>1. UNCHANGED <<shutting_down, async>> /\ stack = <<>>
    BY Zenon, <1>2 DEF ChromeEvent, SessionEnds, OrphanTimesOut, ExitDue, Dies,
                OnProcessExit, PipeFails, OnRssCheck, Idle
  <2>2. ~shutting_down
    <3>1. \/ session # "none" \/ orphan # "none" \/ chrome.running = TRUE
          \/ chrome.connected = TRUE
      BY Zenon, <1>2 DEF ChromeEvent, SessionEnds, OrphanTimesOut, ExitDue, Dies,
                  OnProcessExit, PipeFails, OnRssCheck, NoSession, ManagerInv,
                  LoopInv, ChromeStates
    <3>2. NoChrome.running = FALSE /\ NoChrome.connected = FALSE
      BY DEF NoChrome
    <3> QED
      BY <3>1, <3>2 DEF ShutInv
  <2>3. ~InCall({"CloseAsync"})'
    <3>1. ASSUME NEW stage \in Stages, NEW r \in Outcomes,
                 NEW rest \in {<<>>, <<Call("ResetGate"), Call("OnChromeExit")>>},
                 stack' = <<Done(stage, r)>> \o rest
          PROVE  ~InCall({"CloseAsync"})'
      <4>1. Head(stack').handler = stage
        BY Zenon, <3>1, ExitFrames, CallbackStack
      <4> QED
        BY <4>1 DEF InCall, Stages
    <3>2. ASSUME NEW rest \in {<<>>, <<Call("ResetGate"), Call("OnChromeExit")>>},
                 CancelCommands(rest)
          PROVE  ~InCall({"CloseAsync"})'
      <4>1. CASE /\ session # NoSession
                 /\ stack' = <<Done(session, "error")>> \o rest
        <5>1. session \in Stages /\ "error" \in Outcomes
          BY <4>1 DEF ManagerInv, LoopInv, NoSession, Outcomes
        <5> QED
          BY Zenon, <3>1, <4>1, <5>1
      <4>2. CASE stack' = rest
        <5>1. /\ rest \in Seq(Frames)
              /\ \A i \in 1..Len(rest) : rest[i].handler \in Unwind
          BY Zenon, ExitFrames
        <5>2. stack' # <<>> => 1 \in 1..Len(stack') /\ Head(stack') = stack'[1]
          BY <4>2, <5>1
        <5> QED
          BY <4>2, <5>1, <5>2 DEF InCall, Unwind
      <4> QED
        BY <3>2, <4>1, <4>2 DEF CancelCommands
    <3>3. CASE SessionEnds
      <4>1. PICK r \in {"error"} \cup Results(session) :
                stack' = <<Done(session, r)>>
        BY <3>3 DEF SessionEnds
      <4>2. session \in Stages /\ r \in Outcomes
        BY <3>3 DEF SessionEnds, ManagerInv, LoopInv, NoSession, Results, Outcomes
      <4>3. stack' = <<Done(session, r)>> \o <<>>
        BY <4>1
      <4> QED
        BY <3>1, <4>2, <4>3
    <3>4. CASE OrphanTimesOut
      <4>1. orphan \in Stages /\ "error" \in Outcomes
        BY <3>4 DEF OrphanTimesOut, ManagerInv, LoopInv, Outcomes
      <4>2. stack' = <<Done(orphan, "error")>> \o <<>>
        BY <3>4 DEF OrphanTimesOut
      <4> QED
        BY <3>1, <4>1, <4>2
    <3>5. CASE ExitDue \/ Dies \/ PipeFails \/ OnRssCheck
      BY Zenon, <3>2, <3>5 DEF ExitDue, Dies, OnProcessExit, PipeFails, OnRssCheck
    <3> QED
      BY <1>2, <3>3, <3>4, <3>5 DEF ChromeEvent
  <2> QED
    BY <2>1, <2>2, <2>3 DEF ShutInv
<1>3. CASE CloseAsync
  <2>1. /\ InCall({"CloseAsync"}) /\ async' = [open |-> FALSE, signalled |-> FALSE]
        /\ stack' = Tail(stack) /\ stack # <<>>
        /\ UNCHANGED <<shutting_down, chrome, session, orphan,
                       analysis_in_progress, restart_delay, reanalysis_timer>>
    BY <1>3 DEF CloseAsync, Calling, InCall, Return, analysisVars, retryVars,
                restartVars
  <2>2. shutting_down /\ stack = <<Call("CloseAsync")>>
    BY <2>1 DEF ShutInv
  <2>3. stack' = <<>>
    BY <2>1, <2>2
  <2> QED
    BY <2>1, <2>2, <2>3 DEF ShutInv, InCall
<1>4. CASE OnAnalysisReady
  <2>1. /\ stack = <<>> /\ async.open /\ UNCHANGED shutting_down
        /\ async' = [async EXCEPT !.signalled = FALSE]
        /\ stack' = <<Call("DrainQueue")>>
    BY <1>4 DEF OnAnalysisReady, Idle
  <2>2. ~shutting_down
    BY <2>1 DEF ShutInv
  <2>3. ~InCall({"CloseAsync"})'
    BY <2>1 DEF InCall, Call
  <2> QED
    BY Zenon, <2>1, <2>2, <2>3 DEF ShutInv
<1>5. CASE OnRestartTimer
  <2>1. /\ restart_delay > 0 /\ UNCHANGED <<shutting_down, async>>
        /\ stack' = <<Call("StartChrome")>>
    BY <1>5 DEF OnRestartTimer
  <2>2. ~shutting_down
    BY <2>1 DEF ShutInv
  <2>3. ~InCall({"CloseAsync"})'
    BY <2>1 DEF InCall, Call
  <2> QED
    BY <2>1, <2>2, <2>3 DEF ShutInv
<1>6. CASE OnReanalysisTimer
  <2>1. /\ reanalysis_timer /\ UNCHANGED <<shutting_down, stack>>
        /\ async' \in {async, [async EXCEPT !.signalled = TRUE]}
    BY <1>6 DEF OnReanalysisTimer, chromeVars
  <2>2. ~shutting_down
    BY <2>1 DEF ShutInv
  <2> QED
    BY Zenon, <2>1, <2>2 DEF ShutInv, InCall
<1>7. CASE Shutdown
  <2>1. /\ shutting_down' = TRUE /\ UNCHANGED async /\ ~shutting_down
        /\ stack' = <<Call("CloseAsync")>> /\ chrome' = NoChrome
        /\ session' = "none" /\ orphan' = "none" /\ analysis_in_progress' = FALSE
        /\ restart_delay' = 0 /\ reanalysis_timer' = FALSE
    BY <1>7 DEF Shutdown, NoSession
  <2> QED
    BY <2>1 DEF ShutInv
<1>8. CASE WorkerRestarts
  <2>1. /\ shutting_down' = FALSE /\ stack' = <<Call("StartChrome")>>
        /\ async' = [open |-> TRUE, signalled |-> FALSE]
    BY <1>8 DEF WorkerRestarts, Fresh
  <2>2. ~InCall({"CloseAsync"})'
    BY <2>1 DEF InCall, Call
  <2> QED
    BY <2>1, <2>2 DEF ShutInv
<1>9. CASE \E w \in Workers : LookupRecord(w) \/ PoolStep(w)
  <2>1. PICK w \in Workers : LookupRecord(w) \/ PoolStep(w)
    BY <1>9
  <2>2. UNCHANGED <<chrome, session, orphan, stack, analysis_in_progress,
                    restart_delay, reanalysis_timer, shutting_down>>
    BY <2>1 DEF LookupRecord, PoolStep, LookupCache, DropRecord, EnqueueAnalysis,
                SendAsync, poolFrame, chromeVars, analysisVars, retryVars, restartVars
  <2>3. \/ UNCHANGED async
        \/ async.open /\ async' = [async EXCEPT !.signalled = TRUE]
    BY <2>1 DEF LookupRecord, PoolStep, LookupCache, DropRecord, EnqueueAnalysis,
                SendAsync
  <2> QED
    BY Zenon, <2>2, <2>3 DEF ShutInv, InCall
<1>10. CASE OnHealthyTimer \/ ProfileEvicted \/ PagePurged \/ UNCHANGED vars
  <2>1. UNCHANGED <<async, chrome, session, orphan, stack, analysis_in_progress,
                    restart_delay, reanalysis_timer, shutting_down>>
    BY <1>10 DEF OnHealthyTimer, ProfileEvicted, PagePurged, vars, chromeVars,
                 analysisVars, retryVars, restartVars
  <2> QED
    BY <2>1 DEF ShutInv, InCall
<1> QED
  BY Zenon, <1>1, <1>2, <1>3, <1>4, <1>5, <1>6, <1>7, <1>8, <1>9, <1>10 DEF Next

LEMMA ShutInitially == Init => ShutInv
<1> SUFFICES ASSUME Init PROVE ShutInv
  OBVIOUS
<1>1. async = [open |-> TRUE, signalled |-> FALSE] /\ ~InCall({"CloseAsync"})
  BY FreshCalls DEF InCall
<1>2. shutting_down = FALSE
  BY Zenon DEF Init
<1> QED
  BY <1>1, <1>2 DEF ShutInv

\* After Shutdown nothing is left that would call back, and no thread signals
\* the closed handle, however the pool's steps fall around the close.
THEOREM ShutdownStaysQuiet == Spec => []ShutdownQuiesces
<1>1. Init => ShutInv
  BY ShutInitially
<1>2. ManagerInv /\ ShutInv /\ [Next]_vars => ShutInv'
  BY ShutInvariant
<1>3. ShutInv => ShutdownQuiesces
  BY DEF ShutInv, ShutdownQuiesces, NoSession
<1> QED
  BY <1>1, <1>2, <1>3, ManagerInvariant, PTL DEF Spec

-----------------------------------------------------------------------------
(* The viewports of an analysis.                                           *)

ViewportStages == {"css", "page", "validate"}

ViewportCalls == ViewportStages \cup {"AdvanceToNextViewport"}

InViewport == session \in ViewportStages \/ InCall(ViewportCalls)

\* The viewport in progress is one of those there are; only when the last one
\* is done does the count reach their number.
ViewportInv ==
    current_analysis # None =>
        /\ current_analysis.viewports_done \in 0..kNumViewports
        /\ InViewport => current_analysis.viewports_done < kNumViewports

LEMMA ViewportKept ==
    ASSUME ViewportInv,
           \/ current_analysis' = None
           \/ UNCHANGED current_analysis /\ (InViewport' => InViewport)
    PROVE  ViewportInv'
BY DEF ViewportInv

\* What a call leaves behind it: the call that follows, or a session.
LEMMA NextViewport ==
    ASSUME LoopInv, stack # <<>>
    PROVE  /\ Return => ~InCall(ViewportCalls)'
           /\ \A h \in Handlers : GoTo(h) =>
                 (InCall(ViewportCalls)' => h \in ViewportCalls)
           /\ \A stage \in Stages : StartSession(stage, Tail(stack)) =>
                 (InViewport' => stage \in ViewportStages)
<1>1. Return => ~InCall(ViewportCalls)'
  BY Returns DEF Return, InCall, Unwind, ViewportCalls, ViewportStages
<1>2. ASSUME NEW h \in Handlers, GoTo(h), InCall(ViewportCalls)'
      PROVE  h \in ViewportCalls
  <2>1. "none" \in Outcomes
    BY DEF Outcomes
  <2>2. Head(stack').handler = h
    BY <1>2, <2>1, CallsNext DEF GoTo, Call
  <2> QED
    BY <1>2, <2>2 DEF InCall
<1>3. ASSUME NEW stage \in Stages, StartSession(stage, Tail(stack)), InViewport'
      PROVE  stage \in ViewportStages
  <2>1. /\ session' \in {stage, "none"}
        /\ stack' # <<>> => Head(stack').handler \in Unwind \cup {stage}
    BY <1>3, SessionStarts
  <2> QED
    BY <1>3, <2>1 DEF InViewport, InCall, Unwind, ViewportCalls, ViewportStages,
                      Stages
<1> QED
  BY <1>1, <1>2, <1>3

LEMMA CallsKeepViewports ==
    ASSUME ManagerInv, DrivenInv, ViewportInv, LoopCall
    PROVE  ViewportInv'
<1>0. LoopInv /\ stack # <<>>
  BY Zenon DEF ManagerInv, LoopCall, StartChromeSucceeds, StartChromeFails,
         DrainQueueReturns, DrainQueueTakes, OnAnalysisComplete, CallbackReturns,
         OnCssExtractionDone, OnPageAnalysisDone, OnCriticalCssValidationDone,
         AdvanceToNextViewport, OnScriptAnalysisDone, FinishAnalysis,
         StoreProfile, RecordStoredProfile, OnAgentRenderDone, ResetGate,
         OnChromeExit, Calling
<1>n. kNumViewports \in Nat \ {0}
  BY ManagerAssumption
<1>h. /\ {"DrainQueue", "OnAnalysisComplete", "AdvanceToNextViewport",
          "FinishAnalysis", "StoreProfile", "RecordProfile"} \subseteq Handlers
      /\ {"css", "page", "validate", "script", "agent"} \subseteq Stages
  BY DEF Handlers, Stages
<1>1. ASSUME UNCHANGED <<session, current_analysis>>,
             \/ Return
             \/ \E h \in Handlers \ ViewportCalls : GoTo(h)
      PROVE  ViewportInv'
  <2>1. ~InCall(ViewportCalls)'
    BY Zenon, <1>0, <1>1, NextViewport
  <2>2. InViewport' => InViewport
    BY <1>1, <2>1 DEF InViewport
  <2> QED
    BY <1>1, <2>2, ViewportKept
<1>2. CASE StartChromeSucceeds \/ StartChromeFails \/ DrainQueueReturns
  <2>1. /\ UNCHANGED <<session, current_analysis>>
        /\ GoTo("DrainQueue") \/ Return
    BY <1>2 DEF StartChromeSucceeds, StartChromeFails, DrainQueueReturns,
                analysisVars
  <2>2. "DrainQueue" \in Handlers \ ViewportCalls
    BY <1>h DEF ViewportCalls, ViewportStages
  <2> QED
    BY <1>1, <2>1, <2>2
<1>3. CASE OnAnalysisComplete \/ CallbackReturns \/ OnChromeExit
  <2>1. current_analysis' = None
    BY Zenon, <1>3 DEF OnAnalysisComplete, CallbackReturns, OnChromeExit, analysisVars
  <2> QED
    BY <2>1, ViewportKept
<1>4. CASE DrainQueueTakes
  <2> DEFINE item == Head(queue.items)
  <2>1. \/ current_analysis' = None
        \/ current_analysis' = Context(item)
    BY <1>4 DEF DrainQueueTakes, RunAnalysis, RunViewportAnalysis
  <2>2. Context(item).viewports_done = 0
    BY DEF Context
  <2>3. CASE current_analysis' = Context(item)
    <3>1. current_analysis'.viewports_done = 0
      BY <2>2, <2>3
    <3> QED
      BY <1>n, <3>1 DEF ViewportInv
  <2> QED
    BY <2>1, <2>3, ViewportKept
\* The calls of a viewport.
<1>5. ASSUME OnCssExtractionDone \/ OnPageAnalysisDone
                \/ OnCriticalCssValidationDone \/ AdvanceToNextViewport
      PROVE  /\ current_analysis \in Contexts /\ current_analysis # None
             /\ current_analysis.viewports_done \in 0..kNumViewports
             /\ current_analysis.viewports_done < kNumViewports
             /\ session = "none"
  <2>1. Analysing
    BY <1>5, PassCallsKeepLoop
  <2>2. current_analysis \in Contexts /\ current_analysis # None
    BY <1>0, <2>1 DEF LoopInv, Analysing
  <2>3. Head(stack).handler \in ViewportCalls
    BY <1>5 DEF OnCssExtractionDone, OnPageAnalysisDone,
           OnCriticalCssValidationDone, AdvanceToNextViewport, Calling,
           ViewportCalls, ViewportStages
  <2>4. InViewport /\ (InCall(Stages) \/ InCall(PassCalls \cup {"OnAnalysisComplete"}))
    BY <1>0, <2>3 DEF InViewport, InCall, ViewportCalls, ViewportStages, Stages,
                      PassCalls
  <2>5. session = "none"
    BY <2>4 DEF DrivenInv
  <2> QED
    BY <2>2, <2>4, <2>5 DEF ViewportInv
<1>6. CASE OnCssExtractionDone
  <2>1. current_analysis'.viewports_done = current_analysis.viewports_done
    <3>1. \/ current_analysis' = current_analysis
          \/ current_analysis' = [current_analysis EXCEPT
                  !.inlinable = (Result = "good"), !.found = WithViewport(@, Result)]
      BY <1>6 DEF OnCssExtractionDone
    <3> QED
      BY Zenon, <1>5, <1>6, <3>1 DEF Contexts
  <2> QED
    BY <1>5, <1>6, <2>1 DEF ViewportInv
<1>7. CASE OnPageAnalysisDone \/ OnCriticalCssValidationDone
  <2>1. UNCHANGED current_analysis
    BY <1>7 DEF OnPageAnalysisDone, OnCriticalCssValidationDone
  <2> QED
    BY <1>5, <1>7, <2>1 DEF ViewportInv
<1>8. CASE AdvanceToNextViewport
  <2> DEFINE done == current_analysis.viewports_done + 1
             ctx == [current_analysis EXCEPT !.viewports_done = done,
                                             !.inlinable = FALSE]
  <2>1. ctx.viewports_done = done /\ done \in 0..kNumViewports
    BY <1>5, <1>8, <1>n DEF Contexts
  <2>2. current_analysis' = ctx
    BY <1>8 DEF AdvanceToNextViewport, RunViewportAnalysis
  <2>3. current_analysis'.viewports_done = done
    BY <2>1, <2>2
  <2>4. CASE done < kNumViewports
    BY <2>1, <2>3, <2>4 DEF ViewportInv
  <2>5. CASE ~(done < kNumViewports)
    <3>1. \/ StartSession("script", Tail(stack))
          \/ GoTo("FinishAnalysis") /\ UNCHANGED session
      BY <1>8, <2>5 DEF AdvanceToNextViewport
    <3>2. /\ "script" \in Stages \ ViewportStages
          /\ "FinishAnalysis" \in Handlers \ ViewportCalls
          /\ "none" \notin ViewportStages
      BY <1>h DEF ViewportCalls, ViewportStages
    <3>3. ~InViewport'
      BY Zenon, <1>0, <1>5, <1>8, <3>1, <3>2, NextViewport DEF InViewport
    <3> QED
      BY <2>1, <2>3, <3>3 DEF ViewportInv
  <2> QED
    BY <2>4, <2>5
\* The calls after the last viewport.
<1>9. ASSUME UNCHANGED current_analysis, StartSession("agent", Tail(stack))
      PROVE  ViewportInv'
  <2>1. "agent" \in Stages \ ViewportStages
    BY <1>h DEF ViewportStages
  <2>2. ~InViewport'
    BY Zenon, <1>0, <1>9, <2>1, NextViewport
  <2> QED
    BY <1>9, <2>2, ViewportKept
<1>10. CASE \/ OnScriptAnalysisDone \/ FinishAnalysis \/ StoreProfile
            \/ RecordStoredProfile \/ OnAgentRenderDone
  <2>1. /\ UNCHANGED current_analysis
        /\ \/ /\ UNCHANGED session
              /\ \E h \in {"FinishAnalysis", "OnAnalysisComplete", "StoreProfile",
                           "RecordProfile"} : GoTo(h)
           \/ StartSession("agent", Tail(stack))
    BY <1>10 DEF OnScriptAnalysisDone, FinishAnalysis, StoreProfile,
           RecordStoredProfile, OnAgentRenderDone, AgentRenderOrComplete,
           StoreFrame
  <2>2. {"FinishAnalysis", "OnAnalysisComplete", "StoreProfile",
         "RecordProfile"} \subseteq Handlers \ ViewportCalls
    BY <1>h DEF ViewportCalls, ViewportStages
  <2> QED
    BY <1>1, <1>9, <2>1, <2>2
<1>11. CASE ResetGate
  <2>1. UNCHANGED current_analysis
    BY <1>11 DEF ResetGate, analysisVars
  <2>2. CASE session = "validate"
    <3>1. InViewport
      BY <2>2 DEF InViewport, ViewportStages
    <3> QED
      BY <2>1, <3>1, ViewportKept
  <2>3. CASE session # "validate"
    BY <1>1, <1>11, <2>1, <2>3 DEF ResetGate
  <2> QED
    BY <2>2, <2>3
<1> QED
  BY <1>2, <1>3, <1>4, <1>6, <1>7, <1>8, <1>10, <1>11 DEF LoopCall

LEMMA ViewportInvariant ==
    ASSUME ManagerInv, DrivenInv, ViewportInv, [Next]_vars
    PROVE  ViewportInv'
<1>0. LoopInv
  BY DEF ManagerInv
<1>1. CASE LoopCall
  BY <1>1, CallsKeepViewports
<1>2. CASE ChromeEvent
  <2>1. UNCHANGED current_analysis
    BY <1>2 DEF ChromeEvent, analysisVars
  <2>2. current_analysis = None \/ (InViewport' => InViewport)
    BY <1>0, <1>2, ChromeLeaves
       DEF InViewport, InCall, ViewportCalls, ViewportStages, Stages, Unwind
  <2> QED
    BY <2>1, <2>2, ViewportKept
<1>3. CASE OnAnalysisReady \/ OnRestartTimer \/ CloseAsync
  <2>1. UNCHANGED <<session, current_analysis>>
    BY <1>3 DEF OnAnalysisReady, OnRestartTimer, CloseAsync, analysisVars
  <2>2. ~InCall(ViewportCalls)'
    <3>1. CASE CloseAsync
      BY <1>0, <3>1, NextViewport DEF CloseAsync, Calling
    <3>2. CASE OnAnalysisReady \/ OnRestartTimer
      <4>1. PICK h \in {"DrainQueue", "StartChrome"} : stack' = <<Call(h)>>
        BY <3>2 DEF OnAnalysisReady, OnRestartTimer
      <4>2. Head(stack').handler = h
        BY <4>1 DEF Call
      <4> QED
        BY <4>2 DEF InCall, ViewportCalls, ViewportStages
    <3> QED
      BY <1>3, <3>1, <3>2
  <2>3. InViewport' => InViewport
    BY <2>1, <2>2 DEF InViewport
  <2> QED
    BY <2>1, <2>3, ViewportKept
<1>4. CASE Shutdown \/ WorkerRestarts
  <2>1. current_analysis' = None
    BY <1>4 DEF Shutdown, WorkerRestarts
  <2> QED
    BY <2>1, ViewportKept
<1>5. CASE \/ OnHealthyTimer \/ OnReanalysisTimer
           \/ \E w \in Workers : LookupRecord(w) \/ PoolStep(w)
           \/ ProfileEvicted \/ PagePurged \/ UNCHANGED vars
  <2>1. UNCHANGED <<chromeVars, analysisVars>>
    BY <1>5, ThreadUntouched
       DEF OnHealthyTimer, OnReanalysisTimer, ProfileEvicted, PagePurged, vars
  <2>2. UNCHANGED <<stack, session, current_analysis>>
    BY <2>1 DEF chromeVars, analysisVars
  <2>3. InViewport' => InViewport
    BY <2>2 DEF InViewport, InCall
  <2> QED
    BY <2>2, <2>3, ViewportKept
<1> QED
  BY <1>1, <1>2, <1>3, <1>4, <1>5 DEF Next

-----------------------------------------------------------------------------
(* The retries, the timers and the types of the rest.                      *)

Bounded(item) == item.retry_count <= kMaxReanalysisRetries

\* Wherever an item is, it has been tried again no more often than it may be.
RetriesInv ==
    /\ \A i \in 1..Len(queue.items) : Bounded(queue.items[i])
    /\ current_analysis # None => Bounded(current_analysis.item)
    /\ pending_reanalysis # None => Bounded(pending_reanalysis)

TimersInv ==
    /\ {reanalysis_timer, shutting_down} \subseteq BOOLEAN
    /\ restart_delay \in 0..kMaxRestartDelayMs
    /\ failures \in 0..MaxFailures
    /\ markdown \subseteq Templates

LEMMA RetriesInvariant ==
    ASSUME ManagerInv, RetriesInv, [Next]_vars
    PROVE  RetriesInv'
<1>0. /\ LoopInv /\ QueueInv /\ kMaxReanalysisRetries \in Nat
      /\ queue.items \in Seq(AnalysisItem)
  BY ManagerAssumption DEF ManagerInv, SharedInv, QueueInv
<1>a. ASSUME UNCHANGED queue PROVE \A i \in 1..Len(queue'.items) : Bounded(queue'.items[i])
  BY <1>a DEF RetriesInv
<1>b. ASSUME \/ current_analysis' = None
             \/ current_analysis # None /\ current_analysis'.item = current_analysis.item
      PROVE  current_analysis' # None => Bounded(current_analysis'.item)
  BY <1>b DEF RetriesInv
<1>c. ASSUME pending_reanalysis' \in {None, pending_reanalysis}
      PROVE  pending_reanalysis' # None => Bounded(pending_reanalysis')
  BY <1>c DEF RetriesInv
<1>d. ASSUME NEW x \in AnalysisItem, Bounded(x), Accepts(queue, x),
             queue' = Enqueued(queue, x)
      PROVE  \A i \in 1..Len(queue'.items) : Bounded(queue'.items[i])
  <2>1. queue'.items = <<x>> \o queue.items
    BY Zenon, <1>0, <1>d, EnqueuedIsFirst
  <2>2. ASSUME NEW i \in 1..Len(queue'.items) PROVE Bounded(queue'.items[i])
    <3>1. \/ i = 1 /\ queue'.items[i] = x
          \/ i - 1 \in 1..Len(queue.items) /\ queue'.items[i] = queue.items[i - 1]
      BY <1>0, <2>1, <2>2
    <3> QED
      BY <1>d, <3>1 DEF RetriesInv
  <2> QED
    BY Zenon, <2>2
<1>1. CASE DrainQueueTakes
  <2> DEFINE item == Head(queue.items)
  <2>1. /\ queue.items # <<>> /\ queue' = Dequeued(queue) /\ UNCHANGED pending_reanalysis
        /\ current_analysis' \in {None, Context(item)}
    BY <1>1 DEF DrainQueueTakes, MayTake, RunAnalysis, RunViewportAnalysis, retryVars
  <2>2. queue'.items = Tail(queue.items)
    BY <1>0, <2>1 DEF Dequeued, QueueInv
  <2>3. /\ item = queue.items[1] /\ 1 \in 1..Len(queue.items)
        /\ \A i \in 1..Len(queue'.items) : /\ i + 1 \in 1..Len(queue.items)
                                           /\ queue'.items[i] = queue.items[i + 1]
    <3> DEFINE s == queue.items
    <3>1. s \in Seq(AnalysisItem) /\ s # <<>>
      BY <1>0, <2>1 DEF QueueInv
    <3>2. queue'.items = Tail(s) /\ item = Head(s)
      BY <2>2
    <3> HIDE DEF s
    <3>3. /\ Head(s) = s[1] /\ 1 \in 1..Len(s)
          /\ \A i \in 1..Len(Tail(s)) : i + 1 \in 1..Len(s) /\ Tail(s)[i] = s[i + 1]
      BY SMTT(60), <3>1
    <3> QED
      BY Zenon, <3>2, <3>3 DEF s
  <2>4. \A i \in 1..Len(queue'.items) : Bounded(queue'.items[i])
    BY <2>3 DEF RetriesInv
  <2>5. Bounded(item)
    BY <2>3 DEF RetriesInv
  <2>6. Context(item).item = item
    BY DEF Context
  <2>7. current_analysis' # None => Bounded(current_analysis'.item)
    BY Zenon, <2>1, <2>5, <2>6
  <2> QED
    BY Zenon, <1>c, <2>1, <2>4, <2>7 DEF RetriesInv
<1>2. CASE \/ OnCssExtractionDone \/ OnPageAnalysisDone
           \/ OnCriticalCssValidationDone \/ OnScriptAnalysisDone
           \/ AdvanceToNextViewport \/ FinishAnalysis
           \/ StoreProfile \/ RecordStoredProfile
  <2>1. Analysing /\ current_analysis'.item = current_analysis.item
    BY Zenon, <1>2, PassCallsKeepLoop
  <2>2. UNCHANGED queue
    BY <1>2 DEF OnCssExtractionDone, OnPageAnalysisDone,
           OnCriticalCssValidationDone, OnScriptAnalysisDone,
           AdvanceToNextViewport, FinishAnalysis, StoreProfile,
           RecordStoredProfile, AnalysisFrame, StoreFrame
  <2>3. pending_reanalysis' # None => Bounded(pending_reanalysis')
    <3>1. CASE FinishAnalysis /\ MayReanalyse
      <4>1. /\ pending_reanalysis' = BuildReanalysisItem(current_analysis.item)
            /\ current_analysis.item.retry_count < kMaxReanalysisRetries
        BY <3>1 DEF FinishAnalysis, MayReanalyse
      <4>2. pending_reanalysis'.retry_count = current_analysis.item.retry_count + 1
        BY <4>1 DEF BuildReanalysisItem, Item
      <4>3. current_analysis.item.retry_count \in Nat
        <5>1. current_analysis.item \in AnalysisItem
          BY <1>0, <2>1 DEF LoopInv, Analysing, Contexts
        <5> QED
          BY Zenon, <5>1 DEF AnalysisItem
      <4> QED
        BY <1>0, <4>1, <4>2, <4>3 DEF Bounded
    <3>2. CASE ~(FinishAnalysis /\ MayReanalyse)
      <4>1. UNCHANGED retryVars
        BY Zenon, <1>2, <3>2 DEF OnCssExtractionDone, OnPageAnalysisDone,
               OnCriticalCssValidationDone, OnScriptAnalysisDone,
               AdvanceToNextViewport, FinishAnalysis, StoreProfile,
               RecordStoredProfile, StoreFrame
      <4> QED
        BY <1>c, <4>1 DEF retryVars
    <3> QED
      BY <3>1, <3>2
  <2> QED
    BY Zenon, <1>a, <1>b, <2>1, <2>2, <2>3 DEF RetriesInv, Analysing
<1>3. CASE \/ StartChromeSucceeds \/ StartChromeFails \/ DrainQueueReturns
           \/ OnAnalysisComplete \/ CallbackReturns \/ OnAgentRenderDone
           \/ ResetGate \/ OnChromeExit
  <2>1. /\ UNCHANGED <<queue, pending_reanalysis>>
        /\ current_analysis' \in {None, current_analysis}
    BY Zenon, <1>3 DEF StartChromeSucceeds, StartChromeFails, DrainQueueReturns,
              OnAnalysisComplete, CallbackReturns, OnAgentRenderDone, ResetGate,
              OnChromeExit, analysisVars, retryVars, AnalysisFrame
  <2> QED
    BY Zenon, <1>a, <1>b, <1>c, <2>1 DEF RetriesInv
<1>4. CASE QuietEvent \/ ProfileEvicted
  <2>1. UNCHANGED <<queue, pending_reanalysis, current_analysis>>
    BY <1>4, QuietUntouched DEF ProfileEvicted, analysisVars, retryVars
  <2> QED
    BY <1>a, <1>b, <1>c, <2>1 DEF RetriesInv
<1>5. CASE Shutdown \/ WorkerRestarts
  <2>1. /\ current_analysis' = None /\ pending_reanalysis' = None
        /\ queue'.items = queue.items \/ queue'.items = <<>>
    BY <1>0, <1>5 DEF Shutdown, WorkerRestarts, Fresh, EmptyQueue, QueueInv
  <2>2. \A i \in 1..Len(queue'.items) : Bounded(queue'.items[i])
    BY <2>1 DEF RetriesInv
  <2> QED
    BY <2>1, <2>2 DEF RetriesInv
<1>6. CASE OnReanalysisTimer
  <2>1. pending_reanalysis' = None /\ UNCHANGED current_analysis
    BY <1>6 DEF OnReanalysisTimer, analysisVars
  <2>2. /\ pending_reanalysis \in AnalysisItem /\ Bounded(pending_reanalysis)
    BY <1>6 DEF OnReanalysisTimer, ManagerInv, RetryInv, RetriesInv
  <2>3. \/ UNCHANGED queue
        \/ /\ Accepts(queue, pending_reanalysis)
           /\ queue' = Enqueued(queue, pending_reanalysis)
    BY Zenon, <1>6 DEF OnReanalysisTimer
  <2>4. \A i \in 1..Len(queue'.items) : Bounded(queue'.items[i])
    BY Zenon, <1>a, <1>d, <2>2, <2>3
  <2> QED
    BY <1>b, <2>1, <2>4 DEF RetriesInv
<1>7. ASSUME NEW w \in Workers, LookupRecord(w) \/ PoolStep(w)
      PROVE  RetriesInv'
  <2> DEFINE item == Item(pool[w].page, pool[w].force, 0)
  <2>1. /\ UNCHANGED <<current_analysis, pending_reanalysis>>
        /\ EnqueueAnalysis(w) \/ UNCHANGED queue
    BY <1>7, ThreadUntouched DEF analysisVars, retryVars
  <2>2. CASE EnqueueAnalysis(w)
    <3>1. item \in AnalysisItem
      BY Zenon, <2>2, AskedItem DEF EnqueueAnalysis, ManagerInv, SharedInv
    <3>2. Bounded(item)
      BY SMTT(60), <1>0 DEF Bounded, Item
    <3>3. UNCHANGED queue \/ (Accepts(queue, item) /\ queue' = Enqueued(queue, item))
      BY <2>2 DEF EnqueueAnalysis
    <3> HIDE DEF item
    <3>4. \A i \in 1..Len(queue'.items) : Bounded(queue'.items[i])
      BY Zenon, <1>a, <1>d, <3>1, <3>2, <3>3
    <3> QED
      BY Zenon, <1>b, <1>c, <2>1, <3>4 DEF RetriesInv
  <2> QED
    BY Zenon, <1>a, <1>b, <1>c, <2>1, <2>2 DEF RetriesInv
<1> QED
  BY Zenon, <1>1, <1>2, <1>3, <1>4, <1>5, <1>6, <1>7 DEF Next, LoopCall, QuietEvent

\* The back-off starts at its least and is cut off at its most.
LEMMA RestartDelayBounded ==
    ASSUME NEW n \in Nat
    PROVE  RestartDelay(n) \in 1..kMaxRestartDelayMs
<1>1. /\ kRestartDelayMs \in Nat /\ kMaxRestartDelayMs \in Nat
      /\ 0 < kRestartDelayMs /\ kRestartDelayMs <= kMaxRestartDelayMs
  BY ManagerAssumption
<1>2. CASE n <= 1
  BY <1>1, <1>2 DEF RestartDelay
<1>3. CASE ~(n <= 1)
  <2> DEFINE shift == IF n - 1 < 16 THEN n - 1 ELSE 16
             d == kRestartDelayMs * 2^shift
  <2>1. shift \in Nat
    BY <1>3
  <2>2. 2^shift \in Nat /\ 2^shift # 0
    <3> HIDE DEF shift
    <3>1. IsFiniteSet(1..shift) /\ Cardinality(1..shift) = shift
      BY <2>1, FS_Interval
    <3>2. /\ IsFiniteSet(SUBSET (1..shift))
          /\ Cardinality(SUBSET (1..shift)) = 2^shift
      BY Zenon, <3>1, FS_SUBSET
    <3>3. SUBSET (1..shift) # {}
      BY Zenon
    <3> QED
      BY <3>2, <3>3, FS_CardinalityType, FS_EmptySet
  <2>3. \A x, y \in Nat : x > 0 /\ y # 0 => x * y \in Nat /\ x * y > 0
    OBVIOUS
  <2>4. d \in Nat /\ d > 0
    BY <1>1, <2>2, <2>3
  <2>5. RestartDelay(n) = IF d < kMaxRestartDelayMs THEN d ELSE kMaxRestartDelayMs
    BY Zenon, <1>3 DEF RestartDelay
  <2> HIDE DEF d
  <2> QED
    BY <1>1, <2>4, <2>5
<1> QED
  BY <1>2, <1>3

LEMMA TimersInvariant ==
    ASSUME ManagerInv, TimersInv, [Next]_vars
    PROVE  TimersInv'
<1>0. /\ MaxFailures \in Nat /\ kMaxRestartDelayMs \in Nat
  BY ManagerAssumption
<1>1. ASSUME UNCHANGED <<reanalysis_timer, shutting_down, restartVars, markdown>>
      PROVE  TimersInv'
  BY <1>1 DEF TimersInv, restartVars
<1>2. CASE OnChromeExit
  <2>1. PICK early \in BOOLEAN :
            LET n == IF early THEN failures + 1 ELSE 0
            IN  /\ failures' = IF n <= MaxFailures THEN n ELSE MaxFailures
                /\ restart_delay' = RestartDelay(n)
    BY Zenon, <1>2 DEF OnChromeExit
  <2> DEFINE n == IF early THEN failures + 1 ELSE 0
  <2>2. n \in Nat
    BY <1>0 DEF TimersInv
  <2>3. /\ failures' = IF n <= MaxFailures THEN n ELSE MaxFailures
        /\ restart_delay' = RestartDelay(n)
    BY <2>1
  <2> HIDE DEF n
  <2>4. failures' \in 0..MaxFailures
    BY <1>0, <2>2, <2>3
  <2>5. restart_delay' \in 0..kMaxRestartDelayMs
    <3>1. restart_delay' \in 1..kMaxRestartDelayMs
      BY <2>2, <2>3, RestartDelayBounded
    <3> QED
      BY <1>0, <3>1
  <2>6. UNCHANGED <<reanalysis_timer, shutting_down, markdown>>
    BY <1>2 DEF OnChromeExit, retryVars, storeVars
  <2> QED
    BY <2>4, <2>5, <2>6 DEF TimersInv
<1>3. CASE FinishAnalysis
  <2>1. /\ UNCHANGED <<shutting_down, restart_delay, failures, markdown>>
        /\ reanalysis_timer' \in {TRUE, reanalysis_timer}
    BY Zenon, <1>3 DEF FinishAnalysis, AnalysisFrame, restartVars, retryVars, storeVars
  <2> QED
    BY Zenon, <2>1 DEF TimersInv
<1>4. CASE OnAgentRenderDone
  <2>1. /\ UNCHANGED <<reanalysis_timer, shutting_down, restart_delay, failures>>
        /\ markdown' \subseteq markdown \cup {current_analysis.item.template}
        /\ current_analysis # None
    BY <1>4 DEF OnAgentRenderDone, AnalysisFrame, restartVars, retryVars
  <2>2. current_analysis.item \in AnalysisItem
    BY <2>1 DEF ManagerInv, LoopInv, Contexts
  <2>3. current_analysis.item.template \in Templates
    BY Zenon, <2>2 DEF AnalysisItem
  <2> QED
    BY <2>1, <2>3 DEF TimersInv
<1>5. CASE \/ StartChromeSucceeds \/ StartChromeFails
           \/ DrainQueueReturns \/ DrainQueueTakes
           \/ OnAnalysisComplete \/ CallbackReturns
           \/ OnCssExtractionDone \/ OnPageAnalysisDone
           \/ OnCriticalCssValidationDone \/ AdvanceToNextViewport
           \/ OnScriptAnalysisDone \/ StoreProfile \/ RecordStoredProfile
           \/ ResetGate
  BY Zenon, <1>1, <1>5
     DEF StartChromeSucceeds, StartChromeFails, DrainQueueReturns,
         DrainQueueTakes, OnAnalysisComplete, CallbackReturns,
         OnCssExtractionDone, OnPageAnalysisDone, OnCriticalCssValidationDone,
         AdvanceToNextViewport, OnScriptAnalysisDone, StoreProfile,
         RecordStoredProfile, ResetGate, AnalysisFrame, StoreFrame, storeVars,
         retryVars
<1>6. CASE \/ CloseAsync \/ OnAnalysisReady \/ ChromeEvent \/ ProfileEvicted
           \/ UNCHANGED vars
  BY <1>1, <1>6 DEF CloseAsync, OnAnalysisReady, ChromeEvent, ProfileEvicted, vars,
                    storeVars, retryVars
<1>7. CASE \E w \in Workers : LookupRecord(w) \/ PoolStep(w)
  <2>1. UNCHANGED poolFrame
    BY Zenon, <1>7 DEF LookupRecord, PoolStep, LookupCache, DropRecord,
                EnqueueAnalysis, SendAsync
  <2> QED
    BY <1>1, <2>1 DEF poolFrame, retryVars
<1>8. CASE OnRestartTimer \/ OnHealthyTimer \/ OnReanalysisTimer \/ Shutdown
           \/ WorkerRestarts
  <2>1. /\ restart_delay' \in {0, restart_delay} /\ failures' \in {0, failures}
        /\ UNCHANGED markdown
        /\ reanalysis_timer' \in {FALSE, reanalysis_timer}
        /\ shutting_down' \in {TRUE, FALSE, shutting_down}
    BY Zenon, <1>8 DEF OnRestartTimer, OnHealthyTimer, OnReanalysisTimer, Shutdown,
           WorkerRestarts, restartVars, retryVars, storeVars
  <2>2. restart_delay' \in 0..kMaxRestartDelayMs /\ failures' \in 0..MaxFailures
    BY <1>0, <2>1 DEF TimersInv
  <2>3. {reanalysis_timer', shutting_down'} \subseteq BOOLEAN
    BY Zenon, <2>1 DEF TimersInv
  <2> QED
    BY <2>1, <2>2, <2>3 DEF TimersInv
<1>9. CASE PagePurged
  <2>1. /\ UNCHANGED <<reanalysis_timer, shutting_down, restart_delay, failures>>
        /\ markdown' \subseteq markdown
    BY <1>9 DEF PagePurged, restartVars, retryVars
  <2> QED
    BY <2>1 DEF TimersInv
<1> QED
  BY Zenon, <1>2, <1>3, <1>4, <1>5, <1>6, <1>7, <1>8, <1>9 DEF Next, LoopCall

\* An item of the right shape that has not been retried too often is one of the
\* items of the model.
LEMMA BoundedItem ==
    ASSUME NEW x \in AnalysisItem, Bounded(x)
    PROVE  x \in Items
<1>1. /\ x = [template |-> x.template, force |-> x.force,
              retry_count |-> x.retry_count, template_hash |-> x.template_hash,
              is_warmup |-> x.is_warmup, frequency |-> x.frequency]
      /\ x.template \in Templates /\ x.force \in BOOLEAN /\ x.retry_count \in Nat
      /\ x.template_hash = [template |-> x.template, force |-> x.force]
      /\ x.is_warmup = FALSE /\ x.frequency = 1
  BY Zenon DEF AnalysisItem
<1>2. x = Item(x.template, x.force, x.retry_count)
  BY Zenon, <1>1 DEF Item
<1>3. x.retry_count \in 0..kMaxReanalysisRetries
  BY SMTT(60), <1>1, ManagerAssumption DEF Bounded
<1>4. \E t \in Templates, f \in BOOLEAN, n \in 0..kMaxReanalysisRetries :
          x = Item(t, f, n)
  BY Zenon, <1>1, <1>2, <1>3
<1> QED
  BY <1>4 DEF Items

\* What ManagerInv leaves open of the types.
BoundsInv ==
    /\ DrivenInv /\ ShutInv /\ RecordsInv
    /\ ViewportInv /\ RetriesInv /\ TimersInv

LEMMA FunctionIsSeq ==
    ASSUME NEW S, NEW n \in Nat, NEW f \in [1..n -> S]
    PROVE  f \in Seq(S)
OBVIOUS

LEMMA AllTyped ==
    ASSUME ManagerInv, BoundsInv
    PROVE  TypeOK
<1>0. /\ LoopInv /\ RetryInv /\ QueueInv /\ StoreInv
  BY DEF ManagerInv, SharedInv
<1>1. queue \in [items : Seq(Items), pending : SUBSET Service!Requests,
                 shutdown : BOOLEAN]
  <2>1. queue \in [items : Seq(AnalysisItem), pending : SUBSET Service!Requests,
                   shutdown : BOOLEAN]
    BY <1>0 DEF QueueInv
  <2>2. \A i \in 1..Len(queue.items) : queue.items[i] \in Items
    <3>1. \A i \in 1..Len(queue.items) : queue.items[i] \in AnalysisItem
      BY <2>1
    <3> QED
      BY <3>1, BoundedItem DEF BoundsInv, RetriesInv
  <2>3. queue.items \in Seq(Items)
    <3>1. /\ queue.items \in Seq(AnalysisItem) /\ Len(queue.items) \in Nat
          /\ queue.items = [i \in 1..Len(queue.items) |-> queue.items[i]]
      BY <2>1
    <3> HIDE DEF Items
    <3>2. queue.items \in [1..Len(queue.items) -> Items]
      BY SMTT(60), <2>2, <3>1
    <3> QED
      BY Zenon, <3>1, <3>2, FunctionIsSeq
  <2> QED
    BY Zenon, <2>1, <2>3
<1>2. DOMAIN chrome = DOMAIN NoChrome /\ Range(chrome) \subseteq BOOLEAN
  <2>1. chrome \in ChromeStates
    BY <1>0 DEF LoopInv
  <2>2. DOMAIN chrome = {"object", "running", "connected", "stop_requested", "alive"}
    BY <2>1 DEF ChromeStates
  <2>3. DOMAIN NoChrome = {"object", "running", "connected", "stop_requested", "alive"}
    BY DEF NoChrome
  <2>4. \A f \in DOMAIN chrome : chrome[f] \in BOOLEAN
    BY <2>1, <2>2 DEF ChromeStates
  <2> QED
    BY <2>2, <2>3, <2>4 DEF Range
<1>3. current_analysis \in {None} \cup
          [item : Items, viewports_done : 0..kNumViewports,
           inlinable : BOOLEAN, found : {"empty", "good", "degraded"}]
  <2> SUFFICES ASSUME current_analysis # None
               PROVE  current_analysis \in
                   [item : Items, viewports_done : 0..kNumViewports,
                    inlinable : BOOLEAN, found : {"empty", "good", "degraded"}]
    OBVIOUS
  <2>1. current_analysis \in Contexts
    BY <1>0 DEF LoopInv
  <2>2. current_analysis.item \in Items
    <3>1. current_analysis.item \in AnalysisItem
      BY <2>1 DEF Contexts
    <3> QED
      BY <3>1, BoundedItem DEF BoundsInv, RetriesInv
  <2>3. current_analysis.viewports_done \in 0..kNumViewports
    BY DEF BoundsInv, ViewportInv
  <2> QED
    BY Zenon, <2>1, <2>2, <2>3 DEF Contexts, Found
<1>4. pending_reanalysis \in {None} \cup Items
  BY <1>0, BoundedItem DEF RetryInv, BoundsInv, RetriesInv
<1>5. /\ async \in [open : BOOLEAN, signalled : BOOLEAN]
      /\ analysis_in_progress \in BOOLEAN
      /\ {session, orphan} \subseteq Stages \cup {"none"}
  BY <1>0 DEF BoundsInv, ShutInv, DrivenInv, LoopInv
<1>6. /\ {reanalysis_timer, shutting_down} \subseteq BOOLEAN
      /\ restart_delay \in 0..kMaxRestartDelayMs /\ failures \in 0..MaxFailures
      /\ markdown \subseteq Templates
  BY DEF BoundsInv, TimersInv
<1>7. insertion_order \in Seq(Templates) /\ Len(insertion_order) <= kMaxTemplates
  BY DEF BoundsInv, RecordsInv, Records
<1>8. profile \in [Templates -> {"none", "gone", "empty", "degraded", "good"}]
  <2>1. Found \cup {"none", "gone"} = {"none", "gone", "empty", "degraded", "good"}
    BY DEF Found
  <2> QED
    BY <1>0, <2>1 DEF StoreInv
<1> QED
  BY Zenon, <1>1, <1>2, <1>3, <1>4, <1>5, <1>6, <1>7, <1>8 DEF TypeOK

\* Every variable keeps its type: no analysis counts more viewports than there
\* are, no item is tried again more often than it may be, no record is made
\* beyond the detector's size and the restart delay never passes its limit, for
\* every value of those limits.
THEOREM ManagerTypeCorrect == Spec => []TypeOK
<1>1. Init => BoundsInv
  <2> SUFFICES ASSUME Init PROVE BoundsInv
    OBVIOUS
  <2>1. DrivenInv /\ ShutInv /\ RecordsInv
    BY DrivenInitially, ShutInitially, RecordsInitially
  <2>2. ViewportInv
    BY DEF Init, ViewportInv
  <2>3. RetriesInv
    <3>1. queue.items = <<>>
      BY Zenon, EmptyQueueInv DEF Init, Fresh
    <3>2. current_analysis = None /\ pending_reanalysis = None
      BY Zenon DEF Init
    <3>3. 1..Len(<<>>) = {}
      OBVIOUS
    <3> QED
      BY Zenon, <3>1, <3>2, <3>3 DEF RetriesInv
  <2>4. TimersInv
    <3>1. {reanalysis_timer, shutting_down} \subseteq BOOLEAN
      BY Zenon DEF Init
    <3>2. restart_delay \in 0..kMaxRestartDelayMs /\ failures \in 0..MaxFailures
      BY SMTT(60), ManagerAssumption DEF Init
    <3> QED
      BY <3>1, <3>2 DEF Init, TimersInv
  <2> QED
    BY <2>1, <2>2, <2>3, <2>4 DEF BoundsInv
<1>2. ManagerInv /\ BoundsInv /\ [Next]_vars => BoundsInv'
  BY DrivenInvariant, ShutInvariant, RecordsInvariant, ViewportInvariant,
     RetriesInvariant, TimersInvariant DEF BoundsInv
<1>3. ManagerInv /\ BoundsInv => TypeOK
  BY AllTyped
<1> QED
  BY <1>1, <1>2, <1>3, ManagerInvariant, PTL DEF Spec
=============================================================================
