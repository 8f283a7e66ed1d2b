---------------------- MODULE BrowserAnalysisManager -----------------------
(***************************************************************************)
(* Browser analysis (browser_analysis_manager.cc): pool threads look up a  *)
(* template's profile and queue a page for analysis; the event loop takes  *)
(* one item at a time through CSS extraction, page analysis and validation *)
(* for every viewport, then script analysis, stores the profile and may    *)
(* render the page once more for its markdown.  Chrome can exit, lose its  *)
(* pipe or be stopped between any two events, and fail to start.           *)
(*                                                                         *)
(* A page stands for its template, so Templates are pages as well.  A      *)
(* profile is what later decisions read of it: which viewports have        *)
(* critical CSS and whether its coverage looks degraded.                   *)
(***************************************************************************)
EXTENDS AnalysisQueue, ChromeProcess, FiniteSets

CONSTANTS
    Templates,
    Vouched,                 \* templates whose sender vouches for the host
    Workers,                 \* threads of the pool
    kNumViewports,
    kMaxReanalysisRetries,
    kMaxTemplates,
    kRestartDelayMs,
    kMaxRestartDelayMs,
    enable_script_analysis,
    agent_optimize,
    MaxFailures,             \* early exits in a row that are told apart
    MaxNotifications,        \* bound: notifications handled
    MaxFaults,               \* bound: failed starts, deaths, broken pipes, stops
    MaxCacheEvents           \* bound: evictions, expiries, purges, failed writes

ASSUME ManagerAssumption ==
    /\ Vouched \subseteq Templates
    /\ {kNumViewports, kMaxTemplates, MaxFailures} \subseteq Nat \ {0}
    /\ {kMaxReanalysisRetries, kRestartDelayMs, kMaxRestartDelayMs} \subseteq Nat
    /\ 0 < kRestartDelayMs /\ kRestartDelayMs <= kMaxRestartDelayMs
    /\ {enable_script_analysis, agent_optimize} \subseteq BOOLEAN

VARIABLES
    async,                   \* analysis_async_: [open, signalled]
    current_analysis,
    analysis_in_progress,
    pending_reanalysis,
    reanalysis_timer,        \* reanalysis_timer_active_
    restart_delay,           \* the delay of the armed restart timer, or 0
    failures,                \* chrome_consecutive_failures
    insertion_order,         \* TemplateDetector: templates with a profile
    profile,                 \* the cached profile of every template
    markdown,                \* pages that have a markdown variant
    shutting_down,
    pool,                    \* what each thread of the pool is doing
    spent                    \* how much of each bound has been used

analysisVars == <<current_analysis, analysis_in_progress>>
retryVars == <<pending_reanalysis, reanalysis_timer>>
restartVars == <<restart_delay, failures>>
storeVars == <<insertion_order, profile, markdown>>
vars == <<queue, async, chromeVars, analysisVars, retryVars, restartVars,
          storeVars, shutting_down, pool, spent>>

-----------------------------------------------------------------------------
None == [none |-> TRUE]

\* template_hash is the queue's key: the template for an analysis, the page's
\* own URL for a forced agent render.  No caller sets is_warmup or frequency.
Item(t, force, retry_count) ==
    [template |-> t, force |-> force, retry_count |-> retry_count,
     template_hash |-> [template |-> t, force |-> force], is_warmup |-> FALSE, frequency |-> 1]

Items == {Item(t, f, n) : t \in Templates, f \in BOOLEAN,
                          n \in 0..kMaxReanalysisRetries}

\* What an analysis has found: the class of the profile so far, and whether the
\* viewport in progress has critical CSS that may be inlined.
Context(item) ==
    [item |-> item, viewports_done |-> 0, inlinable |-> FALSE, found |-> "empty"]

HasProfile(t) == t \in Range(insertion_order)

RecordProfile(t) ==
    insertion_order' =
        IF HasProfile(t) THEN insertion_order
        ELSE Append(IF Len(insertion_order) >= kMaxTemplates
                    THEN Tail(insertion_order) ELSE insertion_order, t)

\* RemoveProfile: the template's entry, if it has one, is erased.
Removed(t) ==
    IF ~HasProfile(t) THEN insertion_order
    ELSE LET i == CHOOSE i \in DOMAIN insertion_order : insertion_order[i] = t
         IN  SubSeq(insertion_order, 1, i - 1)
                \o SubSeq(insertion_order, i + 1, Len(insertion_order))

\* The class of a profile with one more viewport.  One degraded viewport makes
\* the pass look degraded; without any critical CSS it is empty.
WithViewport(found, css) ==
    CASE "degraded" \in {found, css} -> "degraded"
      [] css = "good" -> "good"
      [] OTHER -> found

\* One more of a bounded kind of event.
Spend(kind, bound) ==
    /\ spent[kind] < bound
    /\ spent' = [spent EXCEPT ![kind] = @ + 1]

Running == chrome.object /\ chrome.running

\* The back-off of OnChromeExit: 2000 ms, doubled per early exit in a row.
RestartDelay(n) ==
    IF n <= 1 THEN kRestartDelayMs
    ELSE LET shift == IF n - 1 < 16 THEN n - 1 ELSE 16
             d == kRestartDelayMs * 2^shift
         IN IF d < kMaxRestartDelayMs THEN d ELSE kMaxRestartDelayMs

-----------------------------------------------------------------------------
IdleThread == [pc |-> "idle", page |-> None, force |-> FALSE]

Fresh ==
    [queue |-> EmptyQueue,
     async |-> [open |-> TRUE, signalled |-> FALSE],
     stack |-> <<Call("StartChrome")>>,
     pool |-> [w \in Workers |-> IdleThread]]

\* Initialize: the handle and the timers, then StartChrome.
Init ==
    /\ queue = Fresh.queue
    /\ async = Fresh.async
    /\ ChromeInit
    /\ stack = Fresh.stack
    /\ current_analysis = None
    /\ analysis_in_progress = FALSE
    /\ pending_reanalysis = None
    /\ reanalysis_timer = FALSE
    /\ restart_delay = 0
    /\ failures = 0
    /\ insertion_order = <<>>
    /\ profile = [t \in Templates |-> "none"]
    /\ markdown = {}
    /\ shutting_down = FALSE
    /\ pool = Fresh.pool
    /\ spent = [notifications |-> 0, faults |-> 0, cache |-> 0]

-----------------------------------------------------------------------------
(* The calls of the event loop.                                            *)

Calling(handler) == stack # <<>> /\ Head(stack).handler = handler

Result == Head(stack).result

Return == stack' = Tail(stack)

GoTo(handler) == stack' = <<Call(handler)>> \o Tail(stack)

\* Mutant: the retired processes are kept past the start.
StartChromeKeepsRetired ==
    /\ Calling("StartChrome") /\ ~shutting_down
    /\ chrome' = Started
    /\ GoTo("DrainQueue")
    /\ UNCHANGED <<queue, async, session, orphan, analysisVars, retryVars,
                   restartVars, storeVars, shutting_down, pool, spent>>

\* The process object is created, started, and the queue is drained.  The
\* retired processes, with any session left on them, are freed first.
StartChromeSucceeds ==
    /\ Calling("StartChrome") /\ ~shutting_down
    /\ chrome' = Started
    /\ orphan' = "none"
    /\ GoTo("DrainQueue")
    /\ UNCHANGED <<queue, async, session, analysisVars, retryVars,
                   restartVars, storeVars, shutting_down, pool, spent>>

\* The binary is missing, or the pipes or the process cannot be created.
StartChromeFails ==
    /\ Calling("StartChrome") /\ ~shutting_down
    /\ Spend("faults", MaxFaults)
    /\ chrome' = NoChrome
    /\ orphan' = "none"
    /\ Return
    /\ UNCHANGED <<queue, async, session, analysisVars, retryVars, restartVars,
                   storeVars, shutting_down, pool>>

MayTake ==
    /\ ~analysis_in_progress /\ Running /\ ~shutting_down
    /\ queue.items # <<>>

DrainQueueReturns ==
    /\ Calling("DrainQueue") /\ ~MayTake
    /\ Return
    /\ UNCHANGED <<queue, async, chrome, session, orphan, analysisVars,
                   retryVars, restartVars, storeVars, shutting_down, pool, spent>>

\* One viewport: its CSS session, unless the coverage of the page's sheets was
\* refused, which is an error without a session.  Both callers have a running
\* Chrome.
RunViewportAnalysis(ctx) ==
    /\ current_analysis' = ctx
    /\ \/ StartSession("css", Tail(stack))
       \/ /\ stack' = <<Done("css", "error")>> \o Tail(stack)
          /\ UNCHANGED session

\* Mutant: an item whose HTML is gone is dropped without a completion.
RunAnalysisForgets(item) ==
    \/ /\ item.retry_count > 0
       /\ current_analysis' = None
       /\ stack' = Tail(stack)
       /\ UNCHANGED session
    \/ /\ item.force
       /\ current_analysis' = Context(item)
       /\ StartSession("agent", Tail(stack))
    \/ /\ ~item.force
       /\ RunViewportAnalysis(Context(item))

\* RunAnalysis of the first item.  A retry carries no HTML and reads it from
\* the cache again, where it may be gone.  A forced agent render goes straight
\* to its render.
RunAnalysis(item) ==
    \/ /\ item.retry_count > 0
       /\ current_analysis' = None
       /\ GoTo("OnAnalysisComplete")
       /\ UNCHANGED session
    \/ /\ item.force
       /\ current_analysis' = Context(item)
       /\ StartSession("agent", Tail(stack))
    \/ /\ ~item.force
       /\ RunViewportAnalysis(Context(item))

DrainQueueTakes ==
    /\ Calling("DrainQueue") /\ MayTake
    /\ queue' = Dequeued(queue)
    /\ analysis_in_progress' = TRUE
    /\ RunAnalysis(Head(queue.items))
    /\ UNCHANGED <<async, chrome, orphan, retryVars, restartVars, storeVars,
                   shutting_down, pool, spent>>

\* Mutant: the end of an analysis leaves the queue to the next signal.
OnAnalysisCompleteNoDrain ==
    /\ Calling("OnAnalysisComplete")
    /\ current_analysis' = None
    /\ analysis_in_progress' = FALSE
    /\ Return
    /\ UNCHANGED <<queue, async, chrome, session, orphan, retryVars,
                   restartVars, storeVars, shutting_down, pool, spent>>

OnAnalysisComplete ==
    /\ Calling("OnAnalysisComplete")
    /\ current_analysis' = None
    /\ analysis_in_progress' = FALSE
    /\ GoTo("DrainQueue")
    /\ UNCHANGED <<queue, async, chrome, session, orphan, retryVars,
                   restartVars, storeVars, shutting_down, pool, spent>>

\* The callbacks of a session that find no analysis return.
CallbackReturns ==
    /\ stack # <<>> /\ Head(stack).handler \in Stages
    /\ current_analysis = None
    /\ Return
    /\ UNCHANGED <<queue, async, chrome, session, orphan, analysisVars,
                   retryVars, restartVars, storeVars, shutting_down, pool, spent>>

\* What the calls of one analysis leave alone.
AnalysisFrame ==
    UNCHANGED <<queue, async, chrome, orphan, analysis_in_progress,
                restartVars, shutting_down, pool, spent>>

\* The result is kept, and page analysis follows whether or not there is one.
OnCssExtractionDone ==
    /\ Calling("css") /\ current_analysis # None
    /\ current_analysis' =
          IF Result = "error" THEN current_analysis
          ELSE [current_analysis EXCEPT
                  !.inlinable = (Result = "good"), !.found = WithViewport(@, Result)]
    /\ IF Running THEN StartSession("page", Tail(stack))
       ELSE GoTo("OnAnalysisComplete") /\ UNCHANGED session
    /\ UNCHANGED <<retryVars, storeVars>>
    /\ AnalysisFrame

\* What PrepareCriticalCssValidation needs before it may ask for a render: a
\* browser, and critical CSS that is not the bulk of the sheet.
MayValidate == Running /\ current_analysis.inlinable

\* The comparison is run, or refused: for one of the reasons above, or because
\* no block can be derived from the sheet or no documents built for it.
RunCriticalCssValidation ==
    \/ MayValidate /\ StartSession("validate", Tail(stack))
    \/ GoTo("AdvanceToNextViewport") /\ UNCHANGED session

\* A failed render is treated like one that found nothing.
OnPageAnalysisDone ==
    /\ Calling("page") /\ current_analysis # None
    /\ RunCriticalCssValidation
    /\ UNCHANGED <<current_analysis, retryVars, storeVars>>
    /\ AnalysisFrame

\* The verdict decides how the page is served, not what happens next here.
OnCriticalCssValidationDone ==
    /\ Calling("validate") /\ current_analysis # None
    /\ GoTo("AdvanceToNextViewport")
    /\ UNCHANGED <<session, current_analysis, retryVars, storeVars>>
    /\ AnalysisFrame

\* The next viewport, script analysis or the end.
AdvanceToNextViewport ==
    /\ Calling("AdvanceToNextViewport")
    /\ LET done == current_analysis.viewports_done + 1
           ctx == [current_analysis EXCEPT
                     !.viewports_done = done, !.inlinable = FALSE]
       IN  IF done < kNumViewports /\ Running
           THEN RunViewportAnalysis(ctx)
           ELSE /\ current_analysis' = ctx
                /\ IF enable_script_analysis /\ Running
                   THEN StartSession("script", Tail(stack))
                   ELSE GoTo("FinishAnalysis") /\ UNCHANGED session
    /\ UNCHANGED <<retryVars, storeVars>>
    /\ AnalysisFrame

OnScriptAnalysisDone ==
    /\ Calling("script") /\ current_analysis # None
    /\ GoTo("FinishAnalysis")
    /\ UNCHANGED <<session, current_analysis, retryVars, storeVars>>
    /\ AnalysisFrame

\* MaybeScheduleReanalysis: another pass may do better, the item has retries
\* left and no other item waits for the one timer.
NeedsReanalysis ==
    \/ current_analysis.found = "empty"
    \/ /\ current_analysis.found = "degraded"
       /\ ~HasProfile(current_analysis.item.template)

\* Mutant: the retries are not counted.
MayReanalyseForever == NeedsReanalysis /\ ~reanalysis_timer

\* Mutant: a retry is scheduled over the one that waits.
MayReanalyseOver ==
    /\ NeedsReanalysis
    /\ current_analysis.item.retry_count < kMaxReanalysisRetries

MayReanalyse ==
    /\ NeedsReanalysis
    /\ current_analysis.item.retry_count < kMaxReanalysisRetries
    /\ ~reanalysis_timer

BuildReanalysisItem(item) ==
    Item(item.template, item.force, item.retry_count + 1)

FinishAnalysis ==
    /\ Calling("FinishAnalysis")
    /\ IF MayReanalyse
       THEN /\ pending_reanalysis' = BuildReanalysisItem(current_analysis.item)
            /\ reanalysis_timer' = TRUE
            /\ GoTo("OnAnalysisComplete")
       ELSE UNCHANGED retryVars /\ GoTo("StoreProfile")
    /\ UNCHANGED <<session, current_analysis, storeVars>>
    /\ AnalysisFrame

\* The tail of FinishAnalysis: MayRunAgentRender.
AgentRenderOrComplete ==
    IF agent_optimize /\ Running /\ current_analysis.item.template \in Vouched
    THEN StartSession("agent", Tail(stack))
    ELSE GoTo("OnAnalysisComplete") /\ UNCHANGED session

\* A degraded pass does not replace the profile the template has.
KeepsPrior ==
    /\ current_analysis.found = "degraded"
    /\ HasProfile(current_analysis.item.template)

\* What the storing of a profile leaves alone.
StoreFrame ==
    UNCHANGED <<queue, async, chrome, orphan, current_analysis,
                analysis_in_progress, retryVars, restartVars, insertion_order,
                markdown, shutting_down, pool>>

\* Mutant: the record is made although the write could not be opened.
StoreProfileRecordsAnyway ==
    /\ Calling("StoreProfile")
    /\ \/ /\ ~KeepsPrior
          /\ profile' = [profile EXCEPT ![current_analysis.item.template] =
                            current_analysis.found]
       \/ UNCHANGED profile
    /\ GoTo("RecordProfile")
    /\ UNCHANGED <<session, spent>>
    /\ StoreFrame

\* The profile is committed to the cache and the record follows in the next
\* call.  A write that fails goes unnoticed: the cache keeps what it had, and
\* the record is made.  A write that cannot be opened leaves both as they are.
StoreProfile ==
    /\ Calling("StoreProfile")
    /\ \/ /\ ~KeepsPrior
          /\ profile' = [profile EXCEPT ![current_analysis.item.template] =
                            current_analysis.found]
          /\ GoTo("RecordProfile")
          /\ UNCHANGED <<session, spent>>
       \/ /\ ~KeepsPrior
          /\ Spend("cache", MaxCacheEvents)
          /\ GoTo("RecordProfile")
          /\ UNCHANGED <<session, profile>>
       \/ AgentRenderOrComplete /\ UNCHANGED <<profile, spent>>
    /\ StoreFrame

RecordStoredProfile ==
    /\ Calling("RecordProfile")
    /\ RecordProfile(current_analysis.item.template)
    /\ AgentRenderOrComplete
    /\ UNCHANGED <<current_analysis, retryVars, profile, markdown>>
    /\ AnalysisFrame

\* The markdown is written if the page is still the one that was rendered.
OnAgentRenderDone ==
    /\ Calling("agent") /\ current_analysis # None
    /\ \/ /\ Result = "ok"
          /\ markdown' = markdown \cup {current_analysis.item.template}
       \/ UNCHANGED markdown
    /\ GoTo("OnAnalysisComplete")
    /\ UNCHANGED <<session, current_analysis, retryVars, insertion_order,
                   profile>>
    /\ AnalysisFrame

\* OnChromeExit, first part: the validation gate goes while its client is still
\* there, which ends a comparison in progress.
ResetGate ==
    /\ Calling("ResetGate")
    /\ IF session = "validate"
       THEN /\ session' = NoSession
            /\ stack' = <<Done("validate", "error")>> \o Tail(stack)
       ELSE Return /\ UNCHANGED session
    /\ UNCHANGED <<queue, async, chrome, orphan, analysisVars, retryVars,
                   restartVars, storeVars, shutting_down, pool, spent>>

\* The rest: Chrome is retired, with any session on it; the analysis is
\* cancelled and the restart timer armed.  An exit that was asked for, or that
\* comes a minute or more after the start, is no launch failure.
OnChromeExit ==
    /\ Calling("OnChromeExit")
    /\ chrome' = NoChrome
    /\ orphan' = session
    /\ session' = NoSession
    /\ current_analysis' = None
    /\ analysis_in_progress' = FALSE
    /\ \E early \in IF chrome.stop_requested THEN {FALSE} ELSE BOOLEAN :
          LET n == IF early THEN failures + 1 ELSE 0
          IN  /\ failures' = IF n <= MaxFailures THEN n ELSE MaxFailures
              /\ restart_delay' = RestartDelay(n)
    /\ Return
    /\ UNCHANGED <<queue, async, retryVars, storeVars,
                   shutting_down, pool, spent>>

LoopCall ==
    \/ StartChromeSucceeds \/ StartChromeFails
    \/ DrainQueueReturns \/ DrainQueueTakes
    \/ OnAnalysisComplete \/ CallbackReturns
    \/ OnCssExtractionDone \/ OnPageAnalysisDone
    \/ OnCriticalCssValidationDone \/ AdvanceToNextViewport \/ OnScriptAnalysisDone
    \/ FinishAnalysis \/ StoreProfile \/ RecordStoredProfile
    \/ OnAgentRenderDone
    \/ ResetGate \/ OnChromeExit

-----------------------------------------------------------------------------
(* The events of the loop.                                                 *)

OnAnalysisReady ==
    /\ Idle /\ async.open /\ async.signalled
    /\ async' = [async EXCEPT !.signalled = FALSE]
    /\ stack' = <<Call("DrainQueue")>>
    /\ UNCHANGED <<queue, chrome, session, orphan, analysisVars, retryVars,
                   restartVars, storeVars, shutting_down, pool, spent>>

OnRestartTimer ==
    /\ Idle /\ restart_delay > 0
    /\ restart_delay' = 0
    /\ stack' = <<Call("StartChrome")>>
    /\ UNCHANGED <<queue, async, chrome, session, orphan, analysisVars,
                   retryVars, failures, storeVars,
                   shutting_down, pool, spent>>

\* The timer runs once per start and is stopped at the exit: it is told apart
\* from a timer that has fired only while there are failures to forget.
OnHealthyTimer ==
    /\ Idle /\ Running /\ failures > 0
    /\ failures' = 0
    /\ UNCHANGED <<queue, async, chromeVars, analysisVars, retryVars,
                   restart_delay, storeVars, shutting_down, pool, spent>>

\* The item is queued again and its template's record dropped, in that order;
\* when the queue refuses the item, the retry is lost and the record stays.
OnReanalysisTimer ==
    /\ Idle /\ reanalysis_timer
    /\ reanalysis_timer' = FALSE
    /\ pending_reanalysis' = None
    /\ IF Accepts(queue, pending_reanalysis)
       THEN /\ queue' = Enqueued(queue, pending_reanalysis)
            /\ insertion_order' = Removed(pending_reanalysis.template)
            /\ async' = [async EXCEPT !.signalled = TRUE]
       ELSE UNCHANGED <<queue, insertion_order, async>>
    /\ UNCHANGED <<chromeVars, analysisVars, restartVars, profile, markdown,
                   shutting_down, pool, spent>>

ChromeEvent ==
    /\ \/ /\ SessionEnds \/ OrphanTimesOut \/ ExitDue
          /\ UNCHANGED spent
       \/ /\ Dies \/ PipeFails \/ OnRssCheck
          /\ Spend("faults", MaxFaults)
    /\ UNCHANGED <<queue, async, analysisVars, retryVars, restartVars,
                   storeVars, shutting_down, pool>>

\* Everything but the async handle, which is closed under its mutex in a call
\* of its own.  A command cancelled here calls back into no analysis.
Shutdown ==
    /\ Idle /\ ~shutting_down
    /\ shutting_down' = TRUE
    /\ queue' = [queue EXCEPT !.shutdown = TRUE]
    /\ current_analysis' = None
    /\ analysis_in_progress' = FALSE
    /\ chrome' = NoChrome
    /\ session' = NoSession
    /\ orphan' = "none"
    /\ restart_delay' = 0
    /\ reanalysis_timer' = FALSE
    /\ pending_reanalysis' = None
    /\ stack' = <<Call("CloseAsync")>>
    /\ UNCHANGED <<async, failures, storeVars, pool, spent>>

CloseAsync ==
    /\ Calling("CloseAsync")
    /\ async' = [open |-> FALSE, signalled |-> FALSE]
    /\ Return
    /\ UNCHANGED <<queue, chrome, session, orphan, analysisVars, retryVars,
                   restartVars, storeVars, shutting_down, pool, spent>>

\* The worker is killed, at any point, or has stopped: the next one starts with
\* the cache's contents and nothing else.
WorkerRestarts ==
    /\ Spend("faults", MaxFaults)
    /\ queue' = Fresh.queue /\ async' = Fresh.async
    /\ stack' = Fresh.stack /\ pool' = Fresh.pool
    /\ chrome' = NoChrome /\ session' = NoSession /\ orphan' = "none"
    /\ current_analysis' = None /\ analysis_in_progress' = FALSE
    /\ pending_reanalysis' = None /\ reanalysis_timer' = FALSE
    /\ restart_delay' = 0 /\ failures' = 0
    /\ insertion_order' = <<>>
    /\ shutting_down' = FALSE
    /\ UNCHANGED <<profile, markdown>>

-----------------------------------------------------------------------------
(* The threads of the pool.                                                *)

poolFrame == <<chromeVars, analysisVars, retryVars, restartVars, markdown,
               shutting_down>>

At(w, pc) == pool[w].pc = pc

To(w, pc) == pool' = [pool EXCEPT ![w].pc = pc]

Leaves(w) == pool' = [pool EXCEPT ![w] = IdleThread]

\* LookupProfile, first step: the record.
LookupRecord(w) ==
    /\ At(w, "idle")
    /\ Spend("notifications", MaxNotifications)
    /\ \E t \in Templates :
          pool' = [pool EXCEPT ![w] =
                      [pc |-> IF HasProfile(t) THEN "read" ELSE "enqueue",
                       page |-> t, force |-> FALSE]]
    /\ UNCHANGED <<queue, async, insertion_order, profile, poolFrame>>

\* Second step: the cached profile.  A profile in hand may lead to a forced
\* agent render, or to a new analysis when its record is of other bytes.
LookupCache(w) ==
    /\ At(w, "read")
    /\ \/ /\ profile[pool[w].page] \in {"none", "gone"}
          /\ To(w, "remove")
       \/ /\ profile[pool[w].page] \in {"empty", "degraded", "good"}
          /\ Leaves(w)
       \/ /\ profile[pool[w].page] \in {"degraded", "good"}
          /\ To(w, "enqueue")
       \/ /\ profile[pool[w].page] \in {"empty", "degraded", "good"}
          /\ agent_optimize
          /\ pool[w].page \in Vouched \ markdown
          /\ pool' = [pool EXCEPT ![w].pc = "enqueue", ![w].force = TRUE]
    /\ UNCHANGED <<queue, async, insertion_order, profile, poolFrame, spent>>

\* Third step: the record of a profile that is gone or expired is dropped.
DropRecord(w) ==
    /\ At(w, "remove")
    /\ insertion_order' = Removed(pool[w].page)
    /\ To(w, "enqueue")
    /\ UNCHANGED <<queue, async, profile, poolFrame, spent>>

EnqueueAnalysis(w) ==
    /\ At(w, "enqueue")
    /\ LET item == Item(pool[w].page, pool[w].force, 0)
       IN  IF ~shutting_down /\ Accepts(queue, item)
           THEN queue' = Enqueued(queue, item) /\ To(w, "send")
           ELSE UNCHANGED queue /\ Leaves(w)
    /\ UNCHANGED <<async, insertion_order, profile, poolFrame, spent>>

\* Mutant: the thread signals without looking whether the handle is open.
SendAsyncUnchecked(w) ==
    /\ At(w, "send")
    /\ async' = [async EXCEPT !.signalled = TRUE]
    /\ Leaves(w)
    /\ UNCHANGED <<queue, insertion_order, profile, poolFrame, spent>>

\* uv_async_send, under the mutex that CloseAsync holds.
SendAsync(w) ==
    /\ At(w, "send")
    /\ async' = IF async.open THEN [async EXCEPT !.signalled = TRUE] ELSE async
    /\ Leaves(w)
    /\ UNCHANGED <<queue, insertion_order, profile, poolFrame, spent>>

PoolStep(w) ==
    LookupCache(w) \/ DropRecord(w) \/ EnqueueAnalysis(w) \/ SendAsync(w)

\* The cache drops a profile, or time passes over it; a purge of the page or a
\* changed origin takes its markdown.
ProfileEvicted ==
    /\ Spend("cache", MaxCacheEvents)
    /\ \E t \in Templates :
          /\ profile[t] \in {"empty", "degraded", "good"}
          /\ profile' = [profile EXCEPT ![t] = "gone"]
    /\ UNCHANGED <<queue, async, chromeVars, analysisVars, retryVars,
                   restartVars, insertion_order, markdown, shutting_down, pool>>

PagePurged ==
    /\ Spend("cache", MaxCacheEvents)
    /\ \E t \in markdown : markdown' = markdown \ {t}
    /\ UNCHANGED <<queue, async, chromeVars, analysisVars, retryVars,
                   restartVars, insertion_order, profile, shutting_down, pool>>

-----------------------------------------------------------------------------
Next ==
    \/ LoopCall \/ CloseAsync
    \/ OnAnalysisReady \/ OnRestartTimer \/ OnHealthyTimer \/ OnReanalysisTimer
    \/ ChromeEvent \/ Shutdown
    \/ \E w \in Workers : LookupRecord(w) \/ PoolStep(w)
    \/ ProfileEvicted \/ PagePurged \/ WorkerRestarts

\* What the event loop does without anyone's help: it makes the calls it has
\* begun, serves the handles that are ready, and every session, restart and
\* retry has a timer; a stopped Chrome is killed and its exit is reaped.
LoopStep ==
    \/ LoopCall \/ CloseAsync
    \/ OnAnalysisReady \/ OnRestartTimer \/ OnReanalysisTimer
    \/ (SessionEnds \/ ExitDue) /\ ChromeEvent

\* The loop does not rest while it has a call to make or a ready handle, and a
\* thread of the pool finishes the notification it has begun.
Fairness ==
    /\ WF_vars(LoopStep)
    /\ \A w \in Workers : WF_vars(PoolStep(w))

Spec == Init /\ [][Next]_vars /\ Fairness

-----------------------------------------------------------------------------
Key(item) == IF item = None THEN None ELSE item.template_hash

Service ==
    INSTANCE AnalysisService WITH
        Capacity <- browser_queue_size,
        Nothing <- None,
        waiting <- {queue.items[i].template_hash : i \in DOMAIN queue.items},
        running <- IF current_analysis = None THEN None
                   ELSE current_analysis.item.template_hash,
        retry <- Key(pending_reanalysis),
        stored <- profile,
        open <- ~queue.shutdown

TypeOK ==
    /\ queue \in [items : Seq(Items), pending : SUBSET Service!Requests,
                  shutdown : BOOLEAN]
    /\ async \in [open : BOOLEAN, signalled : BOOLEAN]
    /\ DOMAIN chrome = DOMAIN NoChrome /\ Range(chrome) \subseteq BOOLEAN
    /\ {session, orphan} \subseteq Stages \cup {"none"}
    /\ current_analysis \in {None} \cup
          [item : Items, viewports_done : 0..kNumViewports,
           inlinable : BOOLEAN, found : {"empty", "good", "degraded"}]
    /\ pending_reanalysis \in {None} \cup Items
    /\ {analysis_in_progress, reanalysis_timer, shutting_down} \subseteq BOOLEAN
    /\ restart_delay \in 0..kMaxRestartDelayMs /\ failures \in 0..MaxFailures
    /\ insertion_order \in Seq(Templates) /\ Len(insertion_order) <= kMaxTemplates
    /\ profile \in [Templates -> {"none", "gone", "empty", "degraded", "good"}]
    /\ markdown \subseteq Templates

\* Whenever the event loop is back in its poll, an analysis is in progress
\* exactly when there is a context for it and a session that will call back:
\* analysis_in_progress_ left set without a session would refuse every later
\* item, and a session without an analysis would render for nobody.
AnalysisDriven ==
    Idle => /\ analysis_in_progress = (current_analysis # None)
            /\ analysis_in_progress = (session # NoSession)

\* A session left on a Chrome that has exited calls back, at its timer, into
\* whatever analysis is current.  There is none: the process objects that own
\* such sessions are freed before the next Chrome can start one.
OrphanAlone == orphan # "none" => current_analysis = None /\ ~chrome.object

\* As long as the cache has lost no profile and failed no write, a pool thread
\* that finds a template's record reads a profile that was committed before the
\* record was made, whatever Chrome, the retries, the evictions from the
\* detector or a restart of the worker did in between.
RecordedIsWritten ==
    spent.cache = 0 =>
        \A t \in Range(insertion_order) : profile[t] \notin {"none", "gone"}

\* After Shutdown no Chrome, session, analysis or timer is left to call back,
\* and no thread of the pool signals the handle once it is closed.
ShutdownQuiesces ==
    /\ shutting_down => /\ chrome = NoChrome /\ session = NoSession
                        /\ orphan = "none" /\ ~analysis_in_progress
                        /\ restart_delay = 0 /\ ~reanalysis_timer
    /\ async.signalled => async.open

\* Every analysis ends: by its sessions' callbacks, by their timers when the
\* pipe is gone, or by the exit of Chrome.
EveryAnalysisEnds == []<>~analysis_in_progress

\* Items do not wait while Chrome is idle: the signal, the end of an analysis
\* and the start of Chrome each drain the queue, so no wakeup is lost.
QueuedGetsTaken == []<>(queue.items = <<>> \/ analysis_in_progress \/ ~Running)

\* The manager implements the service: whatever the threads, the callbacks and
\* Chrome do, a request runs alone, only the analysis of a template replaces
\* its profile, one retry at a time is set aside and none is overwritten.
ServiceRefined == Service!ServiceSpec

\* A degraded pass never replaces a good profile that the cache still holds
\* (the degraded-pass guard of FinishAnalysis).
GoodProfileKept ==
    [][\A t \in Templates : profile[t] = "good" => profile'[t] # "degraded"]_vars
============================================================================
