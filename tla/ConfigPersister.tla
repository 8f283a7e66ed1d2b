--------------------------- MODULE ConfigPersister ---------------------------
(***************************************************************************)
(* The configuration persistence thread (config_persister.cc) between the  *)
(* event loop, which applies PATCHes and answers them, and the disk.       *)
(*                                                                         *)
(* Submit() numbers the jobs, and each job's snapshot contains every       *)
(* earlier change, so generation g stands both for the g-th job and for    *)
(* the state of a file that has the changes 1..g.  Waiters and completions *)
(* are deques in ascending order of generation: sets of generations here.  *)
(***************************************************************************)
EXTENDS SavedAnswers

VARIABLES
    stop, exited,         \* Core::stop, Core::exited
    async,                \* Core::async is not null
    signalled,            \* uv_async_send was called, OnAsync has not run
    next_gen,
    pending,              \* Core::pending: [gen, shared_dirty], gen 0 if empty
    waiters,              \* generations whose done callback has not run
    completions,          \* [gen, json_ok, shared_ok]
    joinable,             \* thread_.joinable()
    tpc, job, json_ok,    \* the persister thread
    lpc, c                \* the event loop

core == <<stop, exited, async, signalled, next_gen, pending, waiters,
          completions, joinable>>
thread == <<tpc, job, json_ok>>
loop == <<lpc, c>>
disk == <<disk_json, disk_shared>>
asked == <<applied, dirty>>
vars == <<asked, disk, answer, core, thread, loop>>

Empty == [gen |-> 0, shared_dirty |-> FALSE]
Completion == [gen : Nat, json_ok : BOOLEAN, shared_ok : BOOLEAN]
NoCompletion == [gen |-> 0, json_ok |-> FALSE, shared_ok |-> FALSE]

-----------------------------------------------------------------------------
(* The event loop: a PATCH is applied in memory and submitted.              *)

\* Mutant: the superseded job's shared change is dropped.
SupersedeDirty(d) == d

\* A job submitted while another waits replaces it and inherits its dirt.
Supersede(d) == d \/ (pending.gen # 0 /\ pending.shared_dirty)

\* Mutant: post-increment.
NewGenPost == next_gen

NewGen == next_gen + 1

\* The job gets a number and a waiter, and replaces the pending one.
Accept(d) ==
    /\ next_gen' = next_gen + 1
    /\ pending' = [gen |-> NewGen, shared_dirty |-> Supersede(d)]
    /\ waiters' = waiters \cup {NewGen}
    /\ UNCHANGED answer

\* PrepareConfigPatch (the change is live) and Submit, in one callback.
Submit ==
    /\ lpc \in {"run", "down"}
    /\ applied < MaxPatches
    /\ applied' = applied + 1
    /\ \E d \in BOOLEAN :
         /\ dirty' = IF d THEN dirty \cup {applied + 1} ELSE dirty
         /\ IF stop
            THEN /\ answer' = [answer EXCEPT ![applied + 1] = "failed"]
                 /\ UNCHANGED <<next_gen, pending, waiters>>
            ELSE Accept(d)
    /\ UNCHANGED <<disk, stop, exited, async, signalled, completions, joinable,
                   thread, loop>>

-----------------------------------------------------------------------------
(* ThreadMain.                                                              *)

\* The wait predicate holds: take the pending job, or stop.
ThreadTake ==
    /\ tpc = "wait"
    /\ pending.gen # 0 \/ stop
    /\ IF pending.gen # 0
       THEN tpc' = "json" /\ job' = pending /\ pending' = Empty
       ELSE tpc' = "exit" /\ UNCHANGED <<job, pending>>
    /\ UNCHANGED <<asked, disk, answer, stop, exited, async, signalled, next_gen,
                   waiters, completions, joinable, json_ok, loop>>

\* write_json replaces the file (write, fsync, rename) or leaves it alone.
WriteJson ==
    /\ tpc = "json"
    /\ \E ok \in BOOLEAN :
         /\ json_ok' = ok
         /\ disk_json' = IF ok THEN job.gen ELSE disk_json
    /\ tpc' = "shared"
    /\ UNCHANGED <<asked, disk_shared, answer, core, job, loop>>

\* Mutant: the completion is queued without waking the loop.
CompleteSilently(ok) ==
    /\ completions' = completions
           \cup {[gen |-> job.gen, json_ok |-> json_ok, shared_ok |-> ok]}
    /\ UNCHANGED signalled

\* The completion is queued and the loop woken, under the mutex.
Complete(ok) ==
    /\ completions' = completions
           \cup {[gen |-> job.gen, json_ok |-> json_ok, shared_ok |-> ok]}
    /\ signalled' = (signalled \/ async)

\* write_shared, only for a dirty job; then the completion.
WriteShared ==
    /\ tpc = "shared"
    /\ \E ok \in BOOLEAN :
         /\ ~job.shared_dirty => ok
         /\ disk_shared' = IF ok /\ job.shared_dirty THEN job.gen ELSE disk_shared
         /\ tpc' = IF ok THEN "done" ELSE "notdone"
    /\ UNCHANGED <<asked, disk_json, answer, core, job, json_ok, loop>>

ThreadComplete ==
    /\ tpc \in {"done", "notdone"}
    /\ Complete(tpc = "done")
    /\ tpc' = "wait"
    /\ UNCHANGED <<asked, disk, answer, stop, exited, async, next_gen, pending,
                   waiters, joinable, job, json_ok, loop>>

ThreadExit ==
    /\ tpc = "exit"
    /\ exited' = TRUE
    /\ tpc' = "gone"
    /\ UNCHANGED <<asked, disk, answer, stop, async, signalled, next_gen, pending,
                   waiters, completions, joinable, job, json_ok, loop>>

-----------------------------------------------------------------------------
(* OnAsync and DeliverCompletions; Shutdown delivers too.                   *)

OnAsync ==
    /\ lpc = "run"
    /\ signalled
    /\ signalled' = FALSE
    /\ lpc' = "deliver"
    /\ UNCHANGED <<asked, disk, answer, stop, exited, async, next_gen, pending,
                   waiters, completions, joinable, thread, c>>

\* Pop the oldest completion, or return.
DeliverPop ==
    /\ lpc \in {"deliver", "downDeliver"}
    /\ IF completions = {}
       THEN /\ lpc' = IF lpc = "deliver" THEN "run" ELSE "failRest"
            /\ UNCHANGED <<completions, c>>
       ELSE \E d \in completions :
              /\ \A e \in completions : d.gen <= e.gen
              /\ completions' = completions \ {d}
              /\ c' = d
              /\ lpc' = IF lpc = "deliver" THEN "take" ELSE "downTake"
    /\ UNCHANGED <<asked, disk, answer, stop, exited, async, signalled, next_gen,
                   pending, waiters, joinable, thread>>

\* Mutant: a completion answers every waiter, also those submitted since.
TakeAllWaiters(gen) == waiters

\* TakeWaiters: the waiters a completed generation covers.
TakeWaiters(gen) == {w \in waiters : w <= gen}

\* Mutant: the callbacks run but stay in the deque.
DoneKeepsWaiters(S, verdict) ==
    /\ answer' = [p \in 1..MaxPatches |-> IF p \in S THEN verdict ELSE answer[p]]
    /\ UNCHANGED waiters

\* Run the done callbacks of the waiters S: AddPersistWarnings and respond.
Done(S, verdict) ==
    /\ waiters' = waiters \ S
    /\ answer' = [p \in 1..MaxPatches |-> IF p \in S THEN verdict ELSE answer[p]]

DeliverTake ==
    /\ lpc \in {"take", "downTake"}
    /\ Done(TakeWaiters(c.gen),
            IF c.json_ok /\ c.shared_ok THEN "saved" ELSE "failed")
    /\ lpc' = IF lpc = "take" THEN "deliver" ELSE "downDeliver"
    /\ c' = NoCompletion
    /\ UNCHANGED <<asked, disk, stop, exited, async, signalled, next_gen, pending,
                   completions, joinable, thread>>

-----------------------------------------------------------------------------
(* Shutdown, by BeginGracefulShutdown and again by the destructor.          *)

\* With everything closed already (a second call, or no async handle from the
\* start) it returns at once; otherwise the thread is there to be joined.
ShutdownBegin ==
    /\ lpc = "run"
    /\ stop' = TRUE
    /\ lpc' = IF stop /\ ~joinable /\ ~async THEN "down" ELSE "drain"
    /\ UNCHANGED <<asked, disk, answer, exited, async, signalled, next_gen,
                   pending, waiters, completions, joinable, thread, c>>

\* wait_for: join the thread, or give up on a hung disk and detach it.
ShutdownJoin ==
    /\ lpc = "drain"
    /\ exited
    /\ joinable' = FALSE
    /\ lpc' = "downDeliver"
    /\ UNCHANGED <<asked, disk, answer, stop, exited, async, signalled, next_gen,
                   pending, waiters, completions, thread, c>>

ShutdownTimeout ==
    /\ lpc = "drain"
    /\ ~exited
    /\ joinable' = FALSE
    /\ lpc' = "downDeliver"
    /\ UNCHANGED <<asked, disk, answer, stop, exited, async, signalled, next_gen,
                   pending, waiters, completions, thread, c>>

\* TakeWaiters(UINT64_MAX): fail what is still waiting.
ShutdownFailRest ==
    /\ lpc = "failRest"
    /\ Done(waiters, "failed")
    /\ lpc' = "close"
    /\ UNCHANGED <<asked, disk, stop, exited, async, signalled, next_gen, pending,
                   completions, joinable, thread, c>>

\* async is cleared under the mutex, then the handle is closed: OnAsync will
\* not run again.
ShutdownClose ==
    /\ lpc = "close"
    /\ async' = FALSE
    /\ signalled' = FALSE
    /\ lpc' = "down"
    /\ UNCHANGED <<asked, disk, answer, stop, exited, next_gen, pending, waiters,
                   completions, joinable, thread, c>>

-----------------------------------------------------------------------------
\* The constructor; without an async handle it never starts the thread.
Init ==
    /\ AInit
    /\ async \in BOOLEAN
    /\ stop = ~async /\ joinable = async
    /\ tpc = IF async THEN "wait" ELSE "gone"
    /\ exited = FALSE /\ signalled = FALSE
    /\ next_gen = 0
    /\ pending = Empty
    /\ waiters = {}
    /\ completions = {}
    /\ job = Empty /\ json_ok = FALSE
    /\ lpc = "run" /\ c = NoCompletion

ThreadStep == ThreadTake \/ ThreadComplete \/ ThreadExit
WriteStep == WriteJson \/ WriteShared
LoopStep ==
    OnAsync \/ DeliverPop \/ DeliverTake \/ ShutdownJoin \/ ShutdownTimeout
        \/ ShutdownFailRest \/ ShutdownClose

Next == Submit \/ ThreadStep \/ WriteStep \/ LoopStep \/ ShutdownBegin

Spec == Init /\ [][Next]_vars

\* The loop and the thread run; the disk may hang for ever.
FairSpec == Spec /\ WF_vars(ThreadStep) /\ WF_vars(LoopStep)

\* The disk answers, with success or failure.
DiskAnswers == WF_vars(WriteStep)

-----------------------------------------------------------------------------
Pcs == {"wait", "json", "shared", "done", "notdone", "exit", "gone"}
LoopPcs == {"run", "deliver", "take", "drain", "downDeliver", "downTake",
            "failRest", "close", "down"}
JobType == [gen : Nat, shared_dirty : BOOLEAN]

Flags ==
    /\ stop \in BOOLEAN /\ exited \in BOOLEAN /\ async \in BOOLEAN
    /\ signalled \in BOOLEAN /\ joinable \in BOOLEAN /\ json_ok \in BOOLEAN

\* Every variable keeps to its type.
TypeOK ==
    /\ Flags
    /\ applied \in 0..MaxPatches
    /\ dirty \subseteq 1..MaxPatches
    /\ disk_json \in Nat /\ disk_shared \in Nat
    /\ answer \in [1..MaxPatches -> {"none", "saved", "failed"}]
    /\ next_gen \in Nat
    /\ pending \in JobType /\ job \in JobType
    /\ waiters \subseteq 1..MaxPatches
    /\ completions \subseteq Completion /\ c \in Completion
    /\ tpc \in Pcs /\ lpc \in LoopPcs

\* HandleConfigPatchAsync's promise, "a 200 still means saved": every PATCH is
\* answered at most once, and one answered without a warning is in the
\* files, whatever was coalesced, failed or shut down meanwhile.
Contract == ASpec

\* DeliverCompletions and ThreadMain: a queued completion always has a wake-up
\* of the loop to come, so no client waits on a lost uv_async_send.
NoLostWakeup ==
    completions # {} /\ async /\ lpc = "run" => signalled

\* Submit, TakeWaiters: a done callback is kept exactly for the PATCHes that
\* were accepted and are not answered, so none is dropped and none runs twice.
WaitersExact ==
    waiters = {p \in 1..next_gen : answer[p] = "none"}

\* The thread has taken a job and not yet queued its completion.
Writing == tpc \in {"json", "shared", "done", "notdone"}

\* Completions whose waiters are still to be answered.
Undelivered == completions \cup (IF lpc \in {"take", "downTake"} THEN {c} ELSE {})

\* A waiter whose change to the shared file is not on disk.
Unshared(w) == w \in waiters /\ w \in dirty /\ w > disk_shared

\* Generations move in order from the pending job through the thread to the
\* completions.
OrderInv ==
    /\ next_gen <= applied /\ (~stop => next_gen = applied)
    /\ dirty \subseteq 1..applied
    /\ job.gen <= next_gen
    /\ pending.gen # 0 => job.gen < pending.gen /\ pending.gen = next_gen
    /\ disk_json <= job.gen /\ disk_shared <= job.gen
    /\ \A d \in Undelivered : d.gen <= job.gen /\ (Writing => d.gen < job.gen)
    /\ \A d, e \in completions : d.gen = e.gen => d = e
    /\ \A d \in completions : lpc \in {"take", "downTake"} => c.gen < d.gen
    /\ \A p \in 1..MaxPatches : p > applied => answer[p] = "none"

\* Why a completion that reports success may answer "saved" to everyone it
\* covers: a successful json write is on disk, and a change to the shared file
\* that is not on disk is the business of a dirty job or of an earlier
\* completion, which is delivered first.  And nobody waits for nothing: each
\* waiter is covered by the pending job, the one being written or a completion.
CoverInv ==
    /\ \A d \in Undelivered : d.json_ok => d.gen <= disk_json
    /\ tpc \in {"shared", "done", "notdone"} /\ json_ok => job.gen <= disk_json
    /\ \A d \in Undelivered : d.shared_ok =>
           \A w \in 1..d.gen : Unshared(w) =>
               \E e \in Undelivered : w <= e.gen /\ e.gen < d.gen
    /\ Writing =>
           \A w \in 1..job.gen : Unshared(w) =>
               \/ job.shared_dirty /\ tpc # "done"
               \/ \E e \in Undelivered : w <= e.gen
    /\ tpc = "notdone" => job.shared_dirty
    /\ \A w \in waiters :
           \/ pending.gen # 0 /\ (Unshared(w) => pending.shared_dirty)
           \/ Writing /\ w <= job.gen
           \/ \E e \in Undelivered : w <= e.gen

\* The inductive invariant behind Contract.
PersistInv == TypeOK /\ OrderInv /\ CoverInv /\ WaitersExact

\* Every PATCH is answered as long as the disk answers.
EveryPatchAnswered ==
    DiskAnswers => \A p \in 1..MaxPatches : p <= applied ~> answer[p] # "none"

\* Shutdown's comment "a hung disk must not hang shutdown": it returns, with
\* every PATCH answered, even if a write never does.
ShutdownReturns ==
    lpc = "drain" ~>
        lpc = "down" /\ \A p \in 1..applied : answer[p] # "none"

\* Shutdown's comment on the waiters it fails: "Anything still waiting was
\* never written".
FailedNeverWritten ==
    [][lpc = "failRest" /\ lpc' = "close" =>
           \A p \in waiters : p > disk_json]_vars
=============================================================================
