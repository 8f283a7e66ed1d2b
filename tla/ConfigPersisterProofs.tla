------------------------ MODULE ConfigPersisterProofs ------------------------
(***************************************************************************)
(* ConfigPersister keeps PersistInv and implements SavedAnswers, for any   *)
(* number of PATCHes.                                                      *)
(***************************************************************************)
EXTENDS ConfigPersister, TLAPS

USE PatchesAssumption
USE DEF asked, disk, core, thread, loop, Pcs, LoopPcs

\* What Submit leaves pending is a job.
LEMMA JobIsJob ==
    ASSUME NEW g \in Nat, NEW b \in BOOLEAN
    PROVE  /\ [gen |-> g, shared_dirty |-> b] \in JobType
           /\ [gen |-> g, shared_dirty |-> b].gen = g
           /\ [gen |-> g, shared_dirty |-> b].shared_dirty = b
  BY DEF JobType

\* The empty pending slot is a job of generation 0.
LEMMA EmptyIsJob == Empty \in JobType /\ Empty.gen = 0
  BY ZenonT(60), JobIsJob DEF Empty

\* What ThreadMain queues is a completion.
LEMMA CompletionIsCompletion ==
    ASSUME NEW g \in Nat, NEW a \in BOOLEAN, NEW b \in BOOLEAN
    PROVE  /\ [gen |-> g, json_ok |-> a, shared_ok |-> b] \in Completion
           /\ [gen |-> g, json_ok |-> a, shared_ok |-> b].gen = g
           /\ [gen |-> g, json_ok |-> a, shared_ok |-> b].json_ok = a
           /\ [gen |-> g, json_ok |-> a, shared_ok |-> b].shared_ok = b
  BY DEF Completion

\* The loop's local before its first pop is a completion too.
LEMMA NoCompletionIsCompletion == NoCompletion \in Completion
  BY ZenonT(60), CompletionIsCompletion DEF NoCompletion

\* The fields of a job have their types.
LEMMA JobGen == \A j \in JobType : j.gen \in Nat /\ j.shared_dirty \in BOOLEAN
  BY DEF JobType

\* The fields of a completion have their types.
LEMMA CompletionGen == \A d \in Completion :
        d.gen \in Nat /\ d.json_ok \in BOOLEAN /\ d.shared_ok \in BOOLEAN
  BY DEF Completion

\* The constructor establishes the types.
LEMMA PTypeInit == Init => TypeOK
<1> SUFFICES ASSUME Init PROVE TypeOK
  OBVIOUS
<1>1. Flags
  BY ZenonT(60) DEF Init, Flags
<1> QED
  BY <1>1, EmptyIsJob, NoCompletionIsCompletion DEF Init, AInit, TypeOK

\* The Boolean variables stay Boolean.
LEMMA FlagsNext == Flags /\ [Next]_vars => Flags'
<1> SUFFICES ASSUME Flags, [Next]_vars PROVE Flags'
  OBVIOUS
<1> USE DEF Flags
<1>1. CASE Submit
  BY ZenonT(60), <1>1 DEF Submit
<1>2. CASE ThreadTake
  BY ZenonT(60), <1>2 DEF ThreadTake
<1>3. CASE WriteJson \/ WriteShared
  BY ZenonT(60), <1>3 DEF WriteJson, WriteShared
<1>4. CASE ThreadComplete
  <2>1. signalled' = (signalled \/ async)
    BY ZenonT(60), <1>4 DEF ThreadComplete, Complete
  <2> QED
    BY ZenonT(60), <1>4, <2>1 DEF ThreadComplete
<1>5. CASE ThreadExit
  BY ZenonT(60), <1>5 DEF ThreadExit
<1>6. CASE OnAsync \/ DeliverPop \/ DeliverTake
  BY ZenonT(60), <1>6 DEF OnAsync, DeliverPop, DeliverTake
<1>7. CASE ShutdownJoin \/ ShutdownTimeout \/ ShutdownClose
  BY ZenonT(60), <1>7 DEF ShutdownJoin, ShutdownTimeout, ShutdownClose
<1>8. CASE ShutdownFailRest \/ ShutdownBegin
  BY ZenonT(60), <1>8 DEF ShutdownFailRest, ShutdownBegin
<1>9. CASE UNCHANGED vars
  BY ZenonT(60), <1>9 DEF vars
<1> QED
  BY <1>1, <1>2, <1>3, <1>4, <1>5, <1>6, <1>7, <1>8, <1>9
  DEF Next, LoopStep, ThreadStep, WriteStep

\* No step leaves the types, given that generations do not run ahead of the
\* PATCHes.
LEMMA PTypeNext == TypeOK /\ OrderInv /\ [Next]_vars => TypeOK'
<1> SUFFICES ASSUME TypeOK, OrderInv, [Next]_vars PROVE TypeOK'
  OBVIOUS
<1>0. Flags'
  BY FlagsNext DEF TypeOK
<1> USE <1>0 DEF TypeOK
<1>1. CASE Submit
  <2>1. PICK d \in BOOLEAN :
             \/ answer' = [answer EXCEPT ![applied + 1] = "failed"]
                /\ UNCHANGED <<next_gen, pending, waiters>>
             \/ Accept(d)
    BY ZenonT(60), <1>1 DEF Submit
  <2>2. Supersede(d) \in BOOLEAN
    BY ZenonT(60) DEF Supersede
  <2>3. [gen |-> NewGen, shared_dirty |-> Supersede(d)] \in JobType
    BY <2>2, JobIsJob DEF NewGen
  <2>4. /\ next_gen <= applied /\ applied < MaxPatches /\ applied' = applied + 1
        /\ dirty' \subseteq dirty \cup {applied + 1}
    BY <1>1 DEF Submit, OrderInv
  <2>5. \/ /\ answer' = [answer EXCEPT ![applied + 1] = "failed"]
           /\ UNCHANGED <<next_gen, waiters>>
        \/ /\ next_gen' = next_gen + 1
           /\ waiters' = waiters \cup {next_gen + 1}
           /\ UNCHANGED answer
    BY ZenonT(60), <2>1 DEF Accept, NewGen
  <2>6. /\ answer' \in [1..MaxPatches -> {"none", "saved", "failed"}]
        /\ next_gen' \in Nat /\ waiters' \subseteq 1..MaxPatches
    <3>1. next_gen + 1 \in 1..MaxPatches
      BY <2>4
    <3>2. waiters' \subseteq 1..MaxPatches
      BY ZenonT(60), <2>5, <3>1
    <3>3. answer' \in [1..MaxPatches -> {"none", "saved", "failed"}]
      BY <2>4, <2>5
    <3> QED
      BY <2>5, <3>2, <3>3
  <2>7. pending' \in JobType
    BY <2>1, <2>3 DEF Accept
  <2>8. UNCHANGED <<disk_json, disk_shared, completions, job, c, tpc, lpc>>
    BY <1>1 DEF Submit
  <2> QED
    BY <2>4, <2>6, <2>7, <2>8
<1>2. CASE ThreadTake \/ ThreadExit
  BY ZenonT(60), <1>2, EmptyIsJob DEF ThreadTake, ThreadExit
<1>3. CASE ThreadComplete
  <2>1. json_ok \in BOOLEAN /\ (tpc = "done") \in BOOLEAN
    BY ZenonT(60) DEF Flags
  <2>2. [gen |-> job.gen, json_ok |-> json_ok, shared_ok |-> tpc = "done"]
            \in Completion
    BY ZenonT(60), <2>1, CompletionIsCompletion, JobGen
  <2> QED
    BY <1>3, <2>2 DEF ThreadComplete, Complete
<1>4. CASE WriteStep
  BY ZenonT(60), <1>4, JobGen DEF WriteStep, WriteJson, WriteShared
<1>5. CASE OnAsync \/ DeliverPop
  BY ZenonT(60), <1>5 DEF OnAsync, DeliverPop
<1>6. CASE DeliverTake
  BY ZenonT(60), <1>6, NoCompletionIsCompletion DEF DeliverTake, Done, TakeWaiters
<1>7. CASE ShutdownJoin \/ ShutdownTimeout \/ ShutdownClose \/ ShutdownBegin
  BY ZenonT(60), <1>7 DEF ShutdownJoin, ShutdownTimeout, ShutdownClose, ShutdownBegin
<1>8. CASE ShutdownFailRest
  BY <1>8 DEF ShutdownFailRest, Done
<1>9. CASE UNCHANGED vars
  BY <1>9 DEF vars
<1> QED
  BY <1>1, <1>2, <1>3, <1>4, <1>5, <1>6, <1>7, <1>8, <1>9
  DEF Next, LoopStep, ThreadStep

-----------------------------------------------------------------------------
(* Generations stay in order.                                               *)

\* What Submit does to the numbering.
LEMMA SubmitEffect ==
    ASSUME Submit
    PROVE  /\ applied' = applied + 1
           /\ UNCHANGED <<disk_json, disk_shared, stop, completions, tpc, job,
                          json_ok, lpc, c>>
           /\ \/ /\ stop
                 /\ answer' = [answer EXCEPT ![applied + 1] = "failed"]
                 /\ UNCHANGED <<next_gen, pending, waiters>>
              \/ /\ ~stop
                 /\ next_gen' = next_gen + 1
                 /\ waiters' = waiters \cup {next_gen + 1}
                 /\ UNCHANGED answer
                 /\ \E d \in BOOLEAN : pending' =
                        [gen |-> next_gen + 1, shared_dirty |-> Supersede(d)]
  BY ZenonT(60) DEF Submit, Accept, NewGen

\* The generation of the job that Submit leaves pending.
LEMMA SubmitPending ==
    ASSUME TypeOK, Submit
    PROVE  \/ UNCHANGED <<next_gen, pending, waiters>>
           \/ pending'.gen = next_gen + 1
<1>1. CASE stop
  BY <1>1, SubmitEffect
<1>2. CASE ~stop
  <2>1. PICK d \in BOOLEAN :
             pending' = [gen |-> next_gen + 1, shared_dirty |-> Supersede(d)]
    BY <1>2, SubmitEffect
  <2>2. Supersede(d) \in BOOLEAN
    BY ZenonT(60) DEF Supersede
  <2> QED
    BY <2>1, <2>2, JobIsJob DEF TypeOK
<1> QED
  BY <1>1, <1>2

\* Every step keeps the generations in order.
LEMMA OrderNext == TypeOK /\ OrderInv /\ WaitersExact /\ [Next]_vars => OrderInv'
<1> SUFFICES ASSUME TypeOK, OrderInv, WaitersExact, [Next]_vars PROVE OrderInv'
  OBVIOUS
<1>0. TypeOK'
  BY PTypeNext
<1>g. /\ job.gen \in Nat /\ pending.gen \in Nat /\ c.gen \in Nat
      /\ \A d \in completions : d.gen \in Nat
  BY JobGen, CompletionGen DEF TypeOK
<1> USE DEF OrderInv, Undelivered, Writing
<1>1. CASE Submit
  <2>1. /\ pending'.gen # 0 => job'.gen < pending'.gen /\ pending'.gen = next_gen'
    BY <1>1, <1>g, SubmitEffect, SubmitPending DEF TypeOK
  <2>2. \A p \in 1..MaxPatches : p > applied' => answer'[p] = "none"
    BY <1>1, SubmitEffect DEF TypeOK
  <2>3. next_gen' <= applied' /\ (~stop' => next_gen' = applied')
    BY <1>1, SubmitEffect DEF TypeOK
  <2>4. dirty' \subseteq 1..applied'
    BY <1>1 DEF Submit, TypeOK
  <2> QED
    BY <1>1, <1>g, <2>1, <2>2, <2>3, <2>4, SubmitEffect DEF TypeOK
<1>2. CASE ThreadTake
  BY SMTT(60), <1>2, <1>g, EmptyIsJob DEF ThreadTake, TypeOK
<1>3. CASE WriteJson
  BY <1>3, <1>g DEF WriteJson, TypeOK
<1>4. CASE WriteShared
  BY <1>4, <1>g DEF WriteShared, TypeOK
<1>5. CASE ThreadComplete
  BY <1>5, <1>g DEF ThreadComplete, Complete, TypeOK
<1>6. CASE ThreadExit
  BY <1>6, <1>g DEF ThreadExit, TypeOK
<1>7. CASE OnAsync
  BY <1>7, <1>g DEF OnAsync, TypeOK
<1>8. CASE DeliverPop
  <2>1. CASE completions = {}
    BY <1>8, <1>g, <2>1 DEF DeliverPop, TypeOK
  <2>2. CASE completions # {}
    <3>1. PICK d \in completions :
              /\ \A e \in completions : d.gen <= e.gen
              /\ completions' = completions \ {d}
              /\ c' = d
      BY <1>8, <2>2 DEF DeliverPop
    <3>2. \A e \in completions' : d.gen < e.gen
      BY <3>1, <1>g
    <3>3. \A e \in Undelivered' : e \in completions
      BY <1>8, <2>2, <3>1 DEF DeliverPop
    <3> QED
      BY <1>8, <1>g, <3>1, <3>2, <3>3 DEF DeliverPop, TypeOK
  <2> QED
    BY <2>1, <2>2
<1>9. CASE DeliverTake
  BY <1>9, <1>g DEF DeliverTake, Done, TakeWaiters, TypeOK, WaitersExact
<1>10. CASE ShutdownJoin \/ ShutdownTimeout \/ ShutdownClose \/ ShutdownBegin
  BY ZenonT(60), <1>10, <1>g DEF ShutdownJoin, ShutdownTimeout, ShutdownClose, ShutdownBegin, TypeOK
<1>11. CASE ShutdownFailRest
  BY <1>11, <1>g DEF ShutdownFailRest, Done, TypeOK, WaitersExact
<1>12. CASE UNCHANGED vars
  BY <1>12 DEF vars
<1> QED
  BY <1>1, <1>2, <1>3, <1>4, <1>5, <1>6, <1>7, <1>8, <1>9, <1>10, <1>11, <1>12
  DEF Next, LoopStep, ThreadStep, WriteStep

-----------------------------------------------------------------------------
(* Waiters are the accepted, unanswered PATCHes.                            *)

\* Submit adds a waiter for the PATCH it accepts; DeliverTake and
\* ShutdownFailRest drop exactly the ones they answer.
LEMMA WaitersNext ==
    TypeOK /\ OrderInv /\ WaitersExact /\ [Next]_vars => WaitersExact'
<1> SUFFICES ASSUME TypeOK, OrderInv, WaitersExact, [Next]_vars
             PROVE  WaitersExact'
  OBVIOUS
<1>1. CASE Submit
  <2>1. applied \in Nat /\ applied < MaxPatches /\ next_gen \in Nat
    BY <1>1 DEF Submit, TypeOK
  <2>2. CASE stop
    BY <1>1, <2>1, <2>2, SubmitEffect DEF WaitersExact, OrderInv, TypeOK
  <2>3. CASE ~stop
    <3>1. answer[next_gen + 1] = "none"
      BY <2>1, <2>3 DEF OrderInv
    <3>2. /\ next_gen' = next_gen + 1
          /\ waiters' = waiters \cup {next_gen + 1} /\ answer' = answer
      BY <1>1, <2>3, SubmitEffect
    <3> QED
      BY <2>1, <3>1, <3>2 DEF WaitersExact
  <2> QED
    BY <2>2, <2>3
<1>2. CASE ThreadTake \/ WriteJson \/ WriteShared \/ ThreadComplete \/ ThreadExit
  BY <1>2 DEF ThreadTake, WriteJson, WriteShared, ThreadComplete, ThreadExit,
              WaitersExact
<1>3. CASE OnAsync \/ DeliverPop
  BY <1>3 DEF OnAsync, DeliverPop, WaitersExact
<1>4. CASE DeliverTake
  <2>1. /\ next_gen' = next_gen
        /\ Done(TakeWaiters(c.gen),
                IF c.json_ok /\ c.shared_ok THEN "saved" ELSE "failed")
    BY <1>4 DEF DeliverTake
  <2>2. \A p \in 1..next_gen : p \in 1..MaxPatches
    BY DEF OrderInv, TypeOK
  <2>3. \A p \in 1..next_gen :
            answer'[p] = "none" <=> answer[p] = "none" /\ p \notin TakeWaiters(c.gen)
    BY <2>1, <2>2 DEF Done
  <2> QED
    BY <2>1, <2>3 DEF Done, WaitersExact
<1>5. CASE ShutdownFailRest
  <2>1. \A p \in 1..next_gen : p \in 1..MaxPatches
    BY DEF OrderInv, TypeOK
  <2> QED
    BY <1>5, <2>1 DEF ShutdownFailRest, Done, WaitersExact
<1>6. CASE ShutdownJoin \/ ShutdownTimeout \/ ShutdownClose \/ ShutdownBegin
  BY <1>6 DEF ShutdownJoin, ShutdownTimeout, ShutdownClose, ShutdownBegin,
              WaitersExact
<1>7. CASE UNCHANGED vars
  BY <1>7 DEF vars, WaitersExact
<1> QED
  BY <1>1, <1>2, <1>3, <1>4, <1>5, <1>6, <1>7
  DEF Next, LoopStep, ThreadStep, WriteStep

-----------------------------------------------------------------------------
(* What a successful completion covers.                                     *)

\* The shared change of an accepted PATCH, and that of the job it replaces,
\* are the pending job's.
LEMMA SubmitDirty ==
    ASSUME TypeOK, OrderInv, Submit, ~stop
    PROVE  /\ pending'.gen = next_gen + 1
           /\ next_gen + 1 \in dirty' => pending'.shared_dirty
           /\ pending.gen # 0 /\ pending.shared_dirty => pending'.shared_dirty
<1>1. PICK d \in BOOLEAN :
          /\ dirty' = IF d THEN dirty \cup {applied + 1} ELSE dirty
          /\ pending' = [gen |-> next_gen + 1, shared_dirty |-> Supersede(d)]
  BY ZenonT(60) DEF Submit, Accept, NewGen
<1>2. Supersede(d) \in BOOLEAN
  BY ZenonT(60) DEF Supersede
<1>3. pending'.gen = next_gen + 1 /\ pending'.shared_dirty = Supersede(d)
  BY <1>1, <1>2, JobIsJob DEF TypeOK
<1>4. next_gen + 1 \notin dirty
  BY DEF OrderInv, TypeOK
<1>5. next_gen + 1 \in dirty' => d
  BY <1>1, <1>4
<1>6. /\ d => Supersede(d)
      /\ pending.gen # 0 /\ pending.shared_dirty => Supersede(d)
  BY ZenonT(60) DEF Supersede
<1> QED
  BY <1>3, <1>5, <1>6

\* Every step keeps each waiter covered, and each reported success true.
LEMMA CoverNext ==
    TypeOK /\ OrderInv /\ WaitersExact /\ CoverInv /\ [Next]_vars => CoverInv'
<1> SUFFICES ASSUME TypeOK, OrderInv, WaitersExact, CoverInv, [Next]_vars
             PROVE  CoverInv'
  OBVIOUS
<1>0. TypeOK' /\ OrderInv'
  BY PTypeNext, OrderNext
<1>g. /\ job.gen \in Nat /\ pending.gen \in Nat /\ c.gen \in Nat
      /\ \A d \in completions : d.gen \in Nat
      /\ \A w \in waiters : w \in Nat
  BY JobGen, CompletionGen DEF TypeOK
<1> USE DEF CoverInv, Undelivered, Writing, Unshared
<1>1. CASE Submit
  <2>1. /\ UNCHANGED <<disk_json, disk_shared, completions, tpc, job, json_ok, lpc, c>>
        /\ waiters \subseteq waiters' /\ Undelivered' = Undelivered
        /\ Writing' = Writing
    BY <1>1, SubmitEffect
  <2>2. dirty \subseteq dirty' /\ dirty' \subseteq dirty \cup {applied + 1}
    BY <1>1 DEF Submit
  <2>3. \A w \in 1..next_gen : Unshared(w)' => Unshared(w)
    <3>1. \A w \in 1..next_gen : w # applied + 1
      BY DEF OrderInv, TypeOK
    <3>2. \A w \in 1..next_gen : w \in waiters' => w \in waiters
      BY <1>1, SubmitEffect DEF TypeOK
    <3> QED
      BY <2>1, <2>2, <3>1, <3>2
  <2>4. \A d \in Undelivered : d.gen \in Nat /\ d.gen <= next_gen
    BY <1>g DEF OrderInv, TypeOK
  <2> HIDE DEF Unshared, Undelivered
  <2>5. \A w \in waiters' :
            \/ pending'.gen # 0 /\ (Unshared(w)' => pending'.shared_dirty)
            \/ Writing' /\ w <= job'.gen
            \/ \E e \in Undelivered' : w <= e.gen
    <3>1. CASE stop
      <4>1. waiters' = waiters /\ pending' = pending
        BY <1>1, <3>1, SubmitEffect
      <4>2. \A w \in waiters : Unshared(w)' => Unshared(w)
        BY <2>3 DEF WaitersExact
      <4> QED
        BY <2>1, <4>1, <4>2
    <3>2. CASE ~stop
      <4>0. PICK n \in Nat : n = next_gen + 1
        BY DEF TypeOK
      <4>1. waiters' = waiters \cup {n}
        BY <1>1, <3>2, <4>0, SubmitEffect
      <4>2. pending'.gen # 0
        BY <1>1, <3>2, SubmitDirty DEF TypeOK
      <4>3. Unshared(n)' => pending'.shared_dirty
        BY <1>1, <3>2, <4>0, SubmitDirty DEF Unshared, TypeOK
      <4>4. \A w \in waiters : Unshared(w)' => Unshared(w)
        BY <2>3 DEF WaitersExact
      <4>5. \A w \in waiters :
                \/ Unshared(w)' => pending'.shared_dirty
                \/ Writing /\ w <= job.gen
                \/ \E e \in Undelivered : w <= e.gen
        BY <1>1, <3>2, <4>4, SubmitDirty
      <4> QED
        BY <2>1, <4>1, <4>2, <4>3, <4>5
    <3> QED
      BY <3>1, <3>2
  <2>6. \A d \in Undelivered : \A w \in 1..d.gen : Unshared(w)' => Unshared(w)
    BY <2>3, <2>4 DEF TypeOK
  <2>7. \A w \in 1..job.gen : Unshared(w)' => Unshared(w)
    BY <1>g, <2>3 DEF OrderInv, TypeOK
  <2> QED
    BY <2>1, <2>5, <2>6, <2>7
<1>2. CASE ThreadTake
  <2>1. CASE pending.gen # 0
    <3>1. tpc' = "json" /\ job' = pending /\ pending' = Empty
      BY <1>2, <2>1 DEF ThreadTake
    <3>2. /\ UNCHANGED <<disk_json, disk_shared, dirty, waiters, completions,
                         json_ok, lpc, c>>
          /\ tpc = "wait"
      BY <1>2 DEF ThreadTake
    <3>3. \A w \in waiters : w <= pending.gen
      BY <2>1 DEF OrderInv, WaitersExact
    <3> QED
      BY <1>g, <3>1, <3>2, <3>3, EmptyIsJob
  <2>2. CASE pending.gen = 0
    BY <1>2, <1>g, <2>2 DEF ThreadTake
  <2> QED
    BY <1>g, <2>1, <2>2
<1>3. CASE WriteJson
  BY <1>3, <1>g DEF WriteJson, TypeOK, OrderInv
<1>4. CASE WriteShared
  BY <1>4, <1>g DEF WriteShared, TypeOK, OrderInv
<1>5. CASE ThreadComplete
  <2> DEFINE n == [gen |-> job.gen, json_ok |-> json_ok, shared_ok |-> tpc = "done"]
  <2>1. json_ok \in BOOLEAN /\ (tpc = "done") \in BOOLEAN
    BY ZenonT(60) DEF TypeOK, Flags
  <2>2. n.gen = job.gen /\ n.json_ok = json_ok /\ n.shared_ok = (tpc = "done")
    BY <1>g, <2>1, CompletionIsCompletion
  <2>3. /\ completions' = completions \cup {n}
        /\ Writing /\ tpc \in {"done", "notdone"} /\ tpc' = "wait"
        /\ UNCHANGED <<disk_json, disk_shared, dirty, waiters, pending, job, lpc, c>>
    BY <1>5 DEF ThreadComplete, Complete
  <2>4. /\ Undelivered' = Undelivered \cup {n} /\ ~Writing'
        /\ \A w : Unshared(w)' <=> Unshared(w)
    BY <2>3
  <2>5. n.json_ok => n.gen <= disk_json
    BY <2>2, <2>3
  <2>6. n.shared_ok => \A w \in 1..n.gen : Unshared(w) =>
            \E e \in Undelivered : w <= e.gen /\ e.gen < n.gen
    BY ZenonT(60), <2>2, <2>3 DEF OrderInv
  <2> HIDE DEF n, Undelivered, Unshared, Writing
  <2>7. \A w \in waiters' :
            \/ pending'.gen # 0 /\ (Unshared(w)' => pending'.shared_dirty)
            \/ \E e \in Undelivered' : w <= e.gen
    BY <2>2, <2>3, <2>4
  <2> QED
    BY <2>3, <2>4, <2>5, <2>6, <2>7
<1>6. CASE ThreadExit
  BY <1>6, <1>g DEF ThreadExit, TypeOK
<1>7. CASE OnAsync
  BY <1>7, <1>g DEF OnAsync, TypeOK
<1>8. CASE DeliverPop
  BY <1>8, <1>g DEF DeliverPop, TypeOK, OrderInv
<1>9. CASE DeliverTake
  BY <1>9, <1>g DEF DeliverTake, Done, TakeWaiters, TypeOK, OrderInv
<1>10. CASE ShutdownJoin \/ ShutdownTimeout \/ ShutdownClose \/ ShutdownBegin
  <2>1. /\ UNCHANGED <<disk_json, disk_shared, dirty, waiters, completions,
                       pending, tpc, job, json_ok, c>>
        /\ lpc \notin {"take", "downTake"} /\ lpc' \notin {"take", "downTake"}
    BY <1>10 DEF ShutdownJoin, ShutdownTimeout, ShutdownClose, ShutdownBegin
  <2> QED
    BY <2>1
<1>11. CASE ShutdownFailRest
  BY <1>11, <1>g DEF ShutdownFailRest, Done, TypeOK
<1>12. CASE UNCHANGED vars
  BY <1>12 DEF vars
<1> QED
  BY ZenonT(60), <1>1, <1>2, <1>3, <1>4, <1>5, <1>6, <1>7, <1>8, <1>9, <1>10, <1>11, <1>12
  DEF Next, LoopStep, ThreadStep, WriteStep

-----------------------------------------------------------------------------
(* The theorems.                                                            *)

\* A persister that has just been constructed satisfies the invariant.
LEMMA PersistInit == Init => PersistInv
<1> SUFFICES ASSUME Init PROVE PersistInv
  OBVIOUS
<1>1. TypeOK
  BY PTypeInit
<1>2. applied = 0 /\ next_gen = 0 /\ job.gen = 0 /\ pending.gen = 0 /\ Undelivered = {}
  BY EmptyIsJob DEF Init, AInit, Undelivered
<1>3. OrderInv
  BY <1>2 DEF Init, AInit, OrderInv
<1>4. CoverInv
  BY <1>2 DEF Init, CoverInv, Writing
<1>5. WaitersExact
  BY <1>2 DEF Init, WaitersExact
<1> QED
  BY <1>1, <1>3, <1>4, <1>5 DEF PersistInv

\* Config persistence keeps its types, its generations in order and its
\* waiters covered, for any number of PATCHes.
THEOREM Persistence == Spec => []PersistInv
<1>1. PersistInv /\ [Next]_vars => PersistInv'
  BY PTypeNext, OrderNext, WaitersNext, CoverNext DEF PersistInv
<1> QED
  BY PersistInit, <1>1, PTL DEF Spec

\* Every field keeps to its type in all behaviours: in particular no generation
\* counter leaves the naturals and no job or completion is ever malformed.
THEOREM PersistTypeCorrect == Spec => []TypeOK
<1>1. PersistInv => TypeOK
  BY DEF PersistInv
<1> QED
  BY Persistence, <1>1, PTL

\* A done callback is held exactly for the accepted, unanswered PATCHes: none
\* is dropped and none runs twice.
THEOREM ExactWaiters == Spec => []WaitersExact
<1>1. PersistInv => WaitersExact
  BY DEF PersistInv
<1> QED
  BY Persistence, <1>1, PTL

\* The thread never leaves a completion queued without a wake-up to come.
THEOREM Wakeup == Spec => []NoLostWakeup
<1>1. Init => NoLostWakeup
  BY DEF Init, NoLostWakeup
<1>2. NoLostWakeup /\ [Next]_vars => NoLostWakeup'
  <2> SUFFICES ASSUME NoLostWakeup, [Next]_vars PROVE NoLostWakeup'
    OBVIOUS
  <2> USE DEF NoLostWakeup
  <2>1. CASE Submit
    BY ZenonT(60), <2>1 DEF Submit
  <2>2. CASE ThreadTake \/ WriteJson \/ WriteShared \/ ThreadExit
    BY ZenonT(60), <2>2 DEF ThreadTake, WriteJson, WriteShared, ThreadExit
  <2>3. CASE ThreadComplete
    BY ZenonT(60), <2>3 DEF ThreadComplete, Complete
  <2>4. CASE OnAsync \/ DeliverTake
    BY <2>4 DEF OnAsync, DeliverTake
  <2>5. CASE DeliverPop
    BY <2>5 DEF DeliverPop
  <2>6. CASE ShutdownJoin \/ ShutdownTimeout \/ ShutdownClose \/ ShutdownBegin
    BY <2>6 DEF ShutdownJoin, ShutdownTimeout, ShutdownClose, ShutdownBegin
  <2>7. CASE ShutdownFailRest
    BY <2>7 DEF ShutdownFailRest
  <2>8. CASE UNCHANGED vars
    BY ZenonT(60), <2>8 DEF vars
  <2> QED
    BY <2>1, <2>2, <2>3, <2>4, <2>5, <2>6, <2>7, <2>8
    DEF Next, LoopStep, ThreadStep, WriteStep
<1> QED
  BY <1>1, <1>2, PTL DEF Spec

\* A waiter that a fully successful completion covers is saved: its change to
\* the shared file is not left to an earlier completion, as those are delivered
\* first.
LEMMA CoveredSaved ==
    ASSUME PersistInv, lpc \in {"take", "downTake"}, c.json_ok, c.shared_ok,
           NEW p \in TakeWaiters(c.gen)
    PROVE  Saved(p)
<1>1. c.gen \in Nat /\ p \in Nat /\ p \in 1..c.gen /\ p \in waiters
  BY CompletionGen DEF PersistInv, TypeOK, TakeWaiters
<1>2. c \in Undelivered
  BY DEF Undelivered
<1>3. p <= disk_json
  BY <1>1, <1>2 DEF PersistInv, TypeOK, CoverInv
<1>4. ~Unshared(p)
  <2> SUFFICES ASSUME Unshared(p) PROVE FALSE
    OBVIOUS
  <2>1. PICK e \in Undelivered : p <= e.gen /\ e.gen < c.gen
    BY <1>1, <1>2 DEF PersistInv, CoverInv
  <2>2. e \in completions
    BY <1>1, <2>1 DEF Undelivered
  <2>3. e.gen \in Nat /\ c.gen < e.gen
    BY <2>2, CompletionGen DEF PersistInv, OrderInv, TypeOK
  <2> QED
    BY <1>1, <2>1, <2>3
<1> QED
  BY <1>1, <1>3, <1>4 DEF Unshared, Saved, PersistInv, TypeOK

\* Every step of the persister is a step of the contract, or none.
LEMMA ContractStep == PersistInv /\ [Next]_vars => [ANext]_avars
<1> SUFFICES ASSUME PersistInv, [Next]_vars PROVE ANext \/ UNCHANGED avars
  OBVIOUS
<1> USE DEF avars
<1>t. TypeOK /\ OrderInv /\ WaitersExact /\ job.gen \in Nat /\ job.gen <= applied
  BY JobGen DEF PersistInv, TypeOK, OrderInv
<1>1. CASE Submit
  <2>1. /\ applied < MaxPatches /\ applied' = applied + 1
        /\ dirty' \in {dirty, dirty \cup {applied + 1}}
        /\ UNCHANGED <<disk_json, disk_shared>>
    BY <1>1 DEF Submit
  <2> QED
    BY <1>1, <2>1, SubmitEffect DEF ANext, Ask
<1>2. CASE ThreadTake \/ ThreadComplete \/ ThreadExit \/ OnAsync \/ DeliverPop
  BY <1>2 DEF ThreadTake, ThreadComplete, ThreadExit, OnAsync, DeliverPop
<1>3. CASE WriteJson
  BY <1>3, <1>t DEF WriteJson, ANext, SaveJson, OrderInv, TypeOK
<1>4. CASE WriteShared
  BY <1>4, <1>t DEF WriteShared, ANext, SaveShared, OrderInv, TypeOK
<1>5. CASE DeliverTake
  <2> DEFINE S == TakeWaiters(c.gen)
  <2>1. S \in SUBSET {p \in 1..applied : answer[p] = "none"}
    BY <1>t DEF TakeWaiters, WaitersExact, OrderInv, TypeOK
  <2>2. UNCHANGED <<applied, dirty, disk_json, disk_shared>>
    BY <1>5 DEF DeliverTake
  <2>3. CASE c.json_ok /\ c.shared_ok
    <3>1. \A p \in S : Saved(p)
      BY <1>5, <2>3, CoveredSaved DEF DeliverTake
    <3>2. answer' = [p \in 1..MaxPatches |-> IF p \in S THEN "saved" ELSE answer[p]]
      BY <1>5, <2>3 DEF DeliverTake, Done
    <3> QED
      BY SMTT(60), <2>1, <2>2, <3>1, <3>2 DEF ANext, Answer
  <2>4. CASE ~(c.json_ok /\ c.shared_ok)
    <3>1. answer' = [p \in 1..MaxPatches |-> IF p \in S THEN "failed" ELSE answer[p]]
      BY <1>5, <2>4 DEF DeliverTake, Done
    <3> QED
      BY <2>1, <2>2, <3>1 DEF ANext, Answer
  <2> QED
    BY <2>3, <2>4
<1>6. CASE ShutdownFailRest
  <2>1. waiters \in SUBSET {p \in 1..applied : answer[p] = "none"}
    BY <1>t DEF WaitersExact, OrderInv, TypeOK
  <2> QED
    BY <1>6, <2>1 DEF ShutdownFailRest, Done, ANext, Answer
<1>7. CASE ShutdownJoin \/ ShutdownTimeout \/ ShutdownClose \/ ShutdownBegin
  BY <1>7 DEF ShutdownJoin, ShutdownTimeout, ShutdownClose, ShutdownBegin
<1>8. CASE UNCHANGED vars
  BY <1>8 DEF vars
<1> QED
  BY <1>1, <1>2, <1>3, <1>4, <1>5, <1>6, <1>7, <1>8
  DEF Next, LoopStep, ThreadStep, WriteStep

\* "A 200 still means saved" (HandleConfigPatchAsync): the persister implements the
\* contract of SavedAnswers.
THEOREM Refinement == Spec => Contract
<1>1. Init => AInit
  BY DEF Init
<1> QED
  BY <1>1, Persistence, ContractStep, PTL DEF Spec, Contract, ASpec
=============================================================================
