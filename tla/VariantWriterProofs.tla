------------------------ MODULE VariantWriterProofs ------------------------
(***************************************************************************)
(* Proofs about VariantWriter, for every number of URLs, jobs, pages and   *)
(* requests, every rotation bound and every set of enabled encodings.      *)
(***************************************************************************)
EXTENDS VariantWriter, TLAPS

-----------------------------------------------------------------------------
(* Type correctness.                                                        *)

\* The initial state is well typed.
LEMMA TypeInit == Init => TypeOK
  BY ThreadsAssumption DEF Init, TypeOK, Placed, Slots, Threads

\* What AfterWrite does: it moves w to one of four labels and to another slot.
LEMMA AfterWriteEffect ==
    ASSUME TypeOK, NEW w \in Writers, NEW ok \in BOOLEAN, AfterWrite(w, ok)
    PROVE  /\ \E l \in {"markCheck", "repin", "failCooldown", "check"} :
                pc' = [pc EXCEPT ![w] = l]
           /\ slot' \in [Writers -> Slots \cup {"none"}]
           /\ \A v \in Writers \ {w} : slot'[v] = slot[v]
  BY DEF TypeOK, AfterWrite, CodedFrom, Slots, Goto

\* What ReadOriginal does to a job's locals.
LEMMA ReadOriginalEffect ==
    ASSUME NEW w, ReadOriginal(w)
    PROVE  \/ /\ pc' = [pc EXCEPT ![w] = "end"]
              /\ UNCHANGED <<src, small, opt, genuine, slot, ret>>
           \/ \E e \in cache :
                \/ UNCHANGED <<src, small, opt, genuine, slot>>
                \/ \E shrank, raw, stamp \in BOOLEAN :
                     /\ src' = [src EXCEPT ![w] = e.tag]
                     /\ small' = [small EXCEPT ![w] = shrank]
                     /\ opt' = [opt EXCEPT ![w] = e.opt \/ shrank]
                     /\ genuine' = [genuine EXCEPT ![w] = raw]
                     /\ \/ slot' = [slot EXCEPT ![w] = "identity"]
                        \/ slot' = [slot EXCEPT ![w] = CodedFrom("gzip")]
  BY ZenonT(60) DEF ReadOriginal, Goto

\* Every step of a job keeps the types.
LEMMA TypeWriterStep ==
    ASSUME TypeOK, NEW w \in Writers, WriterStep(w)
    PROVE  TypeOK'
  <1> USE ThreadsAssumption DEF TypeOK, Threads, Goto, gens, marks, locals
  <1> USE DEF Placed, WriterLabels, LoopLabels, ResetLabels, PageLabels, Undoing
  <1>1. CASE DedupLookup(w)
    BY <1>1 DEF DedupLookup
  <1>2. CASE DedupFamilyCheck(w)
    BY SMTT(200), <1>2 DEF DedupFamilyCheck
  <1>3. CASE DedupHeal(w)
    BY <1>3 DEF DedupHeal, EraseUrlMarksLocked
  <1>4. CASE CooldownCheck(w)
    BY SMTT(200), <1>4 DEF CooldownCheck
  <1>5. CASE PinCheck(w)
    BY SMTT(200), <1>5 DEF PinCheck
  <1>6. CASE ReadOriginal(w)
    <2>1. CASE pc' = [pc EXCEPT ![w] = "end"]
               /\ UNCHANGED <<src, small, opt, genuine, slot, ret>>
      BY <1>6, <2>1 DEF ReadOriginal
    <2>2. CASE \E e \in cache :
                 \/ UNCHANGED <<src, small, opt, genuine, slot>>
                 \/ \E shrank, raw, stamp \in BOOLEAN :
                      /\ src' = [src EXCEPT ![w] = e.tag]
                      /\ small' = [small EXCEPT ![w] = shrank]
                      /\ opt' = [opt EXCEPT ![w] = e.opt \/ shrank]
                      /\ genuine' = [genuine EXCEPT ![w] = raw]
                      /\ \/ slot' = [slot EXCEPT ![w] = "identity"]
                         \/ slot' = [slot EXCEPT ![w] = CodedFrom("gzip")]
      <3>1. PICK e \in cache :
                 \/ UNCHANGED <<src, small, opt, genuine, slot>>
                 \/ \E shrank, raw, stamp \in BOOLEAN :
                      /\ src' = [src EXCEPT ![w] = e.tag]
                      /\ small' = [small EXCEPT ![w] = shrank]
                      /\ opt' = [opt EXCEPT ![w] = e.opt \/ shrank]
                      /\ genuine' = [genuine EXCEPT ![w] = raw]
                      /\ \/ slot' = [slot EXCEPT ![w] = "identity"]
                         \/ slot' = [slot EXCEPT ![w] = CodedFrom("gzip")]
        BY ZenonT(60), <2>2
      <3>2. e \in [url : Urls, slot : Slots, tag : Nat, opt : BOOLEAN]
        OBVIOUS
      <3>3. e.tag \in Nat
        BY <3>2
      <3>4. CodedFrom("gzip") \in Slots \cup {"none"}
        BY DEF CodedFrom, Slots
      <3>5. src' \in [Writers -> Nat]
        BY <3>1, <3>3
      <3>6. slot' \in [Writers -> Slots \cup {"none"}]
        BY <3>1, <3>4 DEF Slots
      <3>7. e.opt \in BOOLEAN
        BY <3>2
      <3>8. /\ small' \in [Writers -> BOOLEAN] /\ opt' \in [Writers -> BOOLEAN]
            /\ genuine' \in [Writers -> BOOLEAN]
        BY SMTT(200), <3>1, <3>7
      <3>9. ret' \in [Writers -> {"end", "copyCheck", "check"}]
        BY <1>6 DEF ReadOriginal
      <3>10. PICK l \in {"end", "markCheck", "check"} : pc' = [pc EXCEPT ![w] = l]
        BY ZenonT(60), <1>6 DEF ReadOriginal
      <3>11. \A t \in Threads : Placed(t)'
        BY <1>6, <3>10 DEF ReadOriginal
      <3>12. QED
        BY SMTT(120), <1>6, <3>5, <3>6, <3>8, <3>9, <3>10, <3>11 DEF ReadOriginal
    <2> HIDE DEF TypeOK, Placed
    <2>3. QED
      BY <1>6, <2>1, <2>2, ReadOriginalEffect
  <1>7. CASE WriteVariantCheck(w)
    <2>1. CASE AfterWrite(w, FALSE)
      <3>1. PICK l \in {"markCheck", "repin", "failCooldown", "check"} :
                 pc' = [pc EXCEPT ![w] = l]
        BY ZenonT(60), <2>1, AfterWriteEffect
      <3>2. /\ slot' \in [Writers -> Slots \cup {"none"}]
            /\ \A v \in Writers \ {w} : slot'[v] = slot[v]
        BY ZenonT(60), <2>1, AfterWriteEffect
      <3>3. \A v \in Writers : pc'[v] = "commit" => slot'[v] \in Slots
        BY <3>1, <3>2
      <3>4. QED
        BY <1>7, <3>1, <3>2, <3>3 DEF WriteVariantCheck
    <2>2. CASE Goto(w, "commit") /\ UNCHANGED slot
      <3>1. slot[w] \in Slots
        BY <1>7 DEF WriteVariantCheck
      <3>2. QED
        BY <1>7, <2>2, <3>1 DEF WriteVariantCheck
    <2>3. QED
      BY ZenonT(60), <1>7, <2>1, <2>2 DEF WriteVariantCheck
  <1>8. CASE WriteVariantCommit(w)
    <2>1. CASE AfterWrite(w, FALSE) /\ UNCHANGED cache
      BY SMTT(200), <1>8, <2>1 DEF WriteVariantCommit, AfterWrite, CodedFrom, Slots
    <2>2. CASE /\ Store(Entry(url[w], slot[w], src[w], opt[w]))
               /\ Goto(w, "post") /\ UNCHANGED slot
      <3>1. url[w] \in Urls /\ slot[w] \in Slots
        BY <1>8 DEF WriteVariantCommit
      <3>2. Entry(url[w], slot[w], src[w], opt[w])
              \in [url : Urls, slot : Slots, tag : Nat, opt : BOOLEAN]
        BY <3>1 DEF Entry
      <3>3. cache' \subseteq [url : Urls, slot : Slots, tag : Nat, opt : BOOLEAN]
        BY <2>2, <3>2 DEF Store
      <3>4. QED
        BY <1>8, <2>2, <3>3 DEF WriteVariantCommit
    <2>3. QED
      BY ZenonT(60), <1>8, <2>1, <2>2 DEF WriteVariantCommit
  <1>9. CASE WriteVariantPostCheck(w)
    BY SMTT(200), <1>9 DEF WriteVariantPostCheck, AfterWrite, CodedFrom, Slots
  <1>10. CASE RepinCheck(w)
    BY <1>10 DEF RepinCheck
  <1>11. CASE RepinRemove(w)
    BY <1>11 DEF RepinRemove, Remove
  <1>12. CASE MarkVariantProcessedCheck(w)
    BY ZenonT(60), <1>12 DEF MarkVariantProcessedCheck
  <1>13. CASE MarkVariantProcessedInsert(w)
    BY SMTT(120), <1>13 DEF MarkVariantProcessedInsert
  <1>14. CASE MarkCopyWrittenCheck(w)
    BY ZenonT(60), <1>14 DEF MarkCopyWrittenCheck
  <1>15. CASE MarkCopyWrittenInsert(w)
    BY ZenonT(60), <1>15 DEF MarkCopyWrittenInsert
  <1>16. CASE RecordSourceHashCheck(w)
    BY ZenonT(60), <1>16 DEF RecordSourceHashCheck
  <1>17. CASE RecordSourceHashExists(w)
    BY ZenonT(60), <1>17 DEF RecordSourceHashExists
  <1>18. CASE RecordSourceHashWrite(w)
    BY SMTT(200), <1>18 DEF RecordSourceHashWrite
  <1>19. CASE EndWithCooldown(w)
    BY SMTT(200), <1>19 DEF EndWithCooldown
  <1>20. CASE OnNotificationDone(w)
    <2>1. \A t \in Threads : Placed(t)'
      BY <1>20 DEF OnNotificationDone
    <2>2. slot' \in [Writers -> Slots \cup {"none"}]
      BY <1>20 DEF OnNotificationDone, Slots
    <2>3. /\ small' \in [Writers -> BOOLEAN] /\ opt' \in [Writers -> BOOLEAN]
          /\ genuine' \in [Writers -> BOOLEAN]
      BY <1>20 DEF OnNotificationDone
    <2>4. /\ url_gen' \in [Writers -> Nat] /\ all_gen' \in [Writers -> Nat]
          /\ src' \in [Writers -> Nat]
          /\ ret' \in [Writers -> {"end", "copyCheck", "check"}]
      BY ZenonT(60), <1>20 DEF OnNotificationDone
    <2>5. /\ pc' \in [Threads -> {"idle"} \cup WriterLabels \cup LoopLabels
                                     \cup ResetLabels \cup PageLabels]
          /\ url' \in [Threads -> Urls \cup {Nobody}]
      BY ZenonT(60), <1>20 DEF OnNotificationDone
    <2>6. \A v \in Writers : pc'[v] = "commit" => slot'[v] \in Slots
      BY SMTT(60), <1>20 DEF OnNotificationDone
    <2>7. in_flight_urls' \subseteq Urls
      BY Zenon, <1>20 DEF OnNotificationDone
    <2> HIDE DEF Placed, WriterLabels, LoopLabels, ResetLabels, PageLabels, Undoing
    <2>8. QED
      BY ZenonT(60), <1>20, <2>1, <2>2, <2>3, <2>4, <2>5, <2>6, <2>7
      DEF OnNotificationDone
  <1>21. QED
    BY ZenonT(60), <1>1, <1>2, <1>3, <1>4, <1>5, <1>6, <1>7, <1>8, <1>9, <1>10, <1>11, <1>12, <1>13, <1>14, <1>15, <1>16, <1>17, <1>18, <1>19, <1>20 DEF WriterStep

\* InvalidateUrl keeps the types.
LEMMA TypeInvalidateStep ==
    ASSUME TypeOK, NEW t \in Writers \cup {Loop}, InvalidateStep(t)
    PROVE  TypeOK'
  <1> USE ThreadsAssumption DEF TypeOK, Threads, Goto, gens, marks, locals
  <1> USE DEF Placed, WriterLabels, LoopLabels, ResetLabels, PageLabels, Undoing
  <1>1. CASE PurgeBump(t)
    <2>1. url[t] \in Urls
      BY SMTT(60), <1>1 DEF PurgeBump
    <2>2. /\ purge_generation' \in [Urls -> Nat]
          /\ purge_generation_previous' \in [Urls -> Nat]
      <3> HIDE DEF TypeOK
      <3>1. /\ purge_generation \in [Urls -> Nat]
            /\ purge_generation_previous \in [Urls -> Nat]
        BY Zenon DEF TypeOK
      <3>2. QED
        BY SMTT(60), <1>1, <2>1, <3>1
        DEF PurgeBump, BumpPurgeGenerationLocked, CurrentGen
    <2>3. \A v \in Threads : Placed(v)'
      BY SMTT(60), <1>1 DEF PurgeBump
    <2>4. pc' \in [Threads -> {"idle"} \cup WriterLabels \cup LoopLabels
                                  \cup ResetLabels \cup PageLabels]
      BY ZenonT(60), <1>1 DEF PurgeBump
    <2>5. \A v \in Writers : pc'[v] = "commit" => slot'[v] \in Slots
      BY SMTT(60), <1>1 DEF PurgeBump
    <2> HIDE DEF Placed, WriterLabels, LoopLabels, ResetLabels, PageLabels, Undoing
    <2>6. erased' \subseteq Urls
      BY ZenonT(60), <1>1 DEF PurgeBump, BumpPurgeGenerationLocked
    <2>7. QED
      BY ZenonT(60), <1>1, <2>2, <2>3, <2>4, <2>5, <2>6 DEF PurgeBump
  <1>2. CASE PurgeRemove(t)
    BY SMTT(200), <1>2 DEF PurgeRemove, Remove
  <1>3. CASE ClearUrlMarks(t)
    BY SMTT(120), <1>3 DEF ClearUrlMarks, EraseUrlMarksLocked
  <1>4. CASE ClearUrlCooldown(t)
    BY SMTT(200), <1>4 DEF ClearUrlCooldown, AfterWrite, CodedFrom, Slots
  <1>5. QED
    BY ZenonT(60), <1>1, <1>2, <1>3, <1>4 DEF InvalidateStep

\* ClearDedupAndCooldown keeps the types.
LEMMA TypeClearDedupStep ==
    ASSUME TypeOK, NEW t \in Pages \cup {Loop}, ClearDedupStep(t)
    PROVE  TypeOK'
  <1> USE ThreadsAssumption DEF TypeOK, Threads, Goto, gens, marks, locals
  <1> USE DEF Placed, WriterLabels, LoopLabels, ResetLabels, PageLabels, Undoing
  <1>1. CASE ClearDedupMarks(t)
    BY ZenonT(60), <1>1 DEF ClearDedupMarks, EraseUrlMarksLocked
  <1>2. CASE ClearDedupGen(t)
    BY SMTT(200), <1>2 DEF ClearDedupGen
  <1>3. CASE ClearDedupCooldown(t)
    BY SMTT(200), <1>3 DEF ClearDedupCooldown
  <1>4. QED
    BY ZenonT(60), <1>1, <1>2, <1>3 DEF ClearDedupStep

\* The event loop keeps the types.
LEMMA TypeLoopStep ==
    ASSUME TypeOK, LoopStep \/ ResetBump
    PROVE  TypeOK'
  <1> USE ThreadsAssumption DEF TypeOK, Threads, Goto, gens, marks, locals
  <1> USE DEF Placed, WriterLabels, LoopLabels, ResetLabels, PageLabels, Undoing
  <1>1. CASE RedispatchSkipped
    BY SMTT(200), <1>1 DEF RedispatchSkipped
  <1>2. CASE ResetVolume
    BY SMTT(200), <1>2 DEF ResetVolume
  <1>3. CASE ResetMarks
    BY ZenonT(60), <1>3 DEF ResetMarks
  <1>4. CASE ResetCooldown
    BY SMTT(120), <1>4 DEF ResetCooldown
  <1>5. CASE ResetBump
    BY SMTT(200), <1>5 DEF ResetBump
  <1>6. QED
    BY ZenonT(60), <1>1, <1>2, <1>3, <1>4, <1>5 DEF LoopStep

\* Requests from outside keep the types.
LEMMA TypeRequests ==
    ASSUME TypeOK, NEW u \in Urls
    PROVE  /\ \A w \in Writers : DispatchNotification(w, u) => TypeOK'
           /\ \A p \in Pages : RegisterPin(p, u) => TypeOK'
           /\ ApiRequest(u) \/ Record(u) => TypeOK'
  <1> USE ThreadsAssumption DEF TypeOK, Threads, Goto, gens, marks, locals
  <1> USE DEF Placed, WriterLabels, LoopLabels, ResetLabels, PageLabels, Undoing
  <1>1. ASSUME NEW w \in Writers, DispatchNotification(w, u) PROVE TypeOK'
    <2>1. CurrentGen(u) \in Nat
      BY DEF CurrentGen
    <2>2. /\ url_gen' \in [Writers -> Nat] /\ all_gen' \in [Writers -> Nat]
          /\ in_flight_urls' \subseteq Urls
      BY <1>1, <2>1 DEF DispatchNotification
    <2>3. count' \in [dispatch : Nat, purge : Nat, reset : Nat, reprocess : Nat,
                      evict : Nat]
      BY SMTT(200), <1>1 DEF DispatchNotification
    <2>4. /\ pc' = [pc EXCEPT ![w] = "dedup", ![Loop] = "idle"]
          /\ url' = [url EXCEPT ![w] = u, ![Loop] = Nobody]
      BY <1>1 DEF DispatchNotification
    <2>5. \A t \in Threads : Placed(t)'
      BY <2>4
    <2>6. \A v \in Writers : pc'[v] = "commit" => pc[v] = "commit"
      BY <2>4
    <2>7. UNCHANGED <<cache, epoch, gens, mutex, marks, text_cooldown, erased,
                      integrity_pinned_urls, oracle, src, small, opt, genuine,
                      slot, ret>>
      BY ZenonT(60), <1>1 DEF DispatchNotification
    <2>8. QED
      BY ZenonT(60), <2>2, <2>3, <2>4, <2>5, <2>6, <2>7
  <1>2. ASSUME NEW p \in Pages, RegisterPin(p, u) PROVE TypeOK'
    BY ZenonT(60), <1>2 DEF RegisterPin
  <1>3. CASE ApiRequest(u)
    <2>1. count' \in [dispatch : Nat, purge : Nat, reset : Nat, reprocess : Nat,
                      evict : Nat]
      <3>1. CASE count' = [count EXCEPT !.purge = @ + 1]
        BY <3>1
      <3>2. CASE count' = [count EXCEPT !.reprocess = @ + 1]
        BY <3>2
      <3>3. QED
        BY <1>3, <3>1, <3>2 DEF ApiRequest
    <2>2. PICK l \in {"bump", "cdMarks"} : pc' = [pc EXCEPT ![Loop] = l]
      BY <1>3 DEF ApiRequest
    <2>3. \A t \in Threads : Placed(t)'
      BY <1>3, <2>2 DEF ApiRequest
    <2>4. \A v \in Writers : pc'[v] = "commit" => pc[v] = "commit"
      BY <2>2
    <2>5. url' = [url EXCEPT ![Loop] = u]
      BY <1>3 DEF ApiRequest
    <2>6. UNCHANGED <<cache, epoch, gens, mutex, marks, text_cooldown, oracle,
                      integrity_pinned_urls, in_flight_urls, locals, erased>>
      BY ZenonT(60), <1>3 DEF ApiRequest
    <2>7. QED
      BY Zenon, <2>1, <2>2, <2>3, <2>4, <2>5, <2>6
  <1>4. CASE Record(u)
    <2>1. Entry(u, "identity", epoch[u], FALSE)
            \in [url : Urls, slot : Slots, tag : Nat, opt : BOOLEAN]
      BY DEF Entry, Slots
    <2>2. cache' \subseteq [url : Urls, slot : Slots, tag : Nat, opt : BOOLEAN]
      BY ZenonT(60), <1>4, <2>1 DEF Record, Store
    <2>3. QED
      BY <1>4, <2>2 DEF Record
  <1>5. QED
    BY ZenonT(60), <1>1, <1>2, <1>3, <1>4

\* Removals by pages and evictions keep the types.
LEMMA TypeRemovals ==
    ASSUME TypeOK, Evict \/ \E p \in Pages : PinRemove(p)
    PROVE  TypeOK'
  <1> USE ThreadsAssumption DEF TypeOK, Threads, Goto, gens, marks, locals
  <1> USE DEF Placed, WriterLabels, LoopLabels, ResetLabels, PageLabels, Undoing
  <1>1. ASSUME NEW p \in Pages, PinRemove(p) PROVE TypeOK'
    BY SMTT(120), <1>1 DEF PinRemove, Remove
  <1>2. CASE Evict
    <2> HIDE DEF Placed, WriterLabels, LoopLabels, ResetLabels, PageLabels, Undoing
    <2>1. count' \in [dispatch : Nat, purge : Nat, reset : Nat, reprocess : Nat,
                      evict : Nat]
      <3> HIDE DEF TypeOK
      <3>1. count \in [dispatch : Nat, purge : Nat, reset : Nat, reprocess : Nat,
                       evict : Nat]
        BY Zenon DEF TypeOK
      <3>2. QED
        BY <1>2, <3>1 DEF Evict
    <2>2. cache' \subseteq cache
      BY Zenon, <1>2 DEF Evict
    <2>3. \A t \in Threads : Placed(t)' <=> Placed(t)
      BY ZenonT(60), <1>2 DEF Evict, Placed
    <2>4. QED
      BY ZenonT(60), <1>2, <2>1, <2>2, <2>3 DEF Evict
  <1> HIDE DEF TypeOK
  <1>3. QED
    BY Zenon, <1>1, <1>2

\* Every step keeps the types.
LEMMA TypeNext == TypeOK /\ [Next]_vars => TypeOK'
  <1> SUFFICES ASSUME TypeOK, [Next]_vars PROVE TypeOK'
    OBVIOUS
  <1>1. CASE Next
    BY ZenonT(60), <1>1, TypeWriterStep, TypeInvalidateStep, TypeClearDedupStep,
       TypeLoopStep, TypeRequests, TypeRemovals DEF Next
  <1>2. CASE UNCHANGED vars
    BY <1>2 DEF vars, gens, marks, locals, TypeOK, Placed
  <1>3. QED
    BY <1>1, <1>2

\* The worker's state keeps to its types, and every thread to the key it works
\* on, in all behaviours.
THEOREM TypeCorrect == Spec => []TypeOK
  BY TypeInit, TypeNext, PTL DEF Spec

-----------------------------------------------------------------------------
(* In-flight tracking.                                                      *)

\* A step other than a dispatch or a completion leaves the tracked jobs alone.
LEMMA FlightFrame ==
    ASSUME TypeOK, [Next]_vars
    PROVE  \/ /\ in_flight_urls' = in_flight_urls
              /\ \A w \in Jobs : url'[w] = url[w]
           \/ \E w \in Writers, u \in Urls : DispatchNotification(w, u)
           \/ \E w \in Writers : OnNotificationDone(w)
  <1> DEFINE Frame == /\ in_flight_urls' = in_flight_urls
                      /\ \A w \in Jobs : url'[w] = url[w]
  <1>0. /\ Loop \notin Jobs /\ Jobs \cap Pages = {} /\ Jobs \subseteq Threads
        /\ url \in [Threads -> Urls \cup {Nobody}]
    BY ThreadsAssumption DEF TypeOK, Threads, Writers
  <1>1. ASSUME NEW w \in Writers, WriterStep(w), ~OnNotificationDone(w) PROVE Frame
    BY ZenonT(60), <1>1
    DEF WriterStep, DedupLookup, DedupFamilyCheck, DedupHeal, CooldownCheck,
        PinCheck, ReadOriginal, WriteVariantCheck, WriteVariantCommit,
        WriteVariantPostCheck, RepinCheck, RepinRemove,
        MarkVariantProcessedCheck, MarkVariantProcessedInsert,
        MarkCopyWrittenCheck, MarkCopyWrittenInsert, RecordSourceHashCheck,
        RecordSourceHashExists, RecordSourceHashWrite, EndWithCooldown
  <1>2. ASSUME NEW t \in Writers \cup {Loop}, InvalidateStep(t) PROVE Frame
    <2>1. /\ in_flight_urls' = in_flight_urls
          /\ url' = url \/ (t = Loop /\ url' = [url EXCEPT ![t] = Nobody])
      BY ZenonT(60), <1>2
      DEF InvalidateStep, PurgeBump, PurgeRemove, ClearUrlMarks, ClearUrlCooldown
    <2>2. QED
      BY <1>0, <2>1
  <1>3. ASSUME NEW t \in Pages \cup {Loop}, ClearDedupStep(t) PROVE Frame
    <2>1. /\ in_flight_urls' = in_flight_urls
          /\ url' = url \/ url' = [url EXCEPT ![t] = Nobody]
      BY ZenonT(60), <1>3
      DEF ClearDedupStep, ClearDedupMarks, ClearDedupGen, ClearDedupCooldown
    <2>2. QED
      BY <1>0, <1>3, <2>1
  <1>4. ASSUME NEW p \in Pages, NEW u, PinRemove(p) \/ RegisterPin(p, u) PROVE Frame
    <2>1. /\ in_flight_urls' = in_flight_urls
          /\ url' = url \/ url' = [url EXCEPT ![p] = u]
      BY ZenonT(60), <1>4 DEF PinRemove, RegisterPin
    <2>2. QED
      BY <1>0, <1>4, <2>1
  <1>5. CASE LoopStep \/ ResetBump \/ Evict \/ UNCHANGED vars
    <2>1. /\ in_flight_urls' = in_flight_urls
          /\ url' = url \/ url' = [url EXCEPT ![Loop] = Nobody]
      BY ZenonT(60), <1>5
      DEF LoopStep, RedispatchSkipped, ResetVolume, ResetMarks, ResetCooldown,
          ResetBump, Evict, vars
    <2>2. QED
      BY <1>0, <2>1
  <1>6. ASSUME NEW u \in Urls, ApiRequest(u) \/ Record(u) PROVE Frame
    <2>1. /\ in_flight_urls' = in_flight_urls
          /\ url' = url \/ url' = [url EXCEPT ![Loop] = u]
      BY ZenonT(60), <1>6 DEF ApiRequest, Record
    <2>2. QED
      BY <1>0, <2>1
  <1>7. QED
    BY ZenonT(60), <1>1, <1>2, <1>3, <1>4, <1>5, <1>6 DEF Next

\* Dispatch and completion keep in_flight_urls_ exact.
LEMMA FlightNext ==
    ASSUME TypeOK, InFlightExact, [Next]_vars
    PROVE  InFlightExact'
  <1> USE DEF InFlightExact
  <1>0. /\ Loop \notin Jobs /\ Jobs \subseteq Threads /\ Nobody \notin Urls
        /\ Jobs \subseteq Writers /\ Writers \subseteq Threads
        /\ url \in [Threads -> Urls \cup {Nobody}]
    BY ThreadsAssumption DEF TypeOK, Threads, Writers
  <1>1. CASE /\ in_flight_urls' = in_flight_urls
             /\ \A w \in Jobs : url'[w] = url[w]
    BY <1>1
  <1>2. ASSUME NEW w \in Writers, NEW u \in Urls, DispatchNotification(w, u)
        PROVE  InFlightExact'
    <2>1. url[w] = Nobody
      <3>1. Placed(w) /\ pc[w] = "idle"
        BY Zenon, <1>0, <1>2 DEF DispatchNotification, TypeOK
      <3>2. QED
        BY <3>1 DEF Placed, WriterLabels, LoopLabels, ResetLabels, PageLabels, Undoing
    <2>2. /\ \A v \in Jobs \ {w} : url'[v] = url[v]
          /\ w \in Jobs => url'[w] = u
      BY <1>0, <1>2 DEF DispatchNotification
    <2>3. CASE w \in Jobs
      <3>1. in_flight_urls' = in_flight_urls \cup {u} /\ u \notin in_flight_urls
        BY <1>2, <2>3 DEF DispatchNotification
      <3>2. QED
        BY <1>0, <2>1, <2>2, <2>3, <3>1
    <2>4. CASE w \notin Jobs
      <3>1. in_flight_urls' = in_flight_urls
        BY <1>2, <2>4 DEF DispatchNotification
      <3>2. QED
        BY <2>2, <2>4, <3>1
    <2>5. QED
      BY <2>3, <2>4
  <1>3. ASSUME NEW w \in Writers, OnNotificationDone(w) PROVE InFlightExact'
    <2>1. /\ \A v \in Jobs \ {w} : url'[v] = url[v]
          /\ url'[w] = Nobody
      BY <1>0, <1>3 DEF OnNotificationDone
    <2>2. CASE w \in Jobs
      <3>1. in_flight_urls' = in_flight_urls \ {url[w]}
        BY <1>3, <2>2 DEF OnNotificationDone
      <3>2. QED
        BY <1>0, <2>1, <2>2, <3>1
    <2>3. CASE w \notin Jobs
      <3>1. in_flight_urls' = in_flight_urls
        BY <1>3, <2>3 DEF OnNotificationDone
      <3>2. QED
        BY <2>1, <2>3, <3>1
    <2>4. QED
      BY <2>2, <2>3
  <1>4. QED
    BY ZenonT(60), <1>1, <1>2, <1>3, FlightFrame

\* DispatchNotification and OnNotificationDone: for any number of jobs,
\* warm-ups and keys, a key is in in_flight_urls_ exactly while one tracked job
\* works on it.
THEOREM TrackedExactly == Spec => []InFlightExact
  <1>1. Init => InFlightExact
    BY DEF Init, InFlightExact, Threads, Writers
  <1>2. TypeOK /\ InFlightExact /\ [Next]_vars => InFlightExact'
    BY FlightNext
  <1>3. QED
    BY <1>1, <1>2, TypeCorrect, PTL DEF Spec

-----------------------------------------------------------------------------
(* Dedup marks and copy records.                                            *)

\* The steps that touch the marks.
LEMMA MarksFrame ==
    ASSUME [Next]_vars
    PROVE  \/ UNCHANGED marks
           \/ \E t \in Threads : EraseUrlMarksLocked(url[t])
           \/ ResetMarks
           \/ \E w \in Writers :
                 MarkVariantProcessedInsert(w) \/ MarkCopyWrittenInsert(w)
  <1>1. ASSUME NEW w \in Writers, WriterStep(w), ~DedupHeal(w),
               ~MarkVariantProcessedInsert(w), ~MarkCopyWrittenInsert(w)
        PROVE  UNCHANGED marks
    BY ZenonT(60), <1>1
    DEF WriterStep, DedupLookup, DedupFamilyCheck, CooldownCheck, PinCheck,
        ReadOriginal, WriteVariantCheck, WriteVariantCommit,
        WriteVariantPostCheck, RepinCheck, RepinRemove,
        MarkVariantProcessedCheck, MarkCopyWrittenCheck, RecordSourceHashCheck,
        RecordSourceHashExists, RecordSourceHashWrite, EndWithCooldown,
        OnNotificationDone
  <1>2. ASSUME NEW w \in Writers, DedupHeal(w) PROVE EraseUrlMarksLocked(url[w])
    BY Zenon, <1>2 DEF DedupHeal
  <1>3. ASSUME NEW t \in Writers \cup {Loop}, InvalidateStep(t)
        PROVE  UNCHANGED marks \/ EraseUrlMarksLocked(url[t])
    BY ZenonT(60), <1>3
    DEF InvalidateStep, PurgeBump, PurgeRemove, ClearUrlMarks, ClearUrlCooldown
  <1>4. ASSUME NEW t \in Pages \cup {Loop}, ClearDedupStep(t)
        PROVE  UNCHANGED marks \/ EraseUrlMarksLocked(url[t])
    BY ZenonT(60), <1>4
    DEF ClearDedupStep, ClearDedupMarks, ClearDedupGen, ClearDedupCooldown
  <1>5. ASSUME NEW u, NEW t, \/ DispatchNotification(t, u) \/ PinRemove(t)
                             \/ RegisterPin(t, u) \/ ApiRequest(u) \/ Record(u)
        PROVE  UNCHANGED marks
    BY ZenonT(60), <1>5
    DEF DispatchNotification, PinRemove, RegisterPin, ApiRequest, Record
  <1>6. CASE LoopStep \/ ResetBump \/ Evict \/ UNCHANGED vars
    BY ZenonT(60), <1>6
    DEF LoopStep, RedispatchSkipped, ResetVolume, ResetCooldown, ResetBump,
        Evict, vars
  <1>7. Writers \cup Pages \cup {Loop} \subseteq Threads
    BY DEF Threads
  <1>8. QED
    BY ZenonT(60), <1>1, <1>2, <1>3, <1>4, <1>5, <1>6, <1>7 DEF Next

\* MarkVariantProcessed, MarkCopyWritten: for any number of keys and any
\* rotation bound, a record that the copy was written lives in the generation
\* of the mark it qualifies.
THEOREM CopyRecordsMarked == Spec => []CopyRecordHasMark
  <1>1. Init => CopyRecordHasMark
    BY DEF Init, CopyRecordHasMark
  <1>2. CopyRecordHasMark /\ [Next]_vars => CopyRecordHasMark'
    <2> SUFFICES ASSUME CopyRecordHasMark, [Next]_vars PROVE CopyRecordHasMark'
      OBVIOUS
    <2> USE DEF CopyRecordHasMark
    <2>1. CASE UNCHANGED marks
      BY <2>1 DEF marks
    <2>2. ASSUME NEW u, EraseUrlMarksLocked(u) PROVE CopyRecordHasMark'
      BY <2>2 DEF EraseUrlMarksLocked
    <2>3. CASE ResetMarks
      BY <2>3 DEF ResetMarks
    <2>4. ASSUME NEW w \in Writers, MarkVariantProcessedInsert(w)
          PROVE  CopyRecordHasMark'
      BY <2>4 DEF MarkVariantProcessedInsert
    <2>5. ASSUME NEW w \in Writers, MarkCopyWrittenInsert(w)
          PROVE  CopyRecordHasMark'
      BY <2>5 DEF MarkCopyWrittenInsert
    <2>6. QED
      BY Zenon, <2>1, <2>2, <2>3, <2>4, <2>5, MarksFrame
  <1>3. QED
    BY <1>1, <1>2, PTL DEF Spec

-----------------------------------------------------------------------------
(* Integrity pins.                                                          *)

\* t will still look at the pin of its key, or Remove the key: a writer whose
\* minified copy is committed and not re-checked, or a page that pinned it.
PinGuard(t) ==
    \/ /\ t \in Writers
       /\ \/ pc[t] \in {"post", "bump", "remove"} /\ slot[t] = "identity" /\ small[t]
          \/ pc[t] \in {"repin", "unpin"}
    \/ t \in Pages /\ pc[t] = "pinRemove"

\* Optimized bytes go to the identity slot only if minification shrank them,
\* for only then WriteTextVariant re-checks the pin.
OptIsSmall == \A w \in Writers : opt[w] /\ slot[w] = "identity" => small[w]

\* Every minified identity entry of a pinned key has a thread guarding it.
PinCovered ==
    \A e \in cache :
        e.slot = "identity" /\ e.opt /\ e.url \in integrity_pinned_urls =>
            \E t \in Threads : PinGuard(t) /\ url[t] = e.url

\* A step keeps OptIsSmall if it leaves the three locals alone or moves on to
\* a coded slot.
LEMMA OptIsSmallNext ==
    ASSUME TypeOK, OptIsSmall, [Next]_vars
    PROVE  OptIsSmall'
  <1> USE DEF OptIsSmall
  <1>0. /\ small \in [Writers -> BOOLEAN] /\ opt \in [Writers -> BOOLEAN]
        /\ slot \in [Writers -> Slots \cup {"none"}]
    BY DEF TypeOK
  <1>1. CASE UNCHANGED <<small, opt, slot>>
    BY <1>1
  <1>2. ASSUME NEW w \in Writers, NEW ok, AfterWrite(w, ok), UNCHANGED <<small, opt>>
        PROVE  OptIsSmall'
    <2>1. PICK s : s # "identity" /\ slot' = [slot EXCEPT ![w] = s]
      BY <1>2 DEF AfterWrite, CodedFrom
    <2>2. QED
      BY <1>0, <1>2, <2>1
  <1>3. ASSUME NEW w \in Writers, ReadOriginal(w) PROVE OptIsSmall'
    <2>1. CASE UNCHANGED <<src, small, opt, genuine, slot>>
      BY <2>1
    <2>2. ASSUME NEW e \in cache, NEW shrank \in BOOLEAN, NEW raw \in BOOLEAN,
                 NEW stamp \in BOOLEAN,
                 raw => ~e.opt, stamp => raw /\ ~shrank,
                 small' = [small EXCEPT ![w] = shrank],
                 opt' = [opt EXCEPT ![w] = e.opt \/ shrank],
                 IF shrank \/ stamp
                 THEN Goto(w, "check") /\ slot' = [slot EXCEPT ![w] = "identity"]
                 ELSE /\ Goto(w, "markCheck")
                      /\ slot' = [slot EXCEPT ![w] = CodedFrom("gzip")]
          PROVE  OptIsSmall'
      <3>1. CodedFrom("gzip") # "identity"
        BY DEF CodedFrom
      <3>2. \A v \in Writers \ {w} : /\ small'[v] = small[v] /\ opt'[v] = opt[v]
                                     /\ slot'[v] = slot[v]
        BY <1>0, <2>2
      <3>3. /\ small'[w] = shrank /\ opt'[w] = (e.opt \/ shrank)
            /\ slot'[w] = IF shrank \/ stamp THEN "identity" ELSE CodedFrom("gzip")
        BY Zenon, <1>0, <2>2
      <3>4. opt'[w] /\ slot'[w] = "identity" => small'[w]
        BY Zenon, <2>2, <3>1, <3>3
      <3>5. QED
        BY Zenon, <3>2, <3>4
    <2>3. QED
      BY ZenonT(60), <1>3, <2>1, <2>2 DEF ReadOriginal
  <1>4. ASSUME NEW w \in Writers, OnNotificationDone(w) PROVE OptIsSmall'
    <2>1. /\ \A v \in Writers \ {w} : /\ small'[v] = small[v] /\ opt'[v] = opt[v]
                                     /\ slot'[v] = slot[v]
          /\ opt'[w] = FALSE
      BY <1>0, <1>4 DEF OnNotificationDone
    <2>2. QED
      BY Zenon, <2>1
  <1>5. ASSUME NEW w \in Writers, WriterStep(w), ~ReadOriginal(w), ~OnNotificationDone(w)
        PROVE  \/ UNCHANGED <<small, opt, slot>>
               \/ \E ok \in BOOLEAN : AfterWrite(w, ok) /\ UNCHANGED <<small, opt>>
    BY ZenonT(60), <1>5
    DEF WriterStep, locals, DedupLookup, DedupFamilyCheck, DedupHeal,
        CooldownCheck, PinCheck, WriteVariantCheck, WriteVariantCommit,
        WriteVariantPostCheck, RepinCheck, RepinRemove,
        MarkVariantProcessedCheck, MarkVariantProcessedInsert,
        MarkCopyWrittenCheck, MarkCopyWrittenInsert, RecordSourceHashCheck,
        RecordSourceHashExists, RecordSourceHashWrite, EndWithCooldown
  <1>6. ASSUME NEW t \in Writers \cup {Loop}, InvalidateStep(t)
        PROVE  \/ UNCHANGED <<small, opt, slot>>
               \/ t \in Writers /\ AfterWrite(t, FALSE) /\ UNCHANGED <<small, opt>>
    BY ZenonT(60), <1>6
    DEF InvalidateStep, locals, PurgeBump, PurgeRemove, ClearUrlMarks, ClearUrlCooldown
  <1>7. ASSUME NEW t, NEW u,
               \/ ClearDedupStep(t) \/ LoopStep \/ ResetBump \/ Evict
               \/ DispatchNotification(t, u) \/ PinRemove(t) \/ RegisterPin(t, u)
               \/ ApiRequest(u) \/ Record(u) \/ UNCHANGED vars
        PROVE  UNCHANGED <<small, opt, slot>>
    BY ZenonT(60), <1>7
    DEF vars, locals, ClearDedupStep, ClearDedupMarks, ClearDedupGen,
        ClearDedupCooldown, LoopStep, RedispatchSkipped, ResetVolume, ResetMarks,
        ResetCooldown, ResetBump, Evict, DispatchNotification, PinRemove,
        RegisterPin, ApiRequest, Record
  <1>8. QED
    BY ZenonT(60), <1>1, <1>2, <1>3, <1>4, <1>5, <1>6, <1>7 DEF Next

\* What a step must respect to keep every entry of a pinned key guarded: it
\* adds no minified identity entry without a guard, and a guard lets go only
\* of a key that is not pinned or has no entry left.
LEMMA PinStep ==
    ASSUME PinCovered, UNCHANGED integrity_pinned_urls,
           \A e \in cache' :
               \/ e \in cache \/ ~e.opt \/ e.slot # "identity"
               \/ \E t \in Threads : PinGuard(t)' /\ url'[t] = e.url,
           \A t \in Threads : PinGuard(t) =>
               \/ PinGuard(t)' /\ url'[t] = url[t]
               \/ url[t] \notin integrity_pinned_urls
               \/ \A e \in cache' : e.url # url[t]
    PROVE  PinCovered'
  BY ZenonT(60) DEF PinCovered

\* A step of a thread that guards nothing and adds nothing to the cache.
LEMMA PinQuiet ==
    ASSUME TypeOK, PinCovered, NEW t, NEW l, pc' = [pc EXCEPT ![t] = l],
           pc[t] \notin {"post", "bump", "remove", "repin", "unpin", "pinRemove"},
           \A v \in Threads \ {t} : url'[v] = url[v],
           \A v \in Writers \ {t} : slot'[v] = slot[v] /\ small'[v] = small[v],
           cache' \subseteq cache, UNCHANGED integrity_pinned_urls
    PROVE  PinCovered'
  <1>1. \A v \in Threads \ {t} : pc'[v] = pc[v]
    BY DEF TypeOK
  <1>2. ~PinGuard(t)
    BY DEF PinGuard
  <1>3. \A v \in Threads : PinGuard(v) => PinGuard(v)' /\ url'[v] = url[v]
    BY ZenonT(60), <1>1, <1>2 DEF PinGuard, Threads
  <1>4. QED
    BY Zenon, <1>3, PinStep

\* The steps of a writer that guards nothing.
LEMMA PinQuietWriter ==
    ASSUME TypeOK, PinCovered, NEW w \in Writers, WriterStep(w),
           ~WriteVariantCommit(w), ~WriteVariantPostCheck(w),
           ~RepinCheck(w), ~RepinRemove(w)
    PROVE  PinCovered'
  <1> USE DEF Goto, locals
  <1>1. CASE DedupLookup(w)
    BY ZenonT(60), <1>1, PinQuiet DEF DedupLookup
  <1>2. CASE DedupFamilyCheck(w)
    BY ZenonT(60), <1>2, PinQuiet DEF DedupFamilyCheck
  <1>3. CASE DedupHeal(w)
    BY ZenonT(60), <1>3, PinQuiet DEF DedupHeal
  <1>4. CASE CooldownCheck(w)
    BY ZenonT(60), <1>4, PinQuiet DEF CooldownCheck
  <1>5. CASE PinCheck(w)
    BY ZenonT(60), <1>5, PinQuiet DEF PinCheck
  <1>6. CASE MarkVariantProcessedCheck(w)
    BY ZenonT(60), <1>6, PinQuiet DEF MarkVariantProcessedCheck
  <1>7. CASE MarkVariantProcessedInsert(w)
    BY ZenonT(60), <1>7, PinQuiet DEF MarkVariantProcessedInsert
  <1>8. CASE MarkCopyWrittenCheck(w)
    BY ZenonT(60), <1>8, PinQuiet DEF MarkCopyWrittenCheck
  <1>9. CASE MarkCopyWrittenInsert(w)
    BY ZenonT(60), <1>9, PinQuiet DEF MarkCopyWrittenInsert
  <1>10. CASE RecordSourceHashCheck(w)
    BY ZenonT(60), <1>10, PinQuiet DEF RecordSourceHashCheck
  <1>11. CASE RecordSourceHashExists(w)
    BY ZenonT(60), <1>11, PinQuiet DEF RecordSourceHashExists
  <1>12. CASE RecordSourceHashWrite(w)
    BY ZenonT(60), <1>12, PinQuiet DEF RecordSourceHashWrite
  <1>13. CASE EndWithCooldown(w)
    BY ZenonT(60), <1>13, PinQuiet DEF EndWithCooldown
  <1>14. CASE ReadOriginal(w)
    <2>1. PICK l : pc' = [pc EXCEPT ![w] = l]
      BY ZenonT(60), <1>14 DEF ReadOriginal
    <2>2. \A v \in Writers \ {w} : slot'[v] = slot[v] /\ small'[v] = small[v]
      BY <1>14, ReadOriginalEffect DEF TypeOK
    <2>3. QED
      BY ZenonT(60), <1>14, <2>1, <2>2, PinQuiet DEF ReadOriginal
  <1>15. CASE WriteVariantCheck(w)
    <2>1. CASE AfterWrite(w, FALSE)
      <3>1. /\ \E l : pc' = [pc EXCEPT ![w] = l]
            /\ \A v \in Writers \ {w} : slot'[v] = slot[v]
        BY ZenonT(60), <2>1, AfterWriteEffect
      <3>2. QED
        BY ZenonT(60), <1>15, <3>1, PinQuiet DEF WriteVariantCheck
    <2>2. CASE Goto(w, "commit") /\ UNCHANGED slot
      BY ZenonT(60), <1>15, <2>2, PinQuiet DEF WriteVariantCheck
    <2>3. QED
      BY Zenon, <1>15, <2>1, <2>2 DEF WriteVariantCheck
  <1>16. CASE OnNotificationDone(w)
    <2>1. /\ \A v \in Threads \ {w} : url'[v] = url[v]
          /\ \A v \in Writers \ {w} : slot'[v] = slot[v] /\ small'[v] = small[v]
      BY <1>16 DEF OnNotificationDone, TypeOK
    <2>2. QED
      BY ZenonT(60), <1>16, <2>1, PinQuiet DEF OnNotificationDone
  <1>17. QED
    BY ZenonT(60), <1>1, <1>2, <1>3, <1>4, <1>5, <1>6, <1>7, <1>8, <1>9, <1>10, <1>11, <1>12, <1>13, <1>14, <1>15, <1>16 DEF WriterStep

\* The steps of a writer around its commit and its second integrity check.
LEMMA PinWriter ==
    ASSUME TypeOK, PinCovered, OptIsSmall, NEW w \in Writers,
           \/ WriteVariantCommit(w) \/ WriteVariantPostCheck(w)
           \/ RepinCheck(w) \/ RepinRemove(w)
    PROVE  PinCovered'
  <1>0. /\ w \in Threads /\ w \notin Pages
        /\ pc \in [Threads -> {"idle"} \cup WriterLabels \cup LoopLabels
                                \cup ResetLabels \cup PageLabels]
        /\ slot \in [Writers -> Slots \cup {"none"}]
    BY ThreadsAssumption DEF TypeOK, Threads
  <1>1. ASSUME NEW l, pc' = [pc EXCEPT ![w] = l], UNCHANGED <<url, small>>,
               \A v \in Writers \ {w} : slot'[v] = slot[v]
        PROVE  \A v \in Threads \ {w} : PinGuard(v) => PinGuard(v)' /\ url'[v] = url[v]
    <2>1. \A v \in Threads \ {w} : pc'[v] = pc[v]
      BY <1>0, <1>1
    <2>2. QED
      BY ZenonT(60), <1>1, <2>1 DEF PinGuard
  <1>2. CASE WriteVariantCommit(w)
    <2>1. CASE AfterWrite(w, FALSE) /\ UNCHANGED cache
      <3>1. /\ \E l : pc' = [pc EXCEPT ![w] = l]
            /\ \A v \in Writers \ {w} : slot'[v] = slot[v]
        BY ZenonT(60), <2>1, AfterWriteEffect
      <3>2. QED
        BY ZenonT(60), <1>2, <2>1, <3>1, PinQuiet DEF WriteVariantCommit
    <2>2. CASE /\ Store(Entry(url[w], slot[w], src[w], opt[w]))
               /\ Goto(w, "post") /\ UNCHANGED slot
      <3> DEFINE e0 == Entry(url[w], slot[w], src[w], opt[w])
      <3>1. e0.url = url[w] /\ e0.slot = slot[w] /\ e0.opt = opt[w]
        BY DEF Entry
      <3>2. cache' \subseteq cache \cup {e0}
        BY <2>2 DEF Store
      <3>3. pc'[w] = "post" /\ pc' = [pc EXCEPT ![w] = "post"]
        BY <1>0, <2>2 DEF Goto
      <3>4. UNCHANGED <<url, small, slot, opt, integrity_pinned_urls>>
        BY Zenon, <1>2, <2>2 DEF WriteVariantCommit
      <3> HIDE DEF e0
      <3>5. opt[w] /\ slot[w] = "identity" => PinGuard(w)' /\ url'[w] = url[w]
        BY Zenon, <3>3, <3>4 DEF OptIsSmall, PinGuard
      <3>6. ~PinGuard(w)
        BY Zenon, <1>0, <1>2 DEF WriteVariantCommit, PinGuard
      <3>7. \A e \in cache' :
               \/ e \in cache \/ ~e.opt \/ e.slot # "identity"
               \/ \E t \in Threads : PinGuard(t)' /\ url'[t] = e.url
        BY Zenon, <1>0, <3>1, <3>2, <3>5
      <3>8. \A t \in Threads : PinGuard(t) => PinGuard(t)' /\ url'[t] = url[t]
        BY Zenon, <1>1, <3>3, <3>4, <3>6
      <3>9. QED
        BY Zenon, <3>4, <3>7, <3>8, PinStep
    <2>3. QED
      BY Zenon, <1>2, <2>1, <2>2 DEF WriteVariantCommit
  <1>3. CASE WriteVariantPostCheck(w)
    <2>1. UNCHANGED <<cache, url, small, integrity_pinned_urls>>
      BY Zenon, <1>3 DEF WriteVariantPostCheck
    <2>2. PICK l : /\ pc' = [pc EXCEPT ![w] = l]
                   /\ \A v \in Writers \ {w} : slot'[v] = slot[v]
      <3>1. CASE AfterWrite(w, TRUE)
        BY ZenonT(60), <3>1, AfterWriteEffect
      <3>2. CASE Goto(w, "bump") /\ UNCHANGED slot
        BY Zenon, <3>2 DEF Goto
      <3>3. QED
        BY Zenon, <1>3, <3>1, <3>2 DEF WriteVariantPostCheck
    <2>3. PinGuard(w) => PinGuard(w)'
      <3> SUFFICES ASSUME PinGuard(w) PROVE PinGuard(w)'
        OBVIOUS
      <3>1. pc[w] = "post" /\ slot[w] = "identity" /\ small[w]
        BY <1>0, <1>3 DEF PinGuard, WriteVariantPostCheck
      <3>2. CASE Goto(w, "bump") /\ UNCHANGED slot
        <4>1. pc'[w] = "bump"
          BY <1>0, <3>2 DEF Goto
        <4>2. QED
          BY Zenon, <2>1, <3>1, <3>2, <4>1 DEF PinGuard
      <3>3. CASE AfterWrite(w, TRUE)
        <4>1. pc' = [pc EXCEPT ![w] = "repin"]
          BY <3>1, <3>3 DEF AfterWrite, Goto
        <4>2. pc'[w] = "repin"
          BY <1>0, <4>1
        <4>3. QED
          BY Zenon, <4>2 DEF PinGuard
      <3>4. QED
        BY Zenon, <1>3, <3>2, <3>3 DEF WriteVariantPostCheck
    <2>4. \A t \in Threads : PinGuard(t) => PinGuard(t)' /\ url'[t] = url[t]
      BY Zenon, <1>1, <2>1, <2>2, <2>3
    <2>5. QED
      BY Zenon, <2>1, <2>4, PinStep
  <1>4. CASE RepinCheck(w)
    <2>1. /\ UNCHANGED <<cache, url, small, slot, integrity_pinned_urls>>
          /\ \E l : pc' = [pc EXCEPT ![w] = l]
      BY Zenon, <1>4 DEF RepinCheck, locals, Goto
    <2>2. url[w] \in integrity_pinned_urls => PinGuard(w)'
      <3> SUFFICES ASSUME url[w] \in integrity_pinned_urls PROVE PinGuard(w)'
        OBVIOUS
      <3>1. pc' = [pc EXCEPT ![w] = "unpin"]
        BY Zenon, <1>4 DEF RepinCheck, Goto
      <3>2. pc'[w] = "unpin"
        BY <1>0, <3>1
      <3>3. QED
        BY Zenon, <3>2 DEF PinGuard
    <2>3. \A t \in Threads : PinGuard(t) =>
               \/ PinGuard(t)' /\ url'[t] = url[t]
               \/ url[t] \notin integrity_pinned_urls
      BY Zenon, <1>1, <2>1, <2>2
    <2>4. QED
      BY Zenon, <2>1, <2>3, PinStep
  <1>5. CASE RepinRemove(w)
    <2>1. /\ UNCHANGED <<url, small, slot, integrity_pinned_urls>>
          /\ \E l : pc' = [pc EXCEPT ![w] = l]
          /\ cache' = {x \in cache : x.url # url[w]}
      BY Zenon, <1>5 DEF RepinRemove, Remove, locals, Goto
    <2>2. cache' \subseteq cache /\ \A e \in cache' : e.url # url[w]
      BY Zenon, <2>1
    <2>3. \A t \in Threads : PinGuard(t) =>
               \/ PinGuard(t)' /\ url'[t] = url[t]
               \/ \A e \in cache' : e.url # url[t]
      BY Zenon, <1>1, <2>1, <2>2
    <2>4. QED
      BY Zenon, <2>1, <2>2, <2>3, PinStep
  <1>6. QED
    BY Zenon, <1>2, <1>3, <1>4, <1>5

\* InvalidateUrl, by a writer or the loop: a guard bumps, then removes the key.
LEMMA PinInvalidate ==
    ASSUME TypeOK, PinCovered, NEW t \in Writers \cup {Loop}, InvalidateStep(t)
    PROVE  PinCovered'
  <1> USE DEF locals
  <1>0. /\ t \in Threads /\ t \notin Pages
        /\ pc \in [Threads -> {"idle"} \cup WriterLabels \cup LoopLabels
                                \cup ResetLabels \cup PageLabels]
    BY ThreadsAssumption DEF TypeOK, Threads
  <1>1. ASSUME NEW l, pc' = [pc EXCEPT ![t] = l], UNCHANGED <<url, small, slot>>
        PROVE  \A v \in Threads \ {t} : PinGuard(v) => PinGuard(v)' /\ url'[v] = url[v]
    <2>1. \A v \in Threads \ {t} : pc'[v] = pc[v]
      BY <1>0, <1>1
    <2>2. QED
      BY ZenonT(60), <1>1, <2>1 DEF PinGuard
  <1>2. CASE PurgeBump(t)
    <2>1. /\ UNCHANGED <<cache, url, small, slot, integrity_pinned_urls>>
          /\ pc' = [pc EXCEPT ![t] = "remove"] /\ pc[t] = "bump"
      BY Zenon, <1>2 DEF PurgeBump, Goto
    <2>2. pc'[t] = "remove"
      BY <1>0, <2>1
    <2>3. PinGuard(t) => PinGuard(t)'
      BY <1>0, <2>1, <2>2 DEF PinGuard
    <2>4. QED
      BY Zenon, <1>1, <2>1, <2>3, PinStep
  <1>3. CASE PurgeRemove(t)
    <2>1. /\ UNCHANGED <<url, small, slot, integrity_pinned_urls>>
          /\ \E l : pc' = [pc EXCEPT ![t] = l]
          /\ cache' = {x \in cache : x.url # url[t]}
      BY Zenon, <1>3 DEF PurgeRemove, Remove, Goto
    <2>2. cache' \subseteq cache /\ \A e \in cache' : e.url # url[t]
      BY Zenon, <2>1
    <2>3. \A v \in Threads : PinGuard(v) =>
               \/ PinGuard(v)' /\ url'[v] = url[v]
               \/ \A e \in cache' : e.url # url[v]
      BY Zenon, <1>1, <2>1, <2>2
    <2>4. QED
      BY Zenon, <2>1, <2>2, <2>3, PinStep
  <1>4. CASE ClearUrlMarks(t)
    BY ZenonT(60), <1>4, PinQuiet DEF ClearUrlMarks, Goto
  <1>5. CASE ClearUrlCooldown(t)
    <2>1. CASE t = Loop
      <3>1. /\ pc' = [pc EXCEPT ![t] = "idle"] /\ pc[t] = "clearUrlCooldown"
            /\ url' = [url EXCEPT ![t] = Nobody]
            /\ UNCHANGED <<cache, integrity_pinned_urls, small, slot>>
        BY Zenon, <1>5, <2>1 DEF ClearUrlCooldown, Goto
      <3>2. \A v \in Threads \ {t} : url'[v] = url[v]
        BY <3>1 DEF TypeOK
      <3>3. QED
        BY ZenonT(60), <3>1, <3>2, PinQuiet
    <2>2. CASE t # Loop
      <3>1. /\ AfterWrite(t, FALSE) /\ pc[t] = "clearUrlCooldown"
            /\ UNCHANGED <<cache, integrity_pinned_urls, small, url>>
        BY Zenon, <1>5, <2>2 DEF ClearUrlCooldown
      <3>2. /\ \E l : pc' = [pc EXCEPT ![t] = l]
            /\ \A v \in Writers \ {t} : slot'[v] = slot[v]
        BY ZenonT(60), <2>2, <3>1, AfterWriteEffect
      <3>3. QED
        BY ZenonT(60), <3>1, <3>2, PinQuiet
    <2>3. QED
      BY <2>1, <2>2
  <1>6. QED
    BY Zenon, <1>2, <1>3, <1>4, <1>5 DEF InvalidateStep

\* RegisterIntegrityPinnedUrls and ClearDedupAndCooldown, by a page or the loop.
LEMMA PinPages ==
    ASSUME TypeOK, PinCovered, NEW t \in Pages \cup {Loop}, NEW u,
           ClearDedupStep(t) \/ (t \in Pages /\ (PinRemove(t) \/ RegisterPin(t, u)))
    PROVE  PinCovered'
  <1> USE DEF locals
  <1>0. /\ t \in Threads /\ t \notin Writers
        /\ pc \in [Threads -> {"idle"} \cup WriterLabels \cup LoopLabels
                                \cup ResetLabels \cup PageLabels]
        /\ url \in [Threads -> Urls \cup {Nobody}]
    BY ThreadsAssumption DEF TypeOK, Threads
  <1>1. ASSUME NEW l, pc' = [pc EXCEPT ![t] = l], UNCHANGED <<small, slot>>,
               \A v \in Threads \ {t} : url'[v] = url[v]
        PROVE  \A v \in Threads \ {t} : PinGuard(v) => PinGuard(v)' /\ url'[v] = url[v]
    <2>1. \A v \in Threads \ {t} : pc'[v] = pc[v]
      BY <1>0, <1>1
    <2>2. QED
      BY ZenonT(60), <1>1, <2>1 DEF PinGuard
  <1>2. CASE ClearDedupMarks(t)
    BY ZenonT(60), <1>2, PinQuiet DEF ClearDedupMarks, Goto
  <1>3. CASE ClearDedupGen(t)
    BY ZenonT(60), <1>3, PinQuiet DEF ClearDedupGen, Goto
  <1>4. CASE ClearDedupCooldown(t)
    <2>1. /\ pc[t] = "cdCooldown" /\ \E l : pc' = [pc EXCEPT ![t] = l]
          /\ url' = url \/ url' = [url EXCEPT ![t] = Nobody]
          /\ UNCHANGED <<cache, integrity_pinned_urls, small, slot>>
      BY Zenon, <1>4 DEF ClearDedupCooldown, Goto
    <2>2. \A v \in Threads \ {t} : url'[v] = url[v]
      BY <1>0, <2>1
    <2>3. QED
      BY ZenonT(60), <2>1, <2>2, PinQuiet
  <1>5. CASE t \in Pages /\ PinRemove(t)
    <2>1. /\ UNCHANGED <<url, small, slot, integrity_pinned_urls>>
          /\ \E l : pc' = [pc EXCEPT ![t] = l]
          /\ cache' = {x \in cache : x.url # url[t]}
      BY Zenon, <1>5 DEF PinRemove, Remove, Goto
    <2>2. cache' \subseteq cache /\ \A e \in cache' : e.url # url[t]
      BY Zenon, <2>1
    <2>3. \A v \in Threads : PinGuard(v) =>
               \/ PinGuard(v)' /\ url'[v] = url[v]
               \/ \A e \in cache' : e.url # url[v]
      BY Zenon, <1>1, <2>1, <2>2
    <2>4. QED
      BY Zenon, <2>1, <2>2, <2>3, PinStep
  <1>6. CASE t \in Pages /\ RegisterPin(t, u)
    <2>1. /\ pc' = [pc EXCEPT ![t] = "pinRemove"] /\ pc[t] = "idle"
          /\ url' = [url EXCEPT ![t] = u]
          /\ integrity_pinned_urls' = integrity_pinned_urls \cup {u}
          /\ UNCHANGED <<cache, small, slot>>
      BY Zenon, <1>6 DEF RegisterPin, Goto
    <2>2. /\ \A v \in Threads \ {t} : url'[v] = url[v]
          /\ url'[t] = u /\ pc'[t] = "pinRemove"
      BY <1>0, <2>1
    <2>3. PinGuard(t)' /\ ~PinGuard(t)
      BY <1>0, <1>6, <2>1, <2>2 DEF PinGuard
    <2>4. \A v \in Threads : PinGuard(v) => PinGuard(v)' /\ url'[v] = url[v]
      BY Zenon, <1>1, <2>1, <2>2, <2>3
    <2>5. QED
      BY Zenon, <1>0, <2>1, <2>2, <2>3, <2>4 DEF PinCovered
  <1>7. QED
    BY Zenon, <1>2, <1>3, <1>4, <1>5, <1>6 DEF ClearDedupStep

\* Dispatch, the management API, the serving module and the cache.
LEMMA PinOthers ==
    ASSUME TypeOK, PinCovered, NEW w, NEW u,
           \/ w \in Writers /\ DispatchNotification(w, u)
           \/ ApiRequest(u) \/ Record(u)
           \/ LoopStep \/ ResetBump \/ Evict \/ UNCHANGED vars
    PROVE  PinCovered'
  <1> USE DEF locals
  <1>0. /\ Loop \in Threads /\ Loop \notin Writers \cup Pages
        /\ w \in Writers => w \in Threads /\ w \notin Pages
        /\ pc \in [Threads -> {"idle"} \cup WriterLabels \cup LoopLabels
                                \cup ResetLabels \cup PageLabels]
        /\ url \in [Threads -> Urls \cup {Nobody}]
    BY ThreadsAssumption DEF TypeOK, Threads
  <1>1. ASSUME NEW x, NEW l, NEW k, url' = [url EXCEPT ![x] = k], x = Loop,
               pc' = [pc EXCEPT ![x] = l], UNCHANGED <<small, slot>>
        PROVE  \A v \in Threads : PinGuard(v) => PinGuard(v)' /\ url'[v] = url[v]
    <2>1. \A v \in Threads \ {Loop} : pc'[v] = pc[v] /\ url'[v] = url[v]
      BY <1>0, <1>1
    <2>2. QED
      BY ZenonT(60), <1>0, <1>1, <2>1 DEF PinGuard
  <1>2. ASSUME UNCHANGED <<pc, url, small, slot, integrity_pinned_urls>>,
               \A e \in cache' : e \in cache \/ ~e.opt
        PROVE  PinCovered'
    <2>1. \A v \in Threads : PinGuard(v) => PinGuard(v)' /\ url'[v] = url[v]
      BY Zenon, <1>2 DEF PinGuard
    <2>2. QED
      BY Zenon, <1>2, <2>1, PinStep
  <1>3. CASE w \in Writers /\ DispatchNotification(w, u)
    <2>1. /\ pc' = [pc EXCEPT ![w] = "dedup", ![Loop] = "idle"] /\ pc[w] = "idle"
          /\ url' = [url EXCEPT ![w] = u, ![Loop] = Nobody]
          /\ UNCHANGED <<cache, integrity_pinned_urls, small, slot>>
      BY Zenon, <1>3 DEF DispatchNotification
    <2>2. \A v \in Threads \ {Loop, w} : pc'[v] = pc[v] /\ url'[v] = url[v]
      BY <1>0, <2>1
    <2>3. ~PinGuard(w) /\ ~PinGuard(Loop)
      BY <1>0, <2>1 DEF PinGuard
    <2>4. \A v \in Threads : PinGuard(v) => PinGuard(v)' /\ url'[v] = url[v]
      BY ZenonT(60), <2>1, <2>2, <2>3 DEF PinGuard
    <2>5. QED
      BY Zenon, <2>1, <2>4, PinStep
  <1>4. CASE ApiRequest(u)
    <2>1. /\ url' = [url EXCEPT ![Loop] = u] /\ \E l : pc' = [pc EXCEPT ![Loop] = l]
          /\ UNCHANGED <<cache, integrity_pinned_urls, small, slot>>
      BY Zenon, <1>4 DEF ApiRequest, Goto
    <2>2. QED
      BY Zenon, <1>1, <2>1, PinStep
  <1>5. CASE Record(u)
    <2>1. Entry(u, "identity", epoch[u], FALSE).opt = FALSE
      BY DEF Entry
    <2>2. \A e \in cache' : e \in cache \/ ~e.opt
      BY Zenon, <1>5, <2>1 DEF Record, Store
    <2>3. QED
      BY Zenon, <1>2, <1>5, <2>2 DEF Record
  <1>6. CASE LoopStep \/ ResetBump
    <2>1. /\ url' = url \/ url' = [url EXCEPT ![Loop] = Nobody]
          /\ \E l : pc' = [pc EXCEPT ![Loop] = l]
          /\ cache' = cache \/ cache' = {}
          /\ UNCHANGED <<integrity_pinned_urls, small, slot>>
      BY ZenonT(60), <1>6 DEF LoopStep, RedispatchSkipped, ResetVolume, ResetMarks,
         ResetCooldown, ResetBump, Goto
    <2>2. url' = [url EXCEPT ![Loop] = url'[Loop]]
      BY <1>0, <2>1
    <2>3. \A v \in Threads : PinGuard(v) => PinGuard(v)' /\ url'[v] = url[v]
      BY Zenon, <1>1, <2>1, <2>2
    <2>4. QED
      BY Zenon, <2>1, <2>3, PinStep
  <1>7. CASE Evict \/ UNCHANGED vars
    BY Zenon, <1>2, <1>7 DEF Evict, vars
  <1>8. QED
    BY Zenon, <1>3, <1>4, <1>5, <1>6, <1>7

\* SRI (issue #656), for any number of jobs, warm-ups, pages and keys: a
\* minified copy sits in the identity slot of a pinned key only while its
\* writer has yet to re-check the pin, or a Remove of the key is to come.
THEOREM PinnedStaysOriginal == Spec => []PinnedIdentityOriginal
  <1>1. Init => OptIsSmall /\ PinCovered
    BY DEF Init, OptIsSmall, PinCovered
  <1>2. TypeOK /\ OptIsSmall /\ PinCovered /\ [Next]_vars => (OptIsSmall /\ PinCovered)'
    <2> SUFFICES ASSUME TypeOK, OptIsSmall, PinCovered, [Next]_vars
                 PROVE  OptIsSmall' /\ PinCovered'
      OBVIOUS
    <2>1. OptIsSmall'
      BY OptIsSmallNext
    <2>2. ASSUME NEW w \in Writers, WriterStep(w) PROVE PinCovered'
      BY Zenon, <2>2, PinQuietWriter, PinWriter
    <2>3. PinCovered'
      BY ZenonT(60), <2>2, PinInvalidate, PinPages, PinOthers DEF Next
    <2>4. QED
      BY <2>1, <2>3
  <1>3. TypeOK /\ PinCovered => PinnedIdentityOriginal
    BY DEF PinCovered, PinGuard, PinnedIdentityOriginal, Active, TypeOK, Threads
  <1>4. QED
    BY <1>1, <1>2, <1>3, TypeCorrect, PTL DEF Spec
=============================================================================
