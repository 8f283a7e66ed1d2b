---------------------- MODULE VariantWriterFenceProofs ----------------------
(***************************************************************************)
(* Purged content stays purged: the proof that VariantWriter's fence keeps *)
(* NoResurrection, by the inductive invariant TypeOK /\ FenceInv.          *)
(***************************************************************************)
EXTENDS VariantWriterProofs

\* The fence holds before the first job.
LEMMA FenceInit == Init => FenceInv
  BY ThreadsAssumption
  DEF Init, FenceInv, MutexInv, BaselineInv, RemoveFenced, ResetFenced,
      StaleReaderFenced, NoResurrection, HasRead, Undoing, Threads, Writers

-----------------------------------------------------------------------------
(* Steps that leave the fence alone.                                        *)

\* A step of one thread that changes no generation, baseline, epoch or mutex,
\* adds nothing to the cache, reads nothing, and drops no pending undo.
LEMMA QuietStep ==
    ASSUME TypeOK, FenceInv, NEW t \in Threads, NEW l,
           pc' = [pc EXCEPT ![t] = l],
           pc[t] \notin {"remove", "bump", "rsVolume"},
           l \notin {"remove", "rsVolume"},
           t \in Writers /\ pc[t] = "post" /\ WasPurgedSinceDispatch(t) => l = "bump",
           \A v \in Writers : url'[v] = url[v],
           \A v \in Threads \ {t} : url'[v] = url[v],
           UNCHANGED <<epoch, gens, mutex, url_gen, all_gen, erased>>,
           cache' \subseteq cache,
           \A w \in Writers : HasRead(w)' => HasRead(w) /\ src'[w] = src[w]
    PROVE  FenceInv'
  <1> USE ThreadsAssumption DEF TypeOK, Threads, gens
  <1> USE DEF FenceInv
  <1>1. MutexInv'
    BY DEF MutexInv
  <1>2. \A u \in Urls \cup {Nobody} : Active(u)' = Active(u)
    BY DEF Active
  <1>3. \A w \in Writers : WasPurgedSinceDispatch(w)' = WasPurgedSinceDispatch(w)
    BY DEF WasPurgedSinceDispatch, CurrentGen
  <1>4. \A w \in Writers : PendingUndo(w) => PendingUndo(w)'
    BY <1>3 DEF PendingUndo
  <1>5. BaselineInv'
    BY DEF BaselineInv, CurrentGen
  <1>6. RemoveFenced'
    BY <1>2, <1>3 DEF RemoveFenced, Active
  <1>7. ResetFenced'
    BY DEF ResetFenced
  <1>8. StaleReaderFenced'
    BY ZenonT(60), <1>2, <1>3, <1>4 DEF StaleReaderFenced, Active
  <1>9. NoResurrection'
    <2> SUFFICES ASSUME NEW e \in cache', Stale(e)', e.url \notin erased'
                 PROVE  \/ \E w \in Active(e.url)' : PendingUndo(w)'
                        \/ \E v \in Threads : pc'[v] = "remove" /\ url'[v] = e.url
      BY DEF NoResurrection
    <2>1. e \in cache /\ e.url \in Urls /\ Stale(e) /\ e.url \notin erased
      BY ZenonT(60) DEF Stale
    <2>2. CASE \E w \in Active(e.url) : PendingUndo(w)
      BY ZenonT(60), <1>2, <1>4, <2>1, <2>2 DEF Active
    <2>3. CASE \E v \in Threads : pc[v] = "remove" /\ url[v] = e.url
      BY ZenonT(60), <2>3
    <2>4. QED
      BY ZenonT(60), <2>1, <2>2, <2>3 DEF NoResurrection
  <1>10. QED
    BY <1>1, <1>5, <1>6, <1>7, <1>8, <1>9

\* The job steps around the writes leave the fence alone.
LEMMA FenceQuietWriter ==
    ASSUME TypeOK, FenceInv, NEW w \in Writers,
           \/ DedupLookup(w) \/ DedupFamilyCheck(w) \/ DedupHeal(w)
           \/ CooldownCheck(w) \/ PinCheck(w)
           \/ RepinCheck(w) \/ RepinRemove(w)
           \/ MarkVariantProcessedCheck(w) \/ MarkVariantProcessedInsert(w)
           \/ MarkCopyWrittenCheck(w) \/ MarkCopyWrittenInsert(w)
           \/ RecordSourceHashCheck(w) \/ RecordSourceHashExists(w)
           \/ RecordSourceHashWrite(w) \/ EndWithCooldown(w)
    PROVE  FenceInv'
  <1> USE DEF Goto, gens, marks, locals, Threads
  <1>0. /\ w \in Threads
        /\ pc \in [Threads -> {"idle"} \cup WriterLabels \cup LoopLabels
                                \cup ResetLabels \cup PageLabels]
        /\ ret \in [Writers -> {"end", "copyCheck", "check"}]
    BY ZenonT(60) DEF TypeOK
  <1>1. CASE DedupLookup(w)
    <2>1. PICK l \in {"cooldown", "family", "familyCopy"} : pc' = [pc EXCEPT ![w] = l]
      BY ZenonT(60), <1>1 DEF DedupLookup
    <2>2. \A v \in Writers : HasRead(v)' => HasRead(v) /\ src'[v] = src[v]
      BY <1>0, <1>1, <2>1 DEF DedupLookup, HasRead, Undoing
    <2>3. QED
      BY ZenonT(60), <1>0, <1>1, <2>1, <2>2, QuietStep DEF DedupLookup
  <1>2. CASE DedupFamilyCheck(w)
    <2>1. PICK l \in {"end", "heal"} : pc' = [pc EXCEPT ![w] = l]
      BY <1>2 DEF DedupFamilyCheck
    <2>2. \A v \in Writers : HasRead(v)' => HasRead(v) /\ src'[v] = src[v]
      BY ZenonT(60), <1>0, <1>2, <2>1 DEF DedupFamilyCheck, HasRead, Undoing
    <2>3. QED
      BY ZenonT(60), <1>0, <1>2, <2>1, <2>2, QuietStep DEF DedupFamilyCheck
  <1>3. CASE DedupHeal(w)
    <2>1. PICK l \in {"cooldown"} : pc' = [pc EXCEPT ![w] = l]
      BY <1>3 DEF DedupHeal
    <2>2. \A v \in Writers : HasRead(v)' => HasRead(v) /\ src'[v] = src[v]
      BY <1>0, <1>3, <2>1 DEF DedupHeal, HasRead, Undoing
    <2>3. QED
      BY ZenonT(60), <1>0, <1>3, <2>1, <2>2, QuietStep DEF DedupHeal
  <1>4. CASE CooldownCheck(w)
    <2>1. PICK l \in {"end", "pinned"} : pc' = [pc EXCEPT ![w] = l]
      BY SMTT(60), <1>4 DEF CooldownCheck
    <2>2. \A v \in Writers : HasRead(v)' => HasRead(v) /\ src'[v] = src[v]
      BY <1>0, <1>4, <2>1 DEF CooldownCheck, HasRead, Undoing
    <2>3. QED
      BY ZenonT(60), <1>0, <1>4, <2>1, <2>2, QuietStep DEF CooldownCheck
  <1>5. CASE PinCheck(w)
    <2>1. PICK l \in {"markCheck", "read"} : pc' = [pc EXCEPT ![w] = l]
      BY <1>5 DEF PinCheck
    <2>2. \A v \in Writers : HasRead(v)' => HasRead(v) /\ src'[v] = src[v]
      BY <1>0, <1>5, <2>1 DEF PinCheck, HasRead, Undoing
    <2>3. QED
      BY ZenonT(60), <1>0, <1>5, <2>1, <2>2, QuietStep DEF PinCheck
  <1>6. CASE RepinCheck(w)
    <2>1. PICK l \in {"unpin", "markCheck"} : pc' = [pc EXCEPT ![w] = l]
      BY ZenonT(60), <1>6 DEF RepinCheck
    <2>2. \A v \in Writers : HasRead(v)' => HasRead(v) /\ src'[v] = src[v]
      BY <1>0, <1>6, <2>1 DEF RepinCheck, HasRead, Undoing
    <2>3. QED
      BY ZenonT(60), <1>0, <1>6, <2>1, <2>2, QuietStep DEF RepinCheck
  <1>7. CASE RepinRemove(w)
    <2>1. PICK l \in {"end"} : pc' = [pc EXCEPT ![w] = l]
      BY ZenonT(60), <1>7 DEF RepinRemove, Remove
    <2>2. \A v \in Writers : HasRead(v)' => HasRead(v) /\ src'[v] = src[v]
      BY ZenonT(60), <1>0, <1>7, <2>1 DEF RepinRemove, Remove, HasRead, Undoing
    <2>3. QED
      BY ZenonT(60), <1>0, <1>7, <2>1, <2>2, QuietStep DEF RepinRemove, Remove
  <1>8. CASE MarkVariantProcessedCheck(w)
    <2>1. PICK l \in {ret[w], "markInsert"} : pc' = [pc EXCEPT ![w] = l]
      BY ZenonT(60), <1>8 DEF MarkVariantProcessedCheck
    <2>2. \A v \in Writers : HasRead(v)' => HasRead(v) /\ src'[v] = src[v]
      BY ZenonT(60), <1>0, <1>8, <2>1 DEF MarkVariantProcessedCheck, HasRead, Undoing
    <2>3. QED
      BY ZenonT(60), <1>0, <1>8, <2>1, <2>2, QuietStep DEF MarkVariantProcessedCheck
  <1>9. CASE MarkVariantProcessedInsert(w)
    <2>1. PICK l \in {ret[w]} : pc' = [pc EXCEPT ![w] = l]
      BY ZenonT(60), <1>9 DEF MarkVariantProcessedInsert
    <2>2. \A v \in Writers : HasRead(v)' => HasRead(v) /\ src'[v] = src[v]
      BY ZenonT(60), <1>0, <1>9, <2>1 DEF MarkVariantProcessedInsert, HasRead, Undoing
    <2>3. QED
      BY ZenonT(60), <1>0, <1>9, <2>1, <2>2, QuietStep DEF MarkVariantProcessedInsert
  <1>10. CASE MarkCopyWrittenCheck(w)
    <2>1. PICK l \in {"check", "copyInsert"} : pc' = [pc EXCEPT ![w] = l]
      BY ZenonT(60), <1>10 DEF MarkCopyWrittenCheck
    <2>2. \A v \in Writers : HasRead(v)' => HasRead(v) /\ src'[v] = src[v]
      BY <1>0, <1>10, <2>1 DEF MarkCopyWrittenCheck, HasRead, Undoing
    <2>3. QED
      BY ZenonT(60), <1>0, <1>10, <2>1, <2>2, QuietStep DEF MarkCopyWrittenCheck
  <1>11. CASE MarkCopyWrittenInsert(w)
    <2>1. PICK l \in {"check"} : pc' = [pc EXCEPT ![w] = l]
      BY ZenonT(60), <1>11 DEF MarkCopyWrittenInsert
    <2>2. \A v \in Writers : HasRead(v)' => HasRead(v) /\ src'[v] = src[v]
      BY ZenonT(60), <1>0, <1>11, <2>1 DEF MarkCopyWrittenInsert, HasRead, Undoing
    <2>3. QED
      BY ZenonT(60), <1>0, <1>11, <2>1, <2>2, QuietStep DEF MarkCopyWrittenInsert
  <1>12. CASE RecordSourceHashCheck(w)
    <2>1. PICK l \in {"hashExists", "clearCooldown"} : pc' = [pc EXCEPT ![w] = l]
      BY ZenonT(60), <1>12 DEF RecordSourceHashCheck
    <2>2. \A v \in Writers : HasRead(v)' => HasRead(v) /\ src'[v] = src[v]
      BY ZenonT(60), <1>0, <1>12, <2>1 DEF RecordSourceHashCheck, HasRead, Undoing
    <2>3. QED
      BY ZenonT(60), <1>0, <1>12, <2>1, <2>2, QuietStep DEF RecordSourceHashCheck
  <1>13. CASE RecordSourceHashExists(w)
    <2>1. PICK l \in {"hashWrite", "clearCooldown"} : pc' = [pc EXCEPT ![w] = l]
      BY ZenonT(60), <1>13 DEF RecordSourceHashExists
    <2>2. \A v \in Writers : HasRead(v)' => HasRead(v) /\ src'[v] = src[v]
      BY ZenonT(60), <1>0, <1>13, <2>1 DEF RecordSourceHashExists, HasRead, Undoing
    <2>3. QED
      BY ZenonT(60), <1>0, <1>13, <2>1, <2>2, QuietStep DEF RecordSourceHashExists
  <1>14. CASE RecordSourceHashWrite(w)
    <2>1. PICK l \in {"clearCooldown"} : pc' = [pc EXCEPT ![w] = l]
      BY ZenonT(60), <1>14 DEF RecordSourceHashWrite
    <2>2. \A v \in Writers : HasRead(v)' => HasRead(v) /\ src'[v] = src[v]
      BY ZenonT(60), <1>0, <1>14, <2>1 DEF RecordSourceHashWrite, HasRead, Undoing
    <2>3. QED
      BY ZenonT(60), <1>0, <1>14, <2>1, <2>2, QuietStep DEF RecordSourceHashWrite
  <1>15. CASE EndWithCooldown(w)
    <2>1. PICK l \in {"end"} : pc' = [pc EXCEPT ![w] = l]
      BY ZenonT(60), <1>15 DEF EndWithCooldown
    <2>2. \A v \in Writers : HasRead(v)' => HasRead(v) /\ src'[v] = src[v]
      BY <1>0, <1>15, <2>1 DEF EndWithCooldown, HasRead, Undoing
    <2>3. QED
      BY ZenonT(60), <1>0, <1>15, <2>1, <2>2, QuietStep DEF EndWithCooldown
  <1>16. QED
    BY <1>1, <1>2, <1>3, <1>4, <1>5, <1>6, <1>7, <1>8, <1>9, <1>10, <1>11, <1>12, <1>13, <1>14, <1>15

\* The two fence checks around a write, and the end of a job's own undo.
LEMMA FenceChecks ==
    ASSUME TypeOK, FenceInv, NEW w \in Writers,
           \/ WriteVariantCheck(w) \/ WriteVariantPostCheck(w)
           \/ ClearUrlMarks(w) \/ ClearUrlCooldown(w)
    PROVE  FenceInv'
  <1> USE DEF Goto, gens, marks, locals, Threads
  <1>0. /\ w \in Threads /\ w # Loop
        /\ pc \in [Threads -> {"idle"} \cup WriterLabels \cup LoopLabels
                                \cup ResetLabels \cup PageLabels]
    BY ThreadsAssumption DEF TypeOK
  <1>1. ASSUME NEW ok \in BOOLEAN, AfterWrite(w, ok)
        PROVE  \E l \in {"markCheck", "repin", "failCooldown", "check"} :
                   pc' = [pc EXCEPT ![w] = l]
    BY ZenonT(60), <1>1, AfterWriteEffect
  <1>2. CASE WriteVariantCheck(w)
    <2>1. PICK l \in {"markCheck", "repin", "failCooldown", "check", "commit"} :
               pc' = [pc EXCEPT ![w] = l]
      BY ZenonT(60), <1>1, <1>2 DEF WriteVariantCheck
    <2>2. \A v \in Writers : HasRead(v)' => HasRead(v) /\ src'[v] = src[v]
      BY <1>0, <1>2, <2>1 DEF WriteVariantCheck, HasRead, Undoing
    <2>3. QED
      BY ZenonT(60), <1>0, <1>2, <2>1, <2>2, QuietStep DEF WriteVariantCheck
  <1>3. CASE WriteVariantPostCheck(w)
    <2>1. PICK l \in {"markCheck", "repin", "failCooldown", "check", "bump"} :
               /\ pc' = [pc EXCEPT ![w] = l]
               /\ WasPurgedSinceDispatch(w) => l = "bump"
      BY ZenonT(60), <1>1, <1>3 DEF WriteVariantPostCheck
    <2>2. \A v \in Writers : HasRead(v)' => HasRead(v) /\ src'[v] = src[v]
      BY <1>0, <1>3, <2>1 DEF WriteVariantPostCheck, HasRead, Undoing
    <2>3. QED
      BY ZenonT(60), <1>0, <1>3, <2>1, <2>2, QuietStep DEF WriteVariantPostCheck
  <1>4. CASE ClearUrlMarks(w)
    <2>1. pc' = [pc EXCEPT ![w] = "clearUrlCooldown"]
      BY <1>4 DEF ClearUrlMarks
    <2>2. \A v \in Writers : HasRead(v)' => HasRead(v) /\ src'[v] = src[v]
      BY <1>0, <1>4, <2>1 DEF ClearUrlMarks, HasRead, Undoing
    <2>3. QED
      BY ZenonT(60), <1>0, <1>4, <2>1, <2>2, QuietStep DEF ClearUrlMarks
  <1>5. CASE ClearUrlCooldown(w)
    <2>1. PICK l \in {"markCheck", "repin", "failCooldown", "check"} :
               pc' = [pc EXCEPT ![w] = l]
      BY ZenonT(60), <1>0, <1>1, <1>5 DEF ClearUrlCooldown
    <2>2. \A v \in Writers : HasRead(v)' => HasRead(v) /\ src'[v] = src[v]
      BY <1>0, <1>5, <2>1 DEF ClearUrlCooldown, HasRead, Undoing
    <2>3. UNCHANGED url
      BY ZenonT(60), <1>0, <1>5 DEF ClearUrlCooldown
    <2>4. QED
      BY ZenonT(60), <1>0, <1>5, <2>1, <2>2, <2>3, QuietStep DEF ClearUrlCooldown
  <1>6. QED
    BY <1>2, <1>3, <1>4, <1>5

\* The steps of the loop and of pages that touch no generation.
LEMMA FenceQuietOthers ==
    ASSUME TypeOK, FenceInv, NEW t \in Pages \cup {Loop}, NEW u,
           \/ t = Loop /\ (ClearUrlMarks(t) \/ ClearUrlCooldown(t))
           \/ ClearDedupMarks(t) \/ ClearDedupCooldown(t)
           \/ t = Loop /\ (RedispatchSkipped \/ ResetMarks \/ ResetCooldown)
           \/ t = Loop /\ ApiRequest(u)
           \/ t \in Pages /\ (RegisterPin(t, u) \/ PinRemove(t))
    PROVE  FenceInv'
  <1> USE DEF gens, marks, locals, Threads
  <1>0. /\ t \in Threads /\ t \notin Writers
        /\ pc \in [Threads -> {"idle"} \cup WriterLabels \cup LoopLabels
                                \cup ResetLabels \cup PageLabels]
        /\ url \in [Threads -> Urls \cup {Nobody}]
    BY ZenonT(60), ThreadsAssumption DEF TypeOK
  <1>1. PICK l \in {"clearUrlCooldown", "idle", "cdGen", "redispatch",
                    "rsCooldown", "bump", "cdMarks", "pinRemove"} :
             pc' = [pc EXCEPT ![t] = l]
    BY ZenonT(60) DEF Goto, ClearUrlMarks, ClearUrlCooldown, ClearDedupMarks,
           ClearDedupCooldown, RedispatchSkipped, ResetMarks, ResetCooldown,
           ApiRequest, RegisterPin, PinRemove
  <1>2. pc[t] \in {"clearMarks", "clearUrlCooldown", "cdMarks", "cdCooldown",
                   "redispatch", "rsMarks", "rsCooldown", "idle", "pinRemove"}
    BY ZenonT(60) DEF ClearUrlMarks, ClearUrlCooldown, ClearDedupMarks,
           ClearDedupCooldown, RedispatchSkipped, ResetMarks, ResetCooldown,
           ApiRequest, RegisterPin, PinRemove
  <1>3. /\ \A v \in Writers : url'[v] = url[v]
        /\ \A v \in Threads \ {t} : url'[v] = url[v]
    <2>1. \E k \in {url[t], Nobody, u} : url' = [url EXCEPT ![t] = k]
      BY ZenonT(60), <1>0 DEF ClearUrlMarks, ClearUrlCooldown, ClearDedupMarks,
           ClearDedupCooldown, RedispatchSkipped, ResetMarks, ResetCooldown,
           ApiRequest, RegisterPin, PinRemove
    <2>2. QED
      BY <1>0, <2>1
  <1>4. /\ UNCHANGED <<epoch, gens, mutex, url_gen, all_gen, erased, src, ret>>
        /\ cache' \subseteq cache
    BY ZenonT(60) DEF ClearUrlMarks, ClearUrlCooldown, ClearDedupMarks,
           ClearDedupCooldown, RedispatchSkipped, ResetMarks, ResetCooldown,
           ApiRequest, RegisterPin, PinRemove, Remove
  <1>5. \A w \in Writers : HasRead(w)' => HasRead(w) /\ src'[w] = src[w]
    BY <1>0, <1>1, <1>4 DEF HasRead
  <1>6. QED
    BY ZenonT(60), <1>0, <1>1, <1>2, <1>3, <1>4, <1>5, QuietStep

-----------------------------------------------------------------------------
(* Steps that change the cache, the epochs or the generations.              *)

\* Recording a fetched original and evicting entries add no purged content.
LEMMA FenceCacheOnly ==
    ASSUME TypeOK, FenceInv, Evict \/ \E u \in Urls : Record(u)
    PROVE  FenceInv'
  <1> USE DEF gens, marks, locals, Threads
  <1>1. UNCHANGED <<epoch, gens, mutex, url_gen, all_gen, erased, src, ret, pc, url>>
    BY ZenonT(60) DEF Evict, Record
  <1>2. \A e \in cache' : e \in cache \/ ~Stale(e)
    <2>1. CASE Evict
      BY <2>1 DEF Evict
    <2>2. ASSUME NEW u \in Urls, Record(u) PROVE \A e \in cache' : e \in cache \/ ~Stale(e)
      <3>1. Entry(u, "identity", epoch[u], FALSE).tag = epoch[u]
            /\ Entry(u, "identity", epoch[u], FALSE).url = u
        BY DEF Entry
      <3>2. ~Stale(Entry(u, "identity", epoch[u], FALSE))
        <4>1. epoch[u] \in Nat
          BY DEF TypeOK
        <4>2. ~(epoch[u] < epoch[u])
          BY SMTT(60), <4>1
        <4>3. QED
          BY ZenonT(60), <3>1, <4>2 DEF Stale
      <3>3. QED
        BY ZenonT(60), <2>2, <3>2 DEF Record, Store
    <2>3. QED
      BY <2>1, <2>2
  <1>3. NoResurrection'
    BY ZenonT(60), <1>1, <1>2 DEF FenceInv, NoResurrection, Stale, Active, PendingUndo,
                      WasPurgedSinceDispatch, CurrentGen
  <1>4. MutexInv' /\ BaselineInv' /\ ResetFenced'
    BY ZenonT(60), <1>1 DEF FenceInv, MutexInv, BaselineInv, ResetFenced, CurrentGen
  <1>5. RemoveFenced'
    BY ZenonT(60), <1>1 DEF FenceInv, RemoveFenced, Active, WasPurgedSinceDispatch, CurrentGen
  <1>6. StaleReaderFenced'
    BY ZenonT(60), <1>1 DEF FenceInv, StaleReaderFenced, HasRead, Active, PendingUndo,
                WasPurgedSinceDispatch, CurrentGen
  <1>7. QED
    BY <1>3, <1>4, <1>5, <1>6 DEF FenceInv

\* Reading the original: a purged source is still in the cache only while an
\* undo or a Remove of its key is to come, and each fences the reader.
LEMMA FenceReadOriginal ==
    ASSUME TypeOK, FenceInv, NEW w \in Writers, ReadOriginal(w)
    PROVE  FenceInv'
  <1> USE DEF gens, marks, locals
  <1>0. /\ w \in Threads
        /\ pc \in [Threads -> {"idle"} \cup WriterLabels \cup LoopLabels
                                \cup ResetLabels \cup PageLabels]
        /\ src \in [Writers -> Nat] /\ ret \in [Writers -> {"end", "copyCheck", "check"}]
    BY ZenonT(60) DEF TypeOK, Threads
  <1>1. PICK l \in {"end", "markCheck", "check"} : pc' = [pc EXCEPT ![w] = l]
    BY ZenonT(60) DEF ReadOriginal, Goto
  <1>2. /\ UNCHANGED <<cache, epoch, gens, mutex, url, url_gen, all_gen, erased>>
        /\ pc[w] = "read"
        /\ \A v \in Writers \ {w} : src'[v] = src[v] /\ ret'[v] = ret[v]
    BY ZenonT(60), <1>0 DEF ReadOriginal
  <1>3. HasRead(w)' => \E e \in cache : e.url = url[w] /\ src'[w] = e.tag
    BY ZenonT(60), <1>0, <1>1 DEF ReadOriginal, HasRead, Undoing, Goto
  <1>4. \A v \in Writers : /\ WasPurgedSinceDispatch(v)' = WasPurgedSinceDispatch(v)
                           /\ PendingUndo(v)' = PendingUndo(v)
    <2> SUFFICES ASSUME NEW v \in Writers
                 PROVE  /\ WasPurgedSinceDispatch(v)' = WasPurgedSinceDispatch(v)
                        /\ PendingUndo(v)' = PendingUndo(v)
      OBVIOUS
    <2>1. WasPurgedSinceDispatch(v)' = WasPurgedSinceDispatch(v)
      BY ZenonT(60), <1>2 DEF WasPurgedSinceDispatch, CurrentGen
    <2>2. CASE v # w
      <3>1. pc'[v] = pc[v]
        BY ZenonT(60), <1>0, <1>1, <2>2 DEF Threads
      <3>2. QED
        BY Zenon, <2>1, <3>1 DEF PendingUndo
    <2>3. CASE v = w
      <3>1. pc'[v] = l /\ pc[v] = "read"
        BY ZenonT(60), <1>0, <1>1, <1>2, <2>3
      <3>2. QED
        BY SMTT(60), <2>1, <3>1 DEF PendingUndo
    <2>4. QED
      BY Zenon, <2>1, <2>2, <2>3
  <1>5. \A v \in Threads : pc'[v] = "remove" <=> pc[v] = "remove"
    BY ZenonT(60), <1>0, <1>1, <1>2
  <1>6. pc'[Loop] = "rsVolume" <=> pc[Loop] = "rsVolume"
    BY ZenonT(60), <1>0, <1>1, <1>2 DEF Threads
  <1>7. MutexInv' /\ BaselineInv' /\ ResetFenced'
    BY ZenonT(60), <1>2, <1>5, <1>6 DEF FenceInv, MutexInv, BaselineInv, ResetFenced, CurrentGen
  <1>8. RemoveFenced' /\ NoResurrection'
    BY ZenonT(60), <1>2, <1>4, <1>5 DEF FenceInv, RemoveFenced, NoResurrection, Active, Stale
  <1>9. StaleReaderFenced'
    <2> SUFFICES ASSUME NEW v \in Writers, HasRead(v)',
                        url[v] \in Urls \ erased, src'[v] < epoch[url[v]]
                 PROVE  \/ WasPurgedSinceDispatch(v)
                        \/ \E x \in Active(url[v]) : PendingUndo(x)
      BY ZenonT(60), <1>2, <1>4 DEF StaleReaderFenced, Active
    <2>1. CASE v = w
      <3>1. PICK e \in cache : e.url = url[w] /\ src'[w] = e.tag
        BY <1>3, <2>1
      <3>2. Stale(e) /\ e.url \notin erased
        BY ZenonT(60), <2>1, <3>1 DEF Stale
      <3>3. CASE \E t \in Threads : pc[t] = "remove" /\ url[t] = e.url
        BY ZenonT(60), <2>1, <3>1, <3>2, <3>3 DEF FenceInv, RemoveFenced, Active
      <3>4. QED
        BY <2>1, <3>1, <3>2, <3>3 DEF FenceInv, NoResurrection
    <2>2. CASE v # w
      <3>1. HasRead(v)
        BY ZenonT(60), <1>0, <1>1, <1>2, <2>2 DEF HasRead, Threads
      <3>2. QED
        BY ZenonT(60), <1>2, <2>2, <3>1 DEF FenceInv, StaleReaderFenced
    <2>3. QED
      BY ZenonT(60), <2>1, <2>2
  <1>10. QED
    BY ZenonT(60), <1>7, <1>8, <1>9 DEF FenceInv

\* Committing a write: a job that commits purged content is fenced, so that
\* its post-commit check will undo it, or another job's undo is to come.
LEMMA FenceCommit ==
    ASSUME TypeOK, FenceInv, NEW w \in Writers, WriteVariantCommit(w)
    PROVE  FenceInv'
  <1> USE DEF gens, marks, locals
  <1>0. /\ w \in Threads
        /\ pc \in [Threads -> {"idle"} \cup WriterLabels \cup LoopLabels
                                \cup ResetLabels \cup PageLabels]
    BY DEF TypeOK, Threads
  <1>1. /\ pc[w] = "commit"
        /\ UNCHANGED <<epoch, gens, mutex, url, url_gen, all_gen, src, ret, erased>>
    BY ZenonT(60) DEF WriteVariantCommit
  <1>2. CASE AfterWrite(w, FALSE) /\ UNCHANGED cache
    <2>1. PICK l \in {"markCheck", "repin", "failCooldown", "check"} :
               pc' = [pc EXCEPT ![w] = l]
      BY ZenonT(60), <1>2, AfterWriteEffect
    <2>2. \A v \in Writers : HasRead(v)' => HasRead(v) /\ src'[v] = src[v]
      BY ZenonT(60), <1>0, <1>1, <2>1 DEF HasRead, Undoing, Threads
    <2>3. QED
      BY ZenonT(60), <1>0, <1>1, <1>2, <2>1, <2>2, QuietStep
  <1>3. CASE /\ Store(Entry(url[w], slot[w], src[w], opt[w]))
             /\ Goto(w, "post")
    <2>1. pc' = [pc EXCEPT ![w] = "post"]
      BY ZenonT(60), <1>3 DEF Goto
    <2>2. \A v \in Writers : /\ WasPurgedSinceDispatch(v)' = WasPurgedSinceDispatch(v)
                             /\ PendingUndo(v) => PendingUndo(v)'
      BY ZenonT(60), <1>0, <1>1, <2>1 DEF WasPurgedSinceDispatch, PendingUndo, CurrentGen, Threads
    <2>3. /\ \A v \in Threads : pc'[v] = "remove" <=> pc[v] = "remove"
          /\ pc'[Loop] = "rsVolume" <=> pc[Loop] = "rsVolume"
      BY ZenonT(60), <1>0, <1>1, <2>1 DEF Threads
    <2>4. MutexInv' /\ BaselineInv' /\ ResetFenced'
      BY ZenonT(60), <1>1, <2>3 DEF FenceInv, MutexInv, BaselineInv, ResetFenced, CurrentGen
    <2>5. RemoveFenced'
      BY ZenonT(60), <1>1, <2>2, <2>3 DEF FenceInv, RemoveFenced, Active
    <2>6. \A v \in Writers : HasRead(v)' => HasRead(v)
      BY ZenonT(60), <1>0, <1>1, <2>1 DEF HasRead, Undoing, Threads
    <2>7. StaleReaderFenced'
      BY ZenonT(60), <1>1, <2>2, <2>6 DEF FenceInv, StaleReaderFenced, Active
    <2>8. NoResurrection'
      <3> SUFFICES ASSUME NEW e \in cache', Stale(e), e.url \notin erased
                   PROVE  \/ \E v \in Active(e.url) : PendingUndo(v)'
                          \/ \E t \in Threads : pc[t] = "remove" /\ url[t] = e.url
        BY ZenonT(60), <1>1, <2>3 DEF NoResurrection, Stale, Active
      <3>1. CASE e \in cache
        BY ZenonT(60), <2>2, <3>1 DEF FenceInv, NoResurrection, Active
      <3>2. CASE e = Entry(url[w], slot[w], src[w], opt[w])
        <4>1. e.url = url[w] /\ e.tag = src[w]
          BY ZenonT(60), <3>2 DEF Entry
        <4>2. url[w] \in Urls \ erased /\ w \in Active(url[w])
          BY ZenonT(60), <1>0, <1>1, <4>1, ThreadsAssumption DEF TypeOK, Placed, Active,
             ResetLabels, Threads
        <4>3. HasRead(w)
          BY ZenonT(60), <1>1 DEF HasRead
        <4>4. CASE WasPurgedSinceDispatch(w)
          BY ZenonT(60), <1>0, <2>1, <2>2, <4>1, <4>2, <4>4 DEF PendingUndo
        <4>5. CASE \E v \in Active(url[w]) : PendingUndo(v)
          BY <2>2, <4>1, <4>5 DEF Active
        <4>6. QED
          BY ZenonT(60), <4>1, <4>2, <4>3, <4>4, <4>5 DEF FenceInv, StaleReaderFenced, Stale
      <3>3. QED
        BY ZenonT(60), <1>3, <3>1, <3>2 DEF Store
    <2>9. QED
      BY ZenonT(60), <2>4, <2>5, <2>7, <2>8 DEF FenceInv
  <1>4. QED
    BY ZenonT(60), <1>2, <1>3 DEF WriteVariantCommit

\* Dispatch: the baseline is captured while no purge is between its bump and
\* its Remove, so the new job is up to date with the generations.
LEMMA FenceDispatch ==
    ASSUME TypeOK, FenceInv, NEW w \in Writers, NEW u \in Urls,
           DispatchNotification(w, u)
    PROVE  FenceInv'
  <1> USE ThreadsAssumption DEF gens, marks, locals, Threads
  <1>0. /\ pc \in [Threads -> {"idle"} \cup WriterLabels \cup LoopLabels
                                \cup ResetLabels \cup PageLabels]
        /\ url \in [Threads -> Urls \cup {Nobody}]
        /\ url_gen \in [Writers -> Nat] /\ all_gen \in [Writers -> Nat]
        /\ purge_all_generation \in Nat /\ CurrentGen(u) \in Nat
        /\ u # Nobody /\ w # Loop /\ Loop \in Threads /\ Loop \notin Writers
    BY DEF TypeOK, CurrentGen
  <1>1. /\ pc[w] = "idle" /\ pc[Loop] \in {"idle", "redispatch"} /\ mutex = Nobody
        /\ pc' = [pc EXCEPT ![w] = "dedup", ![Loop] = "idle"]
        /\ url' = [url EXCEPT ![w] = u, ![Loop] = Nobody]
        /\ url_gen' = [url_gen EXCEPT ![w] = CurrentGen(u)]
        /\ all_gen' = [all_gen EXCEPT ![w] = purge_all_generation]
        /\ UNCHANGED <<cache, epoch, gens, mutex, src, ret, erased>>
    BY ZenonT(60) DEF DispatchNotification, LoopFree
  <1>2. \A t \in Threads : pc[t] # "remove" /\ pc'[t] # "remove"
    BY ZenonT(60), <1>0, <1>1 DEF FenceInv, MutexInv
  <1>3. pc'[Loop] # "rsVolume"
    BY ZenonT(60), <1>0, <1>1
  <1>4. \A v \in Writers \ {w} :
          /\ url'[v] = url[v] /\ pc'[v] = pc[v]
          /\ WasPurgedSinceDispatch(v)' = WasPurgedSinceDispatch(v)
    BY ZenonT(60), <1>0, <1>1 DEF WasPurgedSinceDispatch, CurrentGen
  <1>5. url[w] = Nobody /\ url'[w] = u /\ ~PendingUndo(w) /\ ~HasRead(w)'
    BY ZenonT(60), <1>0, <1>1 DEF TypeOK, Placed, PendingUndo, HasRead, Undoing, WriterLabels,
                      ResetLabels, LoopLabels, PageLabels
  <1>6. MutexInv' /\ RemoveFenced' /\ ResetFenced'
    BY ZenonT(60), <1>0, <1>1, <1>2, <1>3 DEF FenceInv, MutexInv, RemoveFenced, ResetFenced
  <1>7. BaselineInv'
    <2> SUFFICES ASSUME NEW v \in Writers
                 PROVE  /\ all_gen'[v] <= purge_all_generation'
                        /\ url'[v] \in Urls \ erased' /\ all_gen'[v] = purge_all_generation'
                             => url_gen'[v] <= CurrentGen(url[v])'
      BY ZenonT(60) DEF BaselineInv
    <2>1. CASE v = w
      <3>1. /\ url_gen'[w] = CurrentGen(u) /\ all_gen'[w] = purge_all_generation
            /\ purge_all_generation' = purge_all_generation
        BY ZenonT(60), <1>0, <1>1
      <3>2. CurrentGen(url[w])' = CurrentGen(u)
        <4>1. /\ purge_generation' = purge_generation /\ url'[w] = u
              /\ purge_generation_previous' = purge_generation_previous
          BY Zenon, <1>1, <1>5
        <4>2. QED
          BY <4>1 DEF CurrentGen
      <3>3. /\ CurrentGen(u) <= CurrentGen(u)
            /\ purge_all_generation <= purge_all_generation
        BY <1>0
      <3>4. QED
        BY ZenonT(60), <2>1, <3>1, <3>2, <3>3
    <2>2. CASE v # w
      BY ZenonT(60), <1>0, <1>1, <1>4, <2>2 DEF FenceInv, BaselineInv, CurrentGen
    <2>3. QED
      BY ZenonT(60), <2>1, <2>2
  <1>8. \A k \in Urls : \A v \in Active(k) :
            PendingUndo(v) => v \in Active(k)' /\ PendingUndo(v)'
    BY ZenonT(60), <1>0, <1>4, <1>5 DEF Active, PendingUndo
  <1>9. StaleReaderFenced'
    <2> SUFFICES ASSUME NEW v \in Writers, HasRead(v)',
                        url'[v] \in Urls \ erased, src[v] < epoch[url'[v]]
                 PROVE  \/ WasPurgedSinceDispatch(v)'
                        \/ \E x \in Active(url[v])' : PendingUndo(x)'
      BY ZenonT(60), <1>1 DEF StaleReaderFenced
    <2>1. v # w /\ url'[v] = url[v] /\ HasRead(v)
      BY ZenonT(60), <1>1, <1>4, <1>5 DEF HasRead
    <2>2. QED
      BY ZenonT(60), <1>4, <1>8, <2>1 DEF FenceInv, StaleReaderFenced
  <1>10. NoResurrection'
    BY ZenonT(60), <1>1, <1>2, <1>8 DEF FenceInv, NoResurrection, Stale, TypeOK
  <1>11. QED
    BY ZenonT(60), <1>6, <1>7, <1>9, <1>10 DEF FenceInv

\* A job that ends has no undo outstanding.
LEMMA FenceDone ==
    ASSUME TypeOK, FenceInv, NEW w \in Writers, OnNotificationDone(w)
    PROVE  FenceInv'
  <1> USE ThreadsAssumption DEF gens, marks, locals, Threads
  <1>0. /\ pc \in [Threads -> {"idle"} \cup WriterLabels \cup LoopLabels
                                \cup ResetLabels \cup PageLabels]
        /\ url \in [Threads -> Urls \cup {Nobody}]
        /\ url_gen \in [Writers -> Nat] /\ all_gen \in [Writers -> Nat]
        /\ src \in [Writers -> Nat] /\ ret \in [Writers -> {"end", "copyCheck", "check"}]
        /\ purge_all_generation \in Nat
        /\ w # Loop /\ Loop \in Threads /\ Nobody \notin Urls
    BY ZenonT(60) DEF TypeOK
  <1>1. /\ pc[w] = "end"
        /\ pc' = [pc EXCEPT ![w] = "idle"]
        /\ url' = [url EXCEPT ![w] = Nobody]
        /\ url_gen' = [url_gen EXCEPT ![w] = 0]
        /\ all_gen' = [all_gen EXCEPT ![w] = 0]
        /\ src' = [src EXCEPT ![w] = 0]
        /\ ret' = [ret EXCEPT ![w] = "end"]
        /\ UNCHANGED <<cache, epoch, gens, mutex, erased>>
    BY ZenonT(60) DEF OnNotificationDone
  <1>2. /\ \A t \in Threads : pc'[t] = "remove" <=> pc[t] = "remove"
        /\ \A t \in Threads : pc[t] = "remove" => url'[t] = url[t]
        /\ pc'[Loop] = pc[Loop]
    BY ZenonT(60), <1>0, <1>1
  <1>3. \A v \in Writers \ {w} :
          /\ url'[v] = url[v] /\ pc'[v] = pc[v] /\ src'[v] = src[v] /\ ret'[v] = ret[v]
          /\ url_gen'[v] = url_gen[v] /\ all_gen'[v] = all_gen[v]
          /\ WasPurgedSinceDispatch(v)' = WasPurgedSinceDispatch(v)
    BY ZenonT(60), <1>0, <1>1 DEF WasPurgedSinceDispatch, CurrentGen
  <1>4. url'[w] = Nobody /\ ~PendingUndo(w) /\ all_gen'[w] = 0
    BY ZenonT(60), <1>0, <1>1 DEF PendingUndo
  <1>5. \A k \in Urls : \A v \in Active(k) :
            PendingUndo(v) => v \in Active(k)' /\ PendingUndo(v)'
    BY ZenonT(60), <1>3, <1>4 DEF Active, PendingUndo
  <1>6. MutexInv'
    BY ZenonT(60), <1>1, <1>2 DEF FenceInv, MutexInv
  <1>7. BaselineInv'
    BY SMTT(200), <1>0, <1>1, <1>3, <1>4 DEF FenceInv, BaselineInv, CurrentGen
  <1>8. ResetFenced'
    BY <1>0, <1>1, <1>2, <1>3, <1>4 DEF FenceInv, ResetFenced
  <1>9. RemoveFenced'
    <2> SUFFICES ASSUME NEW t \in Threads, pc[t] = "remove", url[t] \notin erased,
                        NEW v \in Active(url[t])'
                 PROVE  WasPurgedSinceDispatch(v)'
      BY SMTT(60), <1>1, <1>2 DEF RemoveFenced
    <2>1. url[t] \in Urls
      BY ZenonT(60) DEF TypeOK, Placed, ResetLabels
    <2>2. v \in Writers \ {w} /\ v \in Active(url[t])
      BY ZenonT(60), <1>0, <1>2, <1>3, <1>4, <2>1 DEF Active
    <2>3. QED
      BY ZenonT(60), <1>3, <2>2 DEF FenceInv, RemoveFenced
  <1>10. StaleReaderFenced'
    <2> SUFFICES ASSUME NEW v \in Writers, HasRead(v)',
                        url'[v] \in Urls \ erased, src'[v] < epoch[url'[v]]
                 PROVE  \/ WasPurgedSinceDispatch(v)'
                        \/ \E x \in Active(url[v])' : PendingUndo(x)'
      BY ZenonT(60), <1>1 DEF StaleReaderFenced
    <2>1. v # w /\ HasRead(v)
      BY ZenonT(60), <1>0, <1>3, <1>4 DEF HasRead
    <2>2. QED
      BY ZenonT(60), <1>3, <1>5, <2>1 DEF FenceInv, StaleReaderFenced
  <1>11. NoResurrection'
    BY ZenonT(60), <1>1, <1>2, <1>5 DEF FenceInv, NoResurrection, Stale, TypeOK
  <1>12. QED
    BY ZenonT(60), <1>6, <1>7, <1>8, <1>9, <1>10, <1>11 DEF FenceInv

-----------------------------------------------------------------------------
(* Bumps, removals and resets.                                              *)

\* BumpPurgeGenerationLocked: the key's generation grows by one, and, rotation
\* or not, every other key with an active job keeps its generation unless it
\* is noted in erased.
LEMMA BumpEffect ==
    ASSUME TypeOK, NEW u \in Urls, BumpPurgeGenerationLocked(u)
    PROVE  /\ CurrentGen(u)' = CurrentGen(u) + 1
           /\ erased \subseteq erased'
           /\ u \in erased' => u \in erased
           /\ \A k \in Urls \ erased' :
                k # u /\ Active(k) # {} => CurrentGen(k)' = CurrentGen(k)
  <1> DEFINE cur == [purge_generation EXCEPT ![u] = CurrentGen(u) + 1]
             prev == [purge_generation_previous EXCEPT
                          ![u] = IF purge_generation[u] = 0 THEN 0 ELSE @]
  <1>1. /\ purge_generation \in [Urls -> Nat]
        /\ purge_generation_previous \in [Urls -> Nat]
        /\ CurrentGen(u) \in Nat
    BY DEF TypeOK, CurrentGen
  <1>2. cur[u] = CurrentGen(u) + 1 /\ cur[u] > 0
    BY <1>1
  <1>3. \A k \in Urls \ {u} : /\ cur[k] = purge_generation[k]
                              /\ prev[k] = purge_generation_previous[k]
    BY <1>1
  <1> HIDE DEF cur, prev
  <1>4. CASE /\ purge_generation' = [k \in Urls |-> 0]
             /\ purge_generation_previous' = cur
             /\ erased' = erased \cup {k \in Urls : /\ cur[k] = 0 /\ prev[k] > 0
                                                    /\ Active(k) # {}}
    <2>1. CurrentGen(u)' = CurrentGen(u) + 1
      <3>1. purge_generation'[u] = 0 /\ purge_generation_previous'[u] = cur[u]
        BY Zenon, <1>4
      <3>2. ~(0 > 0)
        OBVIOUS
      <3>3. QED
        BY Zenon, <1>2, <3>1, <3>2 DEF CurrentGen
    <2>2. erased \subseteq erased' /\ (u \in erased' => u \in erased)
      <3>1. cur[u] # 0
        BY <1>1, <1>2
      <3>2. QED
        BY Zenon, <1>4, <3>1
    <2>3. ASSUME NEW k \in Urls \ erased', k # u, Active(k) # {}
          PROVE  CurrentGen(k)' = CurrentGen(k)
      <3>1. CurrentGen(k)' = cur[k]
        <4>1. purge_generation'[k] = 0 /\ purge_generation_previous'[k] = cur[k]
          BY Zenon, <1>4
        <4>2. ~(0 > 0)
          OBVIOUS
        <4>3. QED
          BY Zenon, <4>1, <4>2 DEF CurrentGen
      <3>2. cur[k] = 0 => prev[k] = 0
        <4>1. prev[k] \in Nat
          BY Zenon, <1>1, <1>3, <2>3
        <4>2. cur[k] = 0 => ~(prev[k] > 0)
          BY Zenon, <1>4, <2>3
        <4>3. QED
          BY <4>1, <4>2
      <3>3. cur[k] = purge_generation[k] /\ prev[k] = purge_generation_previous[k]
        BY Zenon, <1>3, <2>3
      <3>4. purge_generation[k] \in Nat /\ purge_generation_previous[k] \in Nat
        BY <1>1
      <3>5. CurrentGen(k) = cur[k]
        BY <3>2, <3>3, <3>4 DEF CurrentGen
      <3>6. QED
        BY Zenon, <3>1, <3>5
    <2>4. QED
      BY ZenonT(60), <2>1, <2>2, <2>3
  <1>5. CASE /\ purge_generation' = cur
             /\ purge_generation_previous' = prev
             /\ UNCHANGED erased
    BY <1>1, <1>2, <1>3, <1>5 DEF CurrentGen
  <1>6. QED
    BY ZenonT(60), <1>4, <1>5 DEF BumpPurgeGenerationLocked, cur, prev

\* The bump fences every job active on the key.
LEMMA FencePurgeBump ==
    ASSUME TypeOK, FenceInv, NEW t \in Writers \cup {Loop}, PurgeBump(t)
    PROVE  FenceInv'
  <1> USE ThreadsAssumption DEF gens, marks, locals, Threads
  <1>0. /\ pc \in [Threads -> {"idle"} \cup WriterLabels \cup LoopLabels
                                \cup ResetLabels \cup PageLabels]
        /\ url \in [Threads -> Urls \cup {Nobody}]
        /\ url_gen \in [Writers -> Nat] /\ all_gen \in [Writers -> Nat]
        /\ purge_all_generation \in Nat /\ t \in Threads /\ Loop \in Threads
        /\ \A k \in Urls : CurrentGen(k) \in Nat
    BY ZenonT(60) DEF TypeOK, CurrentGen
  <1>1. /\ pc[t] = "bump" /\ mutex = Nobody /\ mutex' = t
        /\ pc' = [pc EXCEPT ![t] = "remove"]
        /\ UNCHANGED <<cache, epoch, purge_all_generation, url, url_gen, all_gen,
                       src, ret>>
    BY ZenonT(60) DEF PurgeBump, Goto
  <1>2. PICK u \in Urls : url[t] = u
    BY ZenonT(60), <1>1 DEF TypeOK, Placed, ResetLabels
  <1>3. /\ CurrentGen(u)' = CurrentGen(u) + 1
        /\ erased \subseteq erased'
        /\ u \in erased' => u \in erased
        /\ \A k \in Urls \ erased' :
             k # u /\ Active(k) # {} => CurrentGen(k)' = CurrentGen(k)
    <2>1. BumpPurgeGenerationLocked(u)
      BY ZenonT(60), <1>2 DEF PurgeBump
    <2>2. QED
      BY ZenonT(60), <2>1, BumpEffect
  <1>4. \A v \in Threads : pc'[v] = "remove" <=> v = t
    BY ZenonT(60), <1>0, <1>1 DEF FenceInv, MutexInv
  <1>5. pc'[Loop] # "rsVolume"
    BY ZenonT(60), <1>0, <1>1 DEF FenceInv, MutexInv
  <1>6. \A v \in Writers : url[v] \in Urls \ erased' /\ url[v] # u =>
            /\ CurrentGen(url[v])' = CurrentGen(url[v])
            /\ WasPurgedSinceDispatch(v)' = WasPurgedSinceDispatch(v)
    BY ZenonT(60), <1>1, <1>3 DEF Active, WasPurgedSinceDispatch, CurrentGen
  <1>7. \A v \in Writers : url[v] = u /\ u \notin erased' =>
            WasPurgedSinceDispatch(v)'
    <2> SUFFICES ASSUME NEW v \in Writers, url[v] = u, u \notin erased'
                 PROVE  WasPurgedSinceDispatch(v)'
      OBVIOUS
    <2>1. /\ all_gen[v] <= purge_all_generation
          /\ all_gen[v] = purge_all_generation => url_gen[v] <= CurrentGen(url[v])
      BY <1>2, <1>3 DEF FenceInv, BaselineInv
    <2>2. WasPurgedSinceDispatch(v)' = \/ CurrentGen(url[v])' > url_gen[v]
                                       \/ purge_all_generation > all_gen[v]
      BY ZenonT(60), <1>1 DEF WasPurgedSinceDispatch, CurrentGen
    <2>3. CurrentGen(url[v])' = CurrentGen(url[v]) + 1
      BY ZenonT(60), <1>1, <1>3 DEF CurrentGen
    <2>4. QED
      BY SMTT(60), <1>0, <1>2, <2>1, <2>2, <2>3
  <1>8. MutexInv' /\ ResetFenced'
    BY ZenonT(60), <1>0, <1>1, <1>4, <1>5 DEF MutexInv, ResetFenced
  <1>9. BaselineInv'
    <2> SUFFICES ASSUME NEW v \in Writers, url[v] \in Urls \ erased',
                        all_gen[v] = purge_all_generation
                 PROVE  url_gen[v] <= CurrentGen(url[v])'
      BY ZenonT(60), <1>1 DEF FenceInv, BaselineInv
    <2>1. url_gen[v] <= CurrentGen(url[v])
      BY ZenonT(60), <1>3 DEF FenceInv, BaselineInv
    <2>2. CASE url[v] = u
      <3>1. CurrentGen(url[v])' = CurrentGen(url[v]) + 1
        BY ZenonT(60), <1>1, <1>3, <2>2 DEF CurrentGen
      <3>2. QED
        BY SMTT(60), <1>0, <2>1, <3>1
    <2>3. CASE url[v] # u
      BY ZenonT(60), <1>6, <2>1, <2>3
    <2>4. QED
      BY ZenonT(60), <2>2, <2>3
  <1>10. RemoveFenced'
    BY ZenonT(60), <1>1, <1>2, <1>4, <1>7 DEF RemoveFenced, Active
  <1>11. \A v \in Writers : url[v] \in Urls \ erased' /\ url[v] # u /\ PendingUndo(v)
                               => PendingUndo(v)'
    BY ZenonT(60), <1>0, <1>1, <1>2, <1>6 DEF PendingUndo
  <1>12. StaleReaderFenced'
    <2> SUFFICES ASSUME NEW v \in Writers, HasRead(v)',
                        url[v] \in Urls \ erased', src[v] < epoch[url[v]]
                 PROVE  \/ WasPurgedSinceDispatch(v)'
                        \/ \E x \in Active(url[v]) : PendingUndo(x)'
      BY ZenonT(60), <1>1 DEF StaleReaderFenced, Active
    <2>1. CASE url[v] = u
      BY ZenonT(60), <1>7, <2>1
    <2>2. CASE url[v] # u
      <3>1. HasRead(v)
        BY ZenonT(60), <1>0, <1>1, <1>2, <2>2 DEF HasRead
      <3>2. \/ WasPurgedSinceDispatch(v)
            \/ \E x \in Active(url[v]) : PendingUndo(x)
        BY ZenonT(60), <1>3, <3>1 DEF FenceInv, StaleReaderFenced
      <3>3. QED
        BY ZenonT(60), <1>6, <1>11, <2>2, <3>2 DEF Active
    <2>3. QED
      BY ZenonT(60), <2>1, <2>2
  <1>13. NoResurrection'
    <2> SUFFICES ASSUME NEW e \in cache, Stale(e), e.url \notin erased'
                 PROVE  \/ \E x \in Active(e.url) : PendingUndo(x)'
                        \/ u = e.url
      BY ZenonT(60), <1>1, <1>2, <1>4 DEF NoResurrection, Stale, Active
    <2>1. e.url \in Urls
      BY ZenonT(60) DEF TypeOK
    <2>2. \E x \in Active(e.url) : PendingUndo(x)
      BY <1>1, <1>3 DEF FenceInv, NoResurrection, MutexInv
    <2>3. QED
      BY ZenonT(60), <1>11, <2>1, <2>2 DEF Active
  <1>14. QED
    BY ZenonT(60), <1>8, <1>9, <1>10, <1>12, <1>13 DEF FenceInv

\* The Remove advances the epoch of a key whose active jobs are all fenced.
LEMMA FencePurgeRemove ==
    ASSUME TypeOK, FenceInv, NEW t \in Writers \cup {Loop}, PurgeRemove(t)
    PROVE  FenceInv'
  <1> USE ThreadsAssumption DEF gens, marks, locals, Threads
  <1>0. /\ pc \in [Threads -> {"idle"} \cup WriterLabels \cup LoopLabels
                                \cup ResetLabels \cup PageLabels]
        /\ epoch \in [Urls -> Nat] /\ t \in Threads /\ Loop \in Threads
        /\ Nobody \notin Threads
    BY ZenonT(60) DEF TypeOK
  <1>1. /\ pc[t] = "remove" /\ mutex' = Nobody
        /\ pc' = [pc EXCEPT ![t] = "clearMarks"]
        /\ cache' = {x \in cache : x.url # url[t]}
        /\ epoch' = [epoch EXCEPT ![url[t]] = @ + 1]
        /\ UNCHANGED <<gens, url, url_gen, all_gen, src, ret, erased>>
    BY ZenonT(60) DEF PurgeRemove, Remove, Goto
  <1>2. mutex = t
    BY ZenonT(60), <1>0, <1>1 DEF FenceInv, MutexInv
  <1>3. /\ \A v \in Threads : pc'[v] # "remove"
        /\ pc'[Loop] # "rsVolume"
    BY ZenonT(60), <1>0, <1>1, <1>2 DEF FenceInv, MutexInv
  <1>4. \A v \in Writers : /\ WasPurgedSinceDispatch(v)' = WasPurgedSinceDispatch(v)
                           /\ PendingUndo(v) => PendingUndo(v)'
    BY ZenonT(60), <1>0, <1>1 DEF WasPurgedSinceDispatch, PendingUndo, CurrentGen
  <1>5. MutexInv' /\ ResetFenced' /\ RemoveFenced'
    BY ZenonT(60), <1>0, <1>1, <1>3 DEF MutexInv, ResetFenced, RemoveFenced
  <1>6. BaselineInv'
    BY ZenonT(60), <1>1 DEF FenceInv, BaselineInv, CurrentGen
  <1>7. StaleReaderFenced'
    <2> SUFFICES ASSUME NEW v \in Writers, HasRead(v)',
                        url[v] \in Urls \ erased, src[v] < epoch'[url[v]]
                 PROVE  \/ WasPurgedSinceDispatch(v)'
                        \/ \E x \in Active(url[v]) : PendingUndo(x)'
      BY ZenonT(60), <1>1 DEF StaleReaderFenced, Active
    <2>1. CASE url[v] = url[t]
      BY ZenonT(60), <1>1, <1>4, <2>1 DEF FenceInv, RemoveFenced, Active
    <2>2. CASE url[v] # url[t]
      <3>1. HasRead(v) /\ src[v] < epoch[url[v]]
        BY ZenonT(60), <1>0, <1>1, <2>2 DEF HasRead, Undoing
      <3>2. QED
        BY ZenonT(60), <1>4, <3>1 DEF FenceInv, StaleReaderFenced, Active
    <2>3. QED
      BY ZenonT(60), <2>1, <2>2
  <1>8. NoResurrection'
    <2> SUFFICES ASSUME NEW e \in cache', e.tag < epoch'[e.url], e.url \notin erased
                 PROVE  \E x \in Active(e.url) : PendingUndo(x)'
      BY ZenonT(60), <1>1 DEF NoResurrection, Stale, Active
    <2>1. e \in cache /\ e.url # url[t] /\ e.url \in Urls
      BY ZenonT(60), <1>1 DEF TypeOK
    <2>2. Stale(e)
      BY ZenonT(60), <1>0, <1>1, <2>1 DEF Stale
    <2>3. \E x \in Active(e.url) : PendingUndo(x)
      BY <1>0, <1>2, <2>1, <2>2 DEF FenceInv, NoResurrection, MutexInv
    <2>4. QED
      BY ZenonT(60), <1>4, <2>3 DEF Active
  <1>9. QED
    BY ZenonT(60), <1>5, <1>6, <1>7, <1>8 DEF FenceInv

\* Erasing a generation is noted in erased, unless no job on the key is active
\* or there is no generation to lose.
LEMMA FenceClearDedupGen ==
    ASSUME TypeOK, FenceInv, NEW t \in Pages \cup {Loop}, ClearDedupGen(t)
    PROVE  FenceInv'
  <1> USE ThreadsAssumption DEF gens, marks, locals, Threads
  <1>0. /\ pc \in [Threads -> {"idle"} \cup WriterLabels \cup LoopLabels
                                \cup ResetLabels \cup PageLabels]
        /\ purge_generation \in [Urls -> Nat]
        /\ purge_generation_previous \in [Urls -> Nat]
        /\ t \in Threads /\ Loop \in Threads /\ t \notin Writers
    BY ZenonT(60) DEF TypeOK
  <1>1. /\ pc[t] = "cdGen" /\ mutex = Nobody
        /\ pc' = [pc EXCEPT ![t] = "cdCooldown"]
        /\ purge_generation' = [purge_generation EXCEPT ![url[t]] = 0]
        /\ purge_generation_previous' = [purge_generation_previous EXCEPT ![url[t]] = 0]
        /\ erased' = erased \cup {u \in {url[t]} : CurrentGen(u) > 0 /\ Active(u) # {}}
        /\ UNCHANGED <<cache, epoch, purge_all_generation, mutex, url, url_gen,
                       all_gen, src, ret>>
    BY ZenonT(60) DEF ClearDedupGen, Goto
  <1>2. /\ \A v \in Threads : pc[v] # "remove" /\ pc'[v] # "remove"
        /\ pc'[Loop] # "rsVolume"
    BY ZenonT(60), <1>0, <1>1 DEF FenceInv, MutexInv
  <1>3. erased \subseteq erased'
    BY ZenonT(60), <1>1
  <1>4. \A v \in Writers : url[v] \in Urls \ erased' =>
            CurrentGen(url[v])' = CurrentGen(url[v])
    BY SMTT(60), <1>0, <1>1 DEF CurrentGen, Active
  <1>5. \A v \in Writers : url[v] \in Urls \ erased' =>
            /\ WasPurgedSinceDispatch(v)' = WasPurgedSinceDispatch(v)
            /\ PendingUndo(v)' = PendingUndo(v)
    BY ZenonT(60), <1>0, <1>1, <1>4 DEF WasPurgedSinceDispatch, PendingUndo
  <1>6. MutexInv' /\ ResetFenced' /\ RemoveFenced'
    BY ZenonT(60), <1>0, <1>1, <1>2 DEF FenceInv, MutexInv, ResetFenced, RemoveFenced
  <1>7. BaselineInv'
    BY ZenonT(60), <1>1, <1>3, <1>4 DEF FenceInv, BaselineInv
  <1>8. StaleReaderFenced'
    <2>1. \A v \in Writers : HasRead(v)' = HasRead(v)
      BY ZenonT(60), <1>0, <1>1 DEF HasRead
    <2>2. QED
      BY ZenonT(60), <1>1, <1>3, <1>5, <2>1 DEF FenceInv, StaleReaderFenced, Active
  <1>9. NoResurrection'
    <2> SUFFICES ASSUME NEW e \in cache, Stale(e), e.url \notin erased'
                 PROVE  \E x \in Active(e.url) : PendingUndo(x)'
      BY ZenonT(60), <1>1 DEF NoResurrection, Stale, Active
    <2>1. e.url \in Urls
      BY ZenonT(60) DEF TypeOK
    <2>2. \E x \in Active(e.url) : PendingUndo(x)
      BY ZenonT(60), <1>2, <1>3 DEF FenceInv, NoResurrection
    <2>3. QED
      BY ZenonT(60), <1>5, <2>1, <2>2 DEF Active
  <1>10. QED
    BY ZenonT(60), <1>6, <1>7, <1>8, <1>9 DEF FenceInv

\* A reset fences every active job before it clears the volume.
LEMMA FenceReset ==
    ASSUME TypeOK, FenceInv, ResetBump \/ ResetVolume
    PROVE  FenceInv'
  <1> USE ThreadsAssumption DEF gens, marks, locals, Threads
  <1>0. /\ pc \in [Threads -> {"idle"} \cup WriterLabels \cup LoopLabels
                                \cup ResetLabels \cup PageLabels]
        /\ epoch \in [Urls -> Nat] /\ all_gen \in [Writers -> Nat]
        /\ purge_all_generation \in Nat
        /\ Loop \in Threads /\ Loop \notin Writers /\ Nobody \notin Threads
    BY DEF TypeOK
  <1>1. CASE ResetBump
    <2>1. /\ pc[Loop] = "idle" /\ mutex = Nobody /\ mutex' = Loop
          /\ pc' = [pc EXCEPT ![Loop] = "rsVolume"]
          /\ purge_all_generation' = purge_all_generation + 1
          /\ UNCHANGED <<cache, epoch, url, url_gen, all_gen, src, ret, erased>>
      BY <1>1 DEF ResetBump, Goto
    <2>2. \A v \in Threads : pc[v] # "remove" /\ pc'[v] # "remove"
      BY ZenonT(60), <1>0, <2>1 DEF FenceInv, MutexInv
    <2>3. \A v \in Writers : /\ all_gen[v] < purge_all_generation'
                             /\ WasPurgedSinceDispatch(v)'
      BY <1>0, <2>1 DEF FenceInv, BaselineInv, WasPurgedSinceDispatch
    <2>4. \A v \in Writers : PendingUndo(v) => PendingUndo(v)'
      BY ZenonT(60), <1>0, <2>1, <2>3 DEF PendingUndo
    <2>5. MutexInv' /\ ResetFenced' /\ RemoveFenced'
      BY ZenonT(60), <1>0, <2>1, <2>2, <2>3 DEF FenceInv, MutexInv, ResetFenced, RemoveFenced
    <2>6. BaselineInv'
      BY SMTT(60), <1>0, <2>1, <2>3 DEF BaselineInv
    <2>7. StaleReaderFenced'
      BY ZenonT(60), <2>3 DEF StaleReaderFenced
    <2>8. NoResurrection'
      BY ZenonT(60), <2>1, <2>2, <2>4 DEF FenceInv, NoResurrection, Stale, Active
    <2>9. QED
      BY <2>5, <2>6, <2>7, <2>8 DEF FenceInv
  <1>2. CASE ResetVolume
    <2>1. /\ pc[Loop] = "rsVolume" /\ mutex' = Nobody
          /\ \E l \in {"idle", "rsMarks"} : pc' = [pc EXCEPT ![Loop] = l]
          /\ UNCHANGED <<gens, url, url_gen, all_gen, src, ret, erased>>
      BY <1>2 DEF ResetVolume, Goto
    <2>2. mutex = Loop
      BY <1>0, <2>1 DEF FenceInv, MutexInv
    <2>3. /\ \A v \in Threads : pc[v] # "remove" /\ pc'[v] # "remove"
          /\ pc'[Loop] # "rsVolume"
      BY ZenonT(60), <1>0, <2>1, <2>2 DEF FenceInv, MutexInv
    <2>4. \A v \in Writers : /\ WasPurgedSinceDispatch(v)' = WasPurgedSinceDispatch(v)
                             /\ PendingUndo(v) => PendingUndo(v)'
                             /\ HasRead(v)' = HasRead(v)
      BY ZenonT(60), <1>0, <2>1 DEF WasPurgedSinceDispatch, PendingUndo, CurrentGen, HasRead
    <2>5. \A v \in Writers : url[v] \in Urls => WasPurgedSinceDispatch(v)'
      BY ZenonT(60), <1>0, <2>1, <2>4 DEF FenceInv, ResetFenced, WasPurgedSinceDispatch
    <2>6. MutexInv' /\ ResetFenced' /\ RemoveFenced'
      BY ZenonT(60), <1>0, <2>1, <2>3 DEF MutexInv, ResetFenced, RemoveFenced
    <2>7. BaselineInv'
      BY ZenonT(60), <2>1 DEF FenceInv, BaselineInv, CurrentGen
    <2>8. StaleReaderFenced'
      BY ZenonT(60), <2>1, <2>5 DEF StaleReaderFenced
    <2>9. NoResurrection'
      <3>1. CASE cache' = {}
        BY ZenonT(60), <3>1 DEF NoResurrection
      <3>2. CASE UNCHANGED <<cache, epoch>>
        BY <2>1, <2>3, <2>4, <3>2 DEF FenceInv, NoResurrection, Stale, Active
      <3>3. QED
        BY ZenonT(60), <1>2, <3>1, <3>2 DEF ResetVolume
    <2>10. QED
      BY <2>6, <2>7, <2>8, <2>9 DEF FenceInv
  <1>3. QED
    BY ZenonT(60), <1>1, <1>2

-----------------------------------------------------------------------------
\* Every step keeps the fence.
LEMMA FenceNext == TypeOK /\ FenceInv /\ [Next]_vars => FenceInv'
  <1> SUFFICES ASSUME TypeOK, FenceInv, [Next]_vars PROVE FenceInv'
    OBVIOUS
  <1>1. ASSUME NEW w \in Writers, WriterStep(w) PROVE FenceInv'
    BY <1>1, FenceQuietWriter, FenceChecks, FenceReadOriginal, FenceCommit,
       FenceDone DEF WriterStep
  <1>2. ASSUME NEW w \in Writers, NEW u \in Urls, DispatchNotification(w, u)
        PROVE  FenceInv'
    BY <1>2, FenceDispatch
  <1>3. ASSUME NEW t \in Writers \cup {Loop}, InvalidateStep(t) PROVE FenceInv'
    <2>1. CASE PurgeBump(t) \/ PurgeRemove(t)
      BY <2>1, FencePurgeBump, FencePurgeRemove
    <2>2. CASE ClearUrlMarks(t) \/ ClearUrlCooldown(t)
      BY <2>2, FenceChecks, FenceQuietOthers
    <2>3. QED
      BY <1>3, <2>1, <2>2 DEF InvalidateStep
  <1>4. ASSUME NEW t \in Pages \cup {Loop}, ClearDedupStep(t) PROVE FenceInv'
    BY <1>4, FenceClearDedupGen, FenceQuietOthers DEF ClearDedupStep
  <1>5. ASSUME NEW p \in Pages, NEW u, RegisterPin(p, u) \/ PinRemove(p)
        PROVE  FenceInv'
    BY <1>5, FenceQuietOthers
  <1>6. CASE LoopStep \/ ResetBump
    BY <1>6, FenceReset, FenceQuietOthers DEF LoopStep
  <1>7. ASSUME NEW u \in Urls, ApiRequest(u) PROVE FenceInv'
    BY <1>7, FenceQuietOthers
  <1>8. CASE Evict \/ \E u \in Urls : Record(u)
    BY ZenonT(60), <1>8, FenceCacheOnly
  <1>9. CASE UNCHANGED vars
    BY ZenonT(60), <1>9 DEF vars, gens, marks, locals, FenceInv, MutexInv, BaselineInv,
       RemoveFenced, ResetFenced, StaleReaderFenced, NoResurrection, HasRead,
       PendingUndo, WasPurgedSinceDispatch, CurrentGen, Active, Stale
  <1>10. QED
    BY <1>1, <1>2, <1>3, <1>4, <1>5, <1>6, <1>7, <1>8, <1>9 DEF Next

\* The fence (MutexInv .. StaleReaderFenced) holds in all behaviours.
THEOREM FenceHolds == Spec => []FenceInv
  BY FenceInit, FenceNext, TypeInit, TypeNext, PTL DEF Spec

\* Issue #652: WriteVariant's fences keep purged content out of the cache, for
\* any number of jobs, purges, undos, resets and reprocess requests.
THEOREM PurgedContentStaysOut == Spec => []NoResurrection
  <1>1. FenceInv => NoResurrection
    BY DEF FenceInv
  <1>2. QED
    BY <1>1, FenceHolds, PTL

-----------------------------------------------------------------------------
(* A fenced job stays fenced.                                               *)

\* The steps that touch the generations or a job's baseline.
LEMMA FenceFrame ==
    ASSUME [Next]_vars
    PROVE  \/ UNCHANGED <<gens, url_gen, all_gen>>
           \/ \E t \in Writers \cup {Loop} : PurgeBump(t)
           \/ \E t \in Pages \cup {Loop} : ClearDedupGen(t)
           \/ \E w \in Writers, u \in Urls : DispatchNotification(w, u)
           \/ \E w \in Writers : OnNotificationDone(w)
           \/ ResetBump
  <1>1. ASSUME NEW w \in Writers, WriterStep(w), ~OnNotificationDone(w)
        PROVE  UNCHANGED <<gens, url_gen, all_gen>>
    BY ZenonT(60), <1>1
    DEF WriterStep, DedupLookup, DedupFamilyCheck, DedupHeal, CooldownCheck,
        PinCheck, ReadOriginal, WriteVariantCheck, WriteVariantCommit,
        WriteVariantPostCheck, RepinCheck, RepinRemove,
        MarkVariantProcessedCheck, MarkVariantProcessedInsert,
        MarkCopyWrittenCheck, MarkCopyWrittenInsert, RecordSourceHashCheck,
        RecordSourceHashExists, RecordSourceHashWrite, EndWithCooldown, locals
  <1>2. ASSUME NEW t \in Writers \cup {Loop}, InvalidateStep(t), ~PurgeBump(t)
        PROVE  UNCHANGED <<gens, url_gen, all_gen>>
    BY ZenonT(60), <1>2
    DEF InvalidateStep, PurgeRemove, ClearUrlMarks, ClearUrlCooldown, locals
  <1>3. ASSUME NEW t \in Pages \cup {Loop}, ClearDedupStep(t), ~ClearDedupGen(t)
        PROVE  UNCHANGED <<gens, url_gen, all_gen>>
    BY ZenonT(60), <1>3
    DEF ClearDedupStep, ClearDedupMarks, ClearDedupCooldown, locals
  <1>4. ASSUME NEW u, NEW t, \/ PinRemove(t) \/ RegisterPin(t, u)
                             \/ ApiRequest(u) \/ Record(u)
        PROVE  UNCHANGED <<gens, url_gen, all_gen>>
    BY ZenonT(60), <1>4 DEF PinRemove, RegisterPin, ApiRequest, Record, locals
  <1>5. CASE LoopStep \/ Evict \/ UNCHANGED vars
    BY ZenonT(60), <1>5
    DEF LoopStep, RedispatchSkipped, ResetVolume, ResetMarks, ResetCooldown,
        Evict, vars, locals
  <1>6. QED
    BY ZenonT(60), <1>1, <1>2, <1>3, <1>4, <1>5 DEF Next

\* No step lets a fenced job through: a bump only adds to generations, or moves
\* them to the previous map; a reset clears them and raises the global one.
LEMMA FencedStep ==
    ASSUME TypeOK, FenceInv, [Next]_vars, NEW w \in Writers,
           url[w] # Nobody, url'[w] = url[w], url[w] \notin erased',
           WasPurgedSinceDispatch(w)
    PROVE  WasPurgedSinceDispatch(w)'
  <1>t. /\ w \in Threads /\ url[w] \in Urls /\ pc[w] # "idle"
        /\ url_gen[w] \in Nat /\ all_gen[w] \in Nat
        /\ purge_all_generation \in Nat
        /\ purge_generation \in [Urls -> Nat]
        /\ purge_generation_previous \in [Urls -> Nat]
    <2>1. /\ url \in [Threads -> Urls \cup {Nobody}] /\ Placed(w)
          /\ url_gen \in [Writers -> Nat] /\ all_gen \in [Writers -> Nat]
      BY Zenon DEF TypeOK, Threads
    <2>2. pc[w] # "idle"
      BY <2>1, ThreadsAssumption
      DEF Placed, Threads, ResetLabels, WriterLabels, LoopLabels, PageLabels, Undoing
    <2>3. QED
      BY ZenonT(60), <2>1, <2>2 DEF TypeOK, Threads
  <1>u. CurrentGen(url[w]) \in Nat
    BY <1>t DEF CurrentGen
  <1>1. ASSUME url_gen'[w] = url_gen[w], all_gen'[w] = all_gen[w],
               purge_all_generation' = purge_all_generation,
               CurrentGen(url[w])' = CurrentGen(url[w])
        PROVE  WasPurgedSinceDispatch(w)'
    BY Zenon, <1>1 DEF WasPurgedSinceDispatch
  <1>2. CASE UNCHANGED <<gens, url_gen, all_gen>>
    <2>1. CurrentGen(url[w])' = CurrentGen(url[w])
      BY Zenon, <1>2 DEF gens, CurrentGen
    <2>2. QED
      BY Zenon, <1>1, <1>2, <2>1 DEF gens
  <1>3. ASSUME NEW t \in Writers \cup {Loop}, PurgeBump(t)
        PROVE  WasPurgedSinceDispatch(w)'
    <2>1. /\ BumpPurgeGenerationLocked(url[t]) /\ pc[t] = "bump"
          /\ UNCHANGED <<purge_all_generation, url, url_gen, all_gen>>
      BY Zenon, <1>3 DEF PurgeBump, locals
    <2>2. url[t] \in Urls
      BY <2>1 DEF TypeOK, Placed, Threads, ResetLabels
    <2>3. CASE url[t] = url[w]
      <3>1. CurrentGen(url[w])' = CurrentGen(url[w]) + 1
        BY Zenon, <2>1, <2>2, <2>3, BumpEffect
      <3>2. CurrentGen(url[w]) > url_gen[w] => CurrentGen(url[w])' > url_gen'[w]
        BY <1>t, <1>u, <2>1, <3>1
      <3>3. QED
        BY Zenon, <2>1, <3>2 DEF WasPurgedSinceDispatch
    <2>4. CASE url[t] # url[w]
      <3>1. Active(url[w]) # {}
        BY Zenon DEF Active
      <3>2. CurrentGen(url[w])' = CurrentGen(url[w])
        BY Zenon, <1>t, <2>1, <2>2, <2>4, <3>1, BumpEffect
      <3>3. QED
        BY Zenon, <1>1, <2>1, <3>2
    <2>5. QED
      BY <2>3, <2>4
  <1>4. ASSUME NEW t \in Pages \cup {Loop}, ClearDedupGen(t)
        PROVE  WasPurgedSinceDispatch(w)'
    <2>1. /\ purge_generation' = [purge_generation EXCEPT ![url[t]] = 0]
          /\ purge_generation_previous' = [purge_generation_previous EXCEPT ![url[t]] = 0]
          /\ erased' = erased \cup {u \in {url[t]} : CurrentGen(u) > 0 /\ Active(u) # {}}
          /\ UNCHANGED <<purge_all_generation, url, url_gen, all_gen>>
      BY Zenon, <1>4 DEF ClearDedupGen, locals
    <2>2. CASE url[t] = url[w]
      <3>1. Active(url[w]) # {}
        BY Zenon DEF Active
      <3>2. ~(CurrentGen(url[w]) > 0)
        BY Zenon, <2>1, <2>2, <3>1
      <3>3. ~(CurrentGen(url[w]) > url_gen[w])
        BY <1>t, <1>u, <3>2
      <3>4. QED
        BY Zenon, <2>1, <3>3 DEF WasPurgedSinceDispatch
    <2>3. CASE url[t] # url[w]
      <3>1. /\ purge_generation'[url[w]] = purge_generation[url[w]]
            /\ purge_generation_previous'[url[w]] = purge_generation_previous[url[w]]
        BY <1>t, <2>1, <2>3
      <3>2. CurrentGen(url[w])' = CurrentGen(url[w])
        BY Zenon, <2>1, <3>1 DEF CurrentGen
      <3>3. QED
        BY Zenon, <1>1, <2>1, <3>2
    <2>4. QED
      BY <2>2, <2>3
  <1>5. ASSUME NEW v \in Writers, NEW u \in Urls, DispatchNotification(v, u)
        PROVE  WasPurgedSinceDispatch(w)'
    <2>1. /\ pc[v] = "idle" /\ UNCHANGED gens
          /\ url_gen' = [url_gen EXCEPT ![v] = CurrentGen(u)]
          /\ all_gen' = [all_gen EXCEPT ![v] = purge_all_generation]
      BY Zenon, <1>5 DEF DispatchNotification
    <2>2. v # w
      BY Zenon, <1>t, <2>1
    <2>3. url_gen'[w] = url_gen[w] /\ all_gen'[w] = all_gen[w]
      BY <2>1, <2>2 DEF TypeOK
    <2>4. CurrentGen(url[w])' = CurrentGen(url[w])
      BY Zenon, <2>1 DEF gens, CurrentGen
    <2>5. QED
      BY Zenon, <1>1, <2>1, <2>3, <2>4 DEF gens
  <1>6. ASSUME NEW v \in Writers, OnNotificationDone(v)
        PROVE  WasPurgedSinceDispatch(w)'
    <2>0. UNCHANGED gens
      BY Zenon, <1>6 DEF OnNotificationDone
    <2>1. /\ url' = [url EXCEPT ![v] = Nobody]
          /\ url_gen' = [url_gen EXCEPT ![v] = 0]
          /\ all_gen' = [all_gen EXCEPT ![v] = 0]
      BY Zenon, <1>6 DEF OnNotificationDone
    <2>2. v # w
      BY <1>t, <2>1, ThreadsAssumption DEF TypeOK
    <2>3. url_gen'[w] = url_gen[w] /\ all_gen'[w] = all_gen[w]
      BY <2>1, <2>2 DEF TypeOK
    <2>4. CurrentGen(url[w])' = CurrentGen(url[w])
      BY Zenon, <2>0 DEF gens, CurrentGen
    <2>5. QED
      BY Zenon, <1>1, <2>0, <2>3, <2>4 DEF gens
  <1>7. CASE ResetBump
    <2>1. /\ purge_all_generation' = purge_all_generation + 1
          /\ all_gen' = all_gen
      BY Zenon, <1>7 DEF ResetBump, locals
    <2>2. all_gen[w] <= purge_all_generation
      BY Zenon DEF FenceInv, BaselineInv
    <2>3. purge_all_generation' > all_gen'[w]
      BY <1>t, <2>1, <2>2
    <2>4. QED
      BY Zenon, <2>3 DEF WasPurgedSinceDispatch
  <1>8. QED
    BY Zenon, <1>2, <1>3, <1>4, <1>5, <1>6, <1>7, FenceFrame

\* A job fenced off by a purge or a reset stays fenced off until it ends: the
\* rotation of the generation maps, a reset that clears them and the purges of
\* other jobs never let it write again, for any number of keys and any bound
\* kMaxPurgeGenEntries.
THEOREM FencedStaysFenced == Spec => FenceStaysShut
  <1>1. TypeOK /\ FenceInv /\ [Next]_vars =>
           [\A w \in Writers :
               /\ url[w] # Nobody /\ url'[w] = url[w] /\ url[w] \notin erased'
               /\ WasPurgedSinceDispatch(w)
               => WasPurgedSinceDispatch(w)']_vars
    BY Zenon, FencedStep
  <1>2. QED
    BY <1>1, TypeCorrect, FenceHolds, PTL DEF Spec, FenceStaysShut
=============================================================================
