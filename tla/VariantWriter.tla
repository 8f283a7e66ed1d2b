--------------------------- MODULE VariantWriter ---------------------------
(***************************************************************************)
(* The worker's variant pipeline and its purge fence (worker.cc).          *)
(*                                                                         *)
(* Pool jobs process stylesheet/script notifications: each reads the       *)
(* recorded original, minifies it and writes the optimized copy and its    *)
(* gzip and brotli siblings back into the shared cache, while              *)
(*   - the event loop dispatches notifications and runs the management API *)
(*     (purge a URL, reset the cache, reprocess a URL),                    *)
(*   - page jobs (HTML) register integrity-pinned sub-resources,           *)
(*   - the serving module records originals, and                          *)
(*   - the cache evicts entries on its own.                                *)
(* A purge must not be undone by a job that read its input before the      *)
(* purge.  The code fences such jobs with purge generations: a job         *)
(* captures the generation at dispatch, compares it before and after every *)
(* write, and turns a late detection into a purge of its own.              *)
(*                                                                         *)
(* Every critical section of the code is one action; code between two      *)
(* critical sections or cache calls that touches only locals is merged     *)
(* with its neighbour.                                                     *)
(***************************************************************************)
EXTENDS Naturals, FiniteSets

CONSTANTS
    Urls,                  \* cache keys (url, host, scheme, site)
    Jobs,                  \* work items tracked by in_flight_urls_
    Warmups,               \* warm-up work items, which in-flight dedup skips
    Pages,                 \* HTML work items
    Loop,                  \* the event-loop thread
    Codings,               \* encodings with a level above 0 in the config
    Nobody,                \* "purge_gen_mutex_ is free" / "no URL"
    kMaxPurgeGenEntries,   \* rotation bound of purge_generation_
    max_processed_entries, \* rotation bound of processed_current_
    MaxDispatch,           \* bound: work items dispatched
    MaxPurges,             \* bound: purges asked for through the API
    MaxResets,             \* bound: cache resets
    MaxReprocess,          \* bound: reprocess requests
    MaxEvictions,          \* bound: entries the cache evicts on its own
    MaxRequests            \* bound: all of these requests but evictions together

Writers == Jobs \cup Warmups
Threads == Writers \cup Pages \cup {Loop}
Slots == {"identity", "gzip", "brotli"}

ASSUME ThreadsAssumption ==
    /\ Writers \cap Pages = {}
    /\ Loop \notin Writers \cup Pages
    /\ Nobody \notin Threads \cup Urls

ASSUME CodingsAssumption == Codings \subseteq {"gzip", "brotli"}

ASSUME BoundsAssumption ==
    /\ kMaxPurgeGenEntries \in Nat
    /\ max_processed_entries \in Nat
    /\ {MaxDispatch, MaxPurges, MaxResets, MaxReprocess,
        MaxEvictions, MaxRequests} \subseteq Nat

VARIABLES
    cache,      \* stored alternates: [url, slot, tag, opt]
    epoch,      \* ghost: how often each key's entries were purged
    purge_generation, purge_generation_previous, purge_all_generation,
    mutex,      \* holder of purge_gen_mutex_
    processed_current, processed_previous,
    copy_written_current, copy_written_previous,
    text_cooldown,           \* keys with an active write-failure cooldown
    integrity_pinned_urls,
    oracle,                  \* keys with a stored content hash
    in_flight_urls,
    pc, url,                 \* per thread: where it is, on which key
    url_gen, all_gen,        \* per writer: PurgeDispatchGen
    src,                     \* per writer: tag of the original it read
    small, opt,              \* per writer: minified shrank / output differs
    genuine,                 \* per writer: source_genuine
    slot,                    \* per writer: the alternate being written
    ret,                     \* per writer: where MarkVariantProcessed returns
    count,                   \* bounded environment: requests made so far
    erased                   \* ghost: keys that lost their generation under a job

gens == <<purge_generation, purge_generation_previous, purge_all_generation>>
marks == <<processed_current, processed_previous,
           copy_written_current, copy_written_previous>>
locals == <<url_gen, all_gen, src, small, opt, genuine, slot, ret>>
vars == <<cache, epoch, gens, mutex, marks, text_cooldown,
          integrity_pinned_urls, oracle, in_flight_urls, pc, url, locals,
          count, erased>>

-----------------------------------------------------------------------------
(* Purge generations.  A map entry is always at least 1, so 0 stands for    *)
(* "no entry".                                                              *)

\* The lookup shared by WasPurgedSinceDispatch and CapturePurgeGen.
CurrentGen(u) ==
    IF purge_generation[u] > 0 THEN purge_generation[u]
                               ELSE purge_generation_previous[u]

\* Jobs on u that have been dispatched and have not finished.
Active(u) == {w \in Writers : url[w] = u}

WasPurgedSinceDispatch(w) ==
    \/ CurrentGen(url[w]) > url_gen[w]
    \/ purge_all_generation > all_gen[w]

\* Mutant: a bump that does not seed a rotated key from the previous map.
BumpWithoutSeed(u) ==
    LET cur == [purge_generation EXCEPT ![u] = @ + 1]
    IN  IF Cardinality({k \in Urls : cur[k] > 0}) > kMaxPurgeGenEntries
        THEN /\ purge_generation' = [k \in Urls |-> 0]
             /\ purge_generation_previous' = cur
             /\ UNCHANGED erased
        ELSE /\ purge_generation' = cur
             /\ UNCHANGED <<purge_generation_previous, erased>>

\* BumpPurgeGenerationLocked: seed from the previous map, bump, and rotate
\* current to previous once the map outgrows its bound.  A key that is left
\* in neither map loses its generation; erased notes it if jobs are active.
BumpPurgeGenerationLocked(u) ==
    LET cur  == [purge_generation EXCEPT ![u] = CurrentGen(u) + 1]
        prev == [purge_generation_previous EXCEPT
                     ![u] = IF purge_generation[u] = 0 THEN 0 ELSE @]
        full == Cardinality({k \in Urls : cur[k] > 0}) > kMaxPurgeGenEntries
    IN  IF full
        THEN /\ purge_generation' = [k \in Urls |-> 0]
             /\ purge_generation_previous' = cur
             /\ erased' = erased \cup {k \in Urls : /\ cur[k] = 0 /\ prev[k] > 0
                                                      /\ Active(k) # {}}
        ELSE /\ purge_generation' = cur
             /\ purge_generation_previous' = prev
             /\ UNCHANGED erased

-----------------------------------------------------------------------------
(* The cache and the dedup marks.                                           *)

Entry(u, s, t, o) == [url |-> u, slot |-> s, tag |-> t, opt |-> o]

\* A committed alternate replaces the one in its slot.
Store(e) ==
    cache' = {x \in cache : x.url # e.url \/ x.slot # e.slot} \cup {e}

\* Remove: the whole key, content hash included.
Remove(u) ==
    /\ cache' = {x \in cache : x.url # u}
    /\ oracle' = oracle \ {u}

\* Mutant: an erase that forgets the copy records of the older generation.
EraseMarksOnly(u) ==
    /\ processed_current' = processed_current \ {u}
    /\ processed_previous' = processed_previous \ {u}
    /\ copy_written_current' = copy_written_current \ {u}
    /\ UNCHANGED copy_written_previous

EraseUrlMarksLocked(u) ==
    /\ processed_current' = processed_current \ {u}
    /\ processed_previous' = processed_previous \ {u}
    /\ copy_written_current' = copy_written_current \ {u}
    /\ copy_written_previous' = copy_written_previous \ {u}

Goto(t, l) == pc' = [pc EXCEPT ![t] = l]

-----------------------------------------------------------------------------
(* Dispatch and completion, on the event loop.                              *)

\* Work items and API requests so far.
Requests == count.dispatch + count.purge + count.reset + count.reprocess

LoopFree(u) ==
    \/ pc[Loop] = "idle"
    \/ pc[Loop] = "redispatch" /\ url[Loop] = u

\* DispatchNotification: in-flight dedup (warm-ups are not tracked), then the
\* purge baseline is captured under purge_gen_mutex_ and the work is queued.
DispatchNotification(w, u) ==
    /\ LoopFree(u)
    /\ pc[w] = "idle"
    /\ count.dispatch < MaxDispatch /\ Requests < MaxRequests
    /\ w \in Jobs => u \notin in_flight_urls
    /\ mutex = Nobody
    /\ in_flight_urls' = in_flight_urls \cup (IF w \in Jobs THEN {u} ELSE {})
    /\ url_gen' = [url_gen EXCEPT ![w] = CurrentGen(u)]
    /\ all_gen' = [all_gen EXCEPT ![w] = purge_all_generation]
    /\ pc' = [pc EXCEPT ![w] = "dedup", ![Loop] = "idle"]
    /\ url' = [url EXCEPT ![w] = u, ![Loop] = Nobody]
    /\ count' = [count EXCEPT !.dispatch = @ + 1]
    /\ UNCHANGED <<cache, epoch, gens, mutex, marks, text_cooldown,
                   integrity_pinned_urls, oracle, src, small, opt, genuine, slot, ret,
                   erased>>

\* Mutant: completion that leaves the key in in_flight_urls_.
DoneWithoutErase(w) ==
    /\ pc[w] = "end"
    /\ pc[Loop] = "idle"
    /\ pc' = [pc EXCEPT ![w] = "idle"]
    /\ url' = [url EXCEPT ![w] = Nobody]
    /\ UNCHANGED <<cache, epoch, gens, mutex, marks, text_cooldown, locals,
                   integrity_pinned_urls, oracle, in_flight_urls, count, erased>>

\* OnNotificationDone; the work item and its locals are gone.
OnNotificationDone(w) ==
    /\ pc[w] = "end"
    /\ pc[Loop] = "idle"
    /\ in_flight_urls' = in_flight_urls \ (IF w \in Jobs THEN {url[w]} ELSE {})
    /\ pc' = [pc EXCEPT ![w] = "idle"]
    /\ url' = [url EXCEPT ![w] = Nobody]
    /\ url_gen' = [url_gen EXCEPT ![w] = 0]
    /\ all_gen' = [all_gen EXCEPT ![w] = 0]
    /\ src' = [src EXCEPT ![w] = 0]
    /\ small' = [small EXCEPT ![w] = FALSE]
    /\ opt' = [opt EXCEPT ![w] = FALSE]
    /\ genuine' = [genuine EXCEPT ![w] = FALSE]
    /\ slot' = [slot EXCEPT ![w] = "identity"]
    /\ ret' = [ret EXCEPT ![w] = "end"]
    /\ UNCHANGED <<cache, epoch, gens, mutex, marks, text_cooldown,
                   integrity_pinned_urls, oracle, count, erased>>

-----------------------------------------------------------------------------
(* HandleNotification on a pool thread: the decision whether to process.    *)

Processed == processed_current \cup processed_previous
CopyWritten == copy_written_current \cup copy_written_previous

\* The processed-set lookup; copy_expected is read under the same lock.
DedupLookup(w) ==
    /\ pc[w] = "dedup"
    /\ Goto(w, IF url[w] \notin Processed THEN "cooldown"
               ELSE IF url[w] \in CopyWritten THEN "familyCopy"
               ELSE "family")
    /\ UNCHANGED <<cache, epoch, gens, mutex, marks, text_cooldown, url,
                   integrity_pinned_urls, oracle, in_flight_urls, locals,
                   count, erased>>

\* A dedup hit is skipped while the variant family is present and the copy
\* the mark stands for is not missing, or while the per-URL heal window is
\* still open; otherwise the mark is orphaned and gets healed.
DedupFamilyCheck(w) ==
    /\ pc[w] \in {"family", "familyCopy"}
    /\ LET family  == {e \in cache : e.url = url[w]}
           missing == /\ pc[w] = "familyCopy"
                      /\ \A e \in family : e.slot # "identity"
       IN  \/ Goto(w, "end")
           \/ (family = {} \/ missing) /\ Goto(w, "heal")
    /\ UNCHANGED <<cache, epoch, gens, mutex, marks, text_cooldown, url,
                   integrity_pinned_urls, oracle, in_flight_urls, locals,
                   count, erased>>

DedupHeal(w) ==
    /\ pc[w] = "heal"
    /\ EraseUrlMarksLocked(url[w])
    /\ Goto(w, "cooldown")
    /\ UNCHANGED <<cache, epoch, gens, mutex, text_cooldown, url,
                   integrity_pinned_urls, oracle, in_flight_urls, locals,
                   count, erased>>

\* An active cooldown skips the notification, an expired one is dropped.
CooldownCheck(w) ==
    /\ pc[w] = "cooldown"
    /\ \/ url[w] \in text_cooldown /\ Goto(w, "end") /\ UNCHANGED text_cooldown
       \/ text_cooldown' = text_cooldown \ {url[w]} /\ Goto(w, "pinned")
    /\ UNCHANGED <<cache, epoch, gens, mutex, marks, url, oracle,
                   integrity_pinned_urls, in_flight_urls, locals, count,
                   erased>>

\* IsIntegrityPinned at the head of the CSS and JS branches: a pinned URL is
\* marked processed without a variant.
PinCheck(w) ==
    /\ pc[w] = "pinned"
    /\ IF url[w] \in integrity_pinned_urls
       THEN Goto(w, "markCheck") /\ ret' = [ret EXCEPT ![w] = "end"]
       ELSE Goto(w, "read") /\ UNCHANGED ret
    /\ UNCHANGED <<cache, epoch, gens, mutex, marks, text_cooldown, url,
                   integrity_pinned_urls, oracle, in_flight_urls, url_gen,
                   all_gen, src, small, opt, genuine, slot, count, erased>>

\* The coded alternates in the order WriteCompressedVariants writes them;
\* "none" stands for having written the last.
CodedFrom(s) ==
    CASE s = "gzip" /\ "gzip" \in Codings -> "gzip"
      [] s \in {"gzip", "brotli"} /\ "brotli" \in Codings -> "brotli"
      [] OTHER -> "none"

\* Read the original, then minify.  The read may miss or be unusable
\* (compressed, too large, torn); minification may fail (marked, so that it
\* is not retried), shrink the input, or find it minimal: then the unchanged
\* identity entry is rewritten with a stamp (StampRawEntry) unless it has one.
ReadOriginal(w) ==
    /\ pc[w] = "read"
    /\ \/ Goto(w, "end") /\ UNCHANGED <<src, small, opt, genuine, slot, ret>>
       \/ \E e \in {x \in cache : x.url = url[w] /\ x.slot = "identity"} :
            \/ /\ Goto(w, "markCheck")
               /\ ret' = [ret EXCEPT ![w] = "end"]
               /\ UNCHANGED <<src, small, opt, genuine, slot>>
            \/ \E shrank, raw, stamp \in BOOLEAN :
                 /\ raw => ~e.opt
                 /\ stamp => raw /\ ~shrank
                 /\ src' = [src EXCEPT ![w] = e.tag]
                 /\ small' = [small EXCEPT ![w] = shrank]
                 /\ opt' = [opt EXCEPT ![w] = e.opt \/ shrank]
                 /\ genuine' = [genuine EXCEPT ![w] = raw]
                 /\ ret' = [ret EXCEPT ![w] = IF shrank THEN "copyCheck" ELSE "check"]
                 /\ IF shrank \/ stamp
                    THEN Goto(w, "check") /\ slot' = [slot EXCEPT ![w] = "identity"]
                    ELSE /\ Goto(w, "markCheck")
                         /\ slot' = [slot EXCEPT ![w] = CodedFrom("gzip")]
    /\ UNCHANGED <<cache, epoch, gens, mutex, marks, text_cooldown, url,
                   integrity_pinned_urls, oracle, in_flight_urls, url_gen,
                   all_gen, count, erased>>

-----------------------------------------------------------------------------
(* WriteVariant and its callers (WriteTextVariant, WriteCompressedVariants). *)

\* Where a writer continues once the write of its slot succeeded or failed.
AfterWrite(w, ok) ==
    CASE slot[w] = "identity" ->
             /\ Goto(w, CASE ~small[w] -> "markCheck"
                          [] small[w] /\ ok -> "repin"
                          [] OTHER -> "failCooldown")
             /\ slot' = [slot EXCEPT ![w] = CodedFrom("gzip")]
      [] slot[w] = "gzip" ->
             Goto(w, "check") /\ slot' = [slot EXCEPT ![w] = CodedFrom("brotli")]
      [] OTHER ->
             Goto(w, "check") /\ slot' = [slot EXCEPT ![w] = "none"]

\* The pre-write fence.
WriteVariantCheck(w) ==
    /\ pc[w] = "check"
    /\ slot[w] # "none"
    /\ mutex = Nobody
    /\ IF WasPurgedSinceDispatch(w)
       THEN AfterWrite(w, FALSE)
       ELSE Goto(w, "commit") /\ UNCHANGED slot
    /\ UNCHANGED <<cache, epoch, gens, mutex, marks, text_cooldown, url,
                   integrity_pinned_urls, oracle, in_flight_urls, url_gen,
                   all_gen, src, small, opt, genuine, ret, count, erased>>

\* WriteAlternate .. close_sync: the write fails or commits.
WriteVariantCommit(w) ==
    /\ pc[w] = "commit"
    /\ \/ AfterWrite(w, FALSE) /\ UNCHANGED cache
       \/ /\ Store(Entry(url[w], slot[w], src[w], opt[w]))
          /\ Goto(w, "post")
          /\ UNCHANGED slot
    /\ UNCHANGED <<epoch, gens, mutex, marks, text_cooldown, url,
                   integrity_pinned_urls, oracle, in_flight_urls, url_gen,
                   all_gen, src, small, opt, genuine, ret, count, erased>>

\* Mutant: a write that is fenced only before it commits.
WriteVariantNoPostCheck(w) ==
    /\ pc[w] = "post"
    /\ AfterWrite(w, TRUE)
    /\ UNCHANGED <<cache, epoch, gens, mutex, marks, text_cooldown, url,
                   integrity_pinned_urls, oracle, in_flight_urls, url_gen,
                   all_gen, src, small, opt, genuine, ret, count, erased>>

\* The post-commit re-check: a purge seen only now is turned into InvalidateUrl.
WriteVariantPostCheck(w) ==
    /\ pc[w] = "post"
    /\ mutex = Nobody
    /\ IF WasPurgedSinceDispatch(w)
       THEN Goto(w, "bump") /\ UNCHANGED slot
       ELSE AfterWrite(w, TRUE)
    /\ UNCHANGED <<cache, epoch, gens, mutex, marks, text_cooldown, url,
                   integrity_pinned_urls, oracle, in_flight_urls, url_gen,
                   all_gen, src, small, opt, genuine, ret, count, erased>>

\* Mutant: no second integrity check.
RepinNeverChecked(w) ==
    /\ pc[w] = "repin"
    /\ Goto(w, "markCheck")
    /\ UNCHANGED <<cache, epoch, gens, mutex, marks, text_cooldown, url,
                   integrity_pinned_urls, oracle, in_flight_urls, locals,
                   count, erased>>

\* The second integrity check, after the minified copy was committed.
RepinCheck(w) ==
    /\ pc[w] = "repin"
    /\ Goto(w, IF url[w] \in integrity_pinned_urls THEN "unpin" ELSE "markCheck")
    /\ UNCHANGED <<cache, epoch, gens, mutex, marks, text_cooldown, url,
                   integrity_pinned_urls, oracle, in_flight_urls, locals,
                   count, erased>>

RepinRemove(w) ==
    /\ pc[w] = "unpin"
    /\ Remove(url[w])
    /\ Goto(w, "end")
    /\ UNCHANGED <<epoch, gens, mutex, marks, text_cooldown, url,
                   integrity_pinned_urls, in_flight_urls, locals, count,
                   erased>>

\* MarkVariantProcessed: the purge check and the insertion are two critical
\* sections, of two different mutexes.
MarkVariantProcessedCheck(w) ==
    /\ pc[w] = "markCheck"
    /\ mutex = Nobody
    /\ Goto(w, IF WasPurgedSinceDispatch(w) THEN ret[w] ELSE "markInsert")
    /\ UNCHANGED <<cache, epoch, gens, mutex, marks, text_cooldown, url,
                   integrity_pinned_urls, oracle, in_flight_urls, locals,
                   count, erased>>

MarkVariantProcessedInsert(w) ==
    /\ pc[w] = "markInsert"
    /\ LET cur  == processed_current \cup {url[w]}
           ccur == copy_written_current \ {url[w]}
       IN  IF Cardinality(cur) > max_processed_entries
           THEN /\ processed_current' = {}
                /\ processed_previous' = cur
                /\ copy_written_current' = {}
                /\ copy_written_previous' = ccur
           ELSE /\ processed_current' = cur
                /\ copy_written_current' = ccur
                /\ copy_written_previous' = copy_written_previous \ {url[w]}
                /\ UNCHANGED processed_previous
    /\ Goto(w, ret[w])
    /\ UNCHANGED <<cache, epoch, gens, mutex, text_cooldown, url,
                   integrity_pinned_urls, oracle, in_flight_urls, locals,
                   count, erased>>

\* MarkCopyWritten, likewise; the record joins the generation of its mark.
MarkCopyWrittenCheck(w) ==
    /\ pc[w] = "copyCheck"
    /\ mutex = Nobody
    /\ Goto(w, IF WasPurgedSinceDispatch(w) THEN "check" ELSE "copyInsert")
    /\ UNCHANGED <<cache, epoch, gens, mutex, marks, text_cooldown, url,
                   integrity_pinned_urls, oracle, in_flight_urls, locals,
                   count, erased>>

MarkCopyWrittenInsert(w) ==
    /\ pc[w] = "copyInsert"
    /\ copy_written_current' =
           copy_written_current \cup ({url[w]} \cap processed_current)
    /\ copy_written_previous' =
           copy_written_previous
               \cup (({url[w]} \cap processed_previous) \ processed_current)
    /\ Goto(w, "check")
    /\ UNCHANGED <<cache, epoch, gens, mutex, processed_current,
                   processed_previous, text_cooldown, url,
                   integrity_pinned_urls, oracle, in_flight_urls, locals,
                   count, erased>>

\* RecordSourceHash: only for a genuine source, fenced before the write only,
\* and only once the enabled coded copies exist.
RecordSourceHashCheck(w) ==
    /\ pc[w] = "check"
    /\ slot[w] = "none"
    /\ mutex = Nobody
    /\ Goto(w, IF genuine[w] /\ ~WasPurgedSinceDispatch(w) THEN "hashExists"
                                                          ELSE "clearCooldown")
    /\ UNCHANGED <<cache, epoch, gens, mutex, marks, text_cooldown, url,
                   integrity_pinned_urls, oracle, in_flight_urls, locals,
                   count, erased>>

RecordSourceHashExists(w) ==
    /\ pc[w] = "hashExists"
    /\ LET stored == {e.slot : e \in {x \in cache : x.url = url[w]}}
       IN  Goto(w, IF Codings \subseteq stored THEN "hashWrite"
                                                         ELSE "clearCooldown")
    /\ UNCHANGED <<cache, epoch, gens, mutex, marks, text_cooldown, url,
                   integrity_pinned_urls, oracle, in_flight_urls, locals,
                   count, erased>>

RecordSourceHashWrite(w) ==
    /\ pc[w] = "hashWrite"
    /\ oracle' = oracle \cup {url[w]}
    /\ Goto(w, "clearCooldown")
    /\ UNCHANGED <<cache, epoch, gens, mutex, marks, text_cooldown, url,
                   integrity_pinned_urls, in_flight_urls, locals, count,
                   erased>>

\* Mutant: the end of a job that hands its work item back at once.
EndSkipsDone(w) ==
    /\ pc[w] \in {"clearCooldown", "failCooldown"}
    /\ Goto(w, "idle")
    /\ UNCHANGED <<cache, epoch, gens, mutex, marks, text_cooldown, url, oracle,
                   integrity_pinned_urls, in_flight_urls, locals, count, erased>>

\* The last step of WriteTextVariant: clear the cooldown on success, or
\* SetWriteFailureCooldown when the minified copy was not written.
EndWithCooldown(w) ==
    /\ \/ /\ pc[w] = "clearCooldown"
          /\ text_cooldown' = text_cooldown \ {url[w]}
       \/ /\ pc[w] = "failCooldown"
          /\ text_cooldown' = text_cooldown \cup {url[w]}
    /\ Goto(w, "end")
    /\ UNCHANGED <<cache, epoch, gens, mutex, marks, url, oracle,
                   integrity_pinned_urls, in_flight_urls, locals, count,
                   erased>>

-----------------------------------------------------------------------------
(* InvalidateUrl, run by the loop for the API and by a writer as its undo.  *)

\* PurgeUrlAndBumpGeneration takes purge_gen_mutex_ and bumps ...
PurgeBump(t) ==
    /\ pc[t] = "bump"
    /\ mutex = Nobody
    /\ mutex' = t
    /\ BumpPurgeGenerationLocked(url[t])
    /\ Goto(t, "remove")
    /\ UNCHANGED <<cache, epoch, purge_all_generation, marks, text_cooldown,
                   url, integrity_pinned_urls, oracle, in_flight_urls, locals,
                   count>>

\* Mutant: a failed Remove returns with the mutex locked.
PurgeRemoveKeepsMutex(t) ==
    /\ pc[t] = "remove"
    /\ Goto(t, "clearMarks")
    /\ UNCHANGED <<cache, epoch, gens, mutex, marks, text_cooldown, url, oracle,
                   integrity_pinned_urls, in_flight_urls, locals, count, erased>>

\* ... and removes the key before it releases the mutex.
PurgeRemove(t) ==
    /\ pc[t] = "remove"
    /\ mutex' = Nobody
    /\ Remove(url[t])
    /\ epoch' = [epoch EXCEPT ![url[t]] = @ + 1]
    /\ Goto(t, "clearMarks")
    /\ UNCHANGED <<gens, marks, text_cooldown, url, integrity_pinned_urls,
                   in_flight_urls, locals, count, erased>>

\* ClearUrlProcessingState: the marks, then the cooldown.
ClearUrlMarks(t) ==
    /\ pc[t] = "clearMarks"
    /\ EraseUrlMarksLocked(url[t])
    /\ Goto(t, "clearUrlCooldown")
    /\ UNCHANGED <<cache, epoch, gens, mutex, text_cooldown, url,
                   integrity_pinned_urls, oracle, in_flight_urls, locals,
                   count, erased>>

ClearUrlCooldown(t) ==
    /\ pc[t] = "clearUrlCooldown"
    /\ text_cooldown' = text_cooldown \ {url[t]}
    /\ IF t = Loop
       THEN Goto(t, "idle") /\ url' = [url EXCEPT ![t] = Nobody] /\ UNCHANGED slot
       ELSE AfterWrite(t, FALSE) /\ UNCHANGED url
    /\ UNCHANGED <<cache, epoch, gens, mutex, marks, integrity_pinned_urls,
                   oracle, in_flight_urls, url_gen, all_gen, src, small, opt, genuine,
                   ret, count, erased>>

-----------------------------------------------------------------------------
(* ClearDedupAndCooldown, run by the loop (reprocess) and by page jobs.     *)

ClearDedupMarks(t) ==
    /\ pc[t] = "cdMarks"
    /\ EraseUrlMarksLocked(url[t])
    /\ Goto(t, "cdGen")
    /\ UNCHANGED <<cache, epoch, gens, mutex, text_cooldown, url,
                   integrity_pinned_urls, oracle, in_flight_urls, locals,
                   count, erased>>

\* The generation entries of the key are erased, not kept.
ClearDedupGen(t) ==
    /\ pc[t] = "cdGen"
    /\ mutex = Nobody
    /\ purge_generation' = [purge_generation EXCEPT ![url[t]] = 0]
    /\ purge_generation_previous' =
           [purge_generation_previous EXCEPT ![url[t]] = 0]
    /\ erased' = erased \cup {u \in {url[t]} : CurrentGen(u) > 0 /\ Active(u) # {}}
    /\ Goto(t, "cdCooldown")
    /\ UNCHANGED <<cache, epoch, purge_all_generation, mutex, marks,
                   text_cooldown, url, integrity_pinned_urls, oracle,
                   in_flight_urls, locals, count>>

\* Afterwards the reprocess handler dispatches the URL again; a page is done.
ClearDedupCooldown(t) ==
    /\ pc[t] = "cdCooldown"
    /\ text_cooldown' = text_cooldown \ {url[t]}
    /\ IF t = Loop
       THEN Goto(t, "redispatch") /\ UNCHANGED url
       ELSE Goto(t, "idle") /\ url' = [url EXCEPT ![t] = Nobody]
    /\ UNCHANGED <<cache, epoch, gens, mutex, marks, integrity_pinned_urls,
                   oracle, in_flight_urls, locals, count, erased>>

\* DispatchNotification of a URL in flight (or past the bounds) does nothing.
RedispatchSkipped ==
    /\ pc[Loop] = "redispatch"
    /\ \/ url[Loop] \in in_flight_urls
       \/ count.dispatch = MaxDispatch \/ Requests = MaxRequests
       \/ \A w \in Jobs : pc[w] # "idle"
    /\ Goto(Loop, "idle")
    /\ url' = [url EXCEPT ![Loop] = Nobody]
    /\ UNCHANGED <<cache, epoch, gens, mutex, marks, text_cooldown,
                   integrity_pinned_urls, oracle, in_flight_urls, locals,
                   count, erased>>

-----------------------------------------------------------------------------
(* Requests: pages that pin, the management API, the serving module, Cyclone. *)

\* RegisterIntegrityPinnedUrls: insert the pin, then drop the key.
RegisterPin(p, u) ==
    /\ pc[p] = "idle"
    /\ u \notin integrity_pinned_urls
    /\ integrity_pinned_urls' = integrity_pinned_urls \cup {u}
    /\ url' = [url EXCEPT ![p] = u]
    /\ Goto(p, "pinRemove")
    /\ UNCHANGED <<cache, epoch, gens, mutex, marks, text_cooldown, oracle,
                   in_flight_urls, locals, count, erased>>

PinRemove(p) ==
    /\ pc[p] = "pinRemove"
    /\ Remove(url[p])
    /\ Goto(p, "cdMarks")
    /\ UNCHANGED <<epoch, gens, mutex, marks, text_cooldown, url,
                   integrity_pinned_urls, in_flight_urls, locals, count,
                   erased>>

\* The loop starts InvalidateUrl for a purge, ClearDedupAndCooldown for a
\* reprocess request.
ApiRequest(u) ==
    /\ pc[Loop] = "idle"
    /\ Requests < MaxRequests
    /\ url' = [url EXCEPT ![Loop] = u]
    /\ \/ /\ count.purge < MaxPurges
          /\ count' = [count EXCEPT !.purge = @ + 1]
          /\ Goto(Loop, "bump")
       \/ /\ count.reprocess < MaxReprocess
          /\ count' = [count EXCEPT !.reprocess = @ + 1]
          /\ Goto(Loop, "cdMarks")
    /\ UNCHANGED <<cache, epoch, gens, mutex, marks, text_cooldown,
                   integrity_pinned_urls, oracle, in_flight_urls, locals,
                   erased>>

\* ResetCache: bump the global generation and clear the maps, then reset the
\* volume before the mutex is released; the dedup state only on success.
ResetBump ==
    /\ pc[Loop] = "idle"
    /\ count.reset < MaxResets /\ Requests < MaxRequests
    /\ mutex = Nobody
    /\ count' = [count EXCEPT !.reset = @ + 1]
    /\ mutex' = Loop
    /\ purge_all_generation' = purge_all_generation + 1
    /\ purge_generation' = [u \in Urls |-> 0]
    /\ purge_generation_previous' = [u \in Urls |-> 0]
    /\ Goto(Loop, "rsVolume")
    /\ UNCHANGED <<cache, epoch, marks, text_cooldown, url, oracle,
                   integrity_pinned_urls, in_flight_urls, locals, erased>>

ResetVolume ==
    /\ pc[Loop] = "rsVolume"
    /\ mutex' = Nobody
    /\ \/ Goto(Loop, "idle") /\ UNCHANGED <<cache, oracle, epoch>>
       \/ /\ cache' = {}
          /\ oracle' = {}
          /\ epoch' = [u \in Urls |-> epoch[u] + 1]
          /\ Goto(Loop, "rsMarks")
    /\ UNCHANGED <<gens, marks, text_cooldown, url, integrity_pinned_urls,
                   in_flight_urls, locals, count, erased>>

ResetMarks ==
    /\ pc[Loop] = "rsMarks"
    /\ processed_current' = {}
    /\ processed_previous' = {}
    /\ copy_written_current' = {}
    /\ copy_written_previous' = {}
    /\ Goto(Loop, "rsCooldown")
    /\ UNCHANGED <<cache, epoch, gens, mutex, text_cooldown, url, oracle,
                   integrity_pinned_urls, in_flight_urls, locals, count, erased>>

ResetCooldown ==
    /\ pc[Loop] = "rsCooldown"
    /\ text_cooldown' = {}
    /\ Goto(Loop, "idle")
    /\ UNCHANGED <<cache, epoch, gens, mutex, marks, url, oracle,
                   integrity_pinned_urls, in_flight_urls, locals, count, erased>>

\* The serving module records a fetched original in the identity slot.
Record(u) ==
    /\ Store(Entry(u, "identity", epoch[u], FALSE))
    /\ UNCHANGED <<epoch, gens, mutex, marks, text_cooldown,
                   integrity_pinned_urls, oracle, in_flight_urls, pc, url,
                   locals, count, erased>>

\* Capacity eviction, of which the worker is not told.
Evict ==
    /\ count.evict < MaxEvictions
    /\ count' = [count EXCEPT !.evict = @ + 1]
    /\ \E e \in cache : cache' = cache \ {e}
    /\ UNCHANGED <<epoch, gens, mutex, marks, text_cooldown,
                   integrity_pinned_urls, oracle, in_flight_urls, pc, url,
                   locals, erased>>

-----------------------------------------------------------------------------
Init ==
    /\ cache = {}
    /\ epoch = [u \in Urls |-> 0]
    /\ purge_generation = [u \in Urls |-> 0]
    /\ purge_generation_previous = [u \in Urls |-> 0]
    /\ purge_all_generation = 0
    /\ mutex = Nobody
    /\ processed_current = {} /\ processed_previous = {}
    /\ copy_written_current = {} /\ copy_written_previous = {}
    /\ text_cooldown = {}
    /\ integrity_pinned_urls = {}
    /\ oracle = {}
    /\ in_flight_urls = {}
    /\ pc = [t \in Threads |-> "idle"]
    /\ url = [t \in Threads |-> Nobody]
    /\ url_gen = [w \in Writers |-> 0]
    /\ all_gen = [w \in Writers |-> 0]
    /\ src = [w \in Writers |-> 0]
    /\ small = [w \in Writers |-> FALSE]
    /\ opt = [w \in Writers |-> FALSE]
    /\ genuine = [w \in Writers |-> FALSE]
    /\ slot = [w \in Writers |-> "identity"]
    /\ ret = [w \in Writers |-> "end"]
    /\ count = [dispatch |-> 0, purge |-> 0, reset |-> 0, reprocess |-> 0,
                evict |-> 0]
    /\ erased = {}

\* One step of a writer (the loop's OnNotificationDone included).
WriterStep(w) ==
    \/ DedupLookup(w) \/ DedupFamilyCheck(w) \/ DedupHeal(w)
    \/ CooldownCheck(w) \/ PinCheck(w) \/ ReadOriginal(w)
    \/ WriteVariantCheck(w) \/ WriteVariantCommit(w) \/ WriteVariantPostCheck(w)
    \/ RepinCheck(w) \/ RepinRemove(w)
    \/ MarkVariantProcessedCheck(w) \/ MarkVariantProcessedInsert(w)
    \/ MarkCopyWrittenCheck(w) \/ MarkCopyWrittenInsert(w)
    \/ RecordSourceHashCheck(w) \/ RecordSourceHashExists(w)
    \/ RecordSourceHashWrite(w)
    \/ EndWithCooldown(w) \/ OnNotificationDone(w)

\* One step of InvalidateUrl by the loop or a writer.
InvalidateStep(t) ==
    PurgeBump(t) \/ PurgeRemove(t) \/ ClearUrlMarks(t) \/ ClearUrlCooldown(t)

\* One step of ClearDedupAndCooldown by the loop or a page.
ClearDedupStep(t) ==
    ClearDedupMarks(t) \/ ClearDedupGen(t) \/ ClearDedupCooldown(t)

LoopStep ==
    RedispatchSkipped \/ ResetVolume \/ ResetMarks \/ ResetCooldown

Next ==
    \/ \E w \in Writers : WriterStep(w)
    \/ \E w \in Writers, u \in Urls : DispatchNotification(w, u)
    \/ \E t \in Writers \cup {Loop} : InvalidateStep(t)
    \/ \E t \in Pages \cup {Loop} : ClearDedupStep(t)
    \/ \E p \in Pages : PinRemove(p)
    \/ \E p \in Pages, u \in Urls : RegisterPin(p, u)
    \/ LoopStep
    \/ ResetBump
    \/ \E u \in Urls : ApiRequest(u) \/ Record(u)
    \/ Evict

Spec == Init /\ [][Next]_vars

\* Pool threads and the event loop keep running; clients, the serving module
\* and the cache's eviction owe nothing.
FairSpec ==
    /\ Spec
    /\ \A w \in Writers : WF_vars(WriterStep(w))
    /\ \A t \in Writers \cup {Loop} : WF_vars(InvalidateStep(t))
    /\ \A t \in Pages \cup {Loop} : WF_vars(ClearDedupStep(t))
    /\ \A p \in Pages : WF_vars(PinRemove(p))
    /\ WF_vars(LoopStep)
    /\ WF_vars(\E w \in Jobs, u \in Urls :
                   pc[Loop] = "redispatch" /\ DispatchNotification(w, u))

-----------------------------------------------------------------------------
Undoing == {"bump", "remove", "clearMarks", "clearUrlCooldown"}

WriterLabels ==
    {"dedup", "family", "familyCopy", "heal", "cooldown", "pinned", "read",
     "check", "commit", "post", "repin", "unpin", "markCheck", "markInsert",
     "copyCheck", "copyInsert", "hashExists", "hashWrite",
     "clearCooldown", "failCooldown", "end"} \cup Undoing
LoopLabels ==
    {"cdMarks", "cdGen", "cdCooldown", "redispatch"} \cup Undoing
ResetLabels == {"rsVolume", "rsMarks", "rsCooldown"}
PageLabels == {"pinRemove", "cdMarks", "cdGen", "cdCooldown"}

\* A thread has a key exactly while it is working on one.
Placed(t) ==
    \/ pc[t] = "idle" /\ url[t] = Nobody
    \/ t = Loop /\ pc[t] \in ResetLabels /\ url[t] = Nobody
    \/ /\ url[t] \in Urls
       /\ \/ t \in Writers /\ pc[t] \in WriterLabels
          \/ t = Loop /\ pc[t] \in LoopLabels
          \/ t \in Pages /\ pc[t] \in PageLabels

\* Every variable keeps to its type, and every thread is Placed.
TypeOK ==
    /\ cache \subseteq [url : Urls, slot : Slots, tag : Nat, opt : BOOLEAN]
    /\ epoch \in [Urls -> Nat]
    /\ purge_generation \in [Urls -> Nat]
    /\ purge_generation_previous \in [Urls -> Nat]
    /\ purge_all_generation \in Nat
    /\ mutex \in Threads \cup {Nobody}
    /\ processed_current \subseteq Urls /\ processed_previous \subseteq Urls
    /\ copy_written_current \subseteq Urls /\ copy_written_previous \subseteq Urls
    /\ text_cooldown \subseteq Urls
    /\ integrity_pinned_urls \subseteq Urls
    /\ oracle \subseteq Urls
    /\ in_flight_urls \subseteq Urls
    /\ url \in [Threads -> Urls \cup {Nobody}]
    /\ pc \in [Threads -> {"idle"} \cup WriterLabels \cup LoopLabels
                              \cup ResetLabels \cup PageLabels]
    /\ \A t \in Threads : Placed(t)
    /\ url_gen \in [Writers -> Nat] /\ all_gen \in [Writers -> Nat]
    /\ src \in [Writers -> Nat]
    /\ small \in [Writers -> BOOLEAN] /\ opt \in [Writers -> BOOLEAN]
    /\ genuine \in [Writers -> BOOLEAN]
    /\ slot \in [Writers -> Slots \cup {"none"}]
    /\ \A w \in Writers : pc[w] = "commit" => slot[w] \in Slots
    /\ ret \in [Writers -> {"end", "copyCheck", "check"}]
    /\ count \in [dispatch : Nat, purge : Nat, reset : Nat, reprocess : Nat,
                 evict : Nat]
    /\ erased \subseteq Urls

-----------------------------------------------------------------------------
(* The purge fence.                                                         *)

Stale(e) == e.tag < epoch[e.url]

\* w has committed purged content and its own undo is still to come.
PendingUndo(w) ==
    \/ pc[w] = "post" /\ WasPurgedSinceDispatch(w)
    \/ pc[w] = "bump"

\* Issue #652, WriteVariant's fences against PurgeUrlAndBumpGeneration and
\* ResetCache: content from before a purge or reset of its key is never left
\* in the cache after it.  It can be there only while the job that wrote it
\* is on its way to InvalidateUrl, or that call's Remove is under way.  Keys
\* that lost their generation while a job was active are excepted.
NoResurrection ==
    \A e \in cache :
        Stale(e) /\ e.url \notin erased =>
            \/ \E w \in Active(e.url) : PendingUndo(w)
            \/ \E t \in Threads : pc[t] = "remove" /\ url[t] = e.url

\* WasPurgedSinceDispatch against the rotation of BumpPurgeGenerationLocked,
\* ResetCache, which clears both maps, and the undos of other jobs: a job that
\* a purge has fenced off is not let through again as long as it runs.
FenceStaysShut ==
    [][\A w \in Writers :
           /\ url[w] # Nobody /\ url'[w] = url[w] /\ url[w] \notin erased'
           /\ WasPurgedSinceDispatch(w)
           => WasPurgedSinceDispatch(w)']_vars

\* w holds the bytes of an original it may still write.
HasRead(w) ==
    \/ pc[w] \in {"check", "commit", "post", "repin", "copyCheck", "copyInsert"}
    \/ pc[w] \in {"markCheck", "markInsert"} /\ ret[w] # "end"
    \/ pc[w] \in Undoing

\* purge_gen_mutex_ is held exactly between a bump and its Remove or reset.
MutexInv ==
    \A t \in Threads :
        mutex = t <=> pc[t] = "remove" \/ (t = Loop /\ pc[t] = "rsVolume")

\* A job's baseline is not ahead of the generations.
BaselineInv ==
    \A w \in Writers :
        /\ all_gen[w] <= purge_all_generation
        /\ url[w] \in Urls \ erased /\ all_gen[w] = purge_all_generation =>
               url_gen[w] <= CurrentGen(url[w])

\* A thread about to Remove a key has fenced every active job on it ...
RemoveFenced ==
    \A t \in Threads :
        pc[t] = "remove" /\ url[t] \notin erased =>
            \A w \in Active(url[t]) : WasPurgedSinceDispatch(w)

\* ... and a reset about to clear the volume every active job.
ResetFenced ==
    pc[Loop] = "rsVolume" =>
        \A w \in Writers : url[w] \in Urls => all_gen[w] < purge_all_generation

\* A job whose source was purged is fenced, or will be by the undo of the job
\* that resurrected that source.
StaleReaderFenced ==
    \A w \in Writers :
        /\ HasRead(w) /\ url[w] \in Urls \ erased
        /\ src[w] < epoch[url[w]]
        => \/ WasPurgedSinceDispatch(w)
           \/ \E v \in Active(url[w]) : PendingUndo(v)

\* Why NoResurrection holds, as an inductive invariant of the whole worker.
FenceInv ==
    /\ MutexInv /\ BaselineInv /\ RemoveFenced /\ ResetFenced
    /\ StaleReaderFenced /\ NoResurrection

\* InvalidateUrl's comment: "in-flight workers can neither re-add stale dedup
\* entries nor re-insert purged content after this purge completes".  Second
\* half: with no thread at work, the cache holds nothing purged.
PurgedStaysPurged ==
    (\A t \in Threads : pc[t] = "idle") => \A e \in cache : ~Stale(e)

\* ClearUrlProcessingState's comment: a purge clears the write-failure cooldown
\* "so the purged URL can be reprocessed immediately (not blocked for up to 60
\* seconds)".  So a job fenced by a finished purge does not set it again.
NoCooldownAfterPurge ==
    \A w \in Writers :
        pc[w] = "failCooldown" /\ WasPurgedSinceDispatch(w) =>
            \/ \E t \in Threads : url[t] = url[w] /\ pc[t] \in Undoing
            \/ pc[Loop] \in ResetLabels

-----------------------------------------------------------------------------
(* Dedup marks, integrity pins, in-flight tracking.                         *)

\* MarkCopyWritten and MarkVariantProcessed: a record that the copy was written
\* lives in the generation of the mark it qualifies, through rotations, purges
\* and heals, so no record outlives its mark and resurfaces for a later one.
CopyRecordHasMark ==
    /\ copy_written_current \subseteq processed_current
    /\ copy_written_previous \subseteq processed_previous

\* SRI (issue #656), WriteTextVariant against RegisterIntegrityPinnedUrls: a
\* minified copy sits in the identity slot of a pinned key only while its
\* writer has yet to re-check the pin, or a Remove of the key is to come.
PinnedIdentityOriginal ==
    \A e \in cache :
        e.slot = "identity" /\ e.opt /\ e.url \in integrity_pinned_urls =>
            \/ \E w \in Active(e.url) :
                   /\ pc[w] \in {"post", "bump", "remove", "repin", "unpin"}
                   /\ slot[w] = "identity" \/ pc[w] \in {"repin", "unpin"}
            \/ \E t \in Pages : pc[t] = "pinRemove" /\ url[t] = e.url

\* The comment of the CSS and JS branches: "never write a variant for an
\* integrity-pinned URL", all encodings: with no thread at work, no copy of a
\* pinned key holds optimized bytes.
PinnedServesOriginal ==
    (\A t \in Threads : pc[t] = "idle") =>
        \A e \in cache : e.opt => e.url \notin integrity_pinned_urls

\* DispatchNotification and OnNotificationDone: a key is in in_flight_urls_
\* exactly while one tracked job works on it, so no notification is dropped
\* for a job that is gone and no two tracked jobs share a key.
InFlightExact ==
    /\ in_flight_urls = {url[w] : w \in Jobs} \ {Nobody}
    /\ \A v, w \in Jobs : url[v] = url[w] /\ url[v] # Nobody => v = w

\* Every dispatched job finishes and gives its key back, purges, resets and
\* undos of other threads notwithstanding (no thread waits for ever on
\* purge_gen_mutex_).
InFlightReleased ==
    \A u \in Urls : u \in in_flight_urls ~> u \notin in_flight_urls

\* An undo or purge that has begun completes: purge_gen_mutex_ is not held
\* for ever and purged content of a late writer does go away.
ResurrectionUndone ==
    \A u \in Urls :
        (u \notin erased /\ \E e \in cache : e.url = u /\ Stale(e))
            ~> (u \in erased \/ \A e \in cache : e.url = u => ~Stale(e))

=============================================================================
