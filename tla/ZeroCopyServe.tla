--------------------------- MODULE ZeroCopyServe ---------------------------
(***************************************************************************)
(* Zero-copy serving in the nginx module: a cache hit is sent straight     *)
(* from the borrowed mapping, or from a copy when the barrier says so,     *)
(* while a per-request timer re-checks the borrow; a stale entry is        *)
(* stashed across an upstream fetch and may be served after it.  The cache *)
(* writer (StripeLease) runs in another process and interleaves with every *)
(* step; nginx itself is one thread, so a handler that copies holds it.    *)
(***************************************************************************)
EXTENDS StripeLease, Integers

CONSTANTS
  Requests,        \* requests of one nginx worker over the same stripe
  RenewInterval,   \* kLeaseRenewIntervalMs
  BarrierMargin,   \* kBarrierMarginNs
  Lateness,        \* how late the event loop may run a timer
  Chunks,          \* bound: bursts a body drains in
  MaxInstances,    \* bound: cache instances opened
  NoRequest        \* the nginx thread is in its event loop

\* The timing contract of the code's constants: a timer, late as it may be,
\* fires while a lease just stamped is live, and within the barrier's margin.
ASSUME TimingAssumption ==
  /\ RenewInterval \in Nat /\ BarrierMargin \in Nat /\ Lateness \in Nat
  /\ RenewInterval + Lateness < LeaseFloor
  /\ RenewInterval + Lateness <= BarrierMargin
  /\ BarrierMargin < WrapCeiling

ASSUME ServeAssumption ==
  /\ Chunks \in Nat
  /\ MaxInstances \in Nat \ {0}
  /\ NoRequest \notin Requests

VARIABLES
  req,       \* per request: its context (ctx), its buffer and its timer
  running,   \* the request whose handler holds the nginx thread
  g_cache,   \* the current cache instance, 0 when none is open
  opened     \* cache instances opened so far

vars == <<lease, writer, wrap_deferred, until_forced, wrap_epoch,
          req, running, g_cache, opened>>

\* phase: "idle" (no such request), "emit" (hit, barrier next), "upstream"
\* (stale entry stashed), "reply" (the stash will be served), "copy",
\* "sending", "miss" (the origin's own body is served).
\* form, left, clean: the body buffer, the bursts not yet accepted by the
\* socket, and whether a copied body was copied whole.
Contexts ==
  [phase : {"idle", "emit", "upstream", "reply", "copy", "sending", "miss"},
   read_result : Handles, stale_read_result : Handles,
   cache_anchor : 0..MaxInstances,
   aliased_buf : BOOLEAN,
   form : {"none", "alias", "owned"}, left : 0..Chunks, clean : BOOLEAN,
   timer_set : BOOLEAN, timer : 0..(RenewInterval + Lateness),
   conn_error : BOOLEAN]

NoContext ==
  [phase |-> "idle", read_result |-> NoHandle, stale_read_result |-> NoHandle,
   cache_anchor |-> 0, aliased_buf |-> FALSE,
   form |-> "none", left |-> 0, clean |-> TRUE,
   timer_set |-> FALSE, timer |-> 0, conn_error |-> FALSE]

\* Everything has the type the code gives it.
TypeOK ==
  /\ StripeTypeOK
  /\ req \in [Requests -> Contexts]
  /\ running \in Requests \cup {NoRequest}
  /\ g_cache \in 0..MaxInstances
  /\ opened \in 0..MaxInstances

Init ==
  /\ StripeInit
  /\ req = [r \in Requests |-> NoContext]
  /\ running = NoRequest
  /\ g_cache = 1
  /\ opened = 1

\* The nginx thread waits for events.
EventLoop == running = NoRequest

cache_vars == <<g_cache, opened>>
writer_vars == <<writer, wrap_deferred, until_forced, wrap_epoch>>

----------------------------------------------------------------------------
(* zerocopy_barrier.h                                                      *)

\* Mutant: the forced-wrap deadline is not consulted.
ClassifyRenewalNoDeadline(renewal, near) ==
  CASE renewal = "kTorn" -> "kAbort"
    [] renewal \in {"kCopyNow", "kLeasesOff"} -> "kCopyOut"
    [] renewal = "kOk" -> "kAlias"

ClassifyRenewal(renewal, near) ==
  CASE renewal = "kTorn" -> "kAbort"
    [] renewal \in {"kCopyNow", "kLeasesOff"} -> "kCopyOut"
    [] renewal = "kOk" -> IF near THEN "kCopyOut" ELSE "kAlias"

\* ps_zerocopy_emit_barrier, and the same two calls in the timer's handler.
Barrier(h) ==
  ClassifyRenewal(renew_lease_strict(h), ForcedWrapWithin(h, BarrierMargin))

----------------------------------------------------------------------------
(* The per-request lease timer                                             *)

\* ngx_add_timer: due after RenewInterval, run at most Lateness after that.
Armed(c) == [c EXCEPT !.timer_set = TRUE, !.timer = RenewInterval + Lateness]

\* ngx_http_pagespeed_ensure_lease_renew_timer: idempotent.
EnsureLeaseRenewTimer(c) == IF c.timer_set THEN c ELSE Armed(c)

Due(r) == req[r].timer_set /\ req[r].timer <= Lateness

----------------------------------------------------------------------------
(* Requests                                                                *)

Become(r, c) == req' = [req EXCEPT ![r] = c]

\* ngx_http_pagespeed_cleanup: the timer, both results and the anchor go.
Cleanup(r) == Become(r, NoContext)

\* Mutant: the request keeps no reference to the instance it read from.
TakeAnchorNone(c) == c

\* ctx->cache_anchor = new std::shared_ptr<PageSpeedCache>(cache).
TakeAnchor(c) == [c EXCEPT !.cache_anchor = g_cache]

\* The content handler finds an entry in the cache and evaluates its
\* freshness: it is served (fresh, no-cache, or stale within another
\* request's refresh window), stashed across a conditional or full re-fetch,
\* or dropped for the origin's answer.  A borrow of the mapping validates
\* against an announced wrap; the RAM tier is off here (ram_cache_size 0).
Lookup(r, verdict, size) ==
  LET h == [kind |-> "disk", epoch |-> wrap_epoch, instance |-> g_cache]
      c == TakeAnchor([NoContext EXCEPT !.left = size])
  IN /\ EventLoop /\ req[r].phase = "idle" /\ g_cache # 0
     /\ writer = "idle"
     /\ lease' = Stamped(h)
     /\ \/ /\ verdict = "serve"
           /\ Become(r, [c EXCEPT !.phase = "emit", !.read_result = h])
           /\ running' = r
        \/ /\ verdict = "stash"
           /\ Become(r, EnsureLeaseRenewTimer(
                [c EXCEPT !.phase = "upstream", !.stale_read_result = h]))
           /\ UNCHANGED running
        \/ /\ verdict = "drop"
           /\ Become(r, [c EXCEPT !.phase = "miss", !.left = 0])
           /\ UNCHANGED running
     /\ UNCHANGED <<writer_vars, cache_vars>>

\* The header filter on the upstream's answer: a 304, or an error with a
\* stale serve permitted, hands the stash to the body filter; any other
\* answer frees it and the origin's body is served.
UpstreamAnswers(r) ==
  /\ EventLoop
  /\ req[r].phase = "upstream"
  /\ \/ Become(r, [req[r] EXCEPT !.phase = "reply",
                                 !.read_result = req[r].stale_read_result,
                                 !.stale_read_result = NoHandle])
     \/ Become(r, [req[r] EXCEPT !.phase = "miss", !.left = 0,
                                 !.stale_read_result = NoHandle])
  /\ UNCHANGED <<stripe_vars, running, cache_vars>>

\* The barrier where a body is first handed to the output filter: the hit
\* and llms.txt handlers, and the body filter for a stash.  The content
\* handler skips it for an empty body.
Emit(r, must_copy) ==
  LET c == req[r]
      h == c.read_result
      action == IF must_copy THEN "kCopyOut" ELSE Barrier(h)
  IN /\ \/ c.phase = "emit" /\ running = r
        \/ c.phase = "reply" /\ EventLoop
     /\ \/ /\ c.phase = "emit" /\ c.left = 0
           /\ Become(r, [c EXCEPT !.phase = "sending"])
           /\ running' = NoRequest
           /\ UNCHANGED lease
        \/ /\ c.phase = "reply" \/ c.left > 0
           /\ lease' = IF must_copy THEN lease ELSE Stamped(h)
           /\ \/ /\ action = "kAbort"
                 /\ Cleanup(r)
                 /\ running' = NoRequest
              \/ /\ action = "kCopyOut"
                 /\ Become(r, [c EXCEPT !.phase = "copy"])
                 /\ running' = r
              \/ /\ action = "kAlias"
                 /\ Become(r, EnsureLeaseRenewTimer(
                      [c EXCEPT !.phase = "sending", !.form = "alias",
                                !.aliased_buf = TRUE]))
                 /\ running' = NoRequest
     /\ UNCHANGED <<writer_vars, cache_vars>>

\* Mutant: the copy is kept whatever the renewal after it says.
CopyThenVerifyUnchecked(r) ==
  LET c == req[r]
      h == c.read_result
  IN /\ running = r /\ c.phase = "copy"
     /\ lease' = Stamped(h)
     /\ running' = NoRequest
     /\ \/ Become(r, [c EXCEPT !.phase = "sending", !.form = "owned",
                               !.clean = Intact(h), !.aliased_buf = FALSE,
                               !.read_result = Released])
        \/ Cleanup(r)
     /\ UNCHANGED <<writer_vars, cache_vars>>

\* CopyThenVerify, in ps_zerocopy_copy_out for a whole body and in
\* ps_zerocopy_dealias_tail for the unsent tail of an aliased one: the copy
\* is over, the strict renewal decides whether it is kept.  A failed
\* allocation discards as a torn copy does.
CopyThenVerify(r) ==
  LET c == req[r]
      h == c.read_result
  IN /\ running = r /\ c.phase = "copy"
     /\ lease' = Stamped(h)
     /\ running' = NoRequest
     /\ \/ /\ renew_lease_strict(h) # "kTorn"
           /\ Become(r, [c EXCEPT !.phase = "sending", !.form = "owned",
                                  !.clean = Intact(h), !.aliased_buf = FALSE,
                                  !.read_result = Released])
        \/ Cleanup(r)
     /\ UNCHANGED <<writer_vars, cache_vars>>

\* Mutant: the send loop runs once more on a drained buffer.
DrainPastEnd(r) ==
  /\ EventLoop
  /\ req[r].phase = "sending" /\ ~req[r].conn_error
  /\ Become(r, [req[r] EXCEPT !.left = @ - 1])
  /\ UNCHANGED <<stripe_vars, running, cache_vars>>

\* The client's socket accepts one more burst.
Drain(r) ==
  /\ EventLoop
  /\ req[r].phase = "sending" /\ req[r].left > 0 /\ ~req[r].conn_error
  /\ Become(r, [req[r] EXCEPT !.left = @ - 1])
  /\ UNCHANGED <<stripe_vars, running, cache_vars>>

\* The client is gone while its body is sent, and nginx has not torn the
\* request down yet: the timer's handler looks at connection->error only
\* then.  A client that leaves earlier ends the request (RequestEnds).
ClientGone(r) ==
  /\ EventLoop
  /\ req[r].phase = "sending" /\ ~req[r].conn_error
  /\ Become(r, [req[r] EXCEPT !.conn_error = TRUE])
  /\ UNCHANGED <<stripe_vars, running, cache_vars>>

\* nginx ends the request: sent, timed out, or the client is gone.
RequestEnds(r) ==
  /\ EventLoop
  /\ req[r].phase # "idle"
  /\ Cleanup(r)
  /\ UNCHANGED <<stripe_vars, running, cache_vars>>

----------------------------------------------------------------------------
\* ngx_http_pagespeed_lease_renew_handler.
LeaseRenewHandler(r) ==
  LET c == [req[r] EXCEPT !.timer_set = FALSE, !.timer = 0]
      h == c.read_result
      s == c.stale_read_result
  IN /\ EventLoop
     /\ Due(r)
     /\ \/ /\ h.kind # "none" /\ c.aliased_buf
           /\ \/ /\ c.left = 0 \/ c.conn_error
                 /\ Become(r, [c EXCEPT !.aliased_buf = FALSE])
                 /\ UNCHANGED <<lease, running>>
              \/ /\ c.left > 0 /\ ~c.conn_error
                 /\ lease' = Stamped(h)
                 /\ Become(r, CASE Barrier(h) = "kAbort" -> NoContext
                                [] Barrier(h) = "kCopyOut" ->
                                     [c EXCEPT !.phase = "copy"]
                                [] Barrier(h) = "kAlias" -> Armed(c))
                 /\ running' = IF Barrier(h) = "kCopyOut" THEN r ELSE running
        \/ /\ h.kind # "none" /\ ~c.aliased_buf
           /\ lease' = Stamped(h)
           /\ Become(r, IF renew_lease(h) THEN Armed(c) ELSE c)
           /\ UNCHANGED running
        \/ /\ h.kind = "none"
           /\ lease' = Stamped(s)
           /\ Become(r, IF renew_lease(s) THEN Armed(c) ELSE c)
           /\ UNCHANGED running
     /\ UNCHANGED <<writer_vars, cache_vars>>

----------------------------------------------------------------------------
(* Cache instances                                                         *)

\* GetCache opens the cache; CheckGenerationAndGetCache replaces it after a
\* purge or reset.
OpenCache ==
  /\ EventLoop
  /\ opened < MaxInstances
  /\ opened' = opened + 1
  /\ g_cache' = opened + 1
  /\ UNCHANGED <<stripe_vars, req, running>>

\* The reopen failed, or the optimizer's cache format no longer matches: the
\* module lets go of its instance.
DropCache ==
  /\ EventLoop
  /\ g_cache # 0
  /\ g_cache' = 0
  /\ UNCHANGED <<stripe_vars, req, running, opened>>

\* The shared pointers that keep an instance, and its mapping, alive.
Alive(i) == i = g_cache \/ \E r \in Requests : req[r].cache_anchor = i

----------------------------------------------------------------------------
\* Time passes; nginx has run every timer within its lateness.
Tick ==
  /\ \A r \in Requests : req[r].timer_set => req[r].timer > 0
  /\ StripeTick
  /\ req' = [r \in Requests |->
               IF req[r].timer_set
               THEN [req[r] EXCEPT !.timer = @ - 1] ELSE req[r]]
  /\ UNCHANGED <<running, cache_vars>>

Writer == WriterStep /\ UNCHANGED <<req, running, cache_vars>>

RequestStep(r) ==
  \/ \E verdict \in {"serve", "stash", "drop"}, size \in {0, Chunks} :
        Lookup(r, verdict, size)
  \/ UpstreamAnswers(r)
  \/ \E must_copy \in BOOLEAN : Emit(r, must_copy)
  \/ CopyThenVerify(r)
  \/ Drain(r)
  \/ ClientGone(r)
  \/ RequestEnds(r)
  \/ LeaseRenewHandler(r)

Next ==
  \/ \E r \in Requests : RequestStep(r)
  \/ OpenCache
  \/ DropCache
  \/ Writer
  \/ Tick

Spec == Init /\ [][Next]_vars

----------------------------------------------------------------------------
(* Properties                                                              *)

\* The request sends from the mapping and still has bytes to send.
OnWire(r) ==
  /\ req[r].form = "alias" /\ req[r].phase = "sending"
  /\ req[r].left > 0 /\ ~req[r].conn_error

\* The bytes the request would send next are those of the entry it looked up.
Genuine(r) == IF req[r].form = "alias" THEN Intact(req[r].read_result)
              ELSE req[r].clean

\* The step in which the client accepts a burst of the request's body.
Burst(r) ==
  /\ req[r].phase = "sending" /\ req'[r].phase = "sending"
  /\ req'[r].left < req[r].left

\* No burst a client accepts holds bytes that a wrap of the cache's write
\* buffer may have overwritten, whether it is sent from the mapping under a
\* lease or from a copy (ps_zerocopy_copy_out, ps_zerocopy_dealias_tail and
\* the strict re-checks of the lease timer).
NoOverwrittenByteSent == [][\A r \in Requests : Burst(r) => Genuine(r)]_vars

\* While a body is on the wire from the mapping, its timer is armed and will
\* run, late as it may be, before the lease lapses and before a deferred wrap
\* is forced (kLeaseRenewIntervalMs against 3T/4 and kBarrierMarginNs).
AliasWatched ==
  \A r \in Requests : OnWire(r) =>
    /\ req[r].timer_set
    /\ req[r].timer < lease
    /\ wrap_deferred => req[r].timer < until_forced

\* A handle's cache instance outlives it, however many generation changes
\* come while the client drains or the upstream answers (cache_anchor), and
\* a timer is in the tree only while its request exists.
NothingDangles ==
  \A r \in Requests :
    /\ \A h \in {req[r].read_result, req[r].stale_read_result} :
         h.kind = "disk" => Alive(h.instance)
    /\ req[r].timer_set => req[r].phase # "idle"
=============================================================================
