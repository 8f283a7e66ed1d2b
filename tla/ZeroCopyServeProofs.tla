------------------------- MODULE ZeroCopyServeProofs -------------------------
(***************************************************************************)
(* For any number of requests, any bodies and any constants that meet the  *)
(* timing assumption: a body on the wire from the mapping is re-checked in *)
(* time, no overwritten byte is sent, and no handle outlives its cache.    *)
(* The inductive invariant says, of every request by itself, what its      *)
(* context looks like (Shaped) and what holds of the stripe while its body *)
(* is on the wire (Covered): the epoch has not moved, no wrap is being     *)
(* committed, and the timer is ahead of the lease and of a forced wrap.    *)
(***************************************************************************)
EXTENDS ZeroCopyServe, TLAPS

Borrowed(h) == h.kind = "disk"

Wire(c) == c.form = "alias" /\ c.phase = "sending" /\ c.left > 0 /\ ~c.conn_error

Shaped(c) ==
  /\ c.clean
  /\ c.phase \in {"emit", "reply", "copy"} => Borrowed(c.read_result)
  /\ c.phase = "upstream" => Borrowed(c.stale_read_result)
  /\ c.aliased_buf => /\ c.read_result.kind = "disk"
                      /\ c.form = "alias"
                      /\ c.phase \in {"sending", "copy"}
  /\ c.phase = "sending" /\ c.left > 0 => c.form # "none"
  /\ c.form = "alias" => c.phase \in {"sending", "copy"}
  /\ Wire(c) => c.aliased_buf /\ c.timer_set
  /\ Borrowed(c.read_result) => c.read_result.instance = c.cache_anchor
  /\ Borrowed(c.stale_read_result) =>
       c.stale_read_result.instance = c.cache_anchor
  /\ c.timer_set => c.phase # "idle"

CoveredBy(c, w, l, d, u, e) ==
  Wire(c) =>
    /\ c.read_result.epoch = e
    /\ w # "wrapping"
    /\ c.timer < l
    /\ d => c.timer < u

Covered(c) == CoveredBy(c, writer, lease, wrap_deferred, until_forced, wrap_epoch)

Held(r) == req[r].phase \in {"emit", "copy"} => running = r

ServeInv ==
  /\ TypeOK
  /\ \A r \in Requests : Shaped(req[r]) /\ Covered(req[r]) /\ Held(r)

----------------------------------------------------------------------------
\* Stamping a lease never shortens it, and a borrow of the mapping has at
\* least the floor after it.
LEMMA StampRaises ==
  ASSUME StripeTypeOK, NEW h \in Handles
  PROVE  /\ Stamped(h) \in 0..LeaseDuration
         /\ lease <= Stamped(h)
         /\ h.kind = "disk" => LeaseFloor <= Stamped(h)
BY LeaseAssumption DEF StripeTypeOK, Stamped, Handles

\* What each outcome of the barrier means for the stripe.
LEMMA BarrierMeans ==
  ASSUME NEW h \in Handles
  PROVE  /\ Barrier(h) \in {"kAbort", "kCopyOut", "kAlias"}
         /\ Barrier(h) = "kAlias" =>
              /\ h.kind = "disk"
              /\ h.epoch = wrap_epoch
              /\ writer = "idle"
              /\ ~(wrap_deferred /\ until_forced <= BarrierMargin)
BY DEF Barrier, ClassifyRenewal, renew_lease_strict, ForcedWrapWithin, Handles

LEMMA NoContextFits ==
  /\ NoContext \in Contexts
  /\ Shaped(NoContext)
  /\ Covered(NoContext)
  /\ NoContext.phase = "idle"
<1>0. NoHandle \in Handles
  BY LeaseAssumption DEF NoHandle, Handles
<1>1. NoContext \in Contexts
  BY <1>0, ServeAssumption, TimingAssumption DEF NoContext, Contexts
<1>2. Shaped(NoContext)
  BY DEF NoContext, Shaped, Wire, Borrowed, NoHandle
<1>3. Covered(NoContext)
  BY DEF NoContext, Covered, CoveredBy, Wire
<1> QED BY <1>1, <1>2, <1>3 DEF NoContext

\* A step of one request that leaves the writer alone and does not shorten
\* the lease keeps the invariant, if the request's own context fits after it.
LEMMA OneRequest ==
  ASSUME ServeInv, NEW r \in Requests, NEW c \in Contexts,
         Become(r, c), UNCHANGED <<writer_vars, cache_vars>>,
         lease' \in 0..LeaseDuration, lease <= lease',
         Shaped(c),
         CoveredBy(c, writer, lease', wrap_deferred, until_forced, wrap_epoch),
         running' \in {r, NoRequest}, running \in {r, NoRequest},
         c.phase \in {"emit", "copy"} => running' = r
  PROVE  ServeInv'
<1>1. TypeOK'
  BY DEF ServeInv, TypeOK, StripeTypeOK, Become, writer_vars, cache_vars
<1>2. ASSUME NEW s \in Requests
      PROVE  Shaped(req'[s]) /\ Covered(req[s])' /\ Held(s)'
  <2>1. CASE s = r
    <3>1. req'[s] = c
      BY <2>1 DEF ServeInv, TypeOK, Become
    <3>2. Covered(req[s])'
      BY <3>1 DEF Covered, writer_vars
    <3> QED BY <2>1, <3>1, <3>2 DEF Held
  <2>2. CASE s # r
    <3>1. req'[s] = req[s]
      BY <2>2 DEF ServeInv, TypeOK, Become
    <3>2. Shaped(req[s]) /\ Covered(req[s]) /\ Held(s) /\ req[s] \in Contexts
      BY DEF ServeInv, TypeOK
    <3>3. Covered(req[s])'
      <4>1. wrap_epoch' = wrap_epoch /\ writer' = writer
            /\ wrap_deferred' = wrap_deferred /\ until_forced' = until_forced
        BY DEF writer_vars
      <4>2. req[s].timer \in Nat /\ lease \in Nat /\ lease' \in Nat
        BY <3>2, TimingAssumption, LeaseAssumption
        DEF Contexts, ServeInv, TypeOK, StripeTypeOK
      <4> QED BY <3>1, <3>2, <4>1, <4>2 DEF Covered, CoveredBy
    <3>4. Held(s)'
      BY <2>2, <3>1, <3>2, ServeAssumption DEF Held
    <3> QED BY <3>1, <3>2, <3>3, <3>4
  <2> QED BY <2>1, <2>2
<1> QED BY <1>1, <1>2 DEF ServeInv

\* Two contexts that differ in their timer only.
SameBut(c, d) ==
  /\ d.phase = c.phase /\ d.read_result = c.read_result
  /\ d.stale_read_result = c.stale_read_result
  /\ d.cache_anchor = c.cache_anchor /\ d.aliased_buf = c.aliased_buf
  /\ d.form = c.form /\ d.left = c.left /\ d.clean = c.clean
  /\ d.conn_error = c.conn_error

LEMMA ArmedFits ==
  ASSUME NEW c \in Contexts
  PROVE  /\ Armed(c) \in Contexts
         /\ Armed(c).timer_set
         /\ Armed(c).timer = RenewInterval + Lateness
         /\ SameBut(c, Armed(c))
<1>1. RenewInterval + Lateness \in 0..(RenewInterval + Lateness)
  BY TimingAssumption
<1>2. Armed(c) \in Contexts
  BY Zenon, <1>1 DEF Armed, Contexts
<1>3. Armed(c).timer_set /\ Armed(c).timer = RenewInterval + Lateness
  BY DEF Armed, Contexts
<1>4. SameBut(c, Armed(c))
  BY DEF Armed, Contexts, SameBut
<1> QED BY <1>2, <1>3, <1>4

\* The context after ensure_lease_renew_timer.
LEMMA TimerFits ==
  ASSUME NEW c \in Contexts
  PROVE  /\ EnsureLeaseRenewTimer(c) \in Contexts
         /\ EnsureLeaseRenewTimer(c).timer_set
         /\ EnsureLeaseRenewTimer(c).timer <= RenewInterval + Lateness
         /\ SameBut(c, EnsureLeaseRenewTimer(c))
<1>1. CASE c.timer_set
  <2>1. EnsureLeaseRenewTimer(c) = c
    BY <1>1 DEF EnsureLeaseRenewTimer
  <2>2. c.timer <= RenewInterval + Lateness
    BY TimingAssumption DEF Contexts
  <2> QED BY <1>1, <2>1, <2>2 DEF SameBut
<1>2. CASE ~c.timer_set
  <2>1. EnsureLeaseRenewTimer(c) = Armed(c)
    BY <1>2 DEF EnsureLeaseRenewTimer
  <2> QED BY <2>1, ArmedFits, TimingAssumption
<1> QED BY <1>1, <1>2

\* A context that is not sending from the mapping needs no cover.
LEMMA NotOnWire ==
  ASSUME NEW c, ~Wire(c), NEW w, NEW l, NEW d, NEW u, NEW e
  PROVE  CoveredBy(c, w, l, d, u, e)
BY DEF CoveredBy

LEMMA CleanupKeeps ==
  ASSUME ServeInv, NEW r \in Requests, Cleanup(r),
         UNCHANGED <<writer_vars, cache_vars>>,
         lease' \in 0..LeaseDuration, lease <= lease',
         running' \in {r, NoRequest}, running \in {r, NoRequest}
  PROVE  ServeInv'
<1>1. CoveredBy(NoContext, writer, lease', wrap_deferred, until_forced, wrap_epoch)
  BY DEF CoveredBy, Wire, NoContext
<1> QED BY <1>1, NoContextFits, OneRequest DEF Cleanup

LEMMA LookupKeeps ==
  ASSUME ServeInv, NEW r \in Requests,
         NEW verdict \in {"serve", "stash", "drop"}, NEW size \in {0, Chunks},
         Lookup(r, verdict, size)
  PROVE  ServeInv'
<1> DEFINE h == [kind |-> "disk", epoch |-> wrap_epoch, instance |-> g_cache]
           c == TakeAnchor([NoContext EXCEPT !.left = size])
           served == [c EXCEPT !.phase = "emit", !.read_result = h]
           stashed == [c EXCEPT !.phase = "upstream", !.stale_read_result = h]
           dropped == [c EXCEPT !.phase = "miss", !.left = 0]
<1>0. StripeTypeOK /\ g_cache \in 0..MaxInstances /\ g_cache \in Nat
  BY ServeAssumption DEF ServeInv, TypeOK
<1>1. h \in Handles /\ Borrowed(h) /\ h.instance = g_cache
  BY <1>0, LeaseAssumption DEF Handles, StripeTypeOK, Borrowed
<1>2. /\ c \in Contexts /\ c.cache_anchor = g_cache /\ c.clean
      /\ c.read_result = NoHandle /\ c.stale_read_result = NoHandle
      /\ ~c.aliased_buf /\ c.form = "none" /\ ~c.timer_set
  <2>1. size \in 0..Chunks
    BY ServeAssumption
  <2>2. c \in Contexts
    BY Zenon, <1>0, <2>1, NoContextFits DEF TakeAnchor, Contexts
  <2>3. /\ c.cache_anchor = g_cache /\ c.clean
        /\ c.read_result = NoHandle /\ c.stale_read_result = NoHandle
    BY DEF TakeAnchor, NoContext
  <2>4. ~c.aliased_buf /\ c.form = "none" /\ ~c.timer_set
    BY DEF TakeAnchor, NoContext
  <2> QED BY <2>2, <2>3, <2>4
<1>3. /\ lease' = Stamped(h) /\ UNCHANGED <<writer_vars, cache_vars>>
      /\ running = NoRequest
      /\ \/ Become(r, served) /\ running' = r
         \/ Become(r, EnsureLeaseRenewTimer(stashed)) /\ running' = running
         \/ Become(r, dropped) /\ running' = running
  BY DEF Lookup, EventLoop
<1>4. lease' \in 0..LeaseDuration /\ lease <= lease'
  BY <1>0, <1>1, <1>3, StampRaises
<1> HIDE DEF h, c
<1>5. CASE Become(r, served) /\ running' = r
  <2>1. served \in Contexts
    BY Zenon, <1>1, <1>2 DEF Contexts
  <2>2. /\ served.phase = "emit" /\ served.read_result = h
        /\ served.stale_read_result = NoHandle
        /\ served.cache_anchor = g_cache /\ served.form = "none"
        /\ ~served.aliased_buf /\ served.clean
    BY <1>2 DEF Contexts
  <2> HIDE DEF served
  <2>3. Shaped(served) /\ ~Wire(served)
    BY <1>1, <2>2 DEF Shaped, Wire, Borrowed, NoHandle
  <2> QED BY <1>3, <1>4, <1>5, <2>1, <2>3, OneRequest, NotOnWire
<1>6. CASE Become(r, EnsureLeaseRenewTimer(stashed)) /\ running' = running
  <2>1. stashed \in Contexts
    BY Zenon, <1>1, <1>2 DEF Contexts
  <2> DEFINE d == EnsureLeaseRenewTimer(stashed)
  <2>2. d \in Contexts /\ Shaped(d) /\ ~Wire(d) /\ d.phase = "upstream"
    <3>1. /\ stashed.phase = "upstream" /\ stashed.stale_read_result = h
          /\ stashed.read_result = NoHandle /\ stashed.cache_anchor = g_cache
          /\ stashed.form = "none" /\ ~stashed.aliased_buf /\ stashed.clean
      BY <1>2, <2>1 DEF Contexts
    <3> HIDE DEF stashed
    <3>2. d \in Contexts /\ SameBut(stashed, d)
      BY <2>1, TimerFits
    <3> HIDE DEF d
    <3> QED BY <1>1, <3>1, <3>2 DEF SameBut, Shaped, Wire, Borrowed, NoHandle
  <2> HIDE DEF d
  <2> QED BY <1>3, <1>4, <1>6, <2>2, OneRequest, NotOnWire DEF d
<1>7. CASE Become(r, dropped) /\ running' = running
  <2>0. 0 \in 0..Chunks
    BY ServeAssumption
  <2>1. dropped \in Contexts
    BY Zenon, <1>2, <2>0 DEF Contexts
  <2>2. /\ dropped.phase = "miss" /\ dropped.read_result = NoHandle
        /\ dropped.stale_read_result = NoHandle /\ dropped.form = "none"
        /\ ~dropped.aliased_buf /\ dropped.clean
    BY <1>2 DEF Contexts
  <2> HIDE DEF dropped
  <2>3. Shaped(dropped) /\ ~Wire(dropped)
    BY <2>2 DEF Shaped, Wire, Borrowed, NoHandle
  <2> QED BY <1>3, <1>4, <1>7, <2>1, <2>2, <2>3, OneRequest, NotOnWire
<1> QED BY <1>3, <1>5, <1>6, <1>7

LEMMA UpstreamKeeps ==
  ASSUME ServeInv, NEW r \in Requests, UpstreamAnswers(r)
  PROVE  ServeInv'
<1> DEFINE c == req[r]
           reply == [c EXCEPT !.phase = "reply",
                              !.read_result = c.stale_read_result,
                              !.stale_read_result = NoHandle]
           miss == [c EXCEPT !.phase = "miss", !.left = 0,
                             !.stale_read_result = NoHandle]
<1>1. /\ c \in Contexts /\ Shaped(c) /\ c.phase = "upstream"
      /\ running = NoRequest /\ running' = running
      /\ UNCHANGED <<writer_vars, cache_vars>>
      /\ lease' \in 0..LeaseDuration /\ lease <= lease'
      /\ Become(r, reply) \/ Become(r, miss)
  BY LeaseAssumption
  DEF ServeInv, TypeOK, StripeTypeOK, UpstreamAnswers, EventLoop, stripe_vars,
      writer_vars
<1> HIDE DEF c
<1>2. NoHandle \in Handles
  BY LeaseAssumption DEF NoHandle, Handles
<1>a. /\ c.clean /\ Borrowed(c.stale_read_result) /\ ~c.aliased_buf
      /\ c.stale_read_result.instance = c.cache_anchor /\ c.form # "alias"
      /\ Borrowed(c.read_result) => c.read_result.instance = c.cache_anchor
  BY <1>1 DEF Shaped
<1>3. /\ reply \in Contexts /\ Shaped(reply) /\ ~Wire(reply)
      /\ reply.phase = "reply"
  <2>1. reply \in Contexts
    BY Zenon, <1>1, <1>2 DEF Contexts
  <2>2. /\ reply.phase = "reply" /\ reply.read_result = c.stale_read_result
        /\ reply.stale_read_result = NoHandle /\ reply.form = c.form
        /\ reply.aliased_buf = c.aliased_buf /\ reply.clean = c.clean
        /\ reply.cache_anchor = c.cache_anchor
    BY <1>1 DEF Contexts
  <2> HIDE DEF reply
  <2> QED BY <1>a, <2>1, <2>2 DEF Shaped, Wire, Borrowed, NoHandle
<1>4. miss \in Contexts /\ Shaped(miss) /\ ~Wire(miss) /\ miss.phase = "miss"
  <2>0. 0 \in 0..Chunks
    BY ServeAssumption
  <2>1. miss \in Contexts
    BY Zenon, <1>1, <1>2, <2>0 DEF Contexts
  <2>2. /\ miss.phase = "miss" /\ miss.read_result = c.read_result
        /\ miss.stale_read_result = NoHandle /\ miss.form = c.form
        /\ miss.aliased_buf = c.aliased_buf /\ miss.clean = c.clean
        /\ miss.cache_anchor = c.cache_anchor
    BY <1>1 DEF Contexts
  <2> HIDE DEF miss
  <2> QED BY <1>a, <2>1, <2>2 DEF Shaped, Wire, Borrowed, NoHandle
<1> HIDE DEF reply, miss
<1>5. CASE Become(r, reply)
  BY <1>1, <1>3, <1>5, OneRequest, NotOnWire
<1>6. CASE Become(r, miss)
  BY <1>1, <1>4, <1>6, OneRequest, NotOnWire
<1> QED BY <1>1, <1>5, <1>6
\* A handle read through a context is a handle.
LEMMA HandleOf ==
  ASSUME NEW c \in Contexts
  PROVE  c.read_result \in Handles /\ c.stale_read_result \in Handles
BY DEF Contexts

\* The context is on the wire from the mapping once the barrier says so, and
\* its timer, armed now or earlier, is covered by the lease just stamped.
LEMMA AliasCovered ==
  ASSUME ServeInv, NEW c \in Contexts, Barrier(c.read_result) = "kAlias",
         c.timer <= RenewInterval + Lateness
  PROVE  CoveredBy(c, writer, Stamped(c.read_result), wrap_deferred,
                   until_forced, wrap_epoch)
<1> DEFINE h == c.read_result
<1>1. h \in Handles
  BY HandleOf
<1>2. /\ h.kind = "disk" /\ h.epoch = wrap_epoch /\ writer = "idle"
      /\ ~(wrap_deferred /\ until_forced <= BarrierMargin)
  BY <1>1, BarrierMeans
<1>3. LeaseFloor <= Stamped(h) /\ Stamped(h) \in Nat
  BY <1>1, <1>2, StampRaises, LeaseAssumption DEF ServeInv, TypeOK
<1>4. c.timer \in Nat /\ until_forced \in Nat
  BY TimingAssumption, LeaseAssumption
  DEF Contexts, ServeInv, TypeOK, StripeTypeOK
<1> HIDE DEF h
<1>5. c.timer < Stamped(h)
  BY <1>3, <1>4, TimingAssumption, LeaseAssumption
<1>6. wrap_deferred => c.timer < until_forced
  BY <1>2, <1>4, TimingAssumption
<1> QED BY <1>2, <1>5, <1>6 DEF CoveredBy, h

LEMMA EmitKeeps ==
  ASSUME ServeInv, NEW r \in Requests, NEW must_copy \in BOOLEAN,
         Emit(r, must_copy)
  PROVE  ServeInv'
<1> DEFINE c == req[r]
           h == c.read_result
           empty == [c EXCEPT !.phase = "sending"]
           copy == [c EXCEPT !.phase = "copy"]
           alias == [c EXCEPT !.phase = "sending", !.form = "alias",
                              !.aliased_buf = TRUE]
<1>1. /\ c \in Contexts /\ Shaped(c) /\ c.phase \in {"emit", "reply"}
      /\ running \in {r, NoRequest} /\ UNCHANGED <<writer_vars, cache_vars>>
      /\ StripeTypeOK
  BY DEF ServeInv, TypeOK, Emit, EventLoop
<1>2. \/ /\ c.left = 0 /\ Become(r, empty) /\ running' = NoRequest
         /\ lease' = lease
      \/ /\ lease' \in {lease, Stamped(h)}
         /\ \/ Cleanup(r) /\ running' = NoRequest
            \/ Become(r, copy) /\ running' = r
            \/ /\ Barrier(h) = "kAlias" /\ lease' = Stamped(h)
               /\ Become(r, EnsureLeaseRenewTimer(alias))
               /\ running' = NoRequest
  BY DEF Emit
<1>3. h \in Handles
  BY <1>1, HandleOf
<1>4. lease' \in 0..LeaseDuration /\ lease <= lease'
  BY <1>1, <1>2, <1>3, StampRaises, LeaseAssumption DEF StripeTypeOK
<1>5. /\ c.clean /\ Borrowed(c.read_result) /\ ~c.aliased_buf
      /\ c.form # "alias" /\ c.read_result.instance = c.cache_anchor
      /\ Borrowed(c.stale_read_result) =>
           c.stale_read_result.instance = c.cache_anchor
  BY <1>1 DEF Shaped
<1> HIDE DEF c
<1>6. CASE c.left = 0 /\ Become(r, empty) /\ running' = NoRequest
  <2>1. empty \in Contexts
    BY <1>1 DEF Contexts
  <2>2. /\ empty.phase = "sending" /\ empty.read_result = c.read_result
        /\ empty.stale_read_result = c.stale_read_result
        /\ empty.cache_anchor = c.cache_anchor /\ empty.left = c.left
        /\ empty.form = c.form /\ empty.aliased_buf = c.aliased_buf
        /\ empty.clean = c.clean
    BY <1>1 DEF Contexts
  <2> HIDE DEF empty
  <2>3. Shaped(empty) /\ ~Wire(empty)
    BY <1>5, <1>6, <2>2 DEF Shaped, Wire, Borrowed
  <2> QED BY <1>1, <1>4, <1>6, <2>1, <2>2, <2>3, OneRequest, NotOnWire
<1>7. CASE Cleanup(r) /\ running' = NoRequest
  BY <1>1, <1>4, <1>7, CleanupKeeps
<1>8. CASE Become(r, copy) /\ running' = r
  <2>1. copy \in Contexts
    BY <1>1 DEF Contexts
  <2>2. /\ copy.phase = "copy" /\ copy.read_result = c.read_result
        /\ copy.stale_read_result = c.stale_read_result
        /\ copy.cache_anchor = c.cache_anchor
        /\ copy.form = c.form /\ copy.aliased_buf = c.aliased_buf
        /\ copy.clean = c.clean
    BY <1>1 DEF Contexts
  <2> HIDE DEF copy
  <2>3. Shaped(copy) /\ ~Wire(copy)
    BY <1>5, <2>2 DEF Shaped, Wire, Borrowed
  <2> QED BY <1>1, <1>4, <1>8, <2>1, <2>2, <2>3, OneRequest, NotOnWire
<1>9. CASE /\ Barrier(h) = "kAlias" /\ lease' = Stamped(h)
           /\ Become(r, EnsureLeaseRenewTimer(alias)) /\ running' = NoRequest
  <2> DEFINE d == EnsureLeaseRenewTimer(alias)
  <2>1. alias \in Contexts
    BY Zenon, <1>1 DEF Contexts
  <2>2. /\ alias.phase = "sending" /\ alias.read_result = c.read_result
        /\ alias.stale_read_result = c.stale_read_result
        /\ alias.cache_anchor = c.cache_anchor /\ alias.form = "alias"
        /\ alias.aliased_buf /\ alias.clean = c.clean
    BY <1>1 DEF Contexts
  <2>3. /\ d \in Contexts /\ d.timer_set /\ SameBut(alias, d)
        /\ d.timer <= RenewInterval + Lateness
    BY <2>1, TimerFits
  <2>4. h.kind = "disk"
    BY <1>3, <1>9, BarrierMeans
  <2> HIDE DEF alias, d
  <2>5. Shaped(d) /\ d.phase = "sending" /\ d.read_result = h
    BY <1>5, <2>2, <2>3, <2>4 DEF Shaped, Wire, Borrowed, SameBut
  <2>6. CoveredBy(d, writer, lease', wrap_deferred, until_forced, wrap_epoch)
    BY <1>9, <2>3, <2>5, AliasCovered
  <2> QED BY <1>1, <1>4, <1>9, <2>3, <2>5, <2>6, OneRequest DEF d
<1> QED BY <1>2, <1>6, <1>7, <1>8, <1>9
LEMMA CopyKeeps ==
  ASSUME ServeInv, NEW r \in Requests, CopyThenVerify(r)
  PROVE  ServeInv'
<1> DEFINE c == req[r]
           h == c.read_result
           owned == [c EXCEPT !.phase = "sending", !.form = "owned",
                              !.clean = Intact(h), !.aliased_buf = FALSE,
                              !.read_result = Released]
<1>1. /\ c \in Contexts /\ Shaped(c) /\ c.phase = "copy" /\ running = r
      /\ UNCHANGED <<writer_vars, cache_vars>> /\ StripeTypeOK
      /\ running' = NoRequest /\ lease' = Stamped(h)
      /\ \/ renew_lease_strict(h) # "kTorn" /\ Become(r, owned)
         \/ Cleanup(r)
  BY DEF ServeInv, TypeOK, CopyThenVerify
<1>2. h \in Handles
  BY <1>1, HandleOf
<1>3. lease' \in 0..LeaseDuration /\ lease <= lease'
  BY <1>1, <1>2, StampRaises
<1>4. /\ Borrowed(h)
      /\ Borrowed(c.stale_read_result) =>
           c.stale_read_result.instance = c.cache_anchor
  BY <1>1 DEF Shaped
<1>5. renew_lease_strict(h) # "kTorn" => Intact(h) = TRUE
  BY <1>2, <1>4 DEF renew_lease_strict, Intact, Borrowed, Handles
<1>6. Released \in Handles
  BY LeaseAssumption DEF Released, Handles
<1> HIDE DEF c, h
<1>7. CASE renew_lease_strict(h) # "kTorn" /\ Become(r, owned)
  <2>0. Intact(h) = TRUE
    BY <1>5, <1>7
  <2>1. owned \in Contexts
    BY Zenon, <1>1, <1>6, <2>0 DEF Contexts
  <2>2. /\ owned.phase = "sending" /\ owned.read_result = Released
        /\ owned.stale_read_result = c.stale_read_result
        /\ owned.cache_anchor = c.cache_anchor /\ owned.form = "owned"
        /\ owned.aliased_buf = FALSE /\ owned.clean = TRUE
    BY <1>1, <2>0 DEF Contexts
  <2> HIDE DEF owned
  <2>3. Shaped(owned) /\ ~Wire(owned)
    BY <1>4, <2>2 DEF Shaped, Wire, Borrowed, Released
  <2> QED BY <1>1, <1>3, <1>7, <2>1, <2>2, <2>3, OneRequest, NotOnWire
<1>8. CASE Cleanup(r)
  BY <1>1, <1>3, <1>8, CleanupKeeps
<1> QED BY <1>1, <1>7, <1>8

LEMMA SendKeeps ==
  ASSUME ServeInv, NEW r \in Requests, Drain(r) \/ ClientGone(r)
  PROVE  ServeInv'
<1> DEFINE c == req[r]
           drained == [c EXCEPT !.left = @ - 1]
           gone == [c EXCEPT !.conn_error = TRUE]
<1>1. /\ c \in Contexts /\ Shaped(c) /\ Covered(c) /\ c.phase = "sending"
      /\ running = NoRequest /\ running' = running
      /\ UNCHANGED <<writer_vars, cache_vars>>
      /\ lease' = lease /\ lease' \in 0..LeaseDuration /\ lease <= lease'
      /\ \/ c.left > 0 /\ Become(r, drained)
         \/ Become(r, gone)
  BY LeaseAssumption
  DEF ServeInv, TypeOK, StripeTypeOK, Drain, ClientGone, EventLoop,
      stripe_vars, writer_vars
<1> HIDE DEF c
<1>2. CASE c.left > 0 /\ Become(r, drained)
  <2>1. c.left - 1 \in 0..Chunks /\ c.left \in 0..Chunks
    BY <1>1, <1>2, ServeAssumption DEF Contexts
  <2>2. drained \in Contexts
    BY <1>1, <2>1 DEF Contexts
  <2>3. /\ drained.phase = c.phase /\ drained.read_result = c.read_result
        /\ drained.stale_read_result = c.stale_read_result
        /\ drained.cache_anchor = c.cache_anchor /\ drained.form = c.form
        /\ drained.aliased_buf = c.aliased_buf /\ drained.clean = c.clean
        /\ drained.timer_set = c.timer_set /\ drained.timer = c.timer
        /\ drained.conn_error = c.conn_error
    BY <1>1 DEF Contexts
  <2>4. Wire(drained) => Wire(c)
    BY <1>2, <2>3 DEF Wire
  <2> HIDE DEF drained
  <2>5. Shaped(drained)
    BY <1>1, <1>2, <2>3, <2>4 DEF Shaped
  <2>6. CoveredBy(drained, writer, lease', wrap_deferred, until_forced, wrap_epoch)
    BY <1>1, <2>3, <2>4 DEF Covered, CoveredBy
  <2> QED BY <1>1, <1>2, <2>2, <2>3, <2>5, <2>6, OneRequest
<1>3. CASE Become(r, gone)
  <2>1. gone \in Contexts
    BY Zenon, <1>1 DEF Contexts
  <2>2. /\ gone.phase = c.phase /\ gone.read_result = c.read_result
        /\ gone.stale_read_result = c.stale_read_result
        /\ gone.cache_anchor = c.cache_anchor /\ gone.form = c.form
        /\ gone.aliased_buf = c.aliased_buf /\ gone.clean = c.clean
        /\ gone.timer_set = c.timer_set /\ gone.left = c.left
        /\ gone.conn_error
    BY <1>1 DEF Contexts
  <2> HIDE DEF gone
  <2>3. Shaped(gone) /\ ~Wire(gone)
    BY <1>1, <2>2 DEF Shaped, Wire
  <2> QED BY <1>1, <1>3, <2>1, <2>2, <2>3, OneRequest, NotOnWire
<1> QED BY <1>1, <1>2, <1>3

LEMMA EndKeeps ==
  ASSUME ServeInv, NEW r \in Requests, RequestEnds(r)
  PROVE  ServeInv'
<1>1. /\ Cleanup(r) /\ running = NoRequest /\ running' = running
      /\ UNCHANGED <<writer_vars, cache_vars>>
      /\ lease' \in 0..LeaseDuration /\ lease <= lease'
  BY LeaseAssumption
  DEF ServeInv, TypeOK, StripeTypeOK, RequestEnds, EventLoop, stripe_vars,
      writer_vars
<1> QED BY <1>1, CleanupKeeps

\* The handler of a timer that was due.  With its body on the wire the borrow
\* is still good, so the barrier never aborts here.
LEMMA TimerKeeps ==
  ASSUME ServeInv, NEW r \in Requests, LeaseRenewHandler(r)
  PROVE  ServeInv'
<1> DEFINE c == [req[r] EXCEPT !.timer_set = FALSE, !.timer = 0]
           h == c.read_result
           s == c.stale_read_result
           idle == [c EXCEPT !.aliased_buf = FALSE]
           copy == [c EXCEPT !.phase = "copy"]
<1>1. /\ req[r] \in Contexts /\ Shaped(req[r]) /\ running = NoRequest
      /\ req[r].timer_set
      /\ UNCHANGED <<writer_vars, cache_vars>> /\ StripeTypeOK /\ Held(r)
  BY DEF ServeInv, TypeOK, LeaseRenewHandler, EventLoop, Due
<1>2. 0 \in 0..(RenewInterval + Lateness)
  BY TimingAssumption
<1>3. c \in Contexts
  BY Zenon, <1>1, <1>2 DEF Contexts
<1>4. /\ SameBut(req[r], c) /\ c.timer_set = FALSE
  BY <1>1 DEF Contexts, SameBut
<1>5. h \in Handles /\ s \in Handles
  BY Zenon, <1>3, HandleOf
<1>6. \/ /\ c.aliased_buf /\ (c.left = 0 \/ c.conn_error)
         /\ Become(r, idle) /\ lease' = lease /\ running' = running
      \/ /\ c.aliased_buf /\ c.left > 0 /\ ~c.conn_error
         /\ lease' = Stamped(h)
         /\ Become(r, CASE Barrier(h) = "kAbort" -> NoContext
                        [] Barrier(h) = "kCopyOut" -> copy
                        [] Barrier(h) = "kAlias" -> Armed(c))
         /\ running' = IF Barrier(h) = "kCopyOut" THEN r ELSE running
      \/ /\ ~c.aliased_buf \/ h.kind = "none"
         /\ lease' \in {Stamped(h), Stamped(s)}
         /\ Become(r, Armed(c)) \/ Become(r, c)
         /\ running' = running
  BY Zenon, <1>1, <1>4, ServeAssumption DEF LeaseRenewHandler, SameBut
<1>7. lease' \in 0..LeaseDuration /\ lease <= lease'
  BY <1>1, <1>5, <1>6, StampRaises, LeaseAssumption DEF StripeTypeOK
<1>8. /\ c.clean
      /\ c.phase \in {"reply", "copy", "emit"} => Borrowed(h)
      /\ c.phase = "upstream" => Borrowed(s)
      /\ c.aliased_buf => /\ h.kind = "disk" /\ c.form = "alias"
                          /\ c.phase \in {"sending", "copy"}
      /\ c.phase = "sending" /\ c.left > 0 => c.form # "none"
      /\ c.form = "alias" => c.phase \in {"sending", "copy"}
      /\ Wire(c) => c.aliased_buf
      /\ Borrowed(h) => h.instance = c.cache_anchor
      /\ Borrowed(s) => s.instance = c.cache_anchor
      /\ c.phase # "idle" /\ c.phase \notin {"emit", "copy"}
  BY <1>1, <1>4, ServeAssumption DEF Shaped, SameBut, Wire, Held
<1> HIDE DEF c
<1>9. CASE /\ c.aliased_buf /\ (c.left = 0 \/ c.conn_error)
           /\ Become(r, idle) /\ lease' = lease /\ running' = running
  <2>1. idle \in Contexts
    BY Zenon, <1>3 DEF Contexts
  <2>2. /\ idle.phase = c.phase /\ idle.read_result = c.read_result
        /\ idle.stale_read_result = c.stale_read_result
        /\ idle.cache_anchor = c.cache_anchor /\ idle.form = c.form
        /\ idle.aliased_buf = FALSE /\ idle.clean = c.clean
        /\ idle.timer_set = c.timer_set /\ idle.left = c.left
        /\ idle.conn_error = c.conn_error
    BY <1>3 DEF Contexts
  <2> HIDE DEF idle
  <2>3. ~Wire(idle)
    BY <1>9, <2>2 DEF Wire
  <2>4. Shaped(idle)
    BY <1>4, <1>8, <2>2, <2>3 DEF Shaped
  <2> QED BY <1>1, <1>7, <1>8, <1>9, <2>1, <2>2, <2>3, <2>4, OneRequest, NotOnWire
<1>10. ASSUME Become(r, Armed(c)), running' = running,
              (lease' = Stamped(h) /\ Barrier(h) = "kAlias") \/ ~Wire(c)
       PROVE  ServeInv'
  <2> DEFINE d == Armed(c)
  <2>1. /\ d \in Contexts /\ d.timer_set /\ SameBut(c, d)
        /\ d.timer = RenewInterval + Lateness
    BY <1>3, ArmedFits
  <2> HIDE DEF d
  <2>2. Shaped(d) /\ (Wire(d) => Wire(c)) /\ d.read_result = h
        /\ d.phase \notin {"emit", "copy"}
    BY <1>8, <2>1 DEF Shaped, SameBut, Wire
  <2>3. CoveredBy(d, writer, lease', wrap_deferred, until_forced, wrap_epoch)
    <3>1. CASE ~Wire(c)
      BY <2>2, <3>1, NotOnWire
    <3>2. CASE lease' = Stamped(h) /\ Barrier(h) = "kAlias"
      BY <2>1, <2>2, <3>2, AliasCovered, TimingAssumption
    <3> QED BY <1>10, <3>1, <3>2
  <2> QED BY <1>1, <1>7, <1>10, <2>1, <2>2, <2>3, OneRequest DEF d
<1>11. CASE /\ c.aliased_buf /\ c.left > 0 /\ ~c.conn_error
            /\ lease' = Stamped(h)
            /\ Become(r, CASE Barrier(h) = "kAbort" -> NoContext
                           [] Barrier(h) = "kCopyOut" -> copy
                           [] Barrier(h) = "kAlias" -> Armed(c))
            /\ running' = IF Barrier(h) = "kCopyOut" THEN r ELSE running
  <2>1. CASE Barrier(h) = "kAbort"
    <3>1. Become(r, NoContext) /\ running' = running
      BY <1>11, <2>1
    <3> QED BY <1>1, <1>7, <3>1, CleanupKeeps DEF Cleanup
  <2>2. CASE Barrier(h) = "kCopyOut"
    <3>1. Become(r, copy) /\ running' = r
      BY <1>11, <2>2
    <3>2. copy \in Contexts
      BY <1>3 DEF Contexts
    <3>3. /\ copy.phase = "copy" /\ copy.read_result = c.read_result
          /\ copy.stale_read_result = c.stale_read_result
          /\ copy.cache_anchor = c.cache_anchor /\ copy.form = c.form
          /\ copy.aliased_buf = c.aliased_buf /\ copy.clean = c.clean
      BY <1>3 DEF Contexts
    <3> HIDE DEF copy
    <3>4. Shaped(copy) /\ ~Wire(copy)
      BY <1>8, <1>11, <3>3 DEF Shaped, Wire, Borrowed
    <3> QED BY <1>1, <1>7, <3>1, <3>2, <3>3, <3>4, OneRequest, NotOnWire
  <2>3. CASE Barrier(h) = "kAlias"
    <3>1. Become(r, Armed(c)) /\ running' = running
      BY <1>11, <2>3
    <3> QED BY <1>10, <1>11, <2>3, <3>1
  <2> QED BY <1>5, <2>1, <2>2, <2>3, BarrierMeans
<1>12. CASE /\ ~c.aliased_buf \/ h.kind = "none"
            /\ Become(r, Armed(c)) \/ Become(r, c)
            /\ running' = running
  <2>1. ~Wire(c)
    BY <1>8, <1>12
  <2>2. CASE Become(r, Armed(c))
    BY <1>10, <1>12, <2>1, <2>2
  <2>3. CASE Become(r, c)
    <3>1. Shaped(c)
      BY <1>4, <1>8, <2>1 DEF Shaped
    <3> QED BY <1>1, <1>3, <1>7, <1>8, <1>12, <2>1, <2>3, <3>1, OneRequest, NotOnWire
  <2> QED BY <1>12, <2>2, <2>3
<1> QED BY Zenon, <1>6, <1>9, <1>11, <1>12
LEMMA InstancesKeep ==
  ASSUME ServeInv, OpenCache \/ DropCache
  PROVE  ServeInv'
<1>1. /\ UNCHANGED <<stripe_vars, req, running>>
      /\ g_cache' \in 0..MaxInstances /\ opened' \in 0..MaxInstances
  BY ServeAssumption DEF ServeInv, TypeOK, OpenCache, DropCache
<1>2. TypeOK'
  BY <1>1 DEF ServeInv, TypeOK, StripeTypeOK, stripe_vars
<1>3. ASSUME NEW r \in Requests
      PROVE  Shaped(req'[r]) /\ Covered(req[r])' /\ Held(r)'
  BY <1>1 DEF ServeInv, Covered, Held, stripe_vars
<1> QED BY <1>2, <1>3 DEF ServeInv

\* The writer: a body on the wire has a live lease and no forced wrap due, so
\* the wrap is never decided over it; a first deferral starts the ceiling,
\* which is longer than any timer.
LEMMA WriterKeeps ==
  ASSUME ServeInv, Writer
  PROVE  ServeInv'
<1>1. UNCHANGED <<req, running, cache_vars>> /\ WriterStep
  BY DEF Writer
<1>2. TypeOK'
  <2>1. StripeTypeOK
    BY DEF ServeInv, TypeOK
  <2>2. StripeTypeOK'
    <3>1. CASE AnnounceWrap
      BY <2>1, <3>1 DEF StripeTypeOK, AnnounceWrap
    <3>2. CASE DeferWrap
      BY <2>1, <3>2, LeaseAssumption DEF StripeTypeOK, DeferWrap
    <3>3. CASE DecideWrap
      BY <2>1, <3>3 DEF StripeTypeOK, DecideWrap
    <3>4. CASE CommitWrap
      <4>1. wrap_epoch' \in 0..MaxWraps /\ lease' \in 0..LeaseDuration
        BY <2>1, <3>4, LeaseAssumption DEF StripeTypeOK, CommitWrap
      <4>2. until_forced' \in 0..WrapCeiling
        BY <3>4, LeaseAssumption DEF CommitWrap
      <4>3. writer' = "idle" /\ wrap_deferred' \in BOOLEAN
        BY Zenon, <3>4 DEF CommitWrap
      <4> QED BY <4>1, <4>2, <4>3 DEF StripeTypeOK
    <3> QED BY <1>1, <3>1, <3>2, <3>3, <3>4 DEF WriterStep
  <2> QED BY <1>1, <2>2 DEF ServeInv, TypeOK, cache_vars
<1>3. ASSUME NEW r \in Requests
      PROVE  Shaped(req'[r]) /\ Covered(req[r])' /\ Held(r)'
  <2>1. req'[r] = req[r] /\ Shaped(req[r]) /\ Covered(req[r]) /\ Held(r)
        /\ Held(r)'
    BY <1>1 DEF ServeInv, Held
  <2>2. /\ req[r].timer \in 0..(RenewInterval + Lateness)
        /\ lease \in Nat /\ until_forced \in Nat
        /\ lease' = lease
    BY <1>1, LeaseAssumption
    DEF ServeInv, TypeOK, StripeTypeOK, Contexts, WriterStep, AnnounceWrap,
        DeferWrap, DecideWrap, CommitWrap
  <2> DEFINE c == req[r]
  <2> HIDE DEF c
  <2>3. c.timer \in Nat /\ c.timer < WrapCeiling
    BY <2>2, TimingAssumption, LeaseAssumption DEF c
  <2>4. CASE ~Wire(c)
    BY <2>1, <2>4 DEF Covered, CoveredBy, c
  <2>5. CASE Wire(c)
    <3>1. /\ c.read_result.epoch = wrap_epoch /\ writer # "wrapping"
          /\ c.timer < lease /\ (wrap_deferred => c.timer < until_forced)
      BY <2>1, <2>5 DEF Covered, CoveredBy, c
    <3>2. ~DecideWrap /\ ~CommitWrap
      BY <2>2, <2>3, <3>1 DEF DecideWrap, CommitWrap
    <3>3. /\ wrap_epoch' = wrap_epoch /\ writer' # "wrapping"
          /\ wrap_deferred' => c.timer < until_forced'
      BY <1>1, <2>3, <3>1, <3>2 DEF WriterStep, AnnounceWrap, DeferWrap
    <3>4. CoveredBy(c, writer', lease', wrap_deferred', until_forced', wrap_epoch')
      BY <2>2, <3>1, <3>3 DEF CoveredBy
    <3>5. c = req'[r]
      BY <2>1 DEF c
    <3> QED BY <2>1, <3>4, <3>5 DEF Covered
  <2> QED BY <2>4, <2>5
<1> QED BY <1>2, <1>3 DEF ServeInv

\* Time: lease, ceiling and timer run down together.
LEMMA TickKeeps ==
  ASSUME ServeInv, Tick
  PROVE  ServeInv'
<1>1. /\ StripeTick /\ UNCHANGED <<running, cache_vars>> /\ StripeTypeOK
      /\ req' = [r \in Requests |->
                   IF req[r].timer_set
                   THEN [req[r] EXCEPT !.timer = @ - 1] ELSE req[r]]
  BY DEF Tick, ServeInv, TypeOK
<1>2. StripeTypeOK'
  BY <1>1, LeaseAssumption DEF StripeTick, StripeTypeOK
<1>3. ASSUME NEW r \in Requests
      PROVE  req'[r] \in Contexts /\ Shaped(req'[r]) /\ Covered(req[r])' /\ Held(r)'
  <2> DEFINE c == req[r]
             d == [c EXCEPT !.timer = @ - 1]
  <2>1. /\ c \in Contexts /\ Shaped(c) /\ Covered(c) /\ Held(r)
        /\ c.timer_set => c.timer > 0
        /\ req'[r] = IF c.timer_set THEN d ELSE c
    BY <1>1 DEF ServeInv, TypeOK, Tick
  <2>2. /\ c.timer \in Nat /\ lease \in Nat /\ until_forced \in Nat
        /\ c.timer \in 0..(RenewInterval + Lateness)
    BY <2>1, LeaseAssumption, TimingAssumption DEF Contexts, ServeInv, TypeOK, StripeTypeOK
  <2> HIDE DEF c
  <2>3. CASE ~c.timer_set
    <3>1. req'[r] = c /\ ~Wire(c) /\ c = req[r]
      BY <2>1, <2>3 DEF Shaped, c
    <3>2. Covered(req[r])'
      BY <3>1 DEF Covered, CoveredBy
    <3> QED BY <1>1, <2>1, <3>1, <3>2 DEF Held
  <2>4. CASE c.timer_set
    <3>1. c.timer - 1 \in 0..(RenewInterval + Lateness)
      BY <2>1, <2>2, <2>4, TimingAssumption
    <3>2. d \in Contexts
      BY <2>1, <3>1 DEF Contexts
    <3>3. SameBut(c, d) /\ d.timer_set = c.timer_set /\ d.timer = c.timer - 1
      BY <2>1 DEF Contexts, SameBut
    <3>4. req'[r] = d
      BY <2>1, <2>4
    <3> HIDE DEF d
    <3>5. Shaped(d) /\ (Wire(d) => Wire(c))
      BY <2>1, <2>4, <3>3 DEF Shaped, SameBut, Wire
    <3>6. CoveredBy(d, writer', lease', wrap_deferred', until_forced', wrap_epoch')
      BY <1>1, <2>1, <2>2, <2>4, <3>3, <3>5 DEF Covered, CoveredBy, StripeTick, SameBut
    <3>7. Covered(req[r])'
      BY <3>4, <3>6 DEF Covered
    <3>8. Held(r)'
      BY <1>1, <2>1, <3>3, <3>4 DEF Held, SameBut, c
    <3> QED BY <3>2, <3>4, <3>5, <3>7, <3>8
  <2> QED BY <2>3, <2>4
<1>4. req' \in [Requests -> Contexts]
  BY <1>1, <1>3
<1>5. TypeOK'
  BY <1>1, <1>2, <1>4 DEF ServeInv, TypeOK, cache_vars
<1> QED BY <1>3, <1>5 DEF ServeInv

----------------------------------------------------------------------------
\* The inductive invariant holds in every behaviour of the requests, the
\* cache instances, the writer and the clock.
THEOREM ServeInvariant == Spec => []ServeInv
<1>1. Init => ServeInv
  <2> SUFFICES ASSUME Init PROVE ServeInv
    OBVIOUS
  <2>1. req = [r \in Requests |-> NoContext] /\ running = NoRequest
    BY DEF Init
  <2>2. TypeOK
    <3>1. StripeTypeOK
      <4>1. lease \in 0..LeaseDuration /\ until_forced \in 0..WrapCeiling
            /\ wrap_epoch \in 0..MaxWraps
        BY LeaseAssumption DEF Init, StripeInit
      <4>2. writer = "idle" /\ wrap_deferred \in BOOLEAN
        BY Zenon DEF Init, StripeInit
      <4> QED BY <4>1, <4>2 DEF StripeTypeOK
    <3>2. req \in [Requests -> Contexts]
      BY <2>1, NoContextFits
    <3> QED BY <2>1, <3>1, <3>2, ServeAssumption DEF Init, TypeOK
  <2>3. ASSUME NEW r \in Requests
        PROVE  Shaped(req[r]) /\ Covered(req[r]) /\ Held(r)
    BY <2>1, NoContextFits DEF Held
  <2> QED BY <2>2, <2>3 DEF ServeInv
<1>2. ServeInv /\ [Next]_vars => ServeInv'
  <2> SUFFICES ASSUME ServeInv, [Next]_vars PROVE ServeInv'
    OBVIOUS
  <2>1. ASSUME NEW r \in Requests, RequestStep(r) PROVE ServeInv'
    BY <2>1, LookupKeeps, UpstreamKeeps, EmitKeeps, CopyKeeps, SendKeeps,
       EndKeeps, TimerKeeps DEF RequestStep
  <2>2. CASE UNCHANGED vars
    <3>1. TypeOK'
      BY <2>2 DEF ServeInv, TypeOK, StripeTypeOK, vars, stripe_vars
    <3>2. ASSUME NEW r \in Requests
          PROVE  Shaped(req'[r]) /\ Covered(req[r])' /\ Held(r)'
      BY <2>2 DEF ServeInv, Covered, Held, vars, stripe_vars
    <3> QED BY <3>1, <3>2 DEF ServeInv
  <2> QED BY <2>1, <2>2, InstancesKeep, WriterKeeps, TickKeeps DEF Next
<1> QED BY <1>1, <1>2, PTL DEF Spec

\* The request contexts, the leases and the stripes keep to their types in all
\* behaviours: no timer is armed past its interval and no lease runs negative.
THEOREM ServeTypeCorrect == Spec => []TypeOK
<1>1. ServeInv => TypeOK
  BY DEF ServeInv
<1> QED BY <1>1, ServeInvariant, PTL

\* While a body is sent from the mapping its timer runs before the lease
\* lapses and before a deferred wrap is forced.
THEOREM AliasStaysWatched == Spec => []AliasWatched
<1>1. ServeInv => AliasWatched
  BY DEF ServeInv, AliasWatched, OnWire, Shaped, Covered, CoveredBy, Wire
<1> QED BY <1>1, ServeInvariant, PTL

\* No handle outlives its cache instance, and no timer its request.
THEOREM NothingEverDangles == Spec => []NothingDangles
<1>1. ServeInv => NothingDangles
  BY DEF ServeInv, NothingDangles, Shaped, Alive, Borrowed
<1> QED BY <1>1, ServeInvariant, PTL

\* Only Drain takes bytes off a body that is being sent.
LEMMA OnlyDrainSends ==
  ASSUME ServeInv, Next, NEW r \in Requests, Burst(r)
  PROVE  Drain(r)
<1>0. /\ req[r].phase = "sending" /\ req'[r].phase = "sending"
      /\ req'[r].left < req[r].left
  BY DEF Burst
<1>1. req[r] \in Contexts /\ req[r].left \in Nat
  BY ServeAssumption DEF ServeInv, TypeOK, Contexts
<1>2. req'[r] # req[r] /\ req'[r].left # req[r].left
  BY <1>0, <1>1
<1>3. ~OpenCache /\ ~DropCache /\ ~Writer
  BY <1>2 DEF OpenCache, DropCache, Writer
<1>4. ~Tick
  <2> SUFFICES ASSUME Tick PROVE FALSE
    OBVIOUS
  <2>1. req'[r] = IF req[r].timer_set
                  THEN [req[r] EXCEPT !.timer = @ - 1] ELSE req[r]
    BY DEF Tick
  <2> QED BY <1>1, <1>2, <2>1 DEF Contexts
<1>5. PICK s \in Requests : RequestStep(s)
  BY <1>3, <1>4 DEF Next
<1>6. \A c : Become(s, c) => req' = [req EXCEPT ![s] = c]
  BY DEF Become
<1>7. s = r
  <2> SUFFICES ASSUME s # r PROVE FALSE
    OBVIOUS
  <2>1. \E c : Become(s, c)
    BY <1>5
    DEF RequestStep, Lookup, UpstreamAnswers, Emit, CopyThenVerify, Drain,
        ClientGone, RequestEnds, LeaseRenewHandler, Cleanup
  <2> QED BY <1>2, <1>6, <2>1 DEF ServeInv, TypeOK
<1>8. \A c : Become(r, c) => req'[r] = c
  BY DEF ServeInv, TypeOK, Become
<1>9. /\ ~UpstreamAnswers(r) /\ ~CopyThenVerify(r)
      /\ \A must_copy \in BOOLEAN : ~Emit(r, must_copy)
      /\ \A verdict \in {"serve", "stash", "drop"}, size \in {0, Chunks} :
           ~Lookup(r, verdict, size)
  BY <1>0 DEF UpstreamAnswers, CopyThenVerify, Emit, Lookup
<1>10. NoContext.phase = "idle"
  BY NoContextFits
<1>11. ~RequestEnds(r)
  BY <1>0, <1>8, <1>10 DEF RequestEnds, Cleanup
<1>12. ~ClientGone(r)
  BY <1>1, <1>2, <1>8 DEF ClientGone, Contexts
<1>13. ~LeaseRenewHandler(r)
  <2> SUFFICES ASSUME LeaseRenewHandler(r) PROVE FALSE
    OBVIOUS
  <2> DEFINE c == [req[r] EXCEPT !.timer_set = FALSE, !.timer = 0]
  <2>1. 0 \in 0..(RenewInterval + Lateness)
    BY TimingAssumption
  <2>2. c \in Contexts
    BY Zenon, <1>1, <2>1 DEF Contexts
  <2>3. c.left = req[r].left
    BY <1>1 DEF Contexts
  <2>4. c.read_result \in Handles
    BY Zenon, <2>2, HandleOf
  <2>5. \/ Become(r, [c EXCEPT !.aliased_buf = FALSE])
        \/ Become(r, CASE Barrier(c.read_result) = "kAbort" -> NoContext
                       [] Barrier(c.read_result) = "kCopyOut" ->
                            [c EXCEPT !.phase = "copy"]
                       [] Barrier(c.read_result) = "kAlias" -> Armed(c))
        \/ Become(r, Armed(c)) \/ Become(r, c)
    BY Zenon DEF LeaseRenewHandler
  <2> HIDE DEF c
  <2>6. \/ req'[r] = [c EXCEPT !.aliased_buf = FALSE]
        \/ req'[r] \in {NoContext, [c EXCEPT !.phase = "copy"], Armed(c), c}
    BY <1>8, <2>4, <2>5, BarrierMeans
  <2>7. Armed(c).left = c.left
    BY <2>2, ArmedFits DEF SameBut
  <2>8. /\ [c EXCEPT !.aliased_buf = FALSE].left = c.left
        /\ [c EXCEPT !.phase = "copy"].left = c.left
    BY <2>2 DEF Contexts
  <2>9. [c EXCEPT !.phase = "copy"].phase = "copy"
    BY <2>2 DEF Contexts
  <2> QED BY Zenon, <1>0, <1>2, <1>10, <2>3, <2>6, <2>7, <2>8, <2>9
<1> QED BY <1>5, <1>7, <1>9, <1>11, <1>12, <1>13 DEF RequestStep

\* No client is ever sent a byte that a wrap may have overwritten.
THEOREM OnlyGenuineBytesSent == Spec => NoOverwrittenByteSent
<1>1. ServeInv /\ [Next]_vars =>
        [\A r \in Requests : Burst(r) => Genuine(r)]_vars
  <2> SUFFICES ASSUME ServeInv, Next, NEW r \in Requests, Burst(r)
               PROVE  Genuine(r)
    OBVIOUS
  <2>1. req[r] \in Contexts /\ Shaped(req[r]) /\ Covered(req[r])
    BY DEF ServeInv, TypeOK
  <2>2. req[r].left > 0 /\ ~req[r].conn_error
    <3>1. Drain(r)
      BY OnlyDrainSends
    <3> QED BY <3>1 DEF Drain
  <2>3. req[r].form = "alias" => Intact(req[r].read_result)
    BY <2>1, <2>2 DEF Burst, Shaped, Covered, CoveredBy, Wire, Intact
  <2>4. req[r].clean
    BY <2>1 DEF Shaped
  <2> QED BY <2>3, <2>4 DEF Genuine
<1> QED BY <1>1, ServeInvariant, PTL DEF Spec, NoOverwrittenByteSent
=============================================================================
