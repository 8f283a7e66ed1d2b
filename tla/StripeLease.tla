---------------------------- MODULE StripeLease ----------------------------
(***************************************************************************)
(* One stripe of the Cyclone volume, as the nginx module uses it: readers  *)
(* borrow bytes of the mapping in place and stamp a lease; the writer, in  *)
(* another process, wraps its circular buffer over those bytes once no     *)
(* lease is live, or once a deferred wrap has waited lease_wrap_ceiling.   *)
(* Cyclone is a library outside the repository: what is written here is    *)
(* what lib/cache/cache.h states of it.  Time is counted in ticks.         *)
(***************************************************************************)
EXTENDS Naturals

CONSTANTS
  LeaseDuration,   \* read_lease_duration, T
  LeaseFloor,      \* 3T/4: a lease with this much left is not stamped again
  WrapCeiling,     \* lease_wrap_ceiling
  MaxWraps         \* bound: wraps in one behaviour

\* A lease just stamped protects for at least the floor.
ASSUME LeaseAssumption ==
  /\ LeaseDuration \in Nat /\ LeaseFloor \in Nat
  /\ WrapCeiling \in Nat /\ MaxWraps \in Nat
  /\ 0 < LeaseFloor /\ LeaseFloor <= LeaseDuration

VARIABLES
  lease,          \* ticks until the stripe's lease lapses
  writer,         \* "idle", "intent" announced, or "wrapping"
  wrap_deferred,  \* a wrap waits for the lease
  until_forced,   \* ticks until the waiting wrap is forced
  wrap_epoch      \* wraps committed so far

stripe_vars == <<lease, writer, wrap_deferred, until_forced, wrap_epoch>>

StripeTypeOK ==
  /\ lease \in 0..LeaseDuration
  /\ writer \in {"idle", "intent", "wrapping"}
  /\ wrap_deferred \in BOOLEAN
  /\ until_forced \in 0..WrapCeiling
  /\ wrap_epoch \in 0..MaxWraps

StripeInit ==
  /\ lease = 0
  /\ writer = "idle"
  /\ wrap_deferred = FALSE
  /\ until_forced = 0
  /\ wrap_epoch = 0

----------------------------------------------------------------------------
\* A handle: where the bytes of a read live ("none" when there is no read,
\* "released" once ReadResult::release() dropped the borrow), the epoch the
\* bytes were borrowed in and the cache instance that maps them.
Handles == [kind : {"none", "disk", "released"},
            epoch : 0..MaxWraps, instance : Nat]

NoHandle == [kind |-> "none", epoch |-> 0, instance |-> 0]
Released == [kind |-> "released", epoch |-> 0, instance |-> 0]

\* No wrap has touched the bytes the handle points at.
Intact(h) == h.kind = "disk" /\ h.epoch = wrap_epoch

\* The lease after a read or a renewal through the handle.
Stamped(h) ==
  IF h.kind = "disk" /\ lease < LeaseFloor THEN LeaseDuration ELSE lease

\* ReadResult::renew_lease: FALSE when there is no lease to renew.
renew_lease(h) == h.kind = "disk"

\* ReadResult::renew_lease_strict.
renew_lease_strict(h) ==
  IF h.kind # "disk" THEN "kLeasesOff"
  ELSE IF h.epoch # wrap_epoch THEN "kTorn"
  ELSE IF writer # "idle" THEN "kCopyNow"
  ELSE "kOk"

\* ReadResult::ns_until_forced_wrap() <= margin; kNoForcedWrap exceeds all.
ForcedWrapWithin(h, margin) ==
  h.kind = "disk" /\ wrap_deferred /\ until_forced <= margin

----------------------------------------------------------------------------
\* The writer reaches the end of its buffer and announces the wrap before it
\* looks at the lease.
AnnounceWrap ==
  /\ writer = "idle"
  /\ wrap_epoch < MaxWraps
  /\ writer' = "intent"
  /\ UNCHANGED <<lease, wrap_deferred, until_forced, wrap_epoch>>

\* A live lease defers the wrap; the first deferral starts the ceiling.
DeferWrap ==
  /\ writer = "intent"
  /\ lease > 0
  /\ ~(wrap_deferred /\ until_forced = 0)
  /\ writer' = "idle"
  /\ wrap_deferred' = TRUE
  /\ until_forced' = IF wrap_deferred THEN until_forced ELSE WrapCeiling
  /\ UNCHANGED <<lease, wrap_epoch>>

\* The lease lapsed, or the deferred wrap has waited long enough.
DecideWrap ==
  /\ writer = "intent"
  /\ lease = 0 \/ (wrap_deferred /\ until_forced = 0)
  /\ writer' = "wrapping"
  /\ UNCHANGED <<lease, wrap_deferred, until_forced, wrap_epoch>>

\* The epoch moves; from here on the borrowed bytes may be foreign.
CommitWrap ==
  /\ writer = "wrapping"
  /\ wrap_epoch < MaxWraps
  /\ writer' = "idle"
  /\ wrap_deferred' = FALSE
  /\ until_forced' = 0
  /\ wrap_epoch' = wrap_epoch + 1
  /\ UNCHANGED lease

WriterStep == AnnounceWrap \/ DeferWrap \/ DecideWrap \/ CommitWrap

\* One tick of the stripe's clocks.
StripeTick ==
  /\ lease' = IF lease > 0 THEN lease - 1 ELSE 0
  /\ until_forced' = IF until_forced > 0 THEN until_forced - 1 ELSE 0
  /\ UNCHANGED <<writer, wrap_deferred, wrap_epoch>>
=============================================================================
