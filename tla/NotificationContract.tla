------------------------ MODULE NotificationContract ------------------------
(***************************************************************************)
(* What the worker promises of the notifications sent to it, without the   *)
(* sockets, the loop and its counters (worker.cc, DispatchNotification and *)
(* OnNotificationDone).  A notification may be lost on the way; one that   *)
(* arrives is taken once, and it becomes a work item unless the worker may *)
(* turn it away.  Items of one key never run side by side, and an origin   *)
(* refresh that finds its key busy is held until the item ends.            *)
(***************************************************************************)
EXTENDS Naturals

CONSTANTS
    Urls,      \* cache keys
    Kinds,     \* what a notification asks for
    MaxSends,  \* bound: notifications sent
    None       \* no notification

VARIABLES
    sent,      \* number of notifications sent
    taken,     \* [1..MaxSends -> how often the worker took it]
    items,     \* work items: [msg, done]
    held,      \* [Urls -> origin refresh waiting for its key, or None]
    stopping   \* the worker is shutting down

cvars == <<sent, taken, items, held, stopping>>

Asked == [id : 1..MaxSends, url : Urls, kind : Kinds]

Item(m) == [msg |-> m, done |-> FALSE]

\* Warmups run beside anything; other items keep their key busy.
Keyed(m) == m.kind # "warmup"
Busy(u, S) == \E i \in S : Keyed(i.msg) /\ i.msg.url = u

CInit ==
    /\ sent = 0
    /\ taken = [n \in 1..MaxSends |-> 0]
    /\ items = {}
    /\ held = [u \in Urls |-> None]
    /\ stopping = FALSE

Send ==
    /\ sent < MaxSends
    /\ sent' = sent + 1
    /\ UNCHANGED <<taken, items, held, stopping>>

\* It becomes an item.
Start(m) ==
    /\ ~stopping /\ m.kind # "refused"
    /\ Keyed(m) => ~Busy(m.url, items)
    /\ items' = items \cup {Item(m)}
    /\ UNCHANGED held

\* It waits for its key, in the place of an earlier one.
Hold(m) ==
    /\ ~stopping /\ m.kind = "refresh"
    /\ Busy(m.url, items)
    /\ held' = [held EXCEPT ![m.url] = m]
    /\ UNCHANGED items

\* It is turned away: a stopping worker, a notification no worker accepts, or
\* one that asks for what the running item of its key does anyway.
TurnAway(m) ==
    /\ \/ stopping \/ m.kind = "refused"
       \/ m.kind \notin {"warmup", "refresh"} /\ Busy(m.url, items)
    /\ UNCHANGED <<items, held>>

\* A notification that was sent arrives, for the first and only time.
Take(m) ==
    /\ m.id <= sent /\ taken[m.id] = 0
    /\ taken' = [taken EXCEPT ![m.id] = 1]
    /\ Start(m) \/ Hold(m) \/ TurnAway(m)
    /\ UNCHANGED <<sent, stopping>>

Run(i) ==
    /\ ~i.done
    /\ items' = (items \ {i}) \cup {[i EXCEPT !.done = TRUE]}
    /\ UNCHANGED <<sent, taken, held, stopping>>

\* An item ends with nothing held behind it.
Finish(i) ==
    /\ i.done
    /\ Keyed(i.msg) => held[i.msg.url] = None
    /\ items' = items \ {i}
    /\ UNCHANGED <<sent, taken, held, stopping>>

\* The refresh held behind the item follows it in the same step, alone on its
\* key; only a stopping worker lets it go.
FinishHeld(i) ==
    LET u == i.msg.url
    IN  /\ i.done /\ Keyed(i.msg) /\ held[u] # None
        /\ held[u].kind = "refresh" /\ held[u].url = u
        /\ ~Busy(u, items \ {i})
        /\ held' = [held EXCEPT ![u] = None]
        /\ items' = IF stopping THEN items \ {i}
                    ELSE (items \ {i}) \cup {Item(held[u])}
        /\ UNCHANGED <<sent, taken, stopping>>

Stop ==
    /\ ~stopping
    /\ stopping' = TRUE
    /\ UNCHANGED <<sent, taken, items, held>>

CNext ==
    \/ Send
    \/ \E m \in Asked : Take(m)
    \/ \E i \in items : Run(i) \/ Finish(i) \/ FinishHeld(i)
    \/ Stop

CSpec == CInit /\ [][CNext]_cvars
=============================================================================
