--------------------------- MODULE AnalysisQueue ---------------------------
(***************************************************************************)
(* The bounded priority queue of browser analysis (analysis_queue.cc), as  *)
(* a value [items, pending, shutdown] and the functions its methods        *)
(* compute on it.  Every method holds the queue's mutex from its first     *)
(* line to its last, so one step of a thread applies one of them.          *)
(*                                                                         *)
(* An item is queued at most once per key (template_hash), and pending_    *)
(* templates_ repeats the keys of the items so that the test is cheap.     *)
(***************************************************************************)
EXTENDS Integers, Sequences, Functions

CONSTANT browser_queue_size

ASSUME QueueAssumption == browser_queue_size \in Nat \ {0}

VARIABLE queue

EmptyQueue == [items |-> <<>>, pending |-> {}, shutdown |-> FALSE]

\* The order of the queue: warmups first, then by notification frequency.
Higher(a, b) ==
    \/ a.is_warmup /\ ~b.is_warmup
    \/ a.is_warmup = b.is_warmup /\ a.frequency > b.frequency

Full(q) == Len(q.items) >= browser_queue_size

\* queue_.back(): the item of the lowest priority.
Back(items) == items[Len(items)]

Accepts(q, item) ==
    /\ ~q.shutdown
    /\ item.template_hash \notin q.pending
    /\ Full(q) => Higher(item, Back(q.items))

EvictTail(q) ==
    [q EXCEPT !.items = SubSeq(@, 1, Len(@) - 1),
              !.pending = @ \ {Back(q.items).template_hash}]

\* The item goes in front of the first one that is not above it: among equals
\* the newest is first.
InsertionPoint(items, item) ==
    CHOOSE i \in 1..(Len(items) + 1) :
        /\ \A j \in 1..(i - 1) : Higher(items[j], item)
        /\ i <= Len(items) => ~Higher(items[i], item)

InsertBefore(items, i, item) ==
    SubSeq(items, 1, i - 1) \o <<item>> \o SubSeq(items, i, Len(items))

Insert(q, item) ==
    [q EXCEPT !.items = InsertBefore(@, InsertionPoint(@, item), item),
              !.pending = @ \cup {item.template_hash}]

Enqueued(q, item) == Insert(IF Full(q) THEN EvictTail(q) ELSE q, item)

\* Mutant: the key of the item handed out stays in the pending set.
DequeuedKeepsKey(q) == [q EXCEPT !.items = Tail(@)]

Dequeued(q) ==
    [q EXCEPT !.items = Tail(@), !.pending = @ \ {Head(q.items).template_hash}]

-----------------------------------------------------------------------------
\* The pending set is exactly the keys of the queued items, no key is queued
\* twice and the queue keeps to its size.  A key left behind would make the
\* queue refuse its template for ever (Enqueue tests the set, not the items).
QueueExact ==
    /\ Len(queue.items) <= browser_queue_size
    /\ queue.pending = {queue.items[i].template_hash : i \in DOMAIN queue.items}
    /\ \A i, j \in DOMAIN queue.items :
          queue.items[i].template_hash = queue.items[j].template_hash => i = j
============================================================================
