-------------------------- MODULE AnalysisService ---------------------------
(***************************************************************************)
(* What browser analysis promises the rest of the worker, without Chrome,  *)
(* sessions, threads or signals.  A request asks to analyse a template, or *)
(* (force) only to render a page once more.  Requests wait in a bounded    *)
(* set, at most one runs, at most one retry is set aside, and the profile  *)
(* of a template changes only through the analysis of that template or     *)
(* because the cache gives it up.                                          *)
(***************************************************************************)
EXTENDS Integers, FiniteSets

CONSTANTS Templates, Capacity, Nothing

VARIABLES waiting, running, retry, stored, open

serviceVars == <<waiting, running, retry, stored, open>>

Requests == [template : Templates, force : BOOLEAN]

ServiceInit ==
    /\ waiting = {}
    /\ running = Nothing
    /\ retry = Nothing
    /\ stored = [t \in Templates |-> "none"]
    /\ open = TRUE

Admits(r) == r \notin waiting /\ Cardinality(waiting) < Capacity

Accept ==
    /\ open
    /\ \E r \in Requests : Admits(r) /\ waiting' = waiting \cup {r}
    /\ UNCHANGED <<running, retry, stored, open>>

\* A request leaves the queue and runs, or is dropped because its page is gone.
Take ==
    /\ open /\ running = Nothing
    /\ \E r \in waiting :
          /\ waiting' = waiting \ {r}
          /\ running' \in {r, Nothing}
    /\ UNCHANGED <<retry, stored, open>>

Analyses(t) == running = [template |-> t, force |-> FALSE]

Store ==
    /\ \E t \in Templates, p \in {"empty", "degraded", "good"} :
          Analyses(t) /\ stored' = [stored EXCEPT ![t] = p]
    /\ UNCHANGED <<waiting, running, retry, open>>

SetAside ==
    /\ retry = Nothing
    /\ \E t \in Templates : Analyses(t)
    /\ retry' = running
    /\ UNCHANGED <<waiting, running, stored, open>>

\* The analysis is over, or Chrome went away under it: it is not put back.
End ==
    /\ running # Nothing
    /\ running' = Nothing
    /\ UNCHANGED <<waiting, retry, stored, open>>

\* A retry that comes due is queued, or lost when it is not admitted.
RetryDue ==
    /\ retry # Nothing
    /\ waiting' = IF Admits(retry) THEN waiting \cup {retry} ELSE waiting
    /\ retry' = Nothing
    /\ UNCHANGED <<running, stored, open>>

GiveUp ==
    /\ \E t \in Templates : stored[t] # "none" /\ stored' = [stored EXCEPT ![t] = "gone"]
    /\ UNCHANGED <<waiting, running, retry, open>>

Stop ==
    /\ open' = FALSE
    /\ running' = Nothing
    /\ retry' = Nothing
    /\ UNCHANGED <<waiting, stored>>

\* A new worker: what was only in memory is gone.
Restart ==
    /\ waiting' = {}
    /\ running' = Nothing
    /\ retry' = Nothing
    /\ open' = TRUE
    /\ UNCHANGED stored

ServiceNext ==
    Accept \/ Take \/ Store \/ SetAside \/ End \/ RetryDue \/ GiveUp \/ Stop \/ Restart

ServiceSpec == ServiceInit /\ [][ServiceNext]_serviceVars
============================================================================
