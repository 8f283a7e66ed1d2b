----------------------------- MODULE SavedAnswers -----------------------------
(***************************************************************************)
(* What a configuration PATCH promises its client (config_persister.h: "a  *)
(* configuration PATCH is answered only once its change is saved").        *)
(*                                                                         *)
(* PATCHes are numbered in the order their changes were applied in memory, *)
(* so a file "at n" contains the changes of PATCHes 1..n.                  *)
(***************************************************************************)
EXTENDS Naturals

CONSTANT MaxPatches   \* bound: PATCHes

ASSUME PatchesAssumption == MaxPatches \in Nat

VARIABLES
    applied,      \* number of PATCHes applied in memory
    dirty,        \* those that touch a field of the shared file
    disk_json,    \* what the main configuration file is at
    disk_shared,  \* what the shared configuration file is at
    answer        \* per PATCH: "none", "saved" (no warning) or "failed"

avars == <<applied, dirty, disk_json, disk_shared, answer>>

Saved(p) == p <= disk_json /\ (p \in dirty => p <= disk_shared)

AInit ==
    /\ applied = 0
    /\ dirty = {}
    /\ disk_json = 0 /\ disk_shared = 0
    /\ answer = [p \in 1..MaxPatches |-> "none"]

\* A PATCH arrives; it may be refused (answered "failed") on the spot.
Ask ==
    /\ applied < MaxPatches
    /\ applied' = applied + 1
    /\ dirty' \in {dirty, dirty \cup {applied + 1}}
    /\ \/ UNCHANGED answer
       \/ answer' = [answer EXCEPT ![applied + 1] = "failed"]
    /\ UNCHANGED <<disk_json, disk_shared>>

\* A file is brought up to some later PATCH, never back.
SaveJson ==
    /\ disk_json' \in disk_json..applied
    /\ UNCHANGED <<applied, dirty, disk_shared, answer>>

SaveShared ==
    /\ disk_shared' \in disk_shared..applied
    /\ UNCHANGED <<applied, dirty, disk_json, answer>>

\* Unanswered PATCHes are answered; only saved ones are told "saved".
Answer ==
    /\ \E S \in SUBSET {p \in 1..applied : answer[p] = "none"} :
         \/ answer' = [p \in 1..MaxPatches |->
                          IF p \in S THEN "failed" ELSE answer[p]]
         \/ /\ \A p \in S : Saved(p)
            /\ answer' = [p \in 1..MaxPatches |->
                             IF p \in S THEN "saved" ELSE answer[p]]
    /\ UNCHANGED <<applied, dirty, disk_json, disk_shared>>

ANext == Ask \/ SaveJson \/ SaveShared \/ Answer

ASpec == AInit /\ [][ANext]_avars
=============================================================================
