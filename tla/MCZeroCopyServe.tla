-------------------------- MODULE MCZeroCopyServe --------------------------
(***************************************************************************)
(* ZeroCopyServe for TLC: the requests of a worker are interchangeable.    *)
(***************************************************************************)
EXTENDS ZeroCopyServe, TLC

RequestSymmetry == Permutations(Requests)
=============================================================================
