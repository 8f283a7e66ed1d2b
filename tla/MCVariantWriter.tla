--------------------------- MODULE MCVariantWriter ---------------------------
(* VariantWriter for TLC.  Keys are interchangeable, and so are jobs of one  *)
(* kind, so the safety runs use Symmetry; the liveness run does not.         *)
EXTENDS VariantWriter, TLC

Symmetry ==
    Permutations(Urls) \cup Permutations(Jobs) \cup Permutations(Warmups)
=============================================================================
