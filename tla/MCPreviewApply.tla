--------------------------- MODULE MCPreviewApply ---------------------------
(* Bounded instances of PreviewApply for TLC. *)
EXTENDS PreviewApply, TLC
CONSTANTS t1, t2, blank, seeded, k1
Symmetry == Permutations(Tabs)
=============================================================================
