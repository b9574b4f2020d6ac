------------------------ MODULE MCWorkspaceRevisions ------------------------
(* Bounded instances of WorkspaceRevisions for TLC. *)
EXTENDS WorkspaceRevisions, TLC
CONSTANTS t1, t2, blank, seeded, k1
Symmetry == Permutations(Tabs)
=============================================================================
