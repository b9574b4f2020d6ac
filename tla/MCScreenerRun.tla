---------------------------- MODULE MCScreenerRun ----------------------------
(* Bounded instances of ScreenerRun for TLC. *)
EXTENDS ScreenerRun, TLC
CONSTANTS t1, d1, d2, k1
MCContents ==
  [screener : 0..MaxScreeners, revision : 0..MaxScreenerRevision,
   definition : Definitions \union {NoInverse}, table : BOOLEAN, bound : 0..MaxRuns]
MCBlank ==
  [screener |-> 0, revision |-> 0, definition |-> NoInverse, table |-> FALSE, bound |-> 0]
Symmetry == Permutations(Definitions)
=============================================================================
