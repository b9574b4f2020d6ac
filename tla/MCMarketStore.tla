---------------------------- MODULE MCMarketStore ----------------------------
(* Bounded instances of MarketStore for TLC. *)
EXTENDS MarketStore, TLC
CONSTANTS a, b, cron, none

\* Histories in which a ticker lapses and recovers, is listed late, skips a
\* session, or falls below the price floor.
MCMarkets ==
  LET steady == [d \in Days |-> "liquid"]
      lapse == [d \in Days |-> IF d \in {2, 3} THEN "thin" ELSE "liquid"]
      late == [d \in Days |-> IF d < 3 THEN "none" ELSE "liquid"]
      skips == [d \in Days |-> IF d = 2 THEN "none" ELSE "liquid"]
      falls == [d \in Days |-> IF d < 3 THEN "liquid" ELSE "penny"]
  IN  {(a :> steady @@ b :> other) : other \in {lapse, late, skips, falls}}
        \union {(a :> lapse @@ b :> late), (a :> falls @@ b :> skips)}
=============================================================================
