--------------------------- MODULE MCCarbonMarket ---------------------------
(* Instances of CarbonMarket for TLC: a recycler and a collector, and lots *)
(* that earn two credits and, rounded down, one.                           *)
EXTENDS CarbonMarket, TLC

CONSTANTS ann, bob

Traders == {ann, bob}
Jobs    == (ann :> "Recycler") @@ (bob :> "Collector")
Sacks   == { [type |-> "Plastic", grams |-> 1], [type |-> "Organic", grams |-> 3] }
Rates   == [Plastic |-> 2500, Organic |-> 500]
==============================================================================
