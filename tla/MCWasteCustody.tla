--------------------------- MODULE MCWasteCustody ---------------------------
(***************************************************************************)
(* The instances on which TLC checks WasteCustody: a recycler, a collector *)
(* and, where the third hand matters, a manufacturer.                      *)
(***************************************************************************)
EXTENDS WasteCustodyClaims

CONSTANTS rec, col, man

Pair == {rec, col}
Trio == {rec, col, man}

(* Every account keeps to one role; the collector of PairRoles may         *)
(* turn manufacturer.                                                      *)
OneRole ==
  [a \in Address |-> IF a = rec THEN {"Recycler"}
                     ELSE IF a = man THEN {"Manufacturer"} ELSE {"Collector"}]

PairRoles == [a \in Address |-> IF a = rec THEN {"Recycler"}
                                ELSE {"Collector", "Manufacturer"}]

=============================================================================
