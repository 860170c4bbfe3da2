---------------------------- MODULE MCIndexerSync ---------------------------
(***************************************************************************)
(* The chain on which TLC checks IndexerSync.                              *)
(***************************************************************************)
EXTENDS IndexerSync

Event(l, t, k, id) ==
  [ledger |-> l, tx |-> t, kind |-> k, id |-> id, by |-> "p", fork |-> FALSE]

(* A registration and one transaction that records two wastes; a transfer  *)
(* that a reorganisation of its ledger replaces; a ledger without events;  *)
(* a transfer; and a ledger that a page of three events can cut, with a    *)
(* confirmation and a waste of somebody who is not registered.             *)
Busy == << Event(1, "t1", "participant", "p"),
           Event(1, "t2", "waste", "w"), Event(1, "t2", "waste", "v"),
           Event(2, "t3", "transfer", "w"),
           [Event(2, "t4", "transfer", "w") EXCEPT !.fork = TRUE],
           Event(4, "t5", "transfer", "w"),
           Event(5, "t6", "confirm", "w"),
           [Event(5, "t7", "waste", "u") EXCEPT !.by = "q"] >>

=============================================================================
