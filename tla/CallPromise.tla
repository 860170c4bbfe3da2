---------------------------- MODULE CallPromise ----------------------------
(***************************************************************************)
(* What a call of a client promises its caller: a value means the call     *)
(* took effect, an error of the simulation, of the wallet, of the          *)
(* submission or of the ledger means it never does, and after a timeout or *)
(* a broken connection nothing is known.  A call the contract has no       *)
(* function for is only ever an error.                                     *)
(***************************************************************************)
CONSTANTS Caller,     \* the calls made
          Callable    \* those of them whose arguments fit the contract's function

VARIABLES effect,   \* "none", "landed" (the function ran) or "void" (it failed)
          answer    \* "none", "value", "error" or "unknown"

Undecided(c) == answer[c] \in {"none", "unknown"}

PromiseInit ==
  /\ effect = [c \in Caller |-> "none"]
  /\ answer = [c \in Caller |-> "none"]

(* The ledger closes over calls nobody has been told about: one, or those  *)
(* that are the same transaction.                                          *)
Settle ==
  \E S \in SUBSET {c \in Callable : Undecided(c) /\ effect[c] = "none"}, e \in {"landed", "void"} :
    /\ effect' = [c \in Caller |-> IF c \in S THEN e ELSE effect[c]]
    /\ UNCHANGED answer

Answer ==
  \E c \in Caller, a \in {"value", "error", "unknown"} :
    /\ answer[c] = "none"
    /\ a = "value" => effect[c] = "landed"
    /\ a = "error" => effect[c] # "landed"
    /\ a = "unknown" => c \in Callable
    /\ answer' = [answer EXCEPT ![c] = a]
    /\ UNCHANGED effect

PromiseNext == Settle \/ Answer

Promise == PromiseInit /\ [][PromiseNext]_<<effect, answer>>

=============================================================================
