---------------------------- MODULE CreditLedger ----------------------------
(***************************************************************************)
(* What the carbon credits promise, with no listing, price or pause in     *)
(* sight: credits are issued to accounts, moved between them and burned,   *)
(* and no account pays what it does not hold.  The escrow of a listing is  *)
(* an account.  CarbonMarket implements this ledger.                       *)
(***************************************************************************)
EXTENDS Integers, FiniteSets, Functions

CONSTANTS
  Account,   \* who may hold credits
  Grant      \* what one verification may issue

VARIABLES held, issued, burned

ledger == <<held, issued, burned>>

Paid(h, a, x) == [h EXCEPT ![a] = @ + x]
Charged(h, a, x) == [h EXCEPT ![a] = @ - x]

InitLedger == held = [a \in Account |-> 0] /\ issued = 0 /\ burned = 0

(* One verification issues to one account, a batch to two (perhaps the     *)
(* same).                                                                  *)
Issue(a, x, b, y) ==
  /\ held' = Paid(Paid(held, a, x), b, y)
  /\ issued' = issued + x + y
  /\ UNCHANGED burned

Move(a, b, x) ==
  /\ a # b
  /\ held' = Paid(Charged(held, a, x), b, x)
  /\ UNCHANGED <<issued, burned>>

Burn(a, x) ==
  /\ held' = Charged(held, a, x)
  /\ burned' = burned + x
  /\ UNCHANGED issued

LedgerNext ==
  \E a, b \in Account :
    \/ \E x \in Grant, y \in Grant \cup {0} : Issue(a, x, b, y)
    \/ \E x \in 1 .. held[a] : Move(a, b, x) \/ Burn(a, x)

LedgerSpec == InitLedger /\ [][LedgerNext]_ledger

-----------------------------------------------------------------------------
Holdings == SumFunction(held)

(* Every credit ever issued is held by somebody, waits in the escrow of a  *)
(* listing or has been redeemed.                                           *)
Balanced == Holdings + burned = issued
==============================================================================
