------------------------------ MODULE Materials ------------------------------
(***************************************************************************)
(* The v1 materials of the contract (stellar-contract/src/lib.rs): lots of *)
(* recyclables that a participant submits, passes on along the permitted   *)
(* routes and has verified.  Modules about what a verification earns       *)
(* extend this one.  As in WasteCustody one action is one successful call, *)
(* since the ledger serialises calls and rolls a failing one back.         *)
(***************************************************************************)
EXTENDS Integers, Sequences, FiniteSets

CONSTANTS
  Address,        \* the registered participants
  RoleOf,         \* [Address -> their role]
  Lots,           \* the lots that may be submitted: a type and its grams
  MaxMaterials    \* bound of the instance

Lot == [type : STRING, grams : Nat]

ASSUME AddressAssumption == IsFiniteSet(Address)   \* a ledger stores finitely many
ASSUME ParticipantAssumption ==
  RoleOf \in [Address -> {"Recycler", "Collector", "Manufacturer"}]
ASSUME LotAssumption == Lots \subseteq Lot
ASSUME MaterialBound == MaxMaterials \in Nat

VARIABLES
  paused,     \* PAUSED
  material    \* ("waste", id): the materials 1 .. Len(material)

materialVars == <<paused, material>>

-----------------------------------------------------------------------------
(* types::Material; passed holds the recipients of its transfers in order, *)
(* the part of ("transfers", id) that is read back.                        *)
Material == [submitter : Address, lot : Lots, verified : BOOLEAN,
             passed : Seq(Address)]

MaterialTypeOK == paused \in BOOLEAN /\ material \in Seq(Material)

(* Material::new *)
NewMaterial(a, l) ==
  [submitter |-> a, lot |-> l, verified |-> FALSE, passed |-> <<>>]

(* The record once b has it from its owner (record_transfer).              *)
PassedTo(r, b) == [r EXCEPT !.submitter = b, !.passed = Append(r.passed, b)]

(* is_valid_transfer *)
Route(a, b) ==
  <<RoleOf[a], RoleOf[b]>> \in { <<"Recycler", "Collector">>,
                                 <<"Recycler", "Manufacturer">>,
                                 <<"Collector", "Manufacturer">> }

(* The materials once those of S are verified; a second verification of a  *)
(* material is not refused.                                                *)
Verified(S) ==
  [m \in DOMAIN material |->
     IF m \in S THEN [material[m] EXCEPT !.verified = TRUE] ELSE material[m]]

(* Who may verify: a recycler, the submitter included.                     *)
MayVerify(v) == RoleOf[v] = "Recycler"

-----------------------------------------------------------------------------
InitMaterials == paused = FALSE /\ material = <<>>

SwitchPause == paused' = ~paused /\ UNCHANGED material

SubmitMaterial(a, l) ==
  /\ ~paused
  /\ Len(material) < MaxMaterials
  /\ material' = Append(material, NewMaterial(a, l))
  /\ UNCHANGED paused

(* submit_materials_batch, with two lots.                                  *)
SubmitBatch(a, l, k) ==
  /\ ~paused
  /\ Len(material) + 2 <= MaxMaterials
  /\ material' = material \o <<NewMaterial(a, l), NewMaterial(a, k)>>
  /\ UNCHANGED paused

(* transfer_waste *)
TransferMaterial(a, m, b) ==
  /\ ~paused
  /\ m \in DOMAIN material /\ material[m].submitter = a
  /\ a # b /\ Route(a, b)
  /\ material' = [material EXCEPT ![m] = PassedTo(@, b)]
  /\ UNCHANGED paused

MaterialStep ==
  \/ SwitchPause
  \/ \E a \in Address, l, k \in Lots : SubmitMaterial(a, l) \/ SubmitBatch(a, l, k)
  \/ \E a, b \in Address, m \in DOMAIN material : TransferMaterial(a, m, b)
==============================================================================
