------------------------- MODULE WasteCustodyClaims -------------------------
(***************************************************************************)
(* What comments, documents and tests of the repository say about custody. *)
(* The runs *_claim check each of them against WasteCustody and show the   *)
(* calls by which the contract departs from it.                            *)
(***************************************************************************)
EXTENDS WasteCustody

(* lib.rs:7284-7285, "The waste is frozen (cannot be transferred) until an *)
(* admin calls [`resolve_dispute`]": a frozen item keeps its owner.        *)
FrozenStaysPut ==
  [][\A w \in WasteId :
       waste[w].frozen /\ waste'[w].frozen => waste'[w].owner = waste[w].owner]_vars

(* docs/SYSTEM_DESIGN.md:231, a transfer is valid only when "`from` is the *)
(* current holder of the waste": an approved offer moves the item away     *)
(* from the participant who made the offer.                                *)
ApprovedFromHolder ==
  [][\A i \in DOMAIN pending :
       pending[i].status = "Pending" /\ pending'[i].status = "Approved"
       => waste[pending[i].waste].owner = pending[i].from]_vars

=============================================================================
