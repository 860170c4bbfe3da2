----------------------- MODULE VerificationDashboard -----------------------
(***************************************************************************)
(* The page on which a verifier approves or rejects materials, one or a    *)
(* selection at a time.  A query holds the list and is read again after a  *)
(* verification; the history of the session is kept beside the ledger, and *)
(* while a verification is pending no other can be asked for.              *)
(***************************************************************************)
EXTENDS Naturals, FiniteSets

CONSTANT Row

VARIABLES
  allMaterials,   \* the query: for each material listed, whether it is verified
  refetching,     \* the query is being read again
  checkedIds,     \* the selection
  bulk,           \* the materials of the action under way
  rest,           \* those it has still to verify (none: nothing is pending)
  single,         \* it is about one material, and no selection
  history,        \* the session's records
  finished,       \* the materials of the bulk approvals that ended as they should
  verified        \* the materials verified on the ledger

boardVars == <<allMaterials, refetching, checkedIds, bulk, rest, single, history,
               finished, verified>>

Decision == {"approved", "rejected"}

Listed == DOMAIN allMaterials

BoardInit ==
  /\ allMaterials = <<>> /\ refetching = TRUE
  /\ checkedIds = {} /\ bulk = {} /\ rest = {} /\ single = FALSE
  /\ history = {} /\ finished = {}
  /\ verified = {}

Unpending == rest = {}

-----------------------------------------------------------------------------
(* useAllMaterials: the node may lag behind the ledger.                    *)
Fetched ==
  /\ refetching
  /\ \E ids \in SUBSET Row : \E seen \in SUBSET (ids \cap verified) :
       allMaterials' = [m \in ids |-> m \in seen]
  /\ refetching' = FALSE
  /\ UNCHANGED <<checkedIds, bulk, rest, single, history, finished, verified>>

(* The list has become stale, or the last reading of it failed.            *)
Refetch ==
  /\ ~refetching
  /\ refetching' = TRUE
  /\ UNCHANGED <<allMaterials, checkedIds, bulk, rest, single, history, finished, verified>>

(* handleCheckItem, handleSelectAll over the filtered list, and Clear      *)
Select ==
  /\ \/ \E m \in Listed : \E S \in {checkedIds \cup {m}, checkedIds \ {m}} : checkedIds' = S
     \/ \E S \in SUBSET Listed : Cardinality(checkedIds) # Cardinality(S) /\ checkedIds' = S
     \/ checkedIds' = {}
  /\ UNCHANGED <<allMaterials, refetching, bulk, rest, single, history, finished, verified>>

(* Mutant of Decide: what the action is about is not kept.                 *)
DecideAgain(ids, one) ==
  \/ /\ rest' = ids /\ single' = one
     /\ UNCHANGED <<bulk, history, checkedIds>>
  \/ /\ history' = history \cup {[id |-> m, decision |-> "rejected"] : m \in ids}
     /\ checkedIds' = IF one THEN checkedIds ELSE {}
     /\ UNCHANGED <<bulk, rest, single>>

(* An approval goes through the contract, one material after the other; a  *)
(* rejection is a record and nothing else.                                 *)
Decide(ids, one) ==
  \/ /\ bulk' = ids /\ rest' = ids /\ single' = one
     /\ UNCHANGED <<history, checkedIds>>
  \/ /\ history' = history \cup {[id |-> m, decision |-> "rejected"] : m \in ids}
     /\ checkedIds' = IF one THEN checkedIds ELSE {}
     /\ UNCHANGED <<bulk, rest, single>>

(* The buttons of the form, for the material that is open                  *)
Verify(m) ==
  /\ Unpending /\ m \in Listed /\ ~allMaterials[m]
  /\ Decide({m}, TRUE)
  /\ UNCHANGED <<allMaterials, refetching, finished, verified>>

(* Those of the panel: the pending ones of the selection, as listed now    *)
BulkAction ==
  LET pendingSelected == {m \in checkedIds \cap Listed : ~allMaterials[m]}
  IN /\ Unpending /\ pendingSelected # {}
     /\ Decide(pendingSelected, FALSE)
     /\ UNCHANGED <<allMaterials, refetching, finished, verified>>

(* verifyMaterial returned: the record is added, the query is invalidated, *)
(* and the selection is cleared when the last one is done.                 *)
VerifyReturns(m) ==
  /\ m \in rest
  /\ verified' = verified \cup {m}
  /\ history' = history \cup {[id |-> m, decision |-> "approved"]}
  /\ refetching' = TRUE
  /\ rest' = rest \ {m}
  /\ IF rest = {m} /\ ~single
     THEN checkedIds' = {} /\ finished' = finished \cup bulk
     ELSE UNCHANGED <<checkedIds, finished>>
  /\ UNCHANGED <<allMaterials, bulk, single>>

(* Mutant of Throws: a bulk action goes on with the next material.         *)
ThrowsAndGoesOn(m) ==
  /\ m \in rest
  /\ rest' = rest \ {m}
  /\ IF rest = {m} /\ ~single
     THEN checkedIds' = {} /\ finished' = finished \cup bulk
     ELSE UNCHANGED <<checkedIds, finished>>
  /\ UNCHANGED <<allMaterials, refetching, bulk, single, history, verified>>

(* It threw, whether it takes effect or not: the action ends there, what   *)
(* is left is not verified and stays selected.                             *)
Throws(m) ==
  /\ m \in rest
  /\ rest' = {}
  /\ UNCHANGED <<allMaterials, refetching, checkedIds, bulk, single, history, finished, verified>>

(* A call that was given up takes effect, or another verifier is faster.   *)
VerifiedElsewhere(m) ==
  /\ m \notin verified
  /\ verified' = verified \cup {m}
  /\ UNCHANGED <<allMaterials, refetching, checkedIds, bulk, rest, single, history, finished>>

BoardNext ==
  \/ Fetched \/ Refetch \/ Select \/ BulkAction
  \/ \E m \in Row : Verify(m) \/ VerifyReturns(m) \/ Throws(m) \/ VerifiedElsewhere(m)

BoardSpec == BoardInit /\ [][BoardNext]_boardVars

-----------------------------------------------------------------------------
BoardTypeOK ==
  /\ Listed \subseteq Row /\ allMaterials \in [Listed -> BOOLEAN]
  /\ refetching \in BOOLEAN /\ single \in BOOLEAN
  /\ checkedIds \subseteq Row /\ bulk \subseteq Row /\ rest \subseteq bulk
  /\ history \subseteq [id : Row, decision : Decision]
  /\ finished \subseteq Row /\ verified \subseteq Row

(* Whatever fails half way and whatever the list showed, a material that   *)
(* the session's history calls approved is verified on the ledger, and a   *)
(* bulk approval that ended and cleared the selection approved them all.   *)
ApprovalsVerified ==
  LET approved == {r.id : r \in {s \in history : s.decision = "approved"}}
  IN finished \subseteq approved /\ approved \subseteq verified

=============================================================================
