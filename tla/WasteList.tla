------------------------------ MODULE WasteList ------------------------------
(***************************************************************************)
(* The hook behind the application's list of wastes (useWasteList): loads, *)
(* confirmations and batches run side by side and are never cancelled; a   *)
(* confirmation is shown before it is made, and a load, whichever ends     *)
(* last, replaces what is shown by what it read.                           *)
(***************************************************************************)
EXTENDS Naturals

CONSTANTS
  Waste,   \* the items
  Task,    \* what the user and the effects start, each once
  Asked    \* its kind and its items

Kinds == {"load", "confirm", "batchConfirm", "batch", "transfer"}

ASSUME AskedAssumption ==
  /\ Asked \in [Task -> [kind : Kinds, items : SUBSET Waste]]
  /\ \A t \in Task : Asked[t].kind # "load" => Asked[t].items # {}

VARIABLES
  wastes,      \* the items shown: is_confirmed of each
  isLoading, error,
  progress,    \* where each task is
  left,        \* the items it has still to call for
  confirmed    \* the items confirmed on the ledger at some time

listVars == <<wastes, isLoading, error, progress, left, confirmed>>

Optimistic == {"confirm", "batchConfirm"}

ListInit ==
  /\ wastes = <<>>
  /\ isLoading = FALSE /\ error = FALSE
  /\ progress = [t \in Task |-> "idle"]
  /\ left = [t \in Task |-> {}]
  /\ confirmed = {}

-----------------------------------------------------------------------------
(* load, until it waits for the contract                                   *)
StartLoad(t) ==
  /\ progress' = [progress EXCEPT ![t] = "loading"]
  /\ isLoading' = TRUE /\ error' = FALSE

Reload(t) ==
  /\ progress[t] = "idle" /\ Asked[t].kind = "load"
  /\ StartLoad(t)
  /\ UNCHANGED <<wastes, left, confirmed>>

(* The node read from may lag behind the ledger, and the items are those   *)
(* of the account the load was started for.                                *)
Loaded(t) ==
  /\ progress[t] = "loading"
  /\ \E ids \in SUBSET Waste : \E seen \in SUBSET (ids \cap confirmed) :
       wastes' = [w \in ids |-> w \in seen]
  /\ progress' = [progress EXCEPT ![t] = "done"]
  /\ isLoading' = FALSE
  /\ UNCHANGED <<error, left, confirmed>>

LoadFails(t) ==
  /\ progress[t] = "loading"
  /\ error' = TRUE
  /\ progress' = [progress EXCEPT ![t] = "done"]
  /\ isLoading' = FALSE
  /\ UNCHANGED <<wastes, left, confirmed>>

(* A confirmation, one item or several, changes what is shown at once.     *)
Start(t) ==
  /\ progress[t] = "idle" /\ Asked[t].kind # "load"
  /\ progress' = [progress EXCEPT ![t] = "calling"]
  /\ left' = [left EXCEPT ![t] = Asked[t].items]
  /\ wastes' = IF Asked[t].kind \in Optimistic
               THEN [w \in DOMAIN wastes |-> wastes[w] \/ w \in Asked[t].items]
               ELSE wastes
  /\ UNCHANGED <<isLoading, error, confirmed>>

(* Mutant of EndsThere: a confirmation that fails is not reverted.         *)
EndsThereToo(t) == Asked[t].kind \in {"transfer", "confirm"}

(* What ends with the exception, without a load                            *)
EndsThere(t) == Asked[t].kind = "transfer"

(* One call after another.  A call may take effect whether it returns or   *)
(* throws; a batch goes on either way, and so does confirmWaste, to the    *)
(* load; a transfer that throws ends there.                                *)
CallFor(t) ==
  /\ progress[t] = "calling"
  /\ \E w \in left[t] :
       /\ left' = [left EXCEPT ![t] = @ \ {w}]
       /\ \/ Asked[t].kind \in Optimistic /\ confirmed' = confirmed \cup {w}
          \/ UNCHANGED confirmed
       /\ IF left[t] # {w} THEN UNCHANGED <<progress, isLoading, error>>
          ELSE \/ StartLoad(t)
               \/ /\ EndsThere(t)
                  /\ progress' = [progress EXCEPT ![t] = "done"]
                  /\ UNCHANGED <<isLoading, error>>
  /\ UNCHANGED wastes

(* A call that was given up takes effect, or somebody else confirms.       *)
ConfirmedElsewhere(w) ==
  /\ w \notin confirmed
  /\ confirmed' = confirmed \cup {w}
  /\ UNCHANGED <<wastes, isLoading, error, progress, left>>

ListNext ==
  \/ \E t \in Task : Reload(t) \/ Loaded(t) \/ LoadFails(t) \/ Start(t) \/ CallFor(t)
  \/ \E w \in Waste : ConfirmedElsewhere(w)

ListSpec == ListInit /\ [][ListNext]_listVars

-----------------------------------------------------------------------------
ListTypeOK ==
  /\ DOMAIN wastes \subseteq Waste /\ wastes \in [DOMAIN wastes -> BOOLEAN]
  /\ isLoading \in BOOLEAN /\ error \in BOOLEAN
  /\ progress \in [Task -> {"idle", "calling", "loading", "done"}]
  /\ left \in [Task -> SUBSET Waste]
  /\ confirmed \subseteq Waste

(* Whatever runs side by side and in whatever order it ends, an item is    *)
(* shown as confirmed that never was only while a confirmation of it is    *)
(* under way, the list is shown as loading, or an error is shown.          *)
OptimismExplained ==
  \A w \in DOMAIN wastes :
    wastes[w] /\ w \notin confirmed =>
      \/ isLoading \/ error
      \/ \E t \in Task : /\ progress[t] = "calling" /\ w \in Asked[t].items
                         /\ Asked[t].kind \in Optimistic

=============================================================================
