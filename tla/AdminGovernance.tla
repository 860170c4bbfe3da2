--------------------------- MODULE AdminGovernance ---------------------------
(***************************************************************************)
(* The administration of the contract (stellar-contract/src/lib.rs): the   *)
(* list of admins, the reward percentages and the deactivation of items,   *)
(* each of which an admin may change at once, and the proposals that       *)
(* change them after enough approvals.  One action is one successful call. *)
(***************************************************************************)
EXTENDS Functions, Vectors

CONSTANTS
  Address,      \* the addresses that are, were or may become admins
  AdminLists,   \* lists transfer_admin and TransferAdmin are given
  Percents,     \* percentages the setters and SetPercentages are given
  Items,        \* items issued before, by the calls WasteCustody models
  ProposalLife, \* PROPOSAL_TTL_SECS
  MaxTime, MaxAdmins, MaxProposals    \* bounds of the instance

ASSUME ListAssumption == AdminLists \subseteq Seq(Address)
ASSUME PercentAssumption == Percents \subseteq Nat
ASSUME LifeAssumption ==
  /\ ProposalLife \in Nat
  /\ MaxTime \in Nat /\ MaxAdmins \in Nat /\ MaxProposals \in Nat

VARIABLES
  now,         \* env.ledger().timestamp()
  paused,      \* PAUSED
  initialized, \* is ADMINS set
  admins,      \* ADMINS
  threshold,   \* MULTISIG_THRESHOLD
  shares,      \* REWARD_CFG
  active,      \* the items with is_active
  proposal     \* ("proposal", id)

switches == <<now, paused, initialized>>
vars     == <<switches, admins, threshold, shares, active, proposal>>

-----------------------------------------------------------------------------
Shares == [collector : Nat, owner : Nat]

(* AdminAction *)
Action == [kind : {"TransferAdmin"}, to : AdminLists]
          \cup [kind : {"SetPercentages"}, to : [collector : Percents, owner : Percents]]
          \cup [kind : {"DeactivateWaste"}, to : Items]

(* AdminProposal; the proposer is the first of the approvers.              *)
Proposal == [action : Action, approvers : Seq(Address), executed : BOOLEAN,
             created : Nat]

IsAdmin(a) == a \in Range(admins)

(* validate_percentage_sum *)
Fits(s) == s.collector + s.owner <= 100

(* Without a configuration get_reward_config falls back to these.          *)
DefaultShares == [collector |-> 5, owner |-> 50]

Init ==
  /\ now = 1 /\ paused = FALSE /\ initialized = FALSE
  /\ admins = <<>> /\ threshold = 1 /\ shares = DefaultShares
  /\ active = Items /\ proposal = <<>>

-----------------------------------------------------------------------------
Tick ==
  /\ now < MaxTime
  /\ now' = now + 1
  /\ UNCHANGED <<paused, initialized, admins, threshold, shares, active, proposal>>

InitializeAdmin(a) ==
  /\ ~initialized
  /\ initialized' = TRUE /\ admins' = <<a>>
  /\ UNCHANGED <<now, paused, threshold, shares, active, proposal>>

(* What an admin does alone, also while the contract is paused.            *)

SwitchPause(a) ==
  /\ IsAdmin(a)
  /\ paused' = ~paused
  /\ UNCHANGED <<now, initialized, admins, threshold, shares, active, proposal>>

(* transfer_admin takes any list but an empty one, duplicates included.    *)
TransferAdmin(a, list) ==
  /\ IsAdmin(a) /\ list # <<>>
  /\ admins' = list
  /\ UNCHANGED <<switches, threshold, shares, active, proposal>>

AddAdmin(a, b) ==
  /\ IsAdmin(a) /\ ~IsAdmin(b) /\ Len(admins) < MaxAdmins
  /\ admins' = Append(admins, b)
  /\ UNCHANGED <<switches, threshold, shares, active, proposal>>

(* Mutant of RemoveAdmin: the length of the list is not looked at.         *)
RemoveAnyAdmin(a, b) ==
  /\ IsAdmin(a) /\ IsAdmin(b)
  /\ admins' = Without(admins, b)
  /\ UNCHANGED <<switches, threshold, shares, active, proposal>>

(* remove_admin drops every copy of b; the threshold stays.                *)
RemoveAdmin(a, b) ==
  /\ IsAdmin(a) /\ IsAdmin(b) /\ Len(admins) > 1
  /\ admins' = Without(admins, b)
  /\ UNCHANGED <<switches, threshold, shares, active, proposal>>

(* Mutant of SetThreshold: zero approvals are enough.                      *)
SetAnyThreshold(a, n) ==
  /\ IsAdmin(a) /\ n <= Len(admins)
  /\ threshold' = n
  /\ UNCHANGED <<switches, admins, shares, active, proposal>>

SetThreshold(a, n) ==
  /\ IsAdmin(a) /\ n \in 1 .. Len(admins)
  /\ threshold' = n
  /\ UNCHANGED <<switches, admins, shares, active, proposal>>

SetPercentages(a, c, o) ==
  /\ IsAdmin(a) /\ Fits([collector |-> c, owner |-> o])
  /\ shares' = [collector |-> c, owner |-> o]
  /\ UNCHANGED <<switches, admins, threshold, active, proposal>>

(* Mutant of SetCollector: only the new percentage is looked at.           *)
SetCollectorAlone(a, c) ==
  /\ IsAdmin(a) /\ c <= 100
  /\ shares' = [shares EXCEPT !.collector = c]
  /\ UNCHANGED <<switches, admins, threshold, active, proposal>>

(* set_collector_percentage, set_owner_percentage                          *)
SetCollector(a, c) ==
  /\ IsAdmin(a) /\ Fits([shares EXCEPT !.collector = c])
  /\ shares' = [shares EXCEPT !.collector = c]
  /\ UNCHANGED <<switches, admins, threshold, active, proposal>>

SetOwner(a, o) ==
  /\ IsAdmin(a) /\ Fits([shares EXCEPT !.owner = o])
  /\ shares' = [shares EXCEPT !.owner = o]
  /\ UNCHANGED <<switches, admins, threshold, active, proposal>>

DeactivateItem(a, w) ==
  /\ IsAdmin(a) /\ w \in active
  /\ active' = active \ {w}
  /\ UNCHANGED <<switches, admins, threshold, shares, proposal>>

-----------------------------------------------------------------------------
(* What admins decide together.                                            *)

Expired(i) == now > proposal[i].created + ProposalLife

(* propose_admin_action does not look at what is proposed.                 *)
Propose(a, act) ==
  /\ IsAdmin(a) /\ ~paused /\ Len(proposal) < MaxProposals
  /\ proposal' = Append(proposal, [action |-> act, approvers |-> <<a>>,
                                   executed |-> FALSE, created |-> now])
  /\ UNCHANGED <<switches, admins, threshold, shares, active>>

(* Mutant of Approve: one admin approves twice.                            *)
ApproveAgain(a, i) ==
  /\ IsAdmin(a) /\ ~paused
  /\ ~proposal[i].executed /\ ~Expired(i)
  /\ proposal' = [proposal EXCEPT ![i].approvers = Append(@, a)]
  /\ UNCHANGED <<switches, admins, threshold, shares, active>>

Approve(a, i) ==
  /\ IsAdmin(a) /\ ~paused
  /\ ~proposal[i].executed /\ ~Expired(i) /\ a \notin Range(proposal[i].approvers)
  /\ proposal' = [proposal EXCEPT ![i].approvers = Append(@, a)]
  /\ UNCHANGED <<switches, admins, threshold, shares, active>>

(* What an executed action does; a bad one fails the call.                 *)
Perform(act) ==
  \/ /\ act.kind = "TransferAdmin" /\ act.to # <<>>
     /\ admins' = act.to
     /\ UNCHANGED <<shares, active>>
  \/ /\ act.kind = "SetPercentages" /\ Fits(act.to)
     /\ shares' = act.to
     /\ UNCHANGED <<admins, active>>
  \/ /\ act.kind = "DeactivateWaste" /\ act.to \in active
     /\ active' = active \ {act.to}
     /\ UNCHANGED <<admins, shares>>

(* execute_admin_proposal counts every approval, whoever gave it is still  *)
(* an admin or not, against the threshold of the moment.                   *)
Execute(a, i) ==
  /\ IsAdmin(a) /\ ~paused
  /\ ~proposal[i].executed /\ ~Expired(i)
  /\ Len(proposal[i].approvers) >= threshold
  /\ Perform(proposal[i].action)
  /\ proposal' = [proposal EXCEPT ![i].executed = TRUE]
  /\ UNCHANGED <<switches, threshold>>

Alone(a) ==
  \/ SwitchPause(a)
  \/ \E list \in AdminLists : TransferAdmin(a, list)
  \/ \E b \in Address : AddAdmin(a, b) \/ RemoveAdmin(a, b)
  \/ \E n \in 0 .. Len(admins) + 1 : SetThreshold(a, n)
  \/ \E p \in Percents :
       \/ SetCollector(a, p) \/ SetOwner(a, p)
       \/ \E o \in Percents : SetPercentages(a, p, o)
  \/ \E w \in Items : DeactivateItem(a, w)

Together(a) ==
  \/ \E act \in Action : Propose(a, act)
  \/ \E i \in DOMAIN proposal : Approve(a, i) \/ Execute(a, i)

Next == Tick \/ \E a \in Address : InitializeAdmin(a) \/ Alone(a) \/ Together(a)

Spec == Init /\ [][Next]_vars

-----------------------------------------------------------------------------
(* The lists, the percentages and the proposals are well formed.           *)
TypeOK ==
  /\ now \in Nat /\ paused \in BOOLEAN /\ initialized \in BOOLEAN
  /\ admins \in Seq(Address) /\ threshold \in Nat \ {0}
  /\ shares \in Shares /\ active \subseteq Items /\ proposal \in Seq(Proposal)

(* Whatever single admins and proposals set, together or one percentage at *)
(* a time, and however old the proposal: collectors and owner never share  *)
(* more than the reward (set_percentages, execute_admin_proposal).         *)
SharesFit == Fits(shares)

(* A proposal takes effect only after as many different addresses as the   *)
(* threshold asks for approved it, not after its seven days, not during a  *)
(* pause, and then never changes again, so it takes effect once.           *)
ExecutedAgreed ==
  [][\A i \in DOMAIN proposal :
       IF proposal[i].executed
       THEN proposal'[i] = proposal[i]
       ELSE proposal'[i].executed
            => /\ IsInjective(proposal'[i].approvers)
               /\ Len(proposal'[i].approvers) >= threshold
               /\ now <= proposal[i].created + ProposalLife /\ ~paused]_vars

(* What protects the last admin: an initialized contract loses its admins  *)
(* only when the list names one address several times and that address is  *)
(* removed (transfer_admin, remove_admin, TransferAdmin).                  *)
AdminsRemain ==
  [][admins # <<>> /\ admins' = <<>>
     => Len(admins) > 1 /\ \A i, j \in DOMAIN admins : admins[i] = admins[j]]_vars
==============================================================================
