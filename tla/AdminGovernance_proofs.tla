----------------------- MODULE AdminGovernance_proofs -----------------------
(***************************************************************************)
(* Proposals are executed by agreement and the reward shares fit, for any  *)
(* admins, lists, percentages and life of a proposal.  The length of a     *)
(* list of approvals counts people only because no address is in it twice; *)
(* that is what the inductive invariant adds.  The last part is about the  *)
(* list of admins: it stays a list of addresses under a threshold that is  *)
(* never zero, and only a list of one name is ever emptied.                *)
(***************************************************************************)
EXTENDS AdminGovernance, Collections_proofs

ProposalsTyped == proposal \in Seq(Proposal)

(* Nobody's approval counts twice.                                         *)
DistinctApprovers ==
  \A i \in DOMAIN proposal : IsInjective(proposal[i].approvers)

SharesTyped == shares \in Shares

GovernanceInv ==
  /\ now \in Nat
  /\ ProposalsTyped /\ DistinctApprovers
  /\ SharesTyped /\ SharesFit

-----------------------------------------------------------------------------
(* One more name keeps a list of different names different.                *)
LEMMA AppendDistinct ==
  ASSUME NEW s \in Seq(Address), NEW a \in Address,
         IsInjective(s), a \notin Range(s)
  PROVE  IsInjective(Append(s, a))
<1>1. \A j, k \in 1 .. Len(s) : s[j] = s[k] => j = k
  BY DEF IsInjective
<1>2. \A j \in 1 .. Len(s) : s[j] # a
  BY DEF Range
<1>3. /\ Len(Append(s, a)) = Len(s) + 1 /\ Append(s, a)[Len(s) + 1] = a
      /\ \A j \in 1 .. Len(s) : Append(s, a)[j] = s[j]
      /\ DOMAIN Append(s, a) = 1 .. Len(s) + 1
  OBVIOUS
<1>4. ASSUME NEW j \in 1 .. Len(s) + 1, NEW k \in 1 .. Len(s) + 1,
             Append(s, a)[j] = Append(s, a)[k]
      PROVE  j = k
  BY <1>1, <1>2, <1>3, <1>4
<1> QED
  BY <1>3, <1>4 DEF IsInjective

LEMMA ProposalIsProposal ==
  ASSUME ProposalsTyped, NEW i \in DOMAIN proposal
  PROVE  proposal[i] \in Proposal
BY DEF ProposalsTyped

LEMMA GovernanceInit == Init => GovernanceInv
<1> SUFFICES ASSUME Init
             PROVE  GovernanceInv
  OBVIOUS
<1>1. ProposalsTyped /\ DistinctApprovers
  BY DEF Init, ProposalsTyped, DistinctApprovers
<1>2. SharesTyped /\ SharesFit
  BY DEF Init, DefaultShares, SharesTyped, Shares, SharesFit, Fits
<1>3. now \in Nat
  BY DEF Init
<1> QED
  BY <1>1, <1>2, <1>3 DEF GovernanceInv

-----------------------------------------------------------------------------
(* What the setters do to the shares.                                      *)
LEMMA SharesStep ==
  ASSUME SharesTyped, SharesFit,
         NEW p \in Percents, NEW o \in Percents, NEW a,
         SetPercentages(a, p, o) \/ SetCollector(a, p) \/ SetOwner(a, o)
  PROVE  SharesTyped' /\ SharesFit'
<1>1. p \in Nat /\ o \in Nat
  BY PercentAssumption
<1>2. CASE SetPercentages(a, p, o)
  BY <1>1, <1>2 DEF SetPercentages, SharesTyped, SharesFit, Shares, Fits
<1>3. CASE SetCollector(a, p)
  BY <1>1, <1>3 DEF SetCollector, SharesTyped, SharesFit, Shares, Fits
<1>4. CASE SetOwner(a, o)
  BY <1>1, <1>4 DEF SetOwner, SharesTyped, SharesFit, Shares, Fits
<1> QED
  BY <1>2, <1>3, <1>4

(* What an action that is performed leaves as shares.                      *)
LEMMA PerformShares ==
  ASSUME SharesTyped, SharesFit, NEW act \in Action, Perform(act)
  PROVE  SharesTyped' /\ SharesFit'
<1>1. CASE act.kind = "SetPercentages"
  <2>1. act.to \in [collector : Percents, owner : Percents]
    BY <1>1 DEF Action
  <2>2. act.to \in Shares
    BY <2>1, PercentAssumption DEF Shares
  <2> QED
    BY <1>1, <2>2 DEF Perform, SharesTyped, SharesFit
<1>2. CASE act.kind # "SetPercentages"
  <2>1. shares' = shares
    BY <1>2 DEF Perform
  <2> QED
    BY <2>1 DEF SharesTyped, SharesFit, Fits
<1> QED
  BY <1>1, <1>2

(* What the calls about proposals do to them.                              *)
LEMMA ProposeStep ==
  ASSUME ProposalsTyped, DistinctApprovers, now \in Nat,
         NEW a \in Address, NEW act \in Action, Propose(a, act)
  PROVE  ProposalsTyped' /\ DistinctApprovers'
<1> DEFINE new == [action |-> act, approvers |-> <<a>>, executed |-> FALSE,
                   created |-> now]
<1>1. new \in Proposal /\ IsInjective(new.approvers)
  BY DEF Proposal, IsInjective
<1>2. proposal' = Append(proposal, new) /\ proposal \in Seq(Proposal)
  BY DEF Propose, ProposalsTyped
<1> HIDE DEF new
<1>3. ProposalsTyped'
  BY <1>1, <1>2 DEF ProposalsTyped
<1>4. ASSUME NEW i \in DOMAIN proposal'
      PROVE  IsInjective(proposal'[i].approvers)
  <2>1. CASE i \in DOMAIN proposal
    <3>1. proposal'[i] = proposal[i]
      BY <1>2, <2>1
    <3> QED
      BY <2>1, <3>1 DEF DistinctApprovers
  <2>2. CASE i \notin DOMAIN proposal
    <3>1. proposal'[i] = new
      BY <1>2, <1>4, <2>2
    <3> QED
      BY <1>1, <3>1
  <2> QED
    BY <2>1, <2>2
<1> QED
  BY <1>3, <1>4 DEF DistinctApprovers

LEMMA ApproveStep ==
  ASSUME ProposalsTyped, DistinctApprovers,
         NEW a \in Address, NEW i \in DOMAIN proposal, Approve(a, i)
  PROVE  ProposalsTyped' /\ DistinctApprovers'
<1> DEFINE more == Append(proposal[i].approvers, a)
<1>1. proposal[i] \in Proposal /\ proposal[i].approvers \in Seq(Address)
  BY ProposalIsProposal DEF Proposal
<1>2. more \in Seq(Address) /\ IsInjective(more)
  BY <1>1, AppendDistinct DEF Approve, DistinctApprovers
<1>3. proposal' = [proposal EXCEPT ![i].approvers = more]
  BY DEF Approve
<1> HIDE DEF more
<1>4. [proposal[i] EXCEPT !.approvers = more] \in Proposal
  BY <1>1, <1>2 DEF Proposal
<1>5. ProposalsTyped'
  BY <1>3, <1>4 DEF ProposalsTyped
<1>6. ASSUME NEW j \in DOMAIN proposal'
      PROVE  IsInjective(proposal'[j].approvers)
  <2>1. j \in DOMAIN proposal
    BY <1>3, <1>6
  <2>2. CASE j = i
    BY <1>1, <1>2, <1>3, <2>1, <2>2 DEF Proposal
  <2>3. CASE j # i
    BY <1>3, <2>1, <2>3 DEF DistinctApprovers
  <2> QED
    BY <2>2, <2>3
<1> QED
  BY <1>5, <1>6 DEF DistinctApprovers

LEMMA ExecuteStep ==
  ASSUME GovernanceInv, NEW a, NEW i \in DOMAIN proposal, Execute(a, i)
  PROVE  GovernanceInv'
<1> USE DEF GovernanceInv
<1>1. proposal[i] \in Proposal /\ proposal[i].action \in Action
  BY ProposalIsProposal DEF Proposal
<1>2. SharesTyped' /\ SharesFit'
  BY <1>1, PerformShares DEF Execute
<1>3. proposal' = [proposal EXCEPT ![i].executed = TRUE]
  BY DEF Execute
<1>4. [proposal[i] EXCEPT !.executed = TRUE] \in Proposal
  BY <1>1 DEF Proposal
<1>5. ProposalsTyped'
  BY <1>3, <1>4 DEF ProposalsTyped
<1>6. ASSUME NEW j \in DOMAIN proposal'
      PROVE  IsInjective(proposal'[j].approvers)
  <2>1. j \in DOMAIN proposal /\ proposal'[j].approvers = proposal[j].approvers
    BY <1>3, <1>6, ProposalIsProposal DEF Proposal
  <2> QED
    BY <2>1 DEF DistinctApprovers
<1>7. now' \in Nat
  BY DEF Execute, switches
<1> QED
  BY <1>2, <1>5, <1>6, <1>7 DEF DistinctApprovers

(* Steps that leave the clock, the proposals and the shares alone.         *)
LEMMA QuietStep ==
  ASSUME GovernanceInv, now' \in Nat, UNCHANGED <<shares, proposal>>
  PROVE  GovernanceInv'
<1>1. ProposalsTyped' /\ DistinctApprovers'
  BY DEF GovernanceInv, ProposalsTyped, DistinctApprovers, IsInjective
<1>2. SharesTyped' /\ SharesFit'
  BY DEF GovernanceInv, SharesTyped, SharesFit, Fits
<1> QED
  BY <1>1, <1>2 DEF GovernanceInv

LEMMA AloneStep ==
  ASSUME GovernanceInv, NEW a \in Address, Alone(a)
  PROVE  GovernanceInv'
<1>1. now' \in Nat /\ proposal' = proposal
  BY DEF Alone, SwitchPause, TransferAdmin, AddAdmin, RemoveAdmin, SetThreshold,
         SetCollector, SetOwner, SetPercentages, DeactivateItem, switches,
         GovernanceInv
<1>2. CASE UNCHANGED shares
  BY <1>1, <1>2, QuietStep
<1>3. CASE \E p, o \in Percents :
             SetPercentages(a, p, o) \/ SetCollector(a, p) \/ SetOwner(a, o)
  <2>1. SharesTyped' /\ SharesFit'
    BY <1>3, SharesStep DEF GovernanceInv
  <2>2. ProposalsTyped' /\ DistinctApprovers'
    BY <1>1 DEF GovernanceInv, ProposalsTyped, DistinctApprovers, IsInjective
  <2> QED
    BY <1>1, <2>1, <2>2 DEF GovernanceInv
<1> QED
  BY <1>2, <1>3 DEF Alone, SwitchPause, TransferAdmin, AddAdmin, RemoveAdmin,
                    SetThreshold, DeactivateItem

LEMMA TogetherStep ==
  ASSUME GovernanceInv, NEW a \in Address, Together(a)
  PROVE  GovernanceInv'
<1>1. ASSUME NEW act \in Action, Propose(a, act)
      PROVE  GovernanceInv'
  <2>1. ProposalsTyped' /\ DistinctApprovers'
    BY <1>1, ProposeStep DEF GovernanceInv
  <2> QED
    BY <1>1, <2>1 DEF Propose, switches, GovernanceInv, SharesTyped, SharesFit, Fits
<1>2. ASSUME NEW i \in DOMAIN proposal, Approve(a, i)
      PROVE  GovernanceInv'
  <2>1. ProposalsTyped' /\ DistinctApprovers'
    BY <1>2, ApproveStep DEF GovernanceInv
  <2> QED
    BY <1>2, <2>1 DEF Approve, switches, GovernanceInv, SharesTyped, SharesFit, Fits
<1>3. ASSUME NEW i \in DOMAIN proposal, Execute(a, i)
      PROVE  GovernanceInv'
  BY <1>3, ExecuteStep
<1> QED
  BY <1>1, <1>2, <1>3 DEF Together

LEMMA GovernanceStep == GovernanceInv /\ [Next]_vars => GovernanceInv'
<1> SUFFICES ASSUME GovernanceInv, [Next]_vars
             PROVE  GovernanceInv'
  OBVIOUS
<1>1. CASE Tick
  BY <1>1, QuietStep DEF Tick, GovernanceInv
<1>2. ASSUME NEW a \in Address, InitializeAdmin(a)
      PROVE  GovernanceInv'
  BY <1>2, QuietStep DEF InitializeAdmin, GovernanceInv
<1>3. CASE UNCHANGED vars
  BY <1>3, QuietStep DEF vars, switches, GovernanceInv
<1> QED
  BY <1>1, <1>2, <1>3, AloneStep, TogetherStep DEF Next

(* The inductive invariant of every behaviour.                             *)
THEOREM GovernanceCorrect == Spec => []GovernanceInv
<1> QED
  BY GovernanceInit, GovernanceStep, PTL DEF Spec

(* Collectors and owner never share more than the reward, whichever of the *)
(* three setters or execute_admin_proposal wrote the percentages last.     *)
THEOREM SharesAlwaysFit == Spec => []SharesFit
<1>1. GovernanceInv => SharesFit
  BY DEF GovernanceInv
<1> QED
  BY <1>1, GovernanceCorrect, PTL

-----------------------------------------------------------------------------
(* What ExecutedAgreed says of one step.                                   *)
AgreedStep ==
  \A i \in DOMAIN proposal :
    IF proposal[i].executed
    THEN proposal'[i] = proposal[i]
    ELSE proposal'[i].executed
         => /\ IsInjective(proposal'[i].approvers)
            /\ Len(proposal'[i].approvers) >= threshold
            /\ now <= proposal[i].created + ProposalLife /\ ~paused

LEMMA AgreedWhenQuiet ==
  ASSUME GovernanceInv, proposal' = proposal
  PROVE  AgreedStep
BY DEF AgreedStep

LEMMA AgreedTogether ==
  ASSUME GovernanceInv, NEW a \in Address, Together(a)
  PROVE  AgreedStep
<1> SUFFICES ASSUME NEW i \in DOMAIN proposal
             PROVE  IF proposal[i].executed
                    THEN proposal'[i] = proposal[i]
                    ELSE proposal'[i].executed
                         => /\ IsInjective(proposal'[i].approvers)
                            /\ Len(proposal'[i].approvers) >= threshold
                            /\ now <= proposal[i].created + ProposalLife /\ ~paused
  BY DEF AgreedStep
<1>1. proposal \in Seq(Proposal) /\ proposal[i] \in Proposal
  BY ProposalIsProposal DEF GovernanceInv, ProposalsTyped
<1>2. ASSUME NEW act \in Action, Propose(a, act)
      PROVE  proposal'[i] = proposal[i]
  BY <1>1, <1>2 DEF Propose
<1>3. ASSUME NEW j \in DOMAIN proposal, Approve(a, j)
      PROVE  /\ proposal'[i].executed = proposal[i].executed
             /\ proposal[i].executed => proposal'[i] = proposal[i]
  <2>1. CASE i = j
    BY <1>1, <1>3, <2>1 DEF Approve, Proposal
  <2>2. CASE i # j
    BY <1>1, <1>3, <2>2 DEF Approve
  <2> QED
    BY <2>1, <2>2
<1>4. ASSUME NEW j \in DOMAIN proposal, Execute(a, j), i # j
      PROVE  proposal'[i] = proposal[i]
  BY <1>1, <1>4 DEF Execute
<1>5. ASSUME Execute(a, i)
      PROVE  /\ ~proposal[i].executed
             /\ IsInjective(proposal'[i].approvers)
             /\ Len(proposal'[i].approvers) >= threshold
             /\ now <= proposal[i].created + ProposalLife /\ ~paused
  <2>1. proposal'[i].approvers = proposal[i].approvers
    BY <1>1, <1>5 DEF Execute, Proposal
  <2>2. IsInjective(proposal[i].approvers)
    BY DEF GovernanceInv, DistinctApprovers
  <2>3. now \in Nat /\ proposal[i].created \in Nat /\ ProposalLife \in Nat
    BY <1>1, LifeAssumption DEF GovernanceInv, Proposal
  <2>4. ~proposal[i].executed /\ ~Expired(i) /\ ~paused
        /\ Len(proposal[i].approvers) >= threshold
    BY <1>5 DEF Execute
  <2>5. now <= proposal[i].created + ProposalLife
    BY <2>3, <2>4 DEF Expired
  <2> QED
    BY <2>1, <2>2, <2>4, <2>5
<1> QED
  BY <1>2, <1>3, <1>4, <1>5 DEF Together

(* A proposal is executed by as many different addresses as the threshold  *)
(* asks for, in time and while the contract runs, and only once            *)
(* (approve_admin_proposal, execute_admin_proposal).                       *)
THEOREM ProposalsAgreed == Spec => ExecutedAgreed
<1>1. ASSUME GovernanceInv, [Next]_vars
      PROVE  [AgreedStep]_vars
  <2>1. CASE proposal' = proposal
    BY <1>1, <2>1, AgreedWhenQuiet
  <2>2. ASSUME NEW a \in Address, Together(a)
        PROVE  AgreedStep
    BY <1>1, <2>2, AgreedTogether
  <2>3. ASSUME NEW a \in Address, Alone(a) \/ InitializeAdmin(a) \/ Tick
        PROVE  proposal' = proposal
    BY <2>3 DEF Alone, SwitchPause, TransferAdmin, AddAdmin, RemoveAdmin,
                SetThreshold, SetCollector, SetOwner, SetPercentages,
                DeactivateItem, InitializeAdmin, Tick
  <2>4. CASE Tick
    BY <2>1, <2>4 DEF Tick
  <2> QED
    BY <1>1, <2>1, <2>2, <2>3, <2>4 DEF Next, vars
<1>2. [][AgreedStep]_vars => ExecutedAgreed
  BY PTL DEF AgreedStep, ExecutedAgreed
<1> QED
  BY <1>1, <1>2, GovernanceCorrect, PTL DEF Spec

-----------------------------------------------------------------------------
(* What the invariant leaves out of the types.                             *)
AdminsTyped ==
  /\ paused \in BOOLEAN /\ initialized \in BOOLEAN
  /\ admins \in Seq(Address) /\ threshold \in Nat \ {0} /\ active \subseteq Items

LEMMA AdminsInit == Init => AdminsTyped
<1> SUFFICES ASSUME Init PROVE AdminsTyped
  OBVIOUS
<1>1. admins \in Seq(Address)
  <2>1. <<>> \in Seq(Address)
    OBVIOUS
  <2> QED
    BY <2>1 DEF Init
<1>2. threshold \in Nat \ {0}
  BY DEF Init
<1> QED
  BY <1>1, <1>2 DEF Init, AdminsTyped

(* An action that is performed leaves a list of admins that is not empty,  *)
(* unless it leaves the list alone.                                        *)
LEMMA PerformAdmins ==
  ASSUME AdminsTyped, NEW act \in Action, Perform(act)
  PROVE  /\ admins' \in Seq(Address) /\ active' \subseteq Items
         /\ admins' = admins \/ admins' # <<>>
<1>1. CASE act.kind = "TransferAdmin"
  <2>1. act.to \in AdminLists
    BY <1>1 DEF Action
  <2> QED
    BY <1>1, <2>1, ListAssumption DEF Perform, AdminsTyped
<1>2. CASE act.kind # "TransferAdmin"
  BY <1>2 DEF Perform, AdminsTyped
<1> QED
  BY <1>1, <1>2

LEMMA ActionOfProposal ==
  ASSUME ProposalsTyped, NEW i \in DOMAIN proposal
  PROVE  proposal[i].action \in Action
BY ProposalIsProposal DEF Proposal

LEMMA AdminsStep == GovernanceInv /\ AdminsTyped /\ [Next]_vars => AdminsTyped'
<1> SUFFICES ASSUME GovernanceInv, AdminsTyped, [Next]_vars
             PROVE  AdminsTyped'
  OBVIOUS
<1>1. CASE Tick \/ UNCHANGED vars
  BY <1>1 DEF Tick, vars, switches, AdminsTyped
<1>2. ASSUME NEW a \in Address, InitializeAdmin(a)
      PROVE  AdminsTyped'
  BY <1>2 DEF InitializeAdmin, AdminsTyped
<1>3. ASSUME NEW a \in Address, Alone(a)
      PROVE  AdminsTyped'
  <2>1. CASE SwitchPause(a)
    BY <2>1 DEF SwitchPause, AdminsTyped
  <2>2. ASSUME NEW list \in AdminLists, TransferAdmin(a, list)
        PROVE  AdminsTyped'
    BY <2>2, ListAssumption DEF TransferAdmin, switches, AdminsTyped
  <2>3. ASSUME NEW b \in Address, AddAdmin(a, b)
        PROVE  AdminsTyped'
    BY <2>3 DEF AddAdmin, switches, AdminsTyped
  <2>4. ASSUME NEW b \in Address, RemoveAdmin(a, b)
        PROVE  AdminsTyped'
    <3>1. Without(admins, b) \in Seq(Address)
      BY WithoutRange DEF AdminsTyped
    <3> QED
      BY <2>4, <3>1 DEF RemoveAdmin, switches, AdminsTyped
  <2>5. ASSUME NEW n, SetThreshold(a, n)
        PROVE  AdminsTyped'
    BY <2>5 DEF SetThreshold, switches, AdminsTyped
  <2>6. ASSUME NEW p, NEW o, SetCollector(a, p) \/ SetOwner(a, p) \/ SetPercentages(a, p, o)
        PROVE  AdminsTyped'
    BY <2>6 DEF SetCollector, SetOwner, SetPercentages, switches, AdminsTyped
  <2>7. ASSUME NEW w \in Items, DeactivateItem(a, w)
        PROVE  AdminsTyped'
    BY <2>7 DEF DeactivateItem, switches, AdminsTyped
  <2> QED
    BY <1>3, <2>1, <2>2, <2>3, <2>4, <2>5, <2>6, <2>7 DEF Alone
<1>4. ASSUME NEW a \in Address, Together(a)
      PROVE  AdminsTyped'
  <2>1. ASSUME NEW act, Propose(a, act)
        PROVE  AdminsTyped'
    BY <2>1 DEF Propose, switches, AdminsTyped
  <2>2. ASSUME NEW i, Approve(a, i)
        PROVE  AdminsTyped'
    BY <2>2 DEF Approve, switches, AdminsTyped
  <2>3. ASSUME NEW i \in DOMAIN proposal, Execute(a, i)
        PROVE  AdminsTyped'
    <3>1. proposal[i].action \in Action
      BY ActionOfProposal DEF GovernanceInv
    <3>2. Perform(proposal[i].action) /\ UNCHANGED <<switches, threshold>>
      BY <2>3 DEF Execute
    <3>3. admins' \in Seq(Address) /\ active' \subseteq Items
      BY <3>1, <3>2, PerformAdmins
    <3> QED
      BY <3>2, <3>3 DEF switches, AdminsTyped
  <2> QED
    BY <1>4, <2>1, <2>2, <2>3 DEF Together
<1> QED
  BY <1>1, <1>2, <1>3, <1>4 DEF Next

(* The lists of admins, the threshold, the percentages and the proposals   *)
(* are well formed; the threshold is never zero.                           *)
THEOREM GovernanceTypeCorrect == Spec => []TypeOK
<1>1. GovernanceInv /\ AdminsTyped => TypeOK
  BY DEF GovernanceInv, ProposalsTyped, SharesTyped, AdminsTyped, TypeOK
<1> QED
  BY <1>1, GovernanceInit, GovernanceStep, AdminsInit, AdminsStep, PTL DEF Spec

-----------------------------------------------------------------------------
(* A list is emptied by leaving b out only if it names nobody else.        *)
LEMMA EmptiedNamesOne ==
  ASSUME NEW s \in Seq(Address), NEW b, Without(s, b) = <<>>
  PROVE  \A i \in DOMAIN s : s[i] = b
<1>1. Range(Without(s, b)) = Range(s) \ {b}
  BY WithoutRange
<1>2. Range(Without(s, b)) = {}
  BY DEF Range
<1>3. \A i \in DOMAIN s : s[i] \in Range(s)
  BY DEF Range
<1> QED
  BY <1>1, <1>2, <1>3

LEMMA RemainStep ==
  ASSUME GovernanceInv, AdminsTyped, [Next]_vars, admins # <<>>, admins' = <<>>
  PROVE  Len(admins) > 1 /\ \A i, j \in DOMAIN admins : admins[i] = admins[j]
<1>1. ASSUME NEW a \in Address, NEW b \in Address, RemoveAdmin(a, b)
      PROVE  Len(admins) > 1 /\ \A i, j \in DOMAIN admins : admins[i] = admins[j]
  BY <1>1, EmptiedNamesOne DEF RemoveAdmin, AdminsTyped
<1>2. ASSUME NEW a \in Address, Alone(a),
             ~ \E b \in Address : RemoveAdmin(a, b)
      PROVE  FALSE
  <2>1. \/ admins' = admins
        \/ \E list \in AdminLists : list # <<>> /\ admins' = list
        \/ \E b \in Address : admins' = Append(admins, b)
    BY <1>2 DEF Alone, SwitchPause, TransferAdmin, AddAdmin, SetThreshold, SetCollector,
                SetOwner, SetPercentages, DeactivateItem
  <2>2. \A b \in Address : Append(admins, b) # <<>>
    BY DEF AdminsTyped
  <2> QED
    BY <2>1, <2>2
<1>3. ASSUME NEW a \in Address, Together(a)
      PROVE  FALSE
  <2>1. ASSUME NEW i \in DOMAIN proposal, Execute(a, i)
        PROVE  FALSE
    <3>1. proposal[i].action \in Action
      BY ActionOfProposal DEF GovernanceInv
    <3>2. Perform(proposal[i].action)
      BY <2>1 DEF Execute
    <3> QED
      BY <3>1, <3>2, PerformAdmins
  <2>2. ASSUME NEW act, Propose(a, act)
        PROVE  FALSE
    BY <2>2 DEF Propose
  <2>3. ASSUME NEW i, Approve(a, i)
        PROVE  FALSE
    BY <2>3 DEF Approve
  <2> QED
    BY <1>3, <2>1, <2>2, <2>3 DEF Together
<1>4. ASSUME NEW a \in Address, InitializeAdmin(a)
      PROVE  FALSE
  <2>1. admins' = <<a>>
    BY <1>4 DEF InitializeAdmin
  <2> QED
    BY <2>1
<1>5. CASE Tick \/ UNCHANGED vars
  BY <1>5 DEF Tick, vars
<1> QED
  BY <1>1, <1>2, <1>3, <1>4, <1>5 DEF Next

(* The last admin is lost only with a list that names one address several  *)
(* times, whatever the lists, thresholds and proposals.                    *)
THEOREM AdminsStay == Spec => AdminsRemain
<1>1. GovernanceInv /\ AdminsTyped /\ [Next]_vars
        => [admins # <<>> /\ admins' = <<>>
            => Len(admins) > 1 /\ \A i, j \in DOMAIN admins : admins[i] = admins[j]]_vars
  BY RemainStep
<1> QED
  BY <1>1, GovernanceInit, GovernanceStep, AdminsInit, AdminsStep, PTL
  DEF Spec, AdminsRemain
==============================================================================
