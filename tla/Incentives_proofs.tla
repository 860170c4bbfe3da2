------------------------- MODULE Incentives_proofs -------------------------
(***************************************************************************)
(* What the contract's budgets say of their spending and what its counters *)
(* say of the tokens earned, for any participants, splits, points, budgets *)
(* and materials.  The inductive invariant for the budgets adds the shape  *)
(* of the materials, from which rewards are computed, and of the budgets;  *)
(* the one for the counters is inductive beside it.  That what is charged  *)
(* is paid rests on the split of a reward: whatever the shares leave of it *)
(* goes to the submitter.                                                  *)
(***************************************************************************)
EXTENDS Incentives, Collections_proofs

-----------------------------------------------------------------------------
(* The materials keep their shape, as in the proofs about CarbonMarket.    *)
LEMMA MaterialIsMaterial ==
  ASSUME MaterialTypeOK, NEW m \in DOMAIN material
  PROVE  material[m] \in Material
BY DEF MaterialTypeOK

LEMMA VerifiedType ==
  ASSUME MaterialTypeOK, NEW S
  PROVE  Verified(S) \in Seq(Material)
<1>1. DOMAIN material = 1 .. Len(material) /\ Len(material) \in Nat
  BY DEF MaterialTypeOK
<1>2. ASSUME NEW m \in 1 .. Len(material)
      PROVE  Verified(S)[m] \in Material
  <2>1. material[m] \in Material /\ m \in DOMAIN material
    BY <1>1, MaterialIsMaterial
  <2>2. [material[m] EXCEPT !.verified = TRUE] \in Material
    BY <2>1 DEF Material
  <2> QED
    BY <2>1, <2>2 DEF Verified
<1> QED
  BY <1>1, <1>2 DEF Verified

LEMMA RecordWith ==
  ASSUME NEW r \in Material, NEW b \in Address, NEW p \in Seq(Address)
  PROVE  [r EXCEPT !.submitter = b, !.passed = p] \in Material
BY DEF Material

LEMMA PassedToType ==
  ASSUME NEW r \in Material, NEW b \in Address
  PROVE  PassedTo(r, b) \in Material
<1>1. Append(r.passed, b) \in Seq(Address)
  BY DEF Material
<1> QED
  BY <1>1, RecordWith DEF PassedTo

LEMMA MaterialsStep ==
  ASSUME MaterialTypeOK, MaterialStep
  PROVE  MaterialTypeOK'
<1> USE DEF MaterialTypeOK
<1>1. CASE SwitchPause
  BY <1>1 DEF SwitchPause
<1>2. ASSUME NEW a \in Address, NEW l \in Lots, SubmitMaterial(a, l)
      PROVE  MaterialTypeOK'
  <2>1. NewMaterial(a, l) \in Material
    BY DEF NewMaterial, Material
  <2> QED
    BY <1>2, <2>1 DEF SubmitMaterial
<1>3. ASSUME NEW a \in Address, NEW l \in Lots, NEW k \in Lots, SubmitBatch(a, l, k)
      PROVE  MaterialTypeOK'
  <2>1. NewMaterial(a, l) \in Material /\ NewMaterial(a, k) \in Material
    BY DEF NewMaterial, Material
  <2>2. <<NewMaterial(a, l), NewMaterial(a, k)>> \in Seq(Material)
    BY <2>1
  <2> QED
    BY <1>3, <2>2 DEF SubmitBatch
<1>4. ASSUME NEW a \in Address, NEW b \in Address, NEW m \in DOMAIN material,
             TransferMaterial(a, m, b)
      PROVE  MaterialTypeOK'
  <2>1. PassedTo(material[m], b) \in Material
    BY MaterialIsMaterial, PassedToType
  <2> QED
    BY <1>4, <2>1 DEF TransferMaterial
<1> QED
  BY <1>1, <1>2, <1>3, <1>4 DEF MaterialStep

-----------------------------------------------------------------------------
BudgetsTypeOK ==
  /\ MaterialTypeOK
  /\ incentive \in Seq(Incentive)
  /\ charged \in Seq(Nat) /\ Len(charged) = Len(incentive)

(* What is known of a budget r of which c was taken, cut or not            *)
Known(r, c, isCut) ==
  /\ r.total - r.remaining \in 0 .. c
  /\ ~isCut => r.total - r.remaining = c

RewardsInv ==
  /\ BudgetsTypeOK
  /\ cut \subseteq DOMAIN incentive
  /\ \A i \in DOMAIN incentive : Known(incentive[i], charged[i], i \in cut)

LEMMA PercentNat ==
  ASSUME NEW x \in Nat, NEW p \in Nat
  PROVE  Percent(x, p) \in Nat
<1>1. x * p \in Nat
  OBVIOUS
<1> QED
  BY <1>1 DEF Percent

LEMMA BudgetIs ==
  ASSUME BudgetsTypeOK, NEW i \in DOMAIN incentive
  PROVE  /\ incentive[i] \in Incentive
         /\ incentive[i].total \in Nat /\ incentive[i].remaining \in Nat
         /\ incentive[i].active \in BOOLEAN /\ charged[i] \in Nat
         /\ i \in DOMAIN charged /\ i \in 1 .. Len(incentive)
<1>1. incentive[i] \in Incentive /\ i \in 1 .. Len(incentive)
  BY DEF BudgetsTypeOK
<1>2. i \in DOMAIN charged /\ charged[i] \in Nat
  BY <1>1 DEF BudgetsTypeOK
<1> QED
  BY <1>1, <1>2 DEF Incentive

LEMMA RewardNat ==
  ASSUME BudgetsTypeOK, NEW i \in DOMAIN incentive, NEW m \in DOMAIN material
  PROVE  Kilograms(m) * incentive[i].points \in Nat
<1>1. material[m].lot.grams \in Nat
  BY MaterialIsMaterial, LotAssumption DEF BudgetsTypeOK, Material, Lot
<1>2. Kilograms(m) \in Nat
  BY <1>1 DEF Kilograms
<1>3. incentive[i].points \in Nat
  BY BudgetIs DEF Incentive
<1> QED
  BY <1>2, <1>3

(* A step that changes the record of i, its charges, or both               *)
LEMMA OneBudget ==
  ASSUME RewardsInv, MaterialTypeOK',
         NEW i \in DOMAIN incentive, NEW r \in Incentive, NEW c \in Nat,
         incentive' = [incentive EXCEPT ![i] = r],
         charged' = [charged EXCEPT ![i] = c],
         cut' \in {cut, cut \cup {i}},
         Known(r, c, i \in cut')
  PROVE  RewardsInv'
<1>1. /\ incentive' \in Seq(Incentive) /\ Len(incentive') = Len(incentive)
      /\ DOMAIN incentive' = DOMAIN incentive
  BY DEF RewardsInv, BudgetsTypeOK
<1>2. i \in DOMAIN charged /\ charged' \in Seq(Nat) /\ Len(charged') = Len(charged)
  BY BudgetIs DEF RewardsInv, BudgetsTypeOK
<1>3. ASSUME NEW j \in DOMAIN incentive'
      PROVE  Known(incentive'[j], charged'[j], j \in cut')
  <2>0. j \in DOMAIN incentive /\ j \in DOMAIN charged
    BY <1>1, BudgetIs DEF RewardsInv
  <2>1. CASE j = i
    BY <2>0, <2>1
  <2>2. CASE j # i
    BY <2>0, <2>2 DEF RewardsInv
  <2> QED
    BY <2>1, <2>2
<1>4. cut' \subseteq DOMAIN incentive'
  BY <1>1 DEF RewardsInv
<1> QED
  BY <1>1, <1>2, <1>3, <1>4 DEF RewardsInv, BudgetsTypeOK

(* Taking x from a budget is recorded as spending of x.                    *)
LEMMA ChargeKnown ==
  ASSUME RewardsInv, MaterialTypeOK', NEW i \in DOMAIN incentive, NEW x \in Nat,
         Charge(i, x), cut' = cut
  PROVE  RewardsInv'
<1> DEFINE r == [incentive[i] EXCEPT !.remaining = @ - x,
                                     !.active = incentive[i].remaining # x]
<1>1. x <= incentive[i].remaining /\ BudgetsTypeOK
  BY DEF Charge, RewardsInv
<1>2. /\ incentive[i] \in Incentive /\ charged[i] \in Nat
      /\ incentive[i].total \in Nat /\ incentive[i].remaining \in Nat
  BY <1>1, BudgetIs
<1>3. incentive[i].remaining - x \in Nat
  BY <1>1, <1>2
<1>4. r \in Incentive /\ r.total = incentive[i].total
      /\ r.remaining = incentive[i].remaining - x
  BY <1>2, <1>3 DEF Incentive
<1>5. Known(incentive[i], charged[i], i \in cut)
  BY DEF RewardsInv
<1>6. Known(r, charged[i] + x, i \in cut')
  BY <1>2, <1>4, <1>5 DEF Known
<1>7. incentive' = [incentive EXCEPT ![i] = r] /\ charged' = [charged EXCEPT ![i] = charged[i] + x]
  BY DEF Charge
<1>8. charged[i] + x \in Nat
  BY <1>2
<1> HIDE DEF r
<1> QED
  BY <1>4, <1>6, <1>7, <1>8, OneBudget

-----------------------------------------------------------------------------
LEMMA RewardsInvInit == RewardsInit => RewardsInv
<1> SUFFICES ASSUME RewardsInit
             PROVE  RewardsInv
  OBVIOUS
<1>1. MaterialTypeOK
  <2>1. paused = FALSE /\ material = <<>>
    BY DEF RewardsInit, InitMaterials
  <2>2. paused \in BOOLEAN
    BY <2>1
  <2>3. material \in Seq(Material)
    BY <2>1
  <2> QED
    BY <2>2, <2>3 DEF MaterialTypeOK
<1>2. incentive = <<>> /\ charged = <<>> /\ cut = {}
  BY DEF RewardsInit
<1>3. /\ incentive \in Seq(Incentive) /\ charged \in Seq(Nat)
      /\ Len(incentive) = 0 /\ Len(charged) = 0 /\ DOMAIN incentive = {}
  BY <1>2
<1> QED
  BY <1>1, <1>2, <1>3 DEF RewardsInv, BudgetsTypeOK

(* What leaves the budgets alone                                           *)
LEMMA BudgetsUntouched ==
  ASSUME RewardsInv, MaterialTypeOK', UNCHANGED <<incentive, charged, cut>>
  PROVE  RewardsInv'
BY DEF RewardsInv, BudgetsTypeOK, Known

LEMMA CreateKeeps ==
  ASSUME RewardsInv, NEW a \in Address, NEW l \in Lots,
         NEW p \in Points, NEW b \in Budgets, CreateIncentive(a, l.type, p, b)
  PROVE  RewardsInv'
<1> DEFINE r == [rewarder |-> a, type |-> l.type, points |-> p, total |-> b,
                 remaining |-> b, active |-> TRUE]
<1>1. p \in Nat /\ b \in Nat
  BY RewardAssumption
<1>2. r \in Incentive
  BY <1>1 DEF Incentive
<1>3. r.total - r.remaining = 0
  BY <1>1
<1>4. /\ incentive' = Append(incentive, r) /\ charged' = Append(charged, 0)
      /\ cut' = cut /\ UNCHANGED materialVars
  BY DEF CreateIncentive
<1> HIDE DEF r
<1>5. MaterialTypeOK'
  BY <1>4 DEF RewardsInv, BudgetsTypeOK, MaterialTypeOK, materialVars
<1>6. /\ incentive' \in Seq(Incentive) /\ charged' \in Seq(Nat)
      /\ Len(charged') = Len(incentive')
      /\ DOMAIN incentive' = DOMAIN incentive \cup {Len(incentive) + 1}
      /\ Len(incentive) + 1 \notin DOMAIN incentive
      /\ incentive'[Len(incentive) + 1] = r /\ charged'[Len(incentive) + 1] = 0
      /\ \A i \in DOMAIN incentive : incentive'[i] = incentive[i] /\ charged'[i] = charged[i]
  BY <1>2, <1>4 DEF RewardsInv, BudgetsTypeOK
<1>7. Known(r, 0, FALSE)
  BY <1>3 DEF Known
<1>8. ASSUME NEW i \in DOMAIN incentive'
      PROVE  Known(incentive'[i], charged'[i], i \in cut')
  <2>1. CASE i \in DOMAIN incentive
    BY <1>4, <1>6, <2>1 DEF RewardsInv
  <2>2. CASE i = Len(incentive) + 1
    <3>1. i \notin cut'
      BY <1>4, <1>6, <2>2 DEF RewardsInv
    <3> QED
      BY <1>6, <1>7, <2>2, <3>1 DEF Known
  <2> QED
    BY <1>6, <2>1, <2>2
<1> QED
  BY <1>4, <1>5, <1>6, <1>8 DEF RewardsInv, BudgetsTypeOK

(* Opening or closing a budget says nothing about its spending.            *)
LEMMA StatusKeeps ==
  ASSUME RewardsInv, NEW i \in DOMAIN incentive, NEW active \in BOOLEAN,
         incentive' = [incentive EXCEPT ![i].active = active],
         UNCHANGED <<materialVars, charged, cut>>
  PROVE  RewardsInv'
<1> DEFINE r == [incentive[i] EXCEPT !.active = active]
<1>1. incentive[i] \in Incentive /\ charged[i] \in Nat /\ i \in DOMAIN charged
  BY BudgetIs DEF RewardsInv
<1>2. /\ r \in Incentive /\ r.total = incentive[i].total
      /\ r.remaining = incentive[i].remaining
  BY <1>1 DEF Incentive
<1>3. Known(incentive[i], charged[i], i \in cut)
  BY DEF RewardsInv
<1>4. Known(r, charged[i], i \in cut')
  BY <1>2, <1>3 DEF Known
<1>5. incentive' = [incentive EXCEPT ![i] = r]
  OBVIOUS
<1>6. charged' = [charged EXCEPT ![i] = charged[i]]
  BY <1>1 DEF RewardsInv, BudgetsTypeOK
<1>7. MaterialTypeOK'
  BY DEF RewardsInv, BudgetsTypeOK, MaterialTypeOK, materialVars
<1> HIDE DEF r
<1> QED
  BY <1>1, <1>2, <1>4, <1>5, <1>6, <1>7, OneBudget

LEMMA UpdateKeeps ==
  ASSUME RewardsInv, NEW i \in DOMAIN incentive,
         NEW p \in Points, NEW b \in Budgets, UpdateIncentive(i, p, b)
  PROVE  RewardsInv'
<1> DEFINE used == incentive[i].total - incentive[i].remaining
           left == IF b > used THEN b - used ELSE 0
           open == b > used
           r == [incentive[i] EXCEPT !.points = p, !.total = b,
                                     !.remaining = left, !.active = open]
<1>1. /\ incentive[i] \in Incentive /\ charged[i] \in Nat /\ i \in DOMAIN charged
      /\ incentive[i].total \in Nat /\ incentive[i].remaining \in Nat
  BY BudgetIs DEF RewardsInv
<1>2. p \in Nat /\ b \in Nat
  BY RewardAssumption
<1>3. used \in 0 .. charged[i] /\ (i \notin cut => used = charged[i])
  BY DEF RewardsInv, Known
<1>4. used \in Nat
  BY <1>1, <1>3
<1>5. left \in Nat /\ open \in BOOLEAN
  BY <1>2, <1>4
<1>6. /\ r \in Incentive /\ r.total = b
      /\ r.remaining = left
  <2>1. r = [incentive[i] EXCEPT !.points = p, !.total = b,
                                 !.remaining = left, !.active = open]
    OBVIOUS
  <2> HIDE DEF left, open, r
  <2>2. /\ incentive[i] \in Incentive /\ p \in Nat /\ b \in Nat /\ left \in Nat
        /\ open \in BOOLEAN
    BY <1>1, <1>2, <1>5
  <2>3. r \in Incentive
    BY <2>1, <2>2 DEF Incentive
  <2>4. r.total = b /\ r.remaining = left
    BY <2>1, <2>2 DEF Incentive
  <2> QED
    BY <2>3, <2>4
<1>7. incentive' = [incentive EXCEPT ![i] = r]
  BY DEF UpdateIncentive
<1>8. /\ cut' = IF b < used THEN cut \cup {i} ELSE cut
      /\ UNCHANGED <<materialVars, charged>>
  BY DEF UpdateIncentive
<1>9. Known(r, charged[i], i \in cut')
  <2>1. CASE b < used
    <3>1. r.total - r.remaining = b /\ i \in cut'
      BY <1>2, <1>4, <1>6, <1>8, <2>1
    <3> QED
      BY <1>1, <1>2, <1>3, <2>1, <3>1 DEF Known
  <2>2. CASE ~(b < used)
    <3>1. r.total - r.remaining = used /\ cut' = cut
      BY <1>2, <1>4, <1>6, <1>8, <2>2
    <3> QED
      BY <1>3, <3>1 DEF Known
  <2> QED
    BY <2>1, <2>2
<1>10. charged' = [charged EXCEPT ![i] = charged[i]]
  <2>1. charged \in Seq(Nat) /\ charged' = charged
    BY <1>8 DEF RewardsInv, BudgetsTypeOK
  <2> QED
    BY <1>1, <2>1
<1>11. MaterialTypeOK'
  BY <1>8 DEF RewardsInv, BudgetsTypeOK, MaterialTypeOK, materialVars
<1>12. cut' \in {cut, cut \cup {i}}
  BY <1>8
<1> HIDE DEF used, r
<1> QED
  BY <1>1, <1>6, <1>7, <1>9, <1>10, <1>11, <1>12, OneBudget

-----------------------------------------------------------------------------
(* A claim or a distribution takes a natural number of tokens.             *)
LEMMA ClaimKeeps ==
  ASSUME RewardsInv, NEW i \in DOMAIN incentive, NEW m \in DOMAIN material,
         NEW a \in Address, ClaimReward(i, m, a)
  PROVE  RewardsInv'
<1> DEFINE x == Kilograms(m) * incentive[i].points
<1>1. x \in Nat
  BY RewardNat DEF RewardsInv
<1>2. Charge(i, x) /\ cut' = cut /\ UNCHANGED materialVars
  BY DEF ClaimReward
<1>3. MaterialTypeOK'
  BY <1>2 DEF RewardsInv, BudgetsTypeOK, MaterialTypeOK, materialVars
<1> HIDE DEF x
<1> QED
  BY <1>1, <1>2, <1>3, ChargeKnown

LEMMA DistributeKeeps ==
  ASSUME RewardsInv, NEW i \in DOMAIN incentive, NEW m \in DOMAIN material,
         NEW s \in Seasons, NEW c \in Contaminations, DistributeRewards(i, m, s, c)
  PROVE  RewardsInv'
<1> DEFINE base == Kilograms(m) * incentive[i].points
           clean == IF c > 50 THEN 0 ELSE 100 - c
           x == Percent(Percent(base, s), clean)
<1>1. s \in Nat /\ clean \in Nat
  BY RewardAssumption
<1>2. base \in Nat
  BY RewardNat DEF RewardsInv
<1>3. Charge(i, x) /\ cut' = cut /\ UNCHANGED materialVars
  BY DEF DistributeRewards
<1> HIDE DEF base, clean
<1>4. x \in Nat
  BY <1>1, <1>2, PercentNat
<1>5. MaterialTypeOK'
  BY <1>3 DEF RewardsInv, BudgetsTypeOK, MaterialTypeOK, materialVars
<1> HIDE DEF x
<1> QED
  BY <1>3, <1>4, <1>5, ChargeKnown

LEMMA VerifyKeeps ==
  ASSUME RewardsInv, NEW v \in Address, NEW m \in DOMAIN material, VerifyMaterial(v, m)
  PROVE  RewardsInv'
<1>1. /\ material' = Verified({m})
      /\ UNCHANGED <<paused, incentive, charged, cut>>
  BY DEF VerifyMaterial
<1>2. MaterialTypeOK'
  BY <1>1, VerifiedType DEF RewardsInv, BudgetsTypeOK, MaterialTypeOK
<1> QED
  BY <1>1, <1>2, BudgetsUntouched

LEMMA RewardsInvNext == RewardsInv /\ [RewardsNext]_rewardVars => RewardsInv'
<1> SUFFICES ASSUME RewardsInv, [RewardsNext]_rewardVars
             PROVE  RewardsInv'
  OBVIOUS
<1> DEFINE Same == UNCHANGED <<materialVars, incentive, charged, cut>>
<1>1. ASSUME Same
      PROVE  RewardsInv'
  <2>1. MaterialTypeOK'
    BY <1>1 DEF RewardsInv, BudgetsTypeOK, MaterialTypeOK, materialVars
  <2> QED
    BY <1>1, <2>1, BudgetsUntouched
<1>2. CASE MaterialRewardStep
  <2>1. MaterialTypeOK'
    BY <1>2, MaterialsStep DEF MaterialRewardStep, RewardsInv, BudgetsTypeOK
  <2> QED
    BY <1>2, <2>1, BudgetsUntouched DEF MaterialRewardStep
<1>3. ASSUME NEW v \in Address, NEW m \in DOMAIN material, VerifyMaterial(v, m)
      PROVE  RewardsInv'
  BY <1>3, VerifyKeeps
<1>4. ASSUME NEW a \in Address, NEW l \in Lots, NEW p \in Points, NEW b \in Budgets,
             CreateIncentive(a, l.type, p, b)
      PROVE  RewardsInv'
  BY <1>4, CreateKeeps
<1>5. ASSUME NEW i \in DOMAIN incentive, DeactivateIncentive(i)
      PROVE  RewardsInv'
  <2>1. /\ incentive' = [incentive EXCEPT ![i].active = FALSE]
        /\ UNCHANGED <<materialVars, charged, cut>>
    BY <1>5 DEF DeactivateIncentive
  <2> QED
    BY <2>1, StatusKeeps
<1>6. ASSUME NEW i \in DOMAIN incentive, NEW active \in BOOLEAN, UpdateStatus(i, active)
      PROVE  RewardsInv'
  <2>1. /\ incentive' = [incentive EXCEPT ![i].active = active]
        /\ UNCHANGED <<materialVars, charged, cut>>
    BY <1>6 DEF UpdateStatus
  <2> QED
    BY <2>1, StatusKeeps
<1>7. ASSUME NEW i \in DOMAIN incentive, NEW p \in Points, NEW b \in Budgets,
             UpdateIncentive(i, p, b)
      PROVE  RewardsInv'
  BY <1>7, UpdateKeeps
<1>8. ASSUME NEW i \in DOMAIN incentive, NEW m \in DOMAIN material,
             NEW a \in Address, ClaimReward(i, m, a)
      PROVE  RewardsInv'
  BY <1>8, ClaimKeeps
<1>9. ASSUME NEW i \in DOMAIN incentive, NEW m \in DOMAIN material,
             NEW s \in Seasons, NEW c \in Contaminations, DistributeRewards(i, m, s, c)
      PROVE  RewardsInv'
  BY <1>9, DistributeKeeps
<1>10. ASSUME NEW s \in Splits, SetPercentages(s)
       PROVE  RewardsInv'
  BY <1>1, <1>10 DEF SetPercentages
<1>11. ASSUME NEW a \in Address, NEW x \in Gifts,
              RewardTokens(a, x) \/ DonateToCharity(a, x) \/ CompleteChallenge(a, x)
       PROVE  RewardsInv'
  BY <1>1, <1>11 DEF RewardTokens, DonateToCharity, CompleteChallenge
<1>12. CASE UNCHANGED rewardVars
  BY <1>1, <1>12 DEF rewardVars
<1> HIDE DEF Same
<1> QED
  BY <1>2, <1>3, <1>4, <1>5, <1>6, <1>7, <1>8, <1>9, <1>10, <1>11, <1>12 DEF RewardsNext

(* What a budget says it has spent is what was taken from it, or less once *)
(* its total was set below that.  The spending is derived, not stored, so  *)
(* every change of the total must leave the difference as it is.           *)
THEOREM SpendingStaysKnown == RewardsSpec => []SpendingKnown
<1>1. RewardsInv => SpendingKnown
  BY DEF RewardsInv, Known, SpendingKnown
<1> QED
  BY <1>1, RewardsInvInit, RewardsInvNext, PTL DEF RewardsSpec

-----------------------------------------------------------------------------
(* The counters, well formed and adding up.                                *)
TokensInv ==
  /\ split \in Splits \cup {DefaultSplit}
  /\ tokensEarned \in [Address -> Nat] /\ totalTokens \in Nat
  /\ donated \in Nat /\ bonuses \in Nat /\ twice \in Nat
  /\ EarningsCounted

LEMMA SumOfNats ==
  ASSUME NEW f \in [Address -> Nat]
  PROVE  Sum(f) \in Nat
<1>1. DOMAIN f = Address /\ \A a \in Address : f[a] \in Nat
  OBVIOUS
<1>2. SumFunctionOnSet(f, Address) \in Nat
  BY <1>1, AddressAssumption, SumNat
<1> QED
  BY <1>1, <1>2 DEF Sum, SumFunction

(* h adds g to f.                                                          *)
LEMMA SumOfBoth ==
  ASSUME NEW f \in [Address -> Nat], NEW g \in [Address -> Nat],
         NEW h, h = [a \in Address |-> f[a] + g[a]]
  PROVE  Sum(h) = Sum(f) + Sum(g)
<1>1. \A a \in Address : f[a] \in Int /\ g[a] \in Int /\ h[a] = f[a] + g[a]
  OBVIOUS
<1>2. SumFunctionOnSet(h, Address) = SumFunctionOnSet(f, Address) + SumFunctionOnSet(g, Address)
  BY <1>1, AddressAssumption, SumPlus
<1>3. DOMAIN f = Address /\ DOMAIN g = Address /\ DOMAIN h = Address
  OBVIOUS
<1> QED
  BY <1>2, <1>3 DEF Sum, SumFunction

LEMMA SumOfOnly ==
  ASSUME NEW a \in Address, NEW x \in Nat
  PROVE  Only(a, x) \in [Address -> Nat] /\ Sum(Only(a, x)) = x
<1>1. PICK f, g : f = [b \in Address |-> 0] /\ g = Only(a, x)
  OBVIOUS
<1>2. \A b \in Address : f[b] = 0
  BY <1>1
<1>3. \A b \in Address : f[b] \in Int /\ g[b] \in Int /\ (b # a => g[b] = f[b])
  BY <1>1 DEF Only
<1>4. SumFunctionOnSet(g, Address) - g[a] = SumFunctionOnSet(f, Address) - f[a]
  BY <1>3, AddressAssumption, SumChange
<1>5. SumFunctionOnSet(f, Address) = 0
  BY <1>2, AddressAssumption, SumZero
<1>6. PICK y \in Int : y = SumFunctionOnSet(g, Address)
  BY <1>3, AddressAssumption, SumInt
<1>7. g \in [Address -> Nat] /\ g[a] = x /\ DOMAIN g = Address
  BY <1>1 DEF Only
<1>8. y - x = 0 - 0
  <2>1. f[a] = 0
    BY <1>2
  <2> QED
    BY <1>4, <1>5, <1>6, <1>7, <2>1, Zenon
<1>9. y = x
  BY <1>6, <1>8
<1> QED
  BY <1>1, <1>6, <1>7, <1>9 DEF Sum, SumFunction

LEMMA EarnSum ==
  ASSUME TokensInv, NEW gains \in [Address -> Nat], Earn(gains)
  PROVE  /\ tokensEarned' \in [Address -> Nat]
         /\ Sum(tokensEarned') = Sum(tokensEarned) + Sum(gains)
         /\ Sum(tokensEarned) \in Nat /\ Sum(gains) \in Nat
<1>1. PICK f, h : f = tokensEarned /\ h = tokensEarned'
  OBVIOUS
<1>2. f \in [Address -> Nat] /\ h = [a \in Address |-> f[a] + gains[a]]
  BY <1>1 DEF TokensInv, Earn
<1>3. h \in [Address -> Nat]
  BY <1>2
<1>4. Sum(h) = Sum(f) + Sum(gains) /\ Sum(f) \in Nat /\ Sum(gains) \in Nat
  BY <1>2, SumOfBoth, SumOfNats
<1> QED
  BY <1>1, <1>3, <1>4

-----------------------------------------------------------------------------
LEMMA PlacesNat ==
  ASSUME MaterialTypeOK, NEW m \in DOMAIN material, NEW a \in Address, NEW Roles
  PROVE  Places(m, a, Roles) \in Nat
<1> DEFINE D == DOMAIN material[m].passed
           P == {k \in D : material[m].passed[k] = a}
<1>1. material[m].passed \in Seq(Address)
  BY MaterialIsMaterial DEF Material
<1>2. D = 1 .. Len(material[m].passed) /\ Len(material[m].passed) \in Nat
  BY <1>1
<1>3. IsFiniteSet(D)
  BY <1>2, FS_Interval
<1>4. Cardinality(P) \in Nat
  <2>1. P \subseteq D
    OBVIOUS
  <2> HIDE DEF P, D
  <2> QED
    BY <1>3, <2>1, FS_Subset, FS_CardinalityType
<1> QED
  BY <1>4 DEF Places

(* What the holders in the history of m gain.                              *)
Shares(m, x, Roles, boost) ==
  [a \in Address |-> Places(m, a, Roles) * ((Percent(x, split.collector) * boost[a]) \div 10000)]

(* What the submitter gains, before the boost.                             *)
Left(m, x, Roles, boost) ==
  LET owner == Percent(x, split.owner)
      rest == x - Sum(Shares(m, x, Roles, boost)) - owner
  IN IF rest > 0 THEN owner + rest ELSE owner

LEMMA GainsAre ==
  ASSUME NEW m, NEW x, NEW Roles, NEW boost
  PROVE  Gains(m, x, Roles, boost)
           = [a \in Address |->
                Shares(m, x, Roles, boost)[a]
                + IF a = material[m].submitter
                  THEN (Left(m, x, Roles, boost) * boost[a]) \div 10000 ELSE 0]
BY DEF Gains, Shares, Left

LEMMA SplitNat ==
  ASSUME TokensInv
  PROVE  split.collector \in Nat /\ split.owner \in Nat
BY RewardAssumption DEF TokensInv, DefaultSplit

LEMMA SharesNat ==
  ASSUME MaterialTypeOK, TokensInv, NEW m \in DOMAIN material, NEW x \in Nat,
         NEW Roles, NEW boost \in [Address -> Nat]
  PROVE  /\ Shares(m, x, Roles, boost) \in [Address -> Nat]
         /\ Left(m, x, Roles, boost) \in Nat
         /\ Sum(Shares(m, x, Roles, boost)) + Left(m, x, Roles, boost) >= x
<1> DEFINE share == Percent(x, split.collector)
           owner == Percent(x, split.owner)
<1>1. share \in Nat /\ owner \in Nat
  BY SplitNat, PercentNat
<1>2. ASSUME NEW a \in Address
      PROVE  Places(m, a, Roles) * ((share * boost[a]) \div 10000) \in Nat
  <2> HIDE DEF share
  <2>1. boost[a] \in Nat
    OBVIOUS
  <2>2. share * boost[a] \in Nat
    BY <1>1, <2>1
  <2>3. (share * boost[a]) \div 10000 \in Nat
    BY <2>2
  <2> HIDE DEF Places
  <2>4. Places(m, a, Roles) \in Nat
    BY PlacesNat
  <2> QED
    BY <2>3, <2>4
<1>3. Shares(m, x, Roles, boost) \in [Address -> Nat]
  BY <1>2 DEF Shares
<1>4. PICK s \in Nat : s = Sum(Shares(m, x, Roles, boost))
  BY <1>3, SumOfNats
<1>5. Left(m, x, Roles, boost) = IF x - s - owner > 0 THEN owner + (x - s - owner) ELSE owner
  BY <1>4 DEF Left
<1> HIDE DEF owner, share
<1>6. Left(m, x, Roles, boost) \in Nat
  BY <1>1, <1>4, <1>5
<1>7. s + Left(m, x, Roles, boost) >= x
  BY <1>1, <1>4, <1>5
<1> QED
  BY <1>3, <1>4, <1>6, <1>7

LEMMA GainsNat ==
  ASSUME MaterialTypeOK, TokensInv, NEW m \in DOMAIN material, NEW x \in Nat,
         NEW Roles, NEW boost \in [Address -> Nat]
  PROVE  Gains(m, x, Roles, boost) \in [Address -> Nat]
<1>1. PICK s \in [Address -> Nat], l \in Nat :
        s = Shares(m, x, Roles, boost) /\ l = Left(m, x, Roles, boost)
  BY SharesNat
<1>2. Gains(m, x, Roles, boost)
        = [a \in Address |-> s[a] + IF a = material[m].submitter
                                    THEN (l * boost[a]) \div 10000 ELSE 0]
  BY <1>1, GainsAre
<1>3. ASSUME NEW a \in Address PROVE (l * boost[a]) \div 10000 \in Nat
  <2>1. boost[a] \in Nat
    OBVIOUS
  <2>2. l * boost[a] \in Nat
    BY <2>1
  <2> QED
    BY <2>2
<1>4. ASSUME NEW a \in Address
      PROVE  s[a] + (IF a = material[m].submitter THEN (l * boost[a]) \div 10000 ELSE 0) \in Nat
  <2>1. PICK b \in Nat : b = (l * boost[a]) \div 10000
    BY <1>3
  <2>2. s[a] \in Nat
    OBVIOUS
  <2> QED
    BY <2>1, <2>2
<1> QED
  BY <1>2, <1>4

(* Without multipliers the rounding is to nobody's loss: what the shares   *)
(* leave goes to the submitter.                                            *)
LEMMA GainsCover ==
  ASSUME MaterialTypeOK, TokensInv, NEW m \in DOMAIN material, NEW x \in Nat, NEW Roles
  PROVE  Sum(Gains(m, x, Roles, Unboosted)) >= x
<1>0. Unboosted \in [Address -> Nat]
  BY DEF Unboosted
<1>1. PICK s \in [Address -> Nat], l \in Nat :
        /\ s = Shares(m, x, Roles, Unboosted) /\ l = Left(m, x, Roles, Unboosted)
        /\ Sum(s) + l >= x
  BY <1>0, SharesNat
<1>2. PICK o : o = Only(material[m].submitter, l)
  OBVIOUS
<1>3. material[m].submitter \in Address
  BY MaterialIsMaterial DEF Material
<1>4. o \in [Address -> Nat] /\ Sum(o) = l
  BY <1>2, <1>3, SumOfOnly
<1>5. PICK g : g = Gains(m, x, Roles, Unboosted)
  OBVIOUS
<1>6. g = [a \in Address |-> s[a] + o[a]]
  <2>1. g = [a \in Address |-> s[a] + IF a = material[m].submitter
                                      THEN (l * Unboosted[a]) \div 10000 ELSE 0]
    BY <1>1, <1>5, GainsAre
  <2>2. ASSUME NEW a \in Address
        PROVE  o[a] = IF a = material[m].submitter
                      THEN (l * Unboosted[a]) \div 10000 ELSE 0
    <3>1. (l * 10000) \div 10000 = l
      OBVIOUS
    <3> QED
      BY <1>2, <3>1 DEF Only, Unboosted
  <2> QED
    BY <2>1, <2>2
<1>7. Sum(g) = Sum(s) + Sum(o)
  BY <1>4, <1>6, SumOfBoth
<1> QED
  BY <1>1, <1>4, <1>5, <1>7

-----------------------------------------------------------------------------
LEMMA TokensInit == RewardsInit => TokensInv
<1> SUFFICES ASSUME RewardsInit PROVE TokensInv
  OBVIOUS
<1>1. PICK f : f = tokensEarned
  OBVIOUS
<1>2. f = [a \in Address |-> 0]
  BY <1>1 DEF RewardsInit
<1>3. f \in [Address -> Nat] /\ DOMAIN f = Address /\ \A a \in Address : f[a] = 0
  BY <1>2
<1>4. SumFunctionOnSet(f, Address) = 0
  BY <1>3, AddressAssumption, SumZero
<1>5. Sum(f) = 0
  BY <1>3, <1>4 DEF Sum, SumFunction
<1> QED
  BY <1>1, <1>3, <1>5 DEF RewardsInit, TokensInv, EarningsCounted

(* Earnings that are counted, with a surplus that is remembered.           *)
LEMMA CountedKeeps ==
  ASSUME TokensInv, NEW gains \in [Address -> Nat], Earn(gains),
         NEW x \in Nat, Counted(Sum(gains) + x), twice' = twice + x,
         split' = split, donated' = donated, bonuses' = bonuses
  PROVE  TokensInv'
<1>1. PICK g, t, u : /\ g \in Nat /\ t \in Nat
                     /\ g = Sum(gains) /\ t = Sum(tokensEarned) /\ u = Sum(tokensEarned')
  BY EarnSum
<1>2. u = t + g /\ tokensEarned' \in [Address -> Nat]
  BY <1>1, EarnSum
<1>3. totalTokens + bonuses = t + donated + twice
  BY <1>1 DEF TokensInv, EarningsCounted
<1>4. totalTokens' = totalTokens + (g + x)
  BY <1>1 DEF Counted
<1>5. /\ totalTokens \in Nat /\ donated \in Nat /\ bonuses \in Nat /\ twice \in Nat
      /\ split \in Splits \cup {DefaultSplit}
  BY DEF TokensInv
<1>6. totalTokens' + bonuses' = u + donated' + twice'
  BY <1>1, <1>2, <1>3, <1>4, <1>5
<1>7. totalTokens' \in Nat /\ twice' \in Nat
  BY <1>1, <1>4, <1>5
<1>8. EarningsCounted'
  BY <1>1, <1>6 DEF EarningsCounted
<1> QED
  BY <1>2, <1>5, <1>7, <1>8 DEF TokensInv

(* The same without a surplus.                                             *)
LEMMA CountedOnce ==
  ASSUME TokensInv, NEW gains \in [Address -> Nat], Earn(gains),
         Counted(Sum(gains)), UNCHANGED <<split, donated, bonuses, twice>>
  PROVE  TokensInv'
<1>1. Sum(gains) \in Nat /\ twice \in Nat
  BY SumOfNats DEF TokensInv
<1>2. Sum(gains) + 0 = Sum(gains) /\ twice + 0 = twice
  BY <1>1
<1> QED
  BY <1>2, CountedKeeps

LEMMA VerifyCounted ==
  ASSUME MaterialTypeOK, TokensInv, NEW v \in Address, NEW m \in DOMAIN material,
         VerifyMaterial(v, m)
  PROVE  TokensInv'
<1> DEFINE reward(level) ==
             Percent(Kilograms(m) * TokensPerKg[material[m].lot.type],
                     IF level > 50 THEN 0 ELSE 100 - level)
<1>1. PICK level \in Contaminations :
        LET gains == Gains(m, reward(level), {"Collector"}, Boost)
        IN Earn(gains) /\ Counted(Sum(gains))
  BY DEF VerifyMaterial
<1>2. material[m].lot \in Lots /\ material[m].lot.grams \in Nat
  BY MaterialIsMaterial, LotAssumption DEF Material, Lot
<1>3. Kilograms(m) \in Nat /\ TokensPerKg[material[m].lot.type] \in Nat
  BY <1>2, RewardAssumption DEF Kilograms
<1>4. Kilograms(m) * TokensPerKg[material[m].lot.type] \in Nat
  BY <1>3
<1>5. (IF level > 50 THEN 0 ELSE 100 - level) \in Nat
  BY RewardAssumption
<1>6. reward(level) \in Nat
  BY <1>4, <1>5, PercentNat
<1>7. PICK gains : gains = Gains(m, reward(level), {"Collector"}, Boost)
  OBVIOUS
<1>8. gains \in [Address -> Nat]
  BY <1>6, <1>7, RewardAssumption, GainsNat
<1>9. Earn(gains) /\ Counted(Sum(gains)) /\ UNCHANGED <<split, donated, bonuses, twice>>
  BY <1>1, <1>7 DEF VerifyMaterial
<1> QED
  BY <1>8, <1>9, CountedOnce

LEMMA DistributeCounted ==
  ASSUME BudgetsTypeOK, TokensInv, NEW i \in DOMAIN incentive, NEW m \in DOMAIN material,
         NEW s \in Seasons, NEW c \in Contaminations, DistributeRewards(i, m, s, c)
  PROVE  /\ TokensInv'
         /\ \E x \in Nat : Charge(i, x) /\ Sum(tokensEarned') - Sum(tokensEarned) >= x
<1> DEFINE base == Kilograms(m) * incentive[i].points
           clean == IF c > 50 THEN 0 ELSE 100 - c
           x == Percent(Percent(base, s), clean)
           paid == Gains(m, x, {"Recycler", "Collector"}, Unboosted)
<1>1. s \in Nat /\ clean \in Nat
  BY RewardAssumption
<1>2. base \in Nat
  BY RewardNat
<1>3. /\ Charge(i, x) /\ Earn(paid) /\ Counted(Sum(paid) + x) /\ twice' = twice + x
      /\ UNCHANGED <<split, donated, bonuses>>
  BY DEF DistributeRewards
<1> HIDE DEF base, clean
<1>4. x \in Nat
  BY <1>1, <1>2, PercentNat
<1> HIDE DEF x
<1>5. PICK gains : gains = paid
  OBVIOUS
<1>6. MaterialTypeOK /\ Unboosted \in [Address -> Nat]
  BY DEF BudgetsTypeOK, Unboosted
<1>7. gains \in [Address -> Nat] /\ Sum(gains) >= x
  BY <1>4, <1>5, <1>6, GainsNat, GainsCover
<1> HIDE DEF paid
<1>8. TokensInv'
  BY <1>3, <1>4, <1>5, <1>7, CountedKeeps
<1>9. PICK g, t, u : /\ g \in Nat /\ t \in Nat
                     /\ g = Sum(gains) /\ t = Sum(tokensEarned)
                     /\ u = Sum(tokensEarned') /\ u = t + g
  BY <1>3, <1>5, <1>7, EarnSum
<1>10. u - t >= x
  BY <1>4, <1>7, <1>9
<1> QED
  BY <1>3, <1>4, <1>8, <1>9, <1>10

LEMMA ClaimCounted ==
  ASSUME BudgetsTypeOK, TokensInv, NEW i \in DOMAIN incentive, NEW m \in DOMAIN material,
         NEW a \in Address, ClaimReward(i, m, a)
  PROVE  /\ TokensInv'
         /\ \E x \in Nat : Charge(i, x) /\ Sum(tokensEarned') - Sum(tokensEarned) >= x
<1> DEFINE x == Kilograms(m) * incentive[i].points
<1>1. x \in Nat
  BY RewardNat
<1>2. /\ Charge(i, x) /\ Earn(Only(a, x)) /\ Counted(x)
      /\ UNCHANGED <<split, donated, bonuses, twice>>
  BY DEF ClaimReward
<1> HIDE DEF x
<1>3. PICK gains \in [Address -> Nat] : gains = Only(a, x) /\ Sum(gains) = x
  BY <1>1, SumOfOnly
<1>4. TokensInv'
  BY <1>2, <1>3, CountedOnce
<1>5. PICK t, u : /\ t \in Nat /\ t = Sum(tokensEarned)
                  /\ u = Sum(tokensEarned') /\ u = t + x
  BY <1>2, <1>3, EarnSum
<1>6. u - t >= x
  BY <1>1, <1>5
<1> QED
  BY <1>1, <1>2, <1>4, <1>5, <1>6

LEMMA RewardTokensCounted ==
  ASSUME TokensInv, NEW a \in Address, NEW x \in Gifts, RewardTokens(a, x)
  PROVE  TokensInv'
<1>1. x \in Nat
  BY RewardAssumption
<1>2. PICK gains \in [Address -> Nat] : gains = Only(a, x) /\ Sum(gains) = x
  BY <1>1, SumOfOnly
<1> QED
  BY <1>2, CountedOnce DEF RewardTokens

LEMMA ChallengeCounted ==
  ASSUME TokensInv, NEW a \in Address, NEW x \in Gifts, CompleteChallenge(a, x)
  PROVE  TokensInv'
<1>1. x \in Nat
  BY RewardAssumption
<1>2. PICK gains \in [Address -> Nat] : gains = Only(a, x) /\ Sum(gains) = x
  BY <1>1, SumOfOnly
<1>3. /\ Earn(gains) /\ bonuses' = bonuses + x
      /\ UNCHANGED <<split, totalTokens, donated, twice>>
  BY <1>2 DEF CompleteChallenge
<1>4. PICK t, u : /\ t \in Nat /\ t = Sum(tokensEarned)
                  /\ u = Sum(tokensEarned') /\ u = t + x
  BY <1>2, <1>3, EarnSum
<1>5. tokensEarned' \in [Address -> Nat]
  BY <1>2, <1>3, EarnSum
<1>6. totalTokens' + bonuses' = u + donated' + twice'
  BY <1>1, <1>3, <1>4 DEF TokensInv, EarningsCounted
<1>7. EarningsCounted'
  BY <1>4, <1>6 DEF EarningsCounted
<1> QED
  BY <1>1, <1>3, <1>5, <1>7 DEF TokensInv

LEMMA DonationCounted ==
  ASSUME TokensInv, NEW a \in Address, NEW x \in Gifts, DonateToCharity(a, x)
  PROVE  TokensInv'
<1>1. x \in Nat
  BY RewardAssumption
<1>2. PICK f \in [Address -> Nat] : f = tokensEarned
  BY DEF TokensInv
<1>3. PICK h : h = tokensEarned'
  OBVIOUS
<1>4. /\ x <= f[a] /\ h = [f EXCEPT ![a] = f[a] - x] /\ donated' = donated + x
      /\ UNCHANGED <<split, totalTokens, bonuses, twice>>
  BY <1>2, <1>3 DEF DonateToCharity
<1>5. h \in [Address -> Nat] /\ h[a] = f[a] - x
  BY <1>1, <1>2, <1>4
<1>6. PICK o \in [Address -> Nat] : o = Only(a, x) /\ Sum(o) = x
  BY <1>1, SumOfOnly
<1>7. f = [b \in Address |-> h[b] + o[b]]
  <2>1. \A b \in Address : f[b] = h[b] + o[b]
    BY <1>1, <1>4, <1>5, <1>6 DEF Only
  <2> QED
    BY <2>1
<1>8. Sum(f) = Sum(h) + Sum(o)
  BY <1>5, <1>6, <1>7, SumOfBoth
<1>9. PICK u \in Nat : u = Sum(h)
  BY <1>5, SumOfNats
<1>10. totalTokens' + bonuses' = u + donated' + twice'
  BY <1>1, <1>2, <1>4, <1>6, <1>8, <1>9 DEF TokensInv, EarningsCounted
<1>11. EarningsCounted'
  BY <1>2, <1>3, <1>9, <1>10 DEF EarningsCounted
<1> QED
  BY <1>1, <1>2, <1>3, <1>4, <1>5, <1>11 DEF TokensInv

LEMMA TokensUntouched ==
  ASSUME TokensInv, UNCHANGED tokenVars
  PROVE  TokensInv'
BY DEF TokensInv, EarningsCounted, tokenVars

LEMMA TokensNext == RewardsInv /\ TokensInv /\ [RewardsNext]_rewardVars => TokensInv'
<1> SUFFICES ASSUME RewardsInv, TokensInv, [RewardsNext]_rewardVars
             PROVE  TokensInv'
  OBVIOUS
<1>0. BudgetsTypeOK /\ MaterialTypeOK
  BY DEF RewardsInv, BudgetsTypeOK
<1>1. CASE UNCHANGED tokenVars
  BY <1>1, TokensUntouched
<1>2. ASSUME NEW v \in Address, NEW m \in DOMAIN material, VerifyMaterial(v, m)
      PROVE  TokensInv'
  BY <1>0, <1>2, VerifyCounted
<1>3. ASSUME NEW i \in DOMAIN incentive, NEW m \in DOMAIN material,
             NEW a \in Address, ClaimReward(i, m, a)
      PROVE  TokensInv'
  BY <1>0, <1>3, ClaimCounted
<1>4. ASSUME NEW i \in DOMAIN incentive, NEW m \in DOMAIN material,
             NEW s \in Seasons, NEW c \in Contaminations, DistributeRewards(i, m, s, c)
      PROVE  TokensInv'
  BY <1>0, <1>4, DistributeCounted
<1>5. ASSUME NEW s \in Splits, SetPercentages(s)
      PROVE  TokensInv'
  BY <1>5 DEF SetPercentages, TokensInv, EarningsCounted
<1>6. ASSUME NEW a \in Address, NEW x \in Gifts,
             RewardTokens(a, x) \/ DonateToCharity(a, x) \/ CompleteChallenge(a, x)
      PROVE  TokensInv'
  BY <1>6, RewardTokensCounted, DonationCounted, ChallengeCounted
<1>7. CASE RewardsNext
  <2>1. \/ UNCHANGED tokenVars
        \/ \E v \in Address, m \in DOMAIN material : VerifyMaterial(v, m)
        \/ \E i \in DOMAIN incentive, m \in DOMAIN material :
             \/ \E a \in Address : ClaimReward(i, m, a)
             \/ \E s \in Seasons, c \in Contaminations : DistributeRewards(i, m, s, c)
        \/ \E s \in Splits : SetPercentages(s)
        \/ \E a \in Address, x \in Gifts :
             RewardTokens(a, x) \/ DonateToCharity(a, x) \/ CompleteChallenge(a, x)
    <3>1. CASE MaterialRewardStep
      BY <3>1 DEF MaterialRewardStep, tokenVars
    <3>2. ASSUME NEW a \in Address, NEW l \in Lots, NEW p \in Points, NEW b \in Budgets,
                 CreateIncentive(a, l.type, p, b)
          PROVE  UNCHANGED tokenVars
      BY <3>2 DEF CreateIncentive
    <3>3. ASSUME NEW i, DeactivateIncentive(i) \/ \E active \in BOOLEAN : UpdateStatus(i, active)
          PROVE  UNCHANGED tokenVars
      BY <3>3 DEF DeactivateIncentive, UpdateStatus
    <3>4. ASSUME NEW i, NEW p \in Points, NEW b \in Budgets, UpdateIncentive(i, p, b)
          PROVE  UNCHANGED tokenVars
      BY <3>4 DEF UpdateIncentive
    <3> QED
      BY <1>7, <3>1, <3>2, <3>3, <3>4 DEF RewardsNext
  <2> QED
    BY <1>1, <1>2, <1>3, <1>4, <1>5, <1>6, <2>1
<1> QED
  BY <1>1, <1>7 DEF rewardVars, tokenVars

(* The records of materials, budgets, shares and counters are well formed; *)
(* no participant's earnings are ever below zero, donations included.      *)
THEOREM RewardsTypeCorrect == RewardsSpec => []RewardsTypeOK
<1>1. RewardsInv /\ TokensInv => RewardsTypeOK
  BY DEF RewardsInv, BudgetsTypeOK, TokensInv, RewardsTypeOK
<1> QED
  BY <1>1, RewardsInvInit, RewardsInvNext, TokensInit, TokensNext, PTL DEF RewardsSpec

(* The contract's counter and the participants' differ by the donations,   *)
(* the distributions and the challenges, after any sequence of calls.      *)
THEOREM EarningsStayCounted == RewardsSpec => []EarningsCounted
<1>1. TokensInv => EarningsCounted
  BY DEF TokensInv
<1> QED
  BY <1>1, RewardsInvInit, RewardsInvNext, TokensInit, TokensNext, PTL DEF RewardsSpec

(* A step that charges a budget is a claim or a distribution.              *)
LEMMA ChargesCovered ==
  ASSUME RewardsInv, TokensInv, [RewardsNext]_rewardVars, NEW i \in DOMAIN charged
  PROVE  \/ Sum(tokensEarned') - Sum(tokensEarned) >= charged'[i] - charged[i]
         \/ charged'[i] = charged[i]
<1>0. BudgetsTypeOK /\ charged \in Seq(Nat) /\ charged[i] \in Nat
  BY DEF RewardsInv, BudgetsTypeOK
<1>1. ASSUME NEW j \in DOMAIN incentive, NEW x \in Nat, Charge(j, x),
             Sum(tokensEarned') - Sum(tokensEarned) >= x
      PROVE  \/ Sum(tokensEarned') - Sum(tokensEarned) >= charged'[i] - charged[i]
             \/ charged'[i] = charged[i]
  <2>1. charged' = [charged EXCEPT ![j] = charged[j] + x]
    BY <1>1 DEF Charge
  <2>2. CASE i = j
    <3>1. charged'[i] - charged[i] = x
      BY <1>0, <2>1, <2>2
    <3> QED
      BY <1>1, <3>1
  <2>3. CASE i # j
    BY <2>1, <2>3
  <2> QED
    BY <2>2, <2>3
<1>2. ASSUME NEW a \in Address, NEW l \in Lots, NEW p \in Points, NEW b \in Budgets,
             CreateIncentive(a, l.type, p, b)
      PROVE  charged'[i] = charged[i]
  BY <1>0, <1>2 DEF CreateIncentive
<1>3. CASE RewardsNext
  <2>1. \/ charged' = charged
        \/ \E a \in Address, l \in Lots, p \in Points, b \in Budgets :
             CreateIncentive(a, l.type, p, b)
        \/ \E j \in DOMAIN incentive, m \in DOMAIN material :
             \/ \E a \in Address : ClaimReward(j, m, a)
             \/ \E s \in Seasons, c \in Contaminations : DistributeRewards(j, m, s, c)
    BY <1>3 DEF RewardsNext, MaterialRewardStep, VerifyMaterial, DeactivateIncentive,
                UpdateStatus, UpdateIncentive, SetPercentages, RewardTokens,
                DonateToCharity, CompleteChallenge
  <2> QED
    BY <1>0, <1>1, <1>2, <2>1, ClaimCounted, DistributeCounted
<1>4. CASE UNCHANGED rewardVars
  BY <1>4 DEF rewardVars
<1> QED
  BY <1>3, <1>4

(* Whatever the shares, multipliers and rounding, the participants gain at *)
(* least what a claim or a distribution takes from a budget.               *)
THEOREM ChargesStayPaid == RewardsSpec => ChargesArePaid
<1>1. RewardsInv /\ TokensInv /\ [RewardsNext]_rewardVars
        => [\A i \in DOMAIN charged :
              Sum(tokensEarned') - Sum(tokensEarned) >= charged'[i] - charged[i]
              \/ charged'[i] = charged[i]]_rewardVars
  BY ChargesCovered
<1> QED
  BY <1>1, RewardsInvInit, RewardsInvNext, TokensInit, TokensNext, PTL
  DEF RewardsSpec, ChargesArePaid
=============================================================================
