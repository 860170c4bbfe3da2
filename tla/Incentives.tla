----------------------------- MODULE Incentives -----------------------------
(***************************************************************************)
(* Rewards of the contract: manufacturers set budgets aside for a type of  *)
(* waste, verified materials are paid from them, and the tokens everybody  *)
(* has earned are counted per participant and for the whole contract.      *)
(* The token contract is configured and every account can pay.             *)
(***************************************************************************)
EXTENDS Materials, Functions

CONSTANTS
  TokensPerKg,    \* calculate_reward_points of a kilogram, by type
  Boost,          \* certification times tier multiplier, in 1/10000
  Splits,         \* the shares set_percentages is given
  Seasons,        \* the multipliers of distribute_rewards, in percent
  Contaminations, \* levels of the v2 item with the material's id
  Points, Budgets, \* what incentives are given
  Gifts,          \* amounts of manual rewards, donations, challenges
  MaxIncentives, MaxTokens, MaxAside   \* bounds of the instance

ASSUME RewardAssumption ==
  /\ TokensPerKg \in [{l.type : l \in Lots} -> Nat]
  /\ Boost \in [Address -> Nat]
  /\ Splits \subseteq [collector : Nat, owner : Nat]
  /\ \A s \in Splits : s.collector + s.owner <= 100
  /\ Seasons \subseteq Nat /\ Contaminations \subseteq 0 .. 100
  /\ Points \subseteq Nat /\ Budgets \subseteq Nat /\ Gifts \subseteq Nat \ {0}
  /\ {MaxIncentives, MaxTokens, MaxAside} \subseteq Nat

VARIABLES
  incentive,    \* ("incentive", id)
  split,        \* REWARD_CFG
  tokensEarned, \* total_tokens_earned of each participant
  totalTokens,  \* TOTAL_TOKENS
  charged,      \* all that was ever taken from each budget
  cut,          \* the incentives whose total was set below what they had spent
  donated,      \* the sum of the donations
  bonuses,      \* the sum of the challenge rewards
  twice         \* the sum of the distributions

rewardVars ==
  <<materialVars, incentive, split, tokensEarned, totalTokens, charged, cut,
    donated, bonuses, twice>>
tokenVars == <<split, tokensEarned, totalTokens, donated, bonuses, twice>>

Incentive ==
  [rewarder : Address, type : {l.type : l \in Lots}, points : Nat, total : Nat,
   remaining : Nat, active : BOOLEAN]

DefaultSplit == [collector |-> 5, owner |-> 50]

RewardsInit ==
  /\ InitMaterials
  /\ incentive = <<>> /\ charged = <<>> /\ cut = {}
  /\ split = DefaultSplit
  /\ tokensEarned = [a \in Address |-> 0] /\ totalTokens = 0
  /\ donated = 0 /\ bonuses = 0 /\ twice = 0

-----------------------------------------------------------------------------
Sum(f) == SumFunction(f)

Percent(x, p) == (x * p) \div 100

Kilograms(m) == material[m].lot.grams \div 1000

(* How often a holds a place in the history of m that earns a share        *)
Places(m, a, Roles) ==
  IF RoleOf[a] \in Roles
  THEN Cardinality({k \in DOMAIN material[m].passed : material[m].passed[k] = a})
  ELSE 0

(* Mutant of Gains: what the shares leave goes to nobody.                  *)
GainsWithoutRest(m, x, Roles, boost) ==
  LET share == Percent(x, split.collector)
      theirs == [a \in Address |->
                   Places(m, a, Roles) * ((share * boost[a]) \div 10000)]
      owner == Percent(x, split.owner)
  IN [a \in Address |->
        theirs[a] + IF a = material[m].submitter
                    THEN (owner * boost[a]) \div 10000 ELSE 0]

(* What everybody gains of a reward x for m: a share for every place in    *)
(* the history, and what is left, at least the owner's share, for the      *)
(* submitter.                                                              *)
Gains(m, x, Roles, boost) ==
  LET share == Percent(x, split.collector)
      theirs == [a \in Address |->
                   Places(m, a, Roles) * ((share * boost[a]) \div 10000)]
      owner == Percent(x, split.owner)
      rest == x - Sum(theirs) - owner
  IN [a \in Address |->
        theirs[a] + IF a = material[m].submitter
                    THEN ((IF rest > 0 THEN owner + rest ELSE owner) * boost[a])
                           \div 10000
                    ELSE 0]

Unboosted == [a \in Address |-> 10000]

Earn(gains) == tokensEarned' = [a \in Address |-> tokensEarned[a] + gains[a]]

Only(a, x) == [b \in Address |-> IF b = a THEN x ELSE 0]

(* Takes x from the budget of i, which is closed once nothing remains.     *)
Charge(i, x) ==
  /\ incentive[i].active /\ x <= incentive[i].remaining
  /\ incentive' = [incentive EXCEPT ![i].remaining = @ - x,
                                    ![i].active = incentive[i].remaining # x]
  /\ charged' = [charged EXCEPT ![i] = @ + x]

Counted(x) == totalTokens' = totalTokens + x /\ totalTokens' <= MaxTokens

-----------------------------------------------------------------------------
(* Mutant of VerifyMaterial: the counter grows by the reward before the    *)
(* multipliers.                                                            *)
VerifyCountsBase(v, m) ==
  /\ ~paused /\ MayVerify(v) /\ m \in DOMAIN material
  /\ material' = Verified({m})
  /\ \E level \in Contaminations :
       LET x == Percent(Kilograms(m) * TokensPerKg[material[m].lot.type],
                        IF level > 50 THEN 0 ELSE 100 - level)
       IN Earn(Gains(m, x, {"Collector"}, Boost)) /\ Counted(x)
  /\ UNCHANGED <<paused, incentive, split, charged, cut, donated, bonuses, twice>>

(* verify_material and its _reward_tokens, as often as it is called        *)
VerifyMaterial(v, m) ==
  /\ ~paused /\ MayVerify(v) /\ m \in DOMAIN material
  /\ material' = Verified({m})
  /\ \E level \in Contaminations :
       LET gains == Gains(m, Percent(Kilograms(m) * TokensPerKg[material[m].lot.type],
                                     IF level > 50 THEN 0 ELSE 100 - level),
                          {"Collector"}, Boost)
       IN Earn(gains) /\ Counted(Sum(gains))
  /\ UNCHANGED <<paused, incentive, split, charged, cut, donated, bonuses, twice>>

(* create_incentive: neither points nor budget are looked at.              *)
CreateIncentive(a, t, p, b) ==
  /\ ~paused /\ RoleOf[a] = "Manufacturer" /\ Len(incentive) < MaxIncentives
  /\ incentive' = Append(incentive,
       [rewarder |-> a, type |-> t, points |-> p, total |-> b,
        remaining |-> b, active |-> TRUE])
  /\ charged' = Append(charged, 0)
  /\ UNCHANGED <<materialVars, tokenVars, cut>>

(* update_incentive_status: also with an empty budget                      *)
UpdateStatus(i, active) ==
  /\ ~paused
  /\ incentive' = [incentive EXCEPT ![i].active = active]
  /\ UNCHANGED <<materialVars, tokenVars, charged, cut>>

DeactivateIncentive(i) ==
  /\ ~paused
  /\ incentive' = [incentive EXCEPT ![i].active = FALSE]
  /\ UNCHANGED <<materialVars, tokenVars, charged, cut>>

(* Mutant of UpdateIncentive: the budget starts anew.                      *)
UpdateAnew(i, p, b) ==
  /\ ~paused /\ incentive[i].active /\ p > 0 /\ b > 0
  /\ incentive' = [incentive EXCEPT ![i].points = p, ![i].total = b,
                                    ![i].remaining = b]
  /\ UNCHANGED <<materialVars, tokenVars, charged, cut>>

UpdateIncentive(i, p, b) ==
  LET used == incentive[i].total - incentive[i].remaining
  IN /\ ~paused /\ incentive[i].active /\ p > 0 /\ b > 0
     /\ incentive' = [incentive EXCEPT ![i].points = p, ![i].total = b,
                        ![i].remaining = IF b > used THEN b - used ELSE 0,
                        ![i].active = b > used]
     /\ cut' = IF b < used THEN cut \cup {i} ELSE cut
     /\ UNCHANGED <<materialVars, tokenVars, charged>>

(* claim_incentive_reward: by anybody, for a material claimed before, and  *)
(* outside of the incentive's schedule as well                             *)
ClaimReward(i, m, a) ==
  LET x == Kilograms(m) * incentive[i].points
  IN /\ ~paused /\ material[m].verified /\ material[m].lot.type = incentive[i].type
     /\ x # 0
     /\ Charge(i, x)
     /\ Earn(Only(a, x)) /\ Counted(x)
     /\ UNCHANGED <<materialVars, split, cut, donated, bonuses, twice>>

(* distribute_rewards: every payment is counted as it is recorded, and the *)
(* whole reward once more at the end.                                      *)
DistributeRewards(i, m, season, level) ==
  LET x == Percent(Percent(Kilograms(m) * incentive[i].points, season),
                   IF level > 50 THEN 0 ELSE 100 - level)
      gains == Gains(m, x, {"Recycler", "Collector"}, Unboosted)
  IN /\ ~paused /\ material[m].verified /\ material[m].lot.type = incentive[i].type
     /\ Charge(i, x)
     /\ Earn(gains) /\ Counted(Sum(gains) + x)
     /\ twice' = twice + x
     /\ UNCHANGED <<materialVars, split, cut, donated, bonuses>>

SetPercentages(s) ==
  /\ split' = s
  /\ UNCHANGED <<materialVars, incentive, tokensEarned, totalTokens, charged, cut,
                 donated, bonuses, twice>>

(* reward_tokens: counts tokens nobody transfers.                          *)
RewardTokens(a, x) ==
  /\ ~paused
  /\ Earn(Only(a, x)) /\ Counted(x)
  /\ UNCHANGED <<materialVars, incentive, split, charged, cut, donated, bonuses, twice>>

DonateToCharity(a, x) ==
  /\ ~paused /\ tokensEarned[a] >= x /\ donated + x <= MaxAside
  /\ tokensEarned' = [tokensEarned EXCEPT ![a] = @ - x]
  /\ donated' = donated + x
  /\ UNCHANGED <<materialVars, incentive, split, totalTokens, charged, cut, bonuses, twice>>

(* complete_challenge_internal, without the challenge's own bookkeeping:   *)
(* the contract's counter is left alone.                                   *)
CompleteChallenge(a, x) ==
  /\ ~paused /\ bonuses + x <= MaxAside
  /\ Earn(Only(a, x))
  /\ bonuses' = bonuses + x
  /\ UNCHANGED <<materialVars, incentive, split, totalTokens, charged, cut, donated, twice>>

MaterialRewardStep ==
  /\ MaterialStep
  /\ UNCHANGED <<incentive, split, tokensEarned, totalTokens, charged, cut, donated,
                 bonuses, twice>>

RewardsNext ==
  \/ MaterialRewardStep
  \/ \E v \in Address, m \in DOMAIN material : VerifyMaterial(v, m)
  \/ \E a \in Address, l \in Lots, p \in Points, b \in Budgets :
       CreateIncentive(a, l.type, p, b)
  \/ \E i \in DOMAIN incentive :
       \/ DeactivateIncentive(i)
       \/ \E active \in BOOLEAN : UpdateStatus(i, active)
       \/ \E p \in Points, b \in Budgets : UpdateIncentive(i, p, b)
       \/ \E m \in DOMAIN material :
            \/ \E a \in Address : ClaimReward(i, m, a)
            \/ \E s \in Seasons, c \in Contaminations : DistributeRewards(i, m, s, c)
  \/ \E s \in Splits : SetPercentages(s)
  \/ \E a \in Address, x \in Gifts :
       RewardTokens(a, x) \/ DonateToCharity(a, x) \/ CompleteChallenge(a, x)

RewardsSpec == RewardsInit /\ [][RewardsNext]_rewardVars

-----------------------------------------------------------------------------
RewardsTypeOK ==
  /\ MaterialTypeOK
  /\ incentive \in Seq(Incentive)
  /\ split \in Splits \cup {DefaultSplit}
  /\ tokensEarned \in [Address -> Nat] /\ totalTokens \in Nat
  /\ charged \in Seq(Nat) /\ DOMAIN charged = DOMAIN incentive
  /\ cut \subseteq DOMAIN incentive
  /\ {donated, bonuses, twice} \subseteq Nat

(* What a budget says it has spent (total minus remaining, from which      *)
(* update_incentive starts) is what was taken from it, unless the total    *)
(* was once set below that; then it says less, never more.                 *)
SpendingKnown ==
  \A i \in DOMAIN incentive :
    LET spent == incentive[i].total - incentive[i].remaining
    IN spent \in 0 .. charged[i] /\ (i \notin cut => spent = charged[i])

(* TOTAL_TOKENS differs from what the participants have earned by exactly  *)
(* the donations, which it keeps, the distributions, which it counts       *)
(* twice, and the challenge rewards, which it misses.                      *)
EarningsCounted ==
  totalTokens + bonuses = Sum(tokensEarned) + donated + twice

(* No token taken from a budget vanishes: the participants together gain   *)
(* at least what a claim or a distribution charges.                        *)
ChargesArePaid ==
  [][\A i \in DOMAIN charged :
       Sum(tokensEarned') - Sum(tokensEarned) >= charged'[i] - charged[i]
       \/ charged'[i] = charged[i]]_rewardVars

=============================================================================
