---------------------------- MODULE CarbonMarket ----------------------------
(***************************************************************************)
(* Carbon credits of the contract: verifying a material earns them, their  *)
(* holder redeems them or lists them for sale, and a buyer pays for a      *)
(* listing in tokens of an external SEP-41 contract.  The listed amount is *)
(* kept in the listing until it is cancelled or sold.                      *)
(***************************************************************************)
EXTENDS Materials, Vectors, Functions

CONSTANTS
  RateMilli,      \* carbon_credit_rate_milli, by type
  Amounts,        \* amounts redeem and create_carbon_listing are given
  Prices,         \* prices create_carbon_listing is given
  Purse,          \* the tokens every address starts with
  MaxToken,       \* i128::MAX
  MaxCarbon, MaxListings   \* bounds of the instance

ASSUME RateAssumption ==
  RateMilli \in [{l.type : l \in Lots} -> Nat]
ASSUME MarketAssumption ==
  /\ Amounts \subseteq Nat /\ Prices \subseteq Nat
  /\ Purse \in Nat /\ MaxToken \in Nat
  /\ MaxCarbon \in Nat /\ MaxListings \in Nat
ASSUME EscrowAssumption == Address \cap (1 .. MaxListings) = {}

VARIABLES
  earned,       \* ("stats", a).carbon_credits_earned
  totalCarbon,  \* TOTAL_CARBON
  listing,      \* ("carb_list", id)
  index,        \* CARB_LIST_IDX
  tokenSet,     \* is TOKEN_ADDR configured
  tokens,       \* balances in the token contract
  redeemed,     \* the sum of the carb_rdm events
  sales         \* the carb_listing_purchased events

market == <<earned, totalCarbon, listing, index, tokenSet, tokens, redeemed, sales>>
vars   == <<materialVars, market>>

-----------------------------------------------------------------------------
(* types::CarbonListing *)
CarbonListing ==
  [seller : Address, amount : Nat \ {0}, price : Prices, active : BOOLEAN]

(* calculate_carbon_credits: the division rounds down.                     *)
Credits(l) == (l.grams * RateMilli[l.type]) \div 1000

CreditsOf(m) == Credits(material[m].lot)

(* Mutant of RecordVerification: both stats are read before either is      *)
(* written.                                                                *)
RecordStale(m, n) ==
  [earned EXCEPT ![material[m].submitter] = @ + CreditsOf(m),
                 ![material[n].submitter] =
                     earned[material[n].submitter] + CreditsOf(n)]

(* The submitters' stats once m and then n are verified.                   *)
RecordVerification(m, n) ==
  LET once == [earned EXCEPT ![material[m].submitter] = @ + CreditsOf(m)]
  IN  [once EXCEPT ![material[n].submitter] = @ + CreditsOf(n)]

(* remove_active_listing *)
RemoveActive(i) == Without(index, i)

Closed(i) == [listing EXCEPT ![i].active = FALSE]

Init ==
  /\ InitMaterials
  /\ earned = [a \in Address |-> 0] /\ totalCarbon = 0
  /\ listing = <<>> /\ index = <<>>
  /\ tokenSet = FALSE /\ tokens = [a \in Address |-> Purse]
  /\ redeemed = 0 /\ sales = <<>>

-----------------------------------------------------------------------------
SetTokenAddress ==
  /\ tokenSet' = TRUE
  /\ UNCHANGED <<materialVars, earned, totalCarbon, listing, index, tokens,
                 redeemed, sales>>

(* verify_material; verify_materials_batch of one id does the same here.   *)
VerifyMaterial(v, m) ==
  /\ ~paused /\ MayVerify(v) /\ m \in DOMAIN material
  /\ totalCarbon + CreditsOf(m) <= MaxCarbon
  /\ material' = Verified({m})
  /\ earned' = [earned EXCEPT ![material[m].submitter] = @ + CreditsOf(m)]
  /\ totalCarbon' = totalCarbon + CreditsOf(m)
  /\ UNCHANGED <<paused, listing, index, tokenSet, tokens, redeemed, sales>>

(* verify_materials_batch of two ids, which may be the same one twice.     *)
VerifyBatch(v, m, n) ==
  /\ ~paused /\ MayVerify(v) /\ {m, n} \subseteq DOMAIN material
  /\ totalCarbon + CreditsOf(m) + CreditsOf(n) <= MaxCarbon
  /\ material' = Verified({m, n})
  /\ earned' = RecordVerification(m, n)
  /\ totalCarbon' = totalCarbon + CreditsOf(m) + CreditsOf(n)
  /\ UNCHANGED <<paused, listing, index, tokenSet, tokens, redeemed, sales>>

(* Mutant of RedeemCarbonCredits: the balance is not looked at.            *)
RedeemUnchecked(a, x) ==
  /\ ~paused
  /\ x # 0
  /\ earned' = [earned EXCEPT ![a] = @ - x]
  /\ redeemed' = redeemed + x
  /\ UNCHANGED <<materialVars, totalCarbon, listing, index, tokenSet, tokens, sales>>

RedeemCarbonCredits(a, x) ==
  /\ ~paused
  /\ x # 0 /\ x <= earned[a]
  /\ earned' = [earned EXCEPT ![a] = @ - x]
  /\ redeemed' = redeemed + x
  /\ UNCHANGED <<materialVars, totalCarbon, listing, index, tokenSet, tokens, sales>>

CreateCarbonListing(a, x, p) ==
  /\ ~paused
  /\ x # 0 /\ p > 0 /\ x <= earned[a]
  /\ Len(listing) < MaxListings
  /\ earned' = [earned EXCEPT ![a] = @ - x]
  /\ listing' = Append(listing, [seller |-> a, amount |-> x, price |-> p,
                                 active |-> TRUE])
  /\ index' = Append(index, Len(listing) + 1)
  /\ UNCHANGED <<materialVars, totalCarbon, tokenSet, tokens, redeemed, sales>>

(* Mutant of CancelCarbonListing: a closed listing may be cancelled again. *)
CancelAgain(i, a) ==
  /\ ~paused
  /\ i \in DOMAIN listing /\ listing[i].seller = a
  /\ earned' = [earned EXCEPT ![a] = @ + listing[i].amount]
  /\ listing' = Closed(i)
  /\ index' = RemoveActive(i)
  /\ UNCHANGED <<materialVars, totalCarbon, tokenSet, tokens, redeemed, sales>>

(* Mutant of CancelCarbonListing: the index is not updated.                *)
CancelUnindexed(i, a) ==
  /\ ~paused
  /\ i \in DOMAIN listing /\ listing[i].active /\ listing[i].seller = a
  /\ earned' = [earned EXCEPT ![a] = @ + listing[i].amount]
  /\ listing' = Closed(i)
  /\ UNCHANGED <<materialVars, totalCarbon, index, tokenSet, tokens, redeemed, sales>>

CancelCarbonListing(i, a) ==
  /\ ~paused
  /\ i \in DOMAIN listing /\ listing[i].active /\ listing[i].seller = a
  /\ earned' = [earned EXCEPT ![a] = @ + listing[i].amount]
  /\ listing' = Closed(i)
  /\ index' = RemoveActive(i)
  /\ UNCHANGED <<materialVars, totalCarbon, tokenSet, tokens, redeemed, sales>>

(* What a listing costs: checked_mul, and it must fit the token's i128.    *)
Cost(i) == listing[i].amount * listing[i].price

(* token_client.transfer, which fails when the payer has too little.       *)
Pay(a, b, x) ==
  /\ x <= tokens[a]
  /\ tokens' = [tokens EXCEPT ![a] = @ - x, ![b] = @ + x]

(* Mutant of PurchaseCarbonListing: the listing stays open.                *)
PurchaseKeepsListing(i, b) ==
  /\ ~paused
  /\ i \in DOMAIN listing /\ listing[i].active /\ listing[i].seller # b
  /\ tokenSet /\ Cost(i) <= MaxToken
  /\ Pay(b, listing[i].seller, Cost(i))
  /\ earned' = [earned EXCEPT ![b] = @ + listing[i].amount]
  /\ sales' = Append(sales, [listing |-> i, buyer |-> b])
  /\ UNCHANGED <<materialVars, totalCarbon, listing, index, tokenSet, redeemed>>

PurchaseCarbonListing(i, b) ==
  /\ ~paused
  /\ i \in DOMAIN listing /\ listing[i].active /\ listing[i].seller # b
  /\ tokenSet /\ Cost(i) <= MaxToken
  /\ Pay(b, listing[i].seller, Cost(i))
  /\ earned' = [earned EXCEPT ![b] = @ + listing[i].amount]
  /\ listing' = Closed(i)
  /\ index' = RemoveActive(i)
  /\ sales' = Append(sales, [listing |-> i, buyer |-> b])
  /\ UNCHANGED <<materialVars, totalCarbon, tokenSet, redeemed>>

Next ==
  \/ MaterialStep /\ UNCHANGED market
  \/ SetTokenAddress
  \/ \E v \in Address, m, n \in DOMAIN material :
       VerifyMaterial(v, m) \/ VerifyBatch(v, m, n)
  \/ \E a \in Address, x \in Amounts :
       \/ RedeemCarbonCredits(a, x)
       \/ \E p \in Prices : CreateCarbonListing(a, x, p)
  \/ \E a \in Address, i \in DOMAIN listing :
       CancelCarbonListing(i, a) \/ PurchaseCarbonListing(i, a)

Spec == Init /\ [][Next]_vars

-----------------------------------------------------------------------------
(* The credits and what they are earned with and listed as.                *)
CreditsTypeOK ==
  /\ MaterialTypeOK
  /\ earned \in [Address -> Nat] /\ totalCarbon \in Nat /\ redeemed \in Nat
  /\ listing \in Seq(CarbonListing) /\ Len(listing) <= MaxListings

(* Every record of the market is well formed: balances never go below      *)
(* zero, whatever is redeemed, listed and paid, and a sale names a listing.*)
TypeOK ==
  /\ CreditsTypeOK
  /\ index \in Seq(DOMAIN listing)
  /\ tokenSet \in BOOLEAN /\ tokens \in [Address -> Nat]
  /\ sales \in Seq([listing : DOMAIN listing, buyer : Address])

(* The index of active listings that create, cancel and purchase maintain  *)
(* by hand names every active listing once, oldest first, and no other.    *)
IndexedActive ==
  /\ Range(index) = {i \in DOMAIN listing : listing[i].active}
  /\ Ascending(index)

(* What a has paid, and was paid, for each sale.                           *)
Spent(a) ==
  [k \in DOMAIN sales |-> IF sales[k].buyer = a THEN Cost(sales[k].listing) ELSE 0]

Gained(a) ==
  [k \in DOMAIN sales |-> IF listing[sales[k].listing].seller = a
                          THEN Cost(sales[k].listing) ELSE 0]

(* What an address holds in tokens is what it started with, plus the price *)
(* of every listing it sold, less the price of every listing it bought:    *)
(* nobody is paid twice for a listing or for one that was cancelled.       *)
SalesArePaid ==
  /\ \A a \in Address :
       tokens[a] = Purse + SumFunction(Gained(a)) - SumFunction(Spent(a))
  /\ \A k, l \in DOMAIN sales : sales[k].listing = sales[l].listing => k = l

(* The accounts of the ledger: the participants and the listings' escrow.  *)
Account == Address \cup 1 .. MaxListings

InEscrow(i) == IF i \in DOMAIN listing /\ listing[i].active THEN listing[i].amount ELSE 0

HeldBy == [a \in Account |-> IF a \in Address THEN earned[a] ELSE InEscrow(a)]

Ledger == INSTANCE CreditLedger
            WITH Grant <- {Credits(l) : l \in Lots}, held <- HeldBy,
                 issued <- totalCarbon, burned <- redeemed

(* Whatever verifications, redemptions, listings, cancellations and sales  *)
(* are interleaved, the stats and the listings behave as the ledger: each  *)
(* call issues, moves or burns credits that are there.                     *)
KeepsLedger == Ledger!LedgerSpec

(* No credit is lost or made by listing and selling: participants' stats,  *)
(* open listings and redemptions add up to TOTAL_CARBON.                   *)
CreditsBalance == Ledger!Balanced
==============================================================================
