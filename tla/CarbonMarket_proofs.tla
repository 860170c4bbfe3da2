------------------------ MODULE CarbonMarket_proofs ------------------------
(***************************************************************************)
(* Proofs about the market of carbon credits, for any participants, lots,  *)
(* rates and prices.  That CarbonMarket implements CreditLedger needs no   *)
(* more than the shape of the credits: each call's own guard keeps the     *)
(* ledger.  That the credits add up then follows step by step from the     *)
(* ledger's three kinds of steps.  The index is inductive with the types;  *)
(* that sales are paid needs the fact that a sold listing is closed, and   *)
(* that no call changes the terms of a listing once it is made.            *)
(***************************************************************************)
EXTENDS CarbonMarket, Collections_proofs

-----------------------------------------------------------------------------
(* A lot earns a natural number of credits.                                *)
LEMMA CreditsNat ==
  ASSUME NEW l \in Lots
  PROVE  Credits(l) \in Nat
<1>1. l.grams \in Nat /\ RateMilli[l.type] \in Nat
  BY LotAssumption, RateAssumption DEF Lot
<1>2. l.grams * RateMilli[l.type] \in Nat
  BY <1>1
<1> QED
  BY <1>2 DEF Credits

LEMMA MaterialIsMaterial ==
  ASSUME MaterialTypeOK, NEW m \in DOMAIN material
  PROVE  material[m] \in Material
BY DEF MaterialTypeOK

LEMMA CreditsOfNat ==
  ASSUME MaterialTypeOK, NEW m \in DOMAIN material
  PROVE  CreditsOf(m) \in Nat /\ CreditsOf(m) \in {Credits(l) : l \in Lots}
<1>1. material[m].lot \in Lots
  BY MaterialIsMaterial DEF Material
<1> QED
  BY <1>1, CreditsNat DEF CreditsOf

LEMMA VerifiedType ==
  ASSUME MaterialTypeOK, NEW S
  PROVE  Verified(S) \in Seq(Material)
<1>1. DOMAIN material = 1 .. Len(material) /\ Len(material) \in Nat
  BY DEF MaterialTypeOK
<1>2. ASSUME NEW m \in 1 .. Len(material)
      PROVE  Verified(S)[m] \in Material
  <2>1. material[m] \in Material /\ m \in DOMAIN material
    BY <1>1, MaterialIsMaterial
  <2>2. [material[m] EXCEPT !.verified = TRUE] \in Material
    BY <2>1 DEF Material
  <2> QED
    BY <2>1, <2>2 DEF Verified
<1> QED
  BY <1>1, <1>2 DEF Verified

LEMMA CreditsInit == Init => CreditsTypeOK
<1> SUFFICES ASSUME Init
             PROVE  CreditsTypeOK
  OBVIOUS
<1>1. MaterialTypeOK
  <2>1. paused = FALSE /\ material = <<>>
    BY DEF Init, InitMaterials
  <2>2. paused \in BOOLEAN
    BY <2>1
  <2>3. material \in Seq(Material)
    BY <2>1
  <2> QED
    BY <2>2, <2>3 DEF MaterialTypeOK
<1>2. listing \in Seq(CarbonListing) /\ Len(listing) = 0
  BY DEF Init
<1> QED
  BY <1>1, <1>2, MarketAssumption DEF Init, CreditsTypeOK

LEMMA RecordWith ==
  ASSUME NEW r \in Material, NEW b \in Address, NEW p \in Seq(Address)
  PROVE  [r EXCEPT !.submitter = b, !.passed = p] \in Material
BY DEF Material

LEMMA PassedToType ==
  ASSUME NEW r \in Material, NEW b \in Address
  PROVE  PassedTo(r, b) \in Material
<1>1. Append(r.passed, b) \in Seq(Address)
  BY DEF Material
<1> QED
  BY <1>1, RecordWith DEF PassedTo

(* The materials keep their shape whatever happens to them.                *)
LEMMA MaterialsStep ==
  ASSUME MaterialTypeOK, MaterialStep
  PROVE  MaterialTypeOK'
<1> USE DEF MaterialTypeOK
<1>1. CASE SwitchPause
  BY <1>1 DEF SwitchPause
<1>2. ASSUME NEW a \in Address, NEW l \in Lots, SubmitMaterial(a, l)
      PROVE  MaterialTypeOK'
  <2>1. NewMaterial(a, l) \in Material
    BY DEF NewMaterial, Material
  <2> QED
    BY <1>2, <2>1 DEF SubmitMaterial
<1>3. ASSUME NEW a \in Address, NEW l \in Lots, NEW k \in Lots, SubmitBatch(a, l, k)
      PROVE  MaterialTypeOK'
  <2>1. NewMaterial(a, l) \in Material /\ NewMaterial(a, k) \in Material
    BY DEF NewMaterial, Material
  <2>2. <<NewMaterial(a, l), NewMaterial(a, k)>> \in Seq(Material)
    BY <2>1
  <2> QED
    BY <1>3, <2>2 DEF SubmitBatch
<1>4. ASSUME NEW a \in Address, NEW b \in Address, NEW m \in DOMAIN material,
             TransferMaterial(a, m, b)
      PROVE  MaterialTypeOK'
  <2>1. PassedTo(material[m], b) \in Material
    BY MaterialIsMaterial, PassedToType
  <2> QED
    BY <1>4, <2>1 DEF TransferMaterial
<1> QED
  BY <1>1, <1>2, <1>3, <1>4 DEF MaterialStep

-----------------------------------------------------------------------------
LEMMA ListingIsListing ==
  ASSUME CreditsTypeOK, NEW i \in DOMAIN listing
  PROVE  /\ listing[i] \in CarbonListing
         /\ listing[i].seller \in Address
         /\ listing[i].amount \in Nat \ {0}
<1>1. listing[i] \in CarbonListing
  BY DEF CreditsTypeOK
<1> QED
  BY <1>1 DEF CarbonListing

(* Closing a listing changes only whether it is active.                    *)
LEMMA ClosedType ==
  ASSUME CreditsTypeOK, NEW i \in DOMAIN listing
  PROVE  /\ Closed(i) \in Seq(CarbonListing)
         /\ Len(Closed(i)) = Len(listing)
<1>1. [listing[i] EXCEPT !.active = FALSE] \in CarbonListing
  BY ListingIsListing DEF CarbonListing
<1>2. Closed(i) = [listing EXCEPT ![i] = [listing[i] EXCEPT !.active = FALSE]]
  BY DEF Closed
<1> QED
  BY <1>1, <1>2 DEF CreditsTypeOK

LEMMA SubmitterType ==
  ASSUME MaterialTypeOK, NEW m \in DOMAIN material
  PROVE  material[m].submitter \in Address
BY MaterialIsMaterial DEF Material

LEMMA RecordedType ==
  ASSUME CreditsTypeOK, NEW m \in DOMAIN material, NEW n \in DOMAIN material
  PROVE  RecordVerification(m, n) \in [Address -> Nat]
<1> DEFINE once == [earned EXCEPT ![material[m].submitter] = @ + CreditsOf(m)]
<1>1. MaterialTypeOK
  BY DEF CreditsTypeOK
<1>2. CreditsOf(m) \in Nat /\ CreditsOf(n) \in Nat
  BY <1>1, CreditsOfNat
<1>3. once \in [Address -> Nat]
  BY <1>1, <1>2, SubmitterType DEF CreditsTypeOK
<1>4. RecordVerification(m, n) = [once EXCEPT ![material[n].submitter] = @ + CreditsOf(n)]
  BY DEF RecordVerification
<1> HIDE DEF once
<1> QED
  BY <1>1, <1>2, <1>3, <1>4, SubmitterType

LEMMA CreditsStep == CreditsTypeOK /\ [Next]_vars => CreditsTypeOK'
<1> SUFFICES ASSUME CreditsTypeOK, [Next]_vars
             PROVE  CreditsTypeOK'
  OBVIOUS
<1>0. MaterialTypeOK
  BY DEF CreditsTypeOK
<1>1. CASE MaterialStep /\ UNCHANGED market
  BY <1>0, <1>1, MaterialsStep DEF CreditsTypeOK, market
<1>2. CASE SetTokenAddress
  BY <1>0, <1>2 DEF SetTokenAddress, CreditsTypeOK, MaterialTypeOK, materialVars
<1>3. ASSUME NEW v \in Address, NEW m \in DOMAIN material, VerifyMaterial(v, m)
      PROVE  CreditsTypeOK'
  <2>1. MaterialTypeOK'
    BY <1>0, <1>3, VerifiedType DEF VerifyMaterial, MaterialTypeOK
  <2> QED
    BY <1>0, <1>3, <2>1, CreditsOfNat, SubmitterType
    DEF VerifyMaterial, CreditsTypeOK
<1>4. ASSUME NEW v \in Address, NEW m \in DOMAIN material, NEW n \in DOMAIN material,
             VerifyBatch(v, m, n)
      PROVE  CreditsTypeOK'
  <2>1. MaterialTypeOK'
    BY <1>0, <1>4, VerifiedType DEF VerifyBatch, MaterialTypeOK
  <2>2. RecordVerification(m, n) \in [Address -> Nat]
    BY <1>0, CreditsOfNat, RecordedType DEF CreditsTypeOK
  <2> QED
    BY <1>0, <1>4, <2>1, <2>2, CreditsOfNat DEF VerifyBatch, CreditsTypeOK
<1>5. ASSUME NEW a \in Address, NEW x \in Amounts, RedeemCarbonCredits(a, x)
      PROVE  CreditsTypeOK'
  BY <1>0, <1>5, MarketAssumption
  DEF RedeemCarbonCredits, CreditsTypeOK, MaterialTypeOK, materialVars
<1>6. ASSUME NEW a \in Address, NEW x \in Amounts, NEW p \in Prices,
             CreateCarbonListing(a, x, p)
      PROVE  CreditsTypeOK'
  <2>1. [seller |-> a, amount |-> x, price |-> p, active |-> TRUE] \in CarbonListing
    BY <1>6, MarketAssumption DEF CreateCarbonListing, CarbonListing
  <2>2. listing' \in Seq(CarbonListing) /\ Len(listing') <= MaxListings
    BY <1>6, <2>1, MarketAssumption DEF CreateCarbonListing, CreditsTypeOK
  <2>3. MaterialTypeOK'
    BY <1>0, <1>6 DEF CreateCarbonListing, MaterialTypeOK, materialVars
  <2>4. earned' \in [Address -> Nat]
    <3>1. x \in Nat /\ earned[a] \in Nat /\ x <= earned[a]
      BY <1>6, MarketAssumption DEF CreateCarbonListing, CreditsTypeOK
    <3>2. earned[a] - x \in Nat
      BY <3>1
    <3> QED
      BY <1>6, <3>2 DEF CreateCarbonListing, CreditsTypeOK
  <2> QED
    BY <1>6, <2>2, <2>3, <2>4 DEF CreateCarbonListing, CreditsTypeOK
<1>7. ASSUME NEW a \in Address, NEW i \in DOMAIN listing, CancelCarbonListing(i, a)
      PROVE  CreditsTypeOK'
  <2>1. listing[i].amount \in Nat
    BY ListingIsListing
  <2> QED
    BY <1>0, <1>7, <2>1, ClosedType
    DEF CancelCarbonListing, CreditsTypeOK, MaterialTypeOK, materialVars
<1>8. ASSUME NEW b \in Address, NEW i \in DOMAIN listing, PurchaseCarbonListing(i, b)
      PROVE  CreditsTypeOK'
  <2>1. listing[i].amount \in Nat
    BY ListingIsListing
  <2> QED
    BY <1>0, <1>8, <2>1, ClosedType
    DEF PurchaseCarbonListing, CreditsTypeOK, MaterialTypeOK, materialVars
<1>9. CASE UNCHANGED vars
  BY <1>0, <1>9 DEF vars, market, materialVars, CreditsTypeOK, MaterialTypeOK
<1> QED
  BY <1>1, <1>2, <1>3, <1>4, <1>5, <1>6, <1>7, <1>8, <1>9 DEF Next

(* In every reachable state the credits, their total and the listings are  *)
(* well formed: no balance is ever below zero.                             *)
THEOREM CreditsTypeCorrect == Spec => []CreditsTypeOK
BY CreditsInit, CreditsStep, PTL DEF Spec

-----------------------------------------------------------------------------
(* The mapping.  What follows says of each call which step of the ledger   *)
(* it is; Pointwise turns the ledger's two updates of held into what each  *)
(* account holds before and after.                                         *)
LEMMA HeldType ==
  ASSUME CreditsTypeOK
  PROVE  /\ HeldBy \in [Account -> Nat]
         /\ \A a \in Address : a \in Account /\ HeldBy[a] = earned[a]
         /\ \A i \in 1 .. MaxListings :
              i \in Account /\ i \notin Address /\ HeldBy[i] = InEscrow(i)
         /\ \A i \in DOMAIN listing : i \in 1 .. MaxListings
<1>1. \A i \in DOMAIN listing : i \in 1 .. MaxListings
  <2>1. DOMAIN listing = 1 .. Len(listing) /\ Len(listing) \in Nat
    BY DEF CreditsTypeOK
  <2> QED
    BY <2>1, MarketAssumption DEF CreditsTypeOK
<1>2. \A i \in 1 .. MaxListings : InEscrow(i) \in Nat
  BY ListingIsListing DEF InEscrow
<1>3. \A i \in 1 .. MaxListings : i \notin Address
  BY EscrowAssumption
<1> QED
  BY <1>1, <1>2, <1>3 DEF HeldBy, Account, CreditsTypeOK

LEMMA LedgerInit == Init => Ledger!InitLedger
<1> SUFFICES ASSUME Init
             PROVE  Ledger!InitLedger
  OBVIOUS
<1>1. DOMAIN listing = {}
  BY DEF Init
<1>2. \A a \in Account : HeldBy[a] = 0
  BY <1>1 DEF Init, HeldBy, InEscrow
<1>3. HeldBy = [a \in Account |-> 0]
  BY <1>2 DEF HeldBy
<1> QED
  BY <1>3 DEF Init, Ledger!InitLedger

(* A call that leaves the stats, the listings and the totals alone.        *)
LEMMA LedgerStutter ==
  ASSUME UNCHANGED <<earned, listing, totalCarbon, redeemed>>
  PROVE  UNCHANGED Ledger!ledger
BY DEF HeldBy, InEscrow, Account, Ledger!ledger

(* What the accounts hold after a call.                                    *)
LEMMA HeldAfter ==
  /\ HeldBy' = [c \in Account |-> HeldBy'[c]]
  /\ \A a \in Address : HeldBy'[a] = earned'[a]
  /\ \A i \in 1 .. MaxListings : HeldBy'[i] = InEscrow(i)'
<1>1. \A i \in 1 .. MaxListings : i \notin Address
  BY EscrowAssumption
<1> QED
  BY <1>1 DEF HeldBy, Account

(* A call that leaves the listings alone leaves every escrow alone.        *)
LEMMA EscrowAfter ==
  ASSUME listing' = listing, NEW i
  PROVE  InEscrow(i)' = InEscrow(i)
BY DEF InEscrow

(* A verification issues credits to one submitter.                         *)
LEMMA VerifyIssues ==
  ASSUME CreditsTypeOK, NEW v \in Address, NEW m \in DOMAIN material,
         VerifyMaterial(v, m)
  PROVE  Ledger!LedgerNext
<1> DEFINE a == material[m].submitter
           x == CreditsOf(m)
           after == [[HeldBy EXCEPT ![a] = @ + x] EXCEPT ![a] = @ + 0]
<1>1. a \in Address /\ x \in Nat /\ x \in {Credits(l) : l \in Lots}
  BY SubmitterType, CreditsOfNat DEF CreditsTypeOK
<1>2. earned' = [earned EXCEPT ![a] = @ + x] /\ totalCarbon' = totalCarbon + x + 0
  BY <1>1 DEF VerifyMaterial, CreditsTypeOK
<1>3. listing' = listing /\ redeemed' = redeemed
  BY DEF VerifyMaterial
<1> HIDE DEF a, x
<1>4. \A c \in Address : HeldBy'[c] = after[c]
  BY <1>1, <1>2, HeldType, HeldAfter DEF CreditsTypeOK
<1>5. \A i \in 1 .. MaxListings : HeldBy'[i] = after[i]
  BY <1>1, <1>3, HeldType, HeldAfter, EscrowAfter
<1>6. HeldBy' = after
  BY <1>4, <1>5, HeldType, HeldAfter DEF Account
<1>7. Ledger!Issue(a, x, a, 0)
  BY <1>2, <1>3, <1>6 DEF Ledger!Issue, Ledger!Paid
<1> QED
  BY <1>1, <1>7, HeldType DEF Ledger!LedgerNext

(* A batch of two issues credits to the first submitter and then to the    *)
(* second, who may be the same.                                            *)
LEMMA BatchIssues ==
  ASSUME CreditsTypeOK, NEW v \in Address, NEW m \in DOMAIN material,
         NEW n \in DOMAIN material, VerifyBatch(v, m, n)
  PROVE  Ledger!LedgerNext
<1> DEFINE a == material[m].submitter
           b == material[n].submitter
           x == CreditsOf(m)
           y == CreditsOf(n)
           after == [[HeldBy EXCEPT ![a] = @ + x] EXCEPT ![b] = @ + y]
<1>1. /\ a \in Address /\ x \in Nat /\ x \in {Credits(l) : l \in Lots}
      /\ b \in Address /\ y \in Nat /\ y \in {Credits(l) : l \in Lots}
  BY SubmitterType, CreditsOfNat DEF CreditsTypeOK
<1>2. /\ earned' = [[earned EXCEPT ![a] = @ + x] EXCEPT ![b] = @ + y]
      /\ totalCarbon' = totalCarbon + x + y
  BY DEF VerifyBatch, RecordVerification
<1>3. listing' = listing /\ redeemed' = redeemed
  BY DEF VerifyBatch
<1> HIDE DEF a, b, x, y
<1>4. \A c \in Address : HeldBy'[c] = after[c]
  BY <1>1, <1>2, HeldType, HeldAfter DEF CreditsTypeOK
<1>5. \A i \in 1 .. MaxListings : HeldBy'[i] = after[i]
  BY <1>1, <1>3, HeldType, HeldAfter, EscrowAfter
<1>6. HeldBy' = after
  BY <1>4, <1>5, HeldType, HeldAfter DEF Account
<1>7. Ledger!Issue(a, x, b, y)
  BY <1>2, <1>3, <1>6 DEF Ledger!Issue, Ledger!Paid
<1> QED
  BY <1>1, <1>7, HeldType DEF Ledger!LedgerNext

(* A redemption burns what its caller holds.                               *)
LEMMA RedeemBurns ==
  ASSUME CreditsTypeOK, NEW a \in Address, NEW x \in Amounts,
         RedeemCarbonCredits(a, x)
  PROVE  Ledger!LedgerNext
<1> DEFINE after == [HeldBy EXCEPT ![a] = @ - x]
<1>1. x \in 1 .. HeldBy[a] /\ a \in Account
  BY MarketAssumption, HeldType DEF RedeemCarbonCredits, CreditsTypeOK
<1>2. \A c \in Address : HeldBy'[c] = after[c]
  BY HeldType, HeldAfter DEF RedeemCarbonCredits, CreditsTypeOK
<1>3. \A i \in 1 .. MaxListings : HeldBy'[i] = after[i]
  BY HeldType, HeldAfter, EscrowAfter DEF RedeemCarbonCredits
<1>4. HeldBy' = after
  BY <1>2, <1>3, HeldType, HeldAfter DEF Account
<1>5. Ledger!Burn(a, x)
  BY <1>4 DEF Ledger!Burn, Ledger!Charged, RedeemCarbonCredits
<1> QED
  BY <1>1, <1>5 DEF Ledger!LedgerNext

(* A new listing moves its amount from the seller to an empty account, the *)
(* escrow of the new id.                                                   *)
LEMMA ListingMoves ==
  ASSUME CreditsTypeOK, NEW a \in Address, NEW x \in Amounts, NEW p \in Prices,
         CreateCarbonListing(a, x, p)
  PROVE  Ledger!LedgerNext
<1>0. PICK i \in Nat : i = Len(listing) + 1
  BY DEF CreditsTypeOK
<1> DEFINE after == [[HeldBy EXCEPT ![a] = @ - x] EXCEPT ![i] = @ + x]
<1>1. i \in 1 .. MaxListings /\ i \notin DOMAIN listing
  BY <1>0, MarketAssumption DEF CreateCarbonListing, CreditsTypeOK
<1>2. x \in 1 .. HeldBy[a] /\ a \in Account /\ i \in Account /\ a # i
  BY <1>1, MarketAssumption, HeldType DEF CreateCarbonListing, CreditsTypeOK
<1>3. \A c \in Address : HeldBy'[c] = after[c]
  BY <1>1, HeldType, HeldAfter DEF CreateCarbonListing, CreditsTypeOK
<1>4. HeldBy'[i] = after[i]
  <2>1. HeldBy[i] = 0
    BY <1>1, HeldType DEF InEscrow
  <2>2. InEscrow(i)' = x
    <3> DEFINE new == [seller |-> a, amount |-> x, price |-> p, active |-> TRUE]
    <3>1. listing' = Append(listing, new) /\ Len(listing) \in Nat
      BY DEF CreateCarbonListing, CreditsTypeOK
    <3>2. i \in DOMAIN listing' /\ listing'[i] = new
      BY <1>0, <3>1 DEF CreditsTypeOK
    <3>3. new.active /\ new.amount = x
      OBVIOUS
    <3> HIDE DEF new
    <3> QED
      BY <3>2, <3>3 DEF InEscrow
  <2>3. x \in Nat
    BY MarketAssumption
  <2>4. after[i] = HeldBy[i] + x
    BY <1>2, HeldType
  <2>5. HeldBy'[i] = InEscrow(i)'
    BY <1>1, HeldAfter
  <2> QED
    BY <2>1, <2>2, <2>3, <2>4, <2>5
<1>5. \A j \in (1 .. MaxListings) \ {i} : HeldBy'[j] = after[j]
  <2>1. \A j \in (1 .. MaxListings) \ {i} : InEscrow(j)' = InEscrow(j)
    BY <1>0 DEF CreateCarbonListing, CreditsTypeOK, InEscrow
  <2> QED
    BY <1>1, <2>1, HeldType, HeldAfter
<1>6. HeldBy' = after
  BY <1>3, <1>4, <1>5, HeldType, HeldAfter DEF Account
<1>7. Ledger!Move(a, i, x)
  BY <1>2, <1>6 DEF Ledger!Move, Ledger!Paid, Ledger!Charged, CreateCarbonListing
<1> QED
  BY <1>2, <1>7 DEF Ledger!LedgerNext

(* Closing listing i in favour of b moves the escrow to b, whether b is    *)
(* the seller who cancels or a buyer.                                      *)
LEMMA ClosingMoves ==
  ASSUME CreditsTypeOK, NEW b \in Address, NEW i \in DOMAIN listing,
         listing[i].active, listing' = Closed(i),
         earned' = [earned EXCEPT ![b] = @ + listing[i].amount],
         UNCHANGED <<totalCarbon, redeemed>>
  PROVE  Ledger!LedgerNext
<1> DEFINE x == listing[i].amount
           after == [[HeldBy EXCEPT ![i] = @ - x] EXCEPT ![b] = @ + x]
<1>1. i \in 1 .. MaxListings /\ x \in Nat \ {0} /\ HeldBy[i] = x
  BY HeldType, ListingIsListing DEF InEscrow
<1>2. b \in Account /\ i \in Account /\ b # i
  BY <1>1, HeldType
<1>3. \A c \in Address : HeldBy'[c] = after[c]
  BY <1>1, HeldType, HeldAfter DEF CreditsTypeOK
<1>4. HeldBy'[i] = after[i]
  <2>1. InEscrow(i)' = 0
    <3>1. listing'[i] = [listing[i] EXCEPT !.active = FALSE]
      BY DEF Closed, CreditsTypeOK
    <3>2. ~listing'[i].active
      BY <3>1, ListingIsListing DEF CarbonListing
    <3> QED
      BY <3>2 DEF InEscrow
  <2> QED
    BY <1>1, <1>2, <2>1, HeldType, HeldAfter
<1>5. \A j \in (1 .. MaxListings) \ {i} : HeldBy'[j] = after[j]
  <2>1. \A j \in (1 .. MaxListings) \ {i} : InEscrow(j)' = InEscrow(j)
    BY DEF InEscrow, Closed, CreditsTypeOK
  <2> QED
    BY <1>1, <1>2, <2>1, HeldType, HeldAfter
<1>6. HeldBy' = after
  BY <1>3, <1>4, <1>5, HeldType, HeldAfter DEF Account
<1>7. Ledger!Move(i, b, x)
  BY <1>2, <1>6 DEF Ledger!Move, Ledger!Paid, Ledger!Charged
<1> QED
  BY <1>1, <1>2, <1>7 DEF Ledger!LedgerNext

LEMMA LedgerStep ==
  CreditsTypeOK /\ [Next]_vars => [Ledger!LedgerNext]_(Ledger!ledger)
<1> SUFFICES ASSUME CreditsTypeOK, [Next]_vars
             PROVE  Ledger!LedgerNext \/ UNCHANGED Ledger!ledger
  OBVIOUS
<1>1. CASE MaterialStep /\ UNCHANGED market
  BY <1>1, LedgerStutter DEF market
<1>2. CASE SetTokenAddress
  BY <1>2, LedgerStutter DEF SetTokenAddress
<1>3. CASE \E v \in Address, m, n \in DOMAIN material :
             VerifyMaterial(v, m) \/ VerifyBatch(v, m, n)
  BY <1>3, VerifyIssues, BatchIssues
<1>4. CASE \E a \in Address, x \in Amounts :
             \/ RedeemCarbonCredits(a, x)
             \/ \E p \in Prices : CreateCarbonListing(a, x, p)
  BY <1>4, RedeemBurns, ListingMoves
<1>5. CASE \E a \in Address, i \in DOMAIN listing : CancelCarbonListing(i, a)
  BY <1>5, ClosingMoves DEF CancelCarbonListing
<1>6. CASE \E a \in Address, i \in DOMAIN listing : PurchaseCarbonListing(i, a)
  BY <1>6, ClosingMoves DEF PurchaseCarbonListing
<1>7. CASE UNCHANGED vars
  BY <1>7, LedgerStutter DEF vars, market
<1> QED
  BY <1>1, <1>2, <1>3, <1>4, <1>5, <1>6, <1>7 DEF Next

(* Whatever verifications, redemptions, listings, cancellations and sales  *)
(* are interleaved, the contract's stats and listings behave as a ledger:  *)
(* a call issues, moves or burns credits that are there, and never another *)
(* account's.                                                              *)
THEOREM LedgerKept == Spec => KeepsLedger
<1>1. Spec => Ledger!InitLedger
  BY LedgerInit DEF Spec
<1>2. CreditsTypeOK /\ [Next]_vars => [Ledger!LedgerNext]_(Ledger!ledger)
  BY LedgerStep
<1> QED
  BY <1>1, <1>2, CreditsTypeCorrect, PTL DEF Spec, KeepsLedger, Ledger!LedgerSpec

-----------------------------------------------------------------------------
(* The market: listings, index and sales                                   *)

Sale == [listing : DOMAIN listing, buyer : Address]

(* A listing, once made, stays where it is and keeps its terms; only the   *)
(* way it may take is from active to not.                                  *)
LEMMA ListingsKept ==
  ASSUME CreditsTypeOK, [Next]_vars
  PROVE  \A i \in DOMAIN listing :
           /\ i \in DOMAIN listing'
           /\ listing'[i].seller = listing[i].seller
           /\ listing'[i].amount = listing[i].amount
           /\ listing'[i].price = listing[i].price
           /\ listing'[i].active => listing[i].active
<1>0. SUFFICES ASSUME NEW j \in DOMAIN listing
      PROVE  /\ j \in DOMAIN listing'
             /\ listing'[j].seller = listing[j].seller
             /\ listing'[j].amount = listing[j].amount
             /\ listing'[j].price = listing[j].price
             /\ listing'[j].active => listing[j].active
  OBVIOUS
<1>1. CASE listing' = listing
  BY <1>1
<1>2. ASSUME NEW i \in DOMAIN listing, listing' = Closed(i)
      PROVE  /\ j \in DOMAIN listing'
             /\ listing'[j].seller = listing[j].seller
             /\ listing'[j].amount = listing[j].amount
             /\ listing'[j].price = listing[j].price
             /\ listing'[j].active => listing[j].active
  <2>1. listing[i] \in CarbonListing /\ listing[j] \in CarbonListing
    BY ListingIsListing
  <2>2. listing' = [listing EXCEPT ![i] = [listing[i] EXCEPT !.active = FALSE]]
    BY <1>2 DEF Closed
  <2>3. j \in DOMAIN listing'
    BY <2>2
  <2>4. CASE j = i
    <3>1. listing'[j] = [listing[j] EXCEPT !.active = FALSE]
      BY <2>2, <2>4
    <3> QED
      BY <2>1, <2>3, <3>1 DEF CarbonListing
  <2>5. CASE j # i
    BY <2>2, <2>5
  <2> QED
    BY <2>4, <2>5
<1>3. ASSUME NEW a \in Address, NEW x \in Amounts, NEW p \in Prices,
             CreateCarbonListing(a, x, p)
      PROVE  j \in DOMAIN listing' /\ listing'[j] = listing[j]
  <2>1. listing' = Append(listing, [seller |-> a, amount |-> x, price |-> p,
                                    active |-> TRUE])
    BY <1>3 DEF CreateCarbonListing
  <2>2. listing \in Seq(CarbonListing)
    BY DEF CreditsTypeOK
  <2> QED
    BY <2>1, <2>2
<1>4. \/ listing' = listing
      \/ \E i \in DOMAIN listing : listing' = Closed(i)
      \/ \E a \in Address, x \in Amounts, p \in Prices : CreateCarbonListing(a, x, p)
  BY DEF Next, vars, market, SetTokenAddress, VerifyMaterial, VerifyBatch,
         RedeemCarbonCredits, CancelCarbonListing, PurchaseCarbonListing
<1> QED
  BY <1>1, <1>2, <1>3, <1>4

LEMMA SeqGrows ==
  ASSUME NEW S, NEW T, S \subseteq T, NEW s \in Seq(S)
  PROVE  s \in Seq(T)
OBVIOUS

LEMMA ListingsGrow ==
  ASSUME TypeOK, [Next]_vars
  PROVE  /\ index \in Seq(DOMAIN listing') /\ sales \in Seq(Sale') /\ Sale \subseteq Sale'
         /\ DOMAIN listing \subseteq DOMAIN listing'
<1>1. DOMAIN listing \subseteq DOMAIN listing'
  BY ListingsKept DEF TypeOK
<1>2. Sale \subseteq Sale'
  BY <1>1 DEF Sale
<1>3. index \in Seq(DOMAIN listing) /\ sales \in Seq(Sale)
  BY DEF TypeOK, Sale
<1> QED
  BY <1>1, <1>2, <1>3, SeqGrows

LEMMA CostNat ==
  ASSUME CreditsTypeOK, NEW i \in DOMAIN listing
  PROVE  Cost(i) \in Nat
<1>1. listing[i].amount \in Nat /\ listing[i].price \in Nat
  BY ListingIsListing, MarketAssumption DEF CarbonListing
<1> QED
  BY <1>1 DEF Cost

LEMMA MarketStep == TypeOK /\ [Next]_vars => TypeOK'
<1> SUFFICES ASSUME TypeOK, [Next]_vars
             PROVE  TypeOK'
  OBVIOUS
<1>1. CreditsTypeOK /\ CreditsTypeOK'
  BY CreditsStep DEF TypeOK
<1>2. tokenSet' \in BOOLEAN
  BY DEF TypeOK, Next, vars, market, SetTokenAddress, VerifyMaterial, VerifyBatch,
         RedeemCarbonCredits, CreateCarbonListing, CancelCarbonListing,
         PurchaseCarbonListing
<1>3. index' \in Seq(DOMAIN listing')
  <2>1. CASE index' = index
    BY <2>1, ListingsGrow
  <2>2. ASSUME NEW i \in DOMAIN listing, index' = RemoveActive(i)
        PROVE  index' \in Seq(DOMAIN listing')
    BY <2>2, ListingsGrow, WithoutRange DEF RemoveActive
  <2>3. ASSUME NEW a \in Address, NEW x \in Amounts, NEW p \in Prices,
               CreateCarbonListing(a, x, p)
        PROVE  index' \in Seq(DOMAIN listing')
    <3>1. Len(listing) + 1 \in DOMAIN listing'
      BY <1>1, <2>3 DEF CreateCarbonListing, CreditsTypeOK
    <3>2. index' = Append(index, Len(listing) + 1)
      BY <2>3 DEF CreateCarbonListing
    <3> QED
      BY <3>1, <3>2, ListingsGrow
  <2>4. \/ index' = index
        \/ \E i \in DOMAIN listing : index' = RemoveActive(i)
        \/ \E a \in Address, x \in Amounts, p \in Prices : CreateCarbonListing(a, x, p)
    BY DEF Next, vars, market, SetTokenAddress, VerifyMaterial, VerifyBatch,
           RedeemCarbonCredits, CancelCarbonListing, PurchaseCarbonListing
  <2> QED
    BY <2>1, <2>2, <2>3, <2>4
<1>4. tokens' \in [Address -> Nat] /\ sales' \in Seq(Sale')
  <2>1. CASE tokens' = tokens /\ sales' = sales
    BY <2>1, ListingsGrow DEF TypeOK
  <2>2. ASSUME NEW b \in Address, NEW i \in DOMAIN listing, PurchaseCarbonListing(i, b)
        PROVE  tokens' \in [Address -> Nat] /\ sales' \in Seq(Sale')
    <3>1. Cost(i) \in Nat /\ listing[i].seller \in Address /\ tokens \in [Address -> Nat]
      BY <1>1, CostNat, ListingIsListing DEF TypeOK
    <3>2. Cost(i) <= tokens[b] /\ tokens[b] - Cost(i) \in Nat
      BY <2>2, <3>1 DEF PurchaseCarbonListing, Pay
    <3>3. tokens' \in [Address -> Nat]
      BY <2>2, <3>1, <3>2 DEF PurchaseCarbonListing, Pay
    <3>4. [listing |-> i, buyer |-> b] \in Sale'
      BY ListingsGrow DEF Sale
    <3>5. sales' = Append(sales, [listing |-> i, buyer |-> b])
      BY <2>2 DEF PurchaseCarbonListing
    <3> QED
      BY <3>3, <3>4, <3>5, ListingsGrow
  <2>3. \/ tokens' = tokens /\ sales' = sales
        \/ \E b \in Address, i \in DOMAIN listing : PurchaseCarbonListing(i, b)
    BY DEF Next, vars, market, SetTokenAddress, VerifyMaterial, VerifyBatch,
           RedeemCarbonCredits, CreateCarbonListing, CancelCarbonListing
  <2> QED
    BY <2>1, <2>2, <2>3
<1> QED
  BY <1>1, <1>2, <1>3, <1>4 DEF TypeOK, Sale

LEMMA MarketInit == Init => TypeOK
<1> SUFFICES ASSUME Init PROVE TypeOK
  OBVIOUS
<1>1. CreditsTypeOK
  BY CreditsInit
<1>2. index \in Seq(DOMAIN listing) /\ sales \in Seq(Sale)
  BY DEF Init
<1>3. tokenSet \in BOOLEAN /\ tokens \in [Address -> Nat]
  BY MarketAssumption DEF Init
<1> QED
  BY <1>1, <1>2, <1>3 DEF TypeOK, Sale

(* The whole market is well formed: no balance of credits or tokens is     *)
(* ever below zero, index and sales only name listings that exist.         *)
THEOREM MarketTypeCorrect == Spec => []TypeOK
BY MarketInit, MarketStep, PTL DEF Spec

-----------------------------------------------------------------------------
(* Closing a listing takes it out of the active ones.                      *)
LEMMA ActiveAfterClosing ==
  ASSUME CreditsTypeOK, NEW i \in DOMAIN listing, listing' = Closed(i)
  PROVE  {j \in DOMAIN listing' : listing'[j].active}
           = {j \in DOMAIN listing : listing[j].active} \ {i}
<1>1. listing' = [listing EXCEPT ![i] = [listing[i] EXCEPT !.active = FALSE]]
  BY DEF Closed
<1>2. listing[i] \in CarbonListing
  BY ListingIsListing
<1>3. ~listing'[i].active /\ DOMAIN listing' = DOMAIN listing
  BY <1>1, <1>2 DEF CarbonListing
<1>4. \A j \in DOMAIN listing : j # i => listing'[j] = listing[j]
  BY <1>1
<1> QED
  BY <1>3, <1>4

LEMMA IndexStep == TypeOK /\ IndexedActive /\ [Next]_vars => IndexedActive'
<1> SUFFICES ASSUME TypeOK, IndexedActive, [Next]_vars
             PROVE  /\ Range(index') = {i \in DOMAIN listing' : listing'[i].active}
                    /\ Ascending(index')
  BY DEF IndexedActive
<1>0. /\ CreditsTypeOK /\ index \in Seq(DOMAIN listing)
      /\ Range(index) = {i \in DOMAIN listing : listing[i].active}
      /\ Ascending(index) /\ listing \in Seq(CarbonListing)
      /\ DOMAIN listing = 1 .. Len(listing) /\ Len(listing) \in Nat
      /\ index \in Seq(Int)
  <2>1. listing \in Seq(CarbonListing) /\ index \in Seq(DOMAIN listing)
    BY DEF TypeOK, CreditsTypeOK
  <2>2. DOMAIN listing \subseteq Int
    BY <2>1
  <2> QED
    BY <2>1, <2>2, SeqGrows DEF TypeOK, IndexedActive
<1>1. CASE listing' = listing /\ index' = index
  BY <1>0, <1>1
<1>2. ASSUME NEW i \in DOMAIN listing, listing' = Closed(i), index' = RemoveActive(i)
      PROVE  /\ Range(index') = {j \in DOMAIN listing' : listing'[j].active}
             /\ Ascending(index')
  <2>1. Range(index') = Range(index) \ {i}
    BY <1>0, <1>2, WithoutRange DEF RemoveActive
  <2>2. Ascending(index')
    BY <1>0, <1>2, WithoutAscending DEF RemoveActive
  <2> QED
    BY <1>0, <1>2, <2>1, <2>2, ActiveAfterClosing
<1>3. ASSUME NEW a \in Address, NEW x \in Amounts, NEW p \in Prices,
             CreateCarbonListing(a, x, p)
      PROVE  /\ Range(index') = {j \in DOMAIN listing' : listing'[j].active}
             /\ Ascending(index')
  <2> DEFINE new == [seller |-> a, amount |-> x, price |-> p, active |-> TRUE]
             n == Len(listing) + 1
  <2>1. listing' = Append(listing, new) /\ index' = Append(index, n)
    BY <1>3 DEF CreateCarbonListing
  <2>2. new.active
    OBVIOUS
  <2> HIDE DEF new
  <2>3. DOMAIN listing' = DOMAIN listing \cup {n} /\ listing'[n] = new
        /\ \A j \in DOMAIN listing : listing'[j] = listing[j]
    BY <1>0, <2>1
  <2>4. {j \in DOMAIN listing' : listing'[j].active}
          = {j \in DOMAIN listing : listing[j].active} \cup {n}
    BY <2>2, <2>3
  <2>5. n \in Int /\ \A y \in Range(index) : y < n
    <3>1. Range(index) \subseteq 1 .. Len(listing)
      BY <1>0
    <3> QED
      BY <1>0, <3>1
  <2>6. Range(index') = Range(index) \cup {n}
    BY <1>0, <2>1, <2>5, RangeOfAppend
  <2>7. Ascending(index')
    BY <1>0, <2>1, <2>5, AscendingAppend
  <2> QED
    BY <1>0, <2>4, <2>6, <2>7
<1>4. \/ listing' = listing /\ index' = index
      \/ \E i \in DOMAIN listing : listing' = Closed(i) /\ index' = RemoveActive(i)
      \/ \E a \in Address, x \in Amounts, p \in Prices : CreateCarbonListing(a, x, p)
  BY DEF Next, vars, market, SetTokenAddress, VerifyMaterial, VerifyBatch,
         RedeemCarbonCredits, CancelCarbonListing, PurchaseCarbonListing
<1> QED
  BY <1>1, <1>2, <1>3, <1>4

LEMMA IndexInit == Init => IndexedActive
BY DEF Init, IndexedActive, Range, Ascending

(* The hand-kept index names the active listings, in the order of their    *)
(* ids, after any sequence of creations, cancellations and purchases.      *)
THEOREM IndexCorrect == Spec => []IndexedActive
BY MarketInit, MarketStep, IndexInit, IndexStep, PTL DEF Spec

-----------------------------------------------------------------------------
(* A listing that was sold is closed, which is why it is not sold again.   *)
SoldClosed == \A k \in DOMAIN sales : ~listing[sales[k].listing].active

SalesInv == SalesArePaid /\ SoldClosed

LEMMA SaleIsSale ==
  ASSUME TypeOK, NEW k \in DOMAIN sales
  PROVE  sales[k].listing \in DOMAIN listing /\ sales[k].buyer \in Address
<1>1. sales \in Seq(Sale)
  BY DEF TypeOK, Sale
<1>2. sales[k] \in Sale
  BY <1>1
<1> QED
  BY <1>2 DEF Sale

LEMMA FlowsInt ==
  ASSUME TypeOK, NEW a \in Address
  PROVE  /\ DOMAIN sales = 1 .. Len(sales) /\ Len(sales) \in Nat
         /\ IsFiniteSet(1 .. Len(sales))
         /\ DOMAIN Spent(a) = 1 .. Len(sales) /\ DOMAIN Gained(a) = 1 .. Len(sales)
         /\ \A k \in 1 .. Len(sales) : Spent(a)[k] \in Int /\ Gained(a)[k] \in Int
<1>1. DOMAIN sales = 1 .. Len(sales) /\ Len(sales) \in Nat
  BY DEF TypeOK
<1>2. IsFiniteSet(1 .. Len(sales))
  BY <1>1, FS_Interval
<1>3. \A k \in 1 .. Len(sales) : Cost(sales[k].listing) \in Nat
  BY <1>1, SaleIsSale, CostNat DEF TypeOK
<1> QED
  BY <1>1, <1>2, <1>3 DEF Spent, Gained

(* A call that makes no sale leaves the sums alone.                        *)
LEMMA NoSale ==
  ASSUME TypeOK, SalesInv, [Next]_vars, sales' = sales, tokens' = tokens
  PROVE  SalesInv'
<1>1. \A k \in DOMAIN sales :
        LET i == sales[k].listing
        IN  /\ listing'[i].seller = listing[i].seller
            /\ listing'[i].amount = listing[i].amount
            /\ listing'[i].price = listing[i].price
            /\ ~listing'[i].active
  BY SaleIsSale, ListingsKept DEF TypeOK, SalesInv, SoldClosed
<1>2. ASSUME NEW a \in Address PROVE Spent(a)' = Spent(a) /\ Gained(a)' = Gained(a)
  BY <1>1 DEF Spent, Gained, Cost
<1>3. \A a \in Address :
        tokens'[a] = Purse + SumFunction(Gained(a)') - SumFunction(Spent(a)')
  BY <1>2 DEF SalesInv, SalesArePaid
<1>4. \A a \in Address :
        tokens'[a] = (Purse + SumFunction(Gained(a)) - SumFunction(Spent(a)))'
  BY <1>3
<1>5. SoldClosed'
  BY <1>1 DEF SoldClosed
<1> QED
  BY <1>4, <1>5 DEF SalesInv, SalesArePaid

(* A sale adds its price to both sums, and both addresses' balances follow.*)
LEMMA SaleStep ==
  ASSUME TypeOK, SalesInv, [Next]_vars, NEW b \in Address, NEW i \in DOMAIN listing,
         PurchaseCarbonListing(i, b)
  PROVE  SalesInv'
<1> DEFINE sold == [listing |-> i, buyer |-> b]
           n == Len(sales)
           s == listing[i].seller
           c == Cost(i)
<1>0. /\ CreditsTypeOK /\ c \in Nat /\ s \in Address /\ s # b /\ listing[i].active
      /\ tokens \in [Address -> Nat] /\ Purse \in Int
  BY CostNat, ListingIsListing, MarketAssumption DEF TypeOK, PurchaseCarbonListing
<1>1. sales' = Append(sales, sold) /\ listing' = Closed(i)
      /\ tokens' = [tokens EXCEPT ![b] = @ - c, ![s] = @ + c]
  BY DEF PurchaseCarbonListing, Pay
<1>2. DOMAIN sales = 1 .. n /\ n \in Nat /\ DOMAIN sales' = 1 .. n + 1
  BY <1>1 DEF TypeOK
<1>3. sales'[n + 1] = sold /\ \A k \in 1 .. n : sales'[k] = sales[k]
  BY <1>1 DEF TypeOK
<1>4. \A j \in DOMAIN listing :
        /\ listing'[j].seller = listing[j].seller
        /\ listing'[j].amount = listing[j].amount
        /\ listing'[j].price = listing[j].price
        /\ listing'[j].active => listing[j].active
  BY <1>0, ListingsKept
<1>5. ~listing'[i].active
  <2>1. listing' = [listing EXCEPT ![i] = [listing[i] EXCEPT !.active = FALSE]]
    BY <1>1 DEF Closed
  <2>2. listing[i] \in CarbonListing
    BY <1>0, ListingIsListing
  <2> QED
    BY <2>1, <2>2 DEF CarbonListing
<1>6. \A k \in 1 .. n : sales[k].listing \in DOMAIN listing
  BY <1>2, SaleIsSale
<1>7. sold.listing = i /\ sold.buyer = b
  OBVIOUS
<1> HIDE DEF sold, n, s
<1>8. SoldClosed'
  <2>1. \A k \in 1 .. n : ~listing'[sales'[k].listing].active
    BY <1>2, <1>3, <1>4, <1>6 DEF SalesInv, SoldClosed
  <2>2. \A k \in 1 .. n + 1 : k = n + 1 \/ k \in 1 .. n
    BY <1>2
  <2> QED
    BY <1>2, <1>3, <1>5, <1>7, <2>1, <2>2 DEF SoldClosed
<1>9. \A k, l \in DOMAIN sales' : sales'[k].listing = sales'[l].listing => k = l
  <2>1. \A k \in 1 .. n : sales[k].listing # i
    BY <1>0, <1>2 DEF SalesInv, SoldClosed
  <2>2. \A k \in 1 .. n + 1 : k = n + 1 \/ k \in 1 .. n
    BY <1>2
  <2>3. \A k, l \in 1 .. n : sales[k].listing = sales[l].listing => k = l
    BY <1>2 DEF SalesInv, SalesArePaid
  <2> QED
    BY <1>2, <1>3, <1>7, <2>1, <2>2, <2>3
<1>10. ASSUME NEW a \in Address
       PROVE  /\ SumFunction(Spent(a)') = SumFunction(Spent(a)) + (IF a = b THEN c ELSE 0)
              /\ SumFunction(Gained(a)') = SumFunction(Gained(a)) + (IF a = s THEN c ELSE 0)
              /\ SumFunction(Spent(a)) \in Int /\ SumFunction(Gained(a)) \in Int
  <2>1. /\ DOMAIN Spent(a)' = 1 .. n + 1 /\ DOMAIN Gained(a)' = 1 .. n + 1
        /\ DOMAIN Spent(a) = 1 .. n /\ DOMAIN Gained(a) = 1 .. n
    BY <1>2 DEF Spent, Gained
  <2>2. /\ IsFiniteSet(1 .. n) /\ n + 1 \notin 1 .. n /\ 1 .. n + 1 = (1 .. n) \cup {n + 1}
        /\ \A k \in 1 .. n : Spent(a)[k] \in Int /\ Gained(a)[k] \in Int
    <3>1. n + 1 \notin 1 .. n /\ 1 .. n + 1 = (1 .. n) \cup {n + 1}
      BY <1>2
    <3> QED
      BY <3>1, FlowsInt DEF n
  <2>3. ASSUME NEW k \in 1 .. n
        PROVE  Spent(a)'[k] = Spent(a)[k] /\ Gained(a)'[k] = Gained(a)[k]
    <3>1. k \in 1 .. n + 1 /\ sales'[k] = sales[k] /\ sales[k].listing \in DOMAIN listing
      BY <1>2, <1>3, <1>6
    <3> QED
      BY <1>2, <1>4, <3>1 DEF Spent, Gained, Cost
  <2>4. /\ Spent(a)'[n + 1] = IF a = b THEN c ELSE 0
        /\ Gained(a)'[n + 1] = IF a = s THEN c ELSE 0
    <3>1. n + 1 \in 1 .. n + 1 /\ sales'[n + 1].listing = i /\ sales'[n + 1].buyer = b
      BY <1>2, <1>3, <1>7
    <3>2. listing'[i].seller = s /\ listing'[i].amount * listing'[i].price = c
      BY <1>4 DEF Cost, s
    <3> HIDE DEF c
    <3> QED
      BY <1>2, <3>1, <3>2 DEF Spent, Gained, Cost
  <2> HIDE DEF c
  <2>0. PICK S, G, s0, g0 : S = Spent(a)' /\ G = Gained(a)' /\ s0 = Spent(a) /\ g0 = Gained(a)
    OBVIOUS
  <2>5. SumFunctionOnSet(S, 1 .. n + 1) = SumFunctionOnSet(s0, 1 .. n) + S[n + 1]
    <3>1. S[n + 1] \in Int /\ \A k \in 1 .. n : s0[k] \in Int /\ S[k] = s0[k]
      BY <1>0, <2>0, <2>2, <2>3, <2>4
    <3> QED
      BY <1>2, <3>1, SumNext
  <2>6. SumFunctionOnSet(G, 1 .. n + 1) = SumFunctionOnSet(g0, 1 .. n) + G[n + 1]
    <3>1. G[n + 1] \in Int /\ \A k \in 1 .. n : g0[k] \in Int /\ G[k] = g0[k]
      BY <1>0, <2>0, <2>2, <2>3, <2>4
    <3> QED
      BY <1>2, <3>1, SumNext
  <2>7. SumFunctionOnSet(s0, 1 .. n) \in Int /\ SumFunctionOnSet(g0, 1 .. n) \in Int
    BY <2>0, <2>2, SumInt
  <2>8. /\ SumFunction(S) = SumFunction(s0) + S[n + 1]
        /\ SumFunction(G) = SumFunction(g0) + G[n + 1]
        /\ SumFunction(s0) \in Int /\ SumFunction(g0) \in Int
    BY <2>0, <2>1, <2>2, <2>5, <2>6, <2>7 DEF SumFunction
  <2> QED
    BY <2>0, <2>4, <2>8
<1>11. \A a \in Address :
         tokens'[a] = Purse + SumFunction(Gained(a)') - SumFunction(Spent(a)')
  <2> TAKE a \in Address
  <2>1. tokens[a] = Purse + SumFunction(Gained(a)) - SumFunction(Spent(a))
    BY DEF SalesInv, SalesArePaid
  <2>2. tokens'[a] = tokens[a] + (IF a = s THEN c ELSE 0) - (IF a = b THEN c ELSE 0)
    <3> HIDE DEF c
    <3>1. tokens[b] \in Int /\ tokens[s] \in Int /\ tokens[a] \in Int /\ c \in Int
      BY <1>0
    <3>2. tokens'[b] = tokens[b] - c /\ tokens'[s] = tokens[s] + c
          /\ (a # b /\ a # s => tokens'[a] = tokens[a])
      BY <1>0, <1>1
    <3> QED
      BY <1>0, <3>1, <3>2
  <2>3. PICK g \in Int, p \in Int :
          g = SumFunction(Gained(a)) /\ p = SumFunction(Spent(a))
    BY <1>10
  <2>4. PICK u \in Int, v \in Int :
          u = (IF a = s THEN c ELSE 0) /\ v = (IF a = b THEN c ELSE 0)
    BY <1>0
  <2>5. SumFunction(Gained(a)') = g + u /\ SumFunction(Spent(a)') = p + v
    BY <1>10, <2>3, <2>4
  <2>6. tokens'[a] = Purse + g - p + u - v
    BY <2>1, <2>2, <2>3, <2>4
  <2>7. Purse + g - p + u - v = Purse + (g + u) - (p + v)
    BY <1>0
  <2> QED
    BY <2>5, <2>6, <2>7
<1>12. \A a \in Address :
         tokens'[a] = (Purse + SumFunction(Gained(a)) - SumFunction(Spent(a)))'
  BY <1>11
<1> QED
  BY <1>8, <1>9, <1>12 DEF SalesInv, SalesArePaid

LEMMA SalesStep == TypeOK /\ SalesInv /\ [Next]_vars => SalesInv'
<1> SUFFICES ASSUME TypeOK, SalesInv, [Next]_vars PROVE SalesInv'
  OBVIOUS
<1>1. \/ tokens' = tokens /\ sales' = sales
      \/ \E b \in Address, i \in DOMAIN listing : PurchaseCarbonListing(i, b)
  BY DEF Next, vars, market, SetTokenAddress, VerifyMaterial, VerifyBatch,
         RedeemCarbonCredits, CreateCarbonListing, CancelCarbonListing
<1> QED
  BY <1>1, NoSale, SaleStep

LEMMA SalesInit == Init => SalesInv
<1> SUFFICES ASSUME Init PROVE SalesInv
  OBVIOUS
<1>1. DOMAIN sales = {} /\ tokens = [a \in Address |-> Purse] /\ Purse \in Nat
  BY MarketAssumption DEF Init
<1>2. ASSUME NEW a \in Address
      PROVE  SumFunction(Gained(a)) = 0 /\ SumFunction(Spent(a)) = 0
  <2>1. DOMAIN Gained(a) = {} /\ DOMAIN Spent(a) = {}
    BY <1>1 DEF Gained, Spent
  <2> QED
    BY <2>1, SumEmpty DEF SumFunction
<1> QED
  BY <1>1, <1>2 DEF SalesInv, SalesArePaid, SoldClosed

(* Whatever is listed, cancelled and sold, an address holds the tokens it  *)
(* started with, plus what it was paid for its listings, less what it paid *)
(* for others', and no listing is sold twice.                              *)
THEOREM SalesStayPaid == Spec => []SalesArePaid
<1>1. TypeOK /\ SalesInv /\ [Next]_vars => SalesInv'
  BY SalesStep
<1>2. SalesInv => SalesArePaid
  BY DEF SalesInv
<1> QED
  BY <1>1, <1>2, MarketInit, MarketStep, SalesInit, PTL DEF Spec

-----------------------------------------------------------------------------
(* The ledger adds with its own copy of SumFunction.                       *)
LEMMA HoldingsSum ==
  /\ Ledger!Holdings = SumFunction(HeldBy)
  /\ Ledger!Holdings' = SumFunction(HeldBy')
BY DEF Ledger!Holdings, Ledger!SumFunction, Ledger!SumFunctionOnSet,
       Ledger!FoldFunctionOnSet, Ledger!MapThenFoldSet,
       SumFunction, SumFunctionOnSet, FoldFunctionOnSet, MapThenFoldSet

LEMMA AccountFinite == IsFiniteSet(Account)
<1>1. IsFiniteSet(1 .. MaxListings)
  BY MarketAssumption, FS_Interval
<1> QED
  BY <1>1, AddressAssumption, FS_Union DEF Account

(* h with x more in one account.                                           *)
Credited(h, a, x) == [h EXCEPT ![a] = @ + x]

LEMMA CreditedSum ==
  ASSUME NEW h \in [Account -> Int], NEW a \in Account, NEW x \in Int
  PROVE  /\ Credited(h, a, x) \in [Account -> Int]
         /\ SumFunction(Credited(h, a, x)) = SumFunction(h) + x
         /\ SumFunction(h) \in Int
<1>1. PICK g : g = Credited(h, a, x)
  OBVIOUS
<1>2. g \in [Account -> Int] /\ g[a] = h[a] + x
  BY <1>1 DEF Credited
<1>3. \A b \in Account : h[b] \in Int /\ g[b] \in Int /\ (b # a => g[b] = h[b])
  BY <1>1 DEF Credited
<1>4. SumFunctionOnSet(g, Account) - g[a] = SumFunctionOnSet(h, Account) - h[a]
  BY <1>3, AccountFinite, SumChange
<1>5. PICK p \in Int, q \in Int :
        p = SumFunctionOnSet(h, Account) /\ q = SumFunctionOnSet(g, Account)
  BY <1>3, AccountFinite, SumInt
<1>6. q = p + x
  BY <1>2, <1>3, <1>4, <1>5
<1>7. SumFunction(g) = q /\ SumFunction(h) = p
  BY <1>2, <1>5 DEF SumFunction
<1> QED
  BY <1>1, <1>2, <1>5, <1>6, <1>7

LEMMA BalanceStep ==
  ASSUME CreditsTypeOK, CreditsTypeOK', CreditsBalance, [Next]_vars
  PROVE  CreditsBalance'
<1>1. PICK before, after :
        /\ before = HeldBy /\ after = HeldBy'
        /\ before \in [Account -> Int]
        /\ totalCarbon \in Int /\ redeemed \in Int
  BY HeldType DEF CreditsTypeOK
<1>2. SumFunction(before) + redeemed = totalCarbon
  BY <1>1, HoldingsSum DEF CreditsBalance, Ledger!Balanced
<1>3. {Credits(l) : l \in Lots} \subseteq Int
  BY CreditsNat
<1>4. SUFFICES SumFunction(after) + redeemed' = totalCarbon'
  BY <1>1, HoldingsSum DEF CreditsBalance, Ledger!Balanced
<1>5. CASE UNCHANGED Ledger!ledger
  BY <1>1, <1>2, <1>5 DEF Ledger!ledger
<1>6. ASSUME NEW a \in Account, NEW b \in Account, NEW x \in {Credits(l) : l \in Lots},
             NEW y \in {Credits(l) : l \in Lots} \cup {0}, Ledger!Issue(a, x, b, y)
      PROVE  SumFunction(after) + redeemed' = totalCarbon'
  <2>1. PICK h : h = Credited(before, a, x)
    OBVIOUS
  <2>2. /\ after = Credited(h, b, y)
        /\ totalCarbon' = totalCarbon + x + y /\ redeemed' = redeemed
    BY <1>1, <1>6, <2>1 DEF Ledger!Issue, Ledger!Paid, Credited
  <2>3. x \in Int /\ y \in Int
    BY <1>3
  <2>4. h \in [Account -> Int] /\ SumFunction(h) = SumFunction(before) + x
        /\ SumFunction(before) \in Int
    BY <1>1, <2>1, <2>3, CreditedSum
  <2>5. SumFunction(after) = SumFunction(h) + y
    BY <2>2, <2>3, <2>4, CreditedSum
  <2> QED
    BY <1>1, <1>2, <2>2, <2>3, <2>4, <2>5
<1>7. ASSUME NEW a \in Account, NEW b \in Account, NEW x \in 1 .. HeldBy[a],
             Ledger!Move(a, b, x)
      PROVE  SumFunction(after) + redeemed' = totalCarbon'
  <2>0. x \in Int /\ -x \in Int /\ before[a] - x = before[a] + (-x)
    BY <1>1
  <2>1. PICK h : h = Credited(before, a, -x)
    OBVIOUS
  <2>2. /\ after = Credited(h, b, x)
        /\ totalCarbon' = totalCarbon /\ redeemed' = redeemed
    BY <1>1, <1>7, <2>0, <2>1 DEF Ledger!Move, Ledger!Paid, Ledger!Charged, Credited
  <2>4. h \in [Account -> Int] /\ SumFunction(h) = SumFunction(before) + (-x)
        /\ SumFunction(before) \in Int
    BY <1>1, <2>0, <2>1, CreditedSum
  <2>5. SumFunction(after) = SumFunction(h) + x
    BY <2>0, <2>2, <2>4, CreditedSum
  <2> QED
    BY <1>1, <1>2, <2>0, <2>2, <2>4, <2>5
<1>8. ASSUME NEW a \in Account, NEW x \in 1 .. HeldBy[a], Ledger!Burn(a, x)
      PROVE  SumFunction(after) + redeemed' = totalCarbon'
  <2>0. x \in Int /\ -x \in Int /\ before[a] - x = before[a] + (-x)
    BY <1>1
  <2>1. after = Credited(before, a, -x)
        /\ totalCarbon' = totalCarbon /\ redeemed' = redeemed + x
    BY <1>1, <1>8, <2>0 DEF Ledger!Burn, Ledger!Charged, Credited
  <2>2. SumFunction(after) = SumFunction(before) + (-x) /\ SumFunction(before) \in Int
    BY <1>1, <2>0, <2>1, CreditedSum
  <2> QED
    BY <1>1, <1>2, <2>0, <2>1, <2>2
<1> QED
  BY <1>5, <1>6, <1>7, <1>8, LedgerStep DEF Ledger!LedgerNext

LEMMA BalanceInit == Init => CreditsBalance
<1> SUFFICES ASSUME Init PROVE CreditsBalance
  OBVIOUS
<1>1. HeldBy = [a \in Account |-> 0] /\ redeemed = 0 /\ totalCarbon = 0
  BY LedgerInit DEF Ledger!InitLedger
<1>2. SumFunctionOnSet(HeldBy, Account) = 0
  BY <1>1, AccountFinite, SumZero
<1>3. SumFunction(HeldBy) = 0
  BY <1>1, <1>2 DEF SumFunction
<1> QED
  BY <1>1, <1>3, HoldingsSum DEF CreditsBalance, Ledger!Balanced

(* No credit is lost or made: what the participants hold, what waits in    *)
(* open listings and what was redeemed add up to what was ever issued.     *)
THEOREM CreditsStayBalanced == Spec => []CreditsBalance
<1>1. CreditsTypeOK /\ CreditsTypeOK' /\ CreditsBalance /\ [Next]_vars => CreditsBalance'
  BY BalanceStep
<1> QED
  BY <1>1, BalanceInit, CreditsTypeCorrect, PTL DEF Spec
==============================================================================
