------------------------ MODULE WasteCustody_proofs -------------------------
(***************************************************************************)
(* Proofs about WasteCustody, for any accounts, roles, durations, prices   *)
(* and bounds: the type invariant; that an item is frozen exactly while    *)
(* one dispute about it is open; what settled cases, bids and a pause keep *)
(* as they are; that every change of hands is accounted for; that an       *)
(* owner's list loses an item in two ways only; and that an item under a   *)
(* running auction stays with the contract.                                *)
(***************************************************************************)
EXTENDS WasteCustody, FiniteSetTheorems, SequenceTheorems, TLAPS

-----------------------------------------------------------------------------
(* A batch names an id a natural number of times, and at least once when   *)
(* the id is among those it moves.                                         *)
LEMMA NamedCount ==
  ASSUME NEW n \in Nat, NEW b \in [1 .. n -> Existing], NEW w
  PROVE  /\ Named(b, w) \in Nat
         /\ w \in {b[i] : i \in DOMAIN b} <=> Named(b, w) > 0
<1> DEFINE S == {i \in DOMAIN b : b[i] = w}
<1>1. IsFiniteSet(1 .. n)
  BY FS_Interval
<1>2. S \in SUBSET (1 .. n)
  OBVIOUS
<1>3. IsFiniteSet(S)
  BY <1>1, <1>2, FS_Subset
<1>4. Cardinality(S) \in Nat /\ (Cardinality(S) = 0 <=> S = {})
  BY <1>3, FS_CardinalityType, FS_EmptySet
<1>5. w \in {b[i] : i \in DOMAIN b} <=> S # {}
  OBVIOUS
<1> QED
  BY <1>4, <1>5 DEF Named

(* The lists after an item went from x to y n times over.                  *)
LEMMA RelistType ==
  ASSUME ListsTyped, NEW w \in WasteId, NEW x, NEW y \in Address, NEW n \in Nat
  PROVE  Relist(w, x, y, n) \in [Address -> [WasteId -> Nat]]
BY DEF ListsTyped, Relist

(* A record of a move appended to the history of an item.                  *)
LEMMA RecordType ==
  ASSUME ListsTyped, NEW w \in WasteId, NEW x \in Party, NEW y \in Party,
         NEW k \in {"transfer", "admin", "approved"}
  PROVE  [history EXCEPT ![w] = Append(@, Record(x, y, k))] \in [WasteId -> Seq(Move)]
<1>1. Record(x, y, k) \in Move
  BY DEF Record, Move
<1>2. history[w] \in Seq(Move)
  BY DEF ListsTyped
<1>3. Append(history[w], Record(x, y, k)) \in Seq(Move)
  BY <1>1, <1>2
<1> QED
  BY <1>3 DEF ListsTyped

LEMMA NewWasteType ==
  ASSUME NEW a \in Party, NEW e \in Nat
  PROVE  /\ NewWaste(a, e) \in WasteRecord
         /\ NewWaste(a, e).owner = a /\ NewWaste(a, e).active /\ ~NewWaste(a, e).frozen
BY DEF NewWaste, Blank, WasteRecord, Party

(* The ids handed out are ids, and the next one is not among them.         *)
LEMMA ExistingIds ==
  ASSUME ItemsTyped
  PROVE  /\ Existing \subseteq WasteId /\ count \in Nat
         /\ \A w \in Existing : waste[w].owner \in Party /\ w # count + 1 /\ w # count + 2
         /\ \A w \in WasteId : waste[w] \in WasteRecord
BY BoundAssumption DEF ItemsTyped, Existing, WasteId

(* Splits and merges keep every record well formed and every item owned.   *)
LEMMA ReissueType ==
  ASSUME ItemsTyped, ListsTyped, NEW a \in Address, NEW old \in SUBSET Existing,
         NEW new \in SUBSET WasteId, Reissue(a, old, new)
  PROVE  /\ waste' \in [WasteId -> WasteRecord]
         /\ \A w \in Existing \cup new : waste'[w].owner \in Party
         /\ index' \in [Address -> [WasteId -> Nat]]
<1>1. NewWaste(a, 0) \in WasteRecord /\ NewWaste(a, 0).owner = a /\ a \in Party
  BY NewWasteType DEF Party
<1>2. ASSUME NEW w \in WasteId
      PROVE  Deactivated(old)[w] \in WasteRecord /\ Deactivated(old)[w].owner = waste[w].owner
  BY DEF Deactivated, ItemsTyped, WasteRecord
<1>3. \A w \in WasteId : waste'[w] = IF w \in new THEN NewWaste(a, 0) ELSE Deactivated(old)[w]
  BY DEF Reissue
<1>4. waste' \in [WasteId -> WasteRecord]
  BY <1>1, <1>2 DEF Reissue
<1>5. \A w \in Existing \cup new : waste'[w].owner \in Party
  BY <1>1, <1>2, <1>3, ExistingIds
<1>6. index' \in [Address -> [WasteId -> Nat]]
  BY DEF Reissue, ListsTyped
<1> QED
  BY <1>4, <1>5, <1>6

LEMMA TypeInit == Init => TypeOK
<1> SUFFICES ASSUME Init PROVE TypeOK
  OBVIOUS
<1>1. SwitchesTyped
  BY DEF Init, SwitchesTyped
<1>2. ItemsTyped
  <2>1. Blank \in WasteRecord
    BY DEF Blank, WasteRecord
  <2> QED
    BY <2>1, BoundAssumption DEF Init, ItemsTyped, Existing
<1>3. ListsTyped
  BY DEF Init, ListsTyped
<1>4. CasesTyped
  BY DEF Init, CasesTyped
<1> QED
  BY <1>1, <1>2, <1>3, <1>4 DEF TypeOK

LEMMA TypeRegistry == TypeOK /\ (Tick \/ Registry) => TypeOK'
<1> SUFFICES ASSUME TypeOK, Tick \/ Registry PROVE TypeOK'
  OBVIOUS
<1> USE DEF SwitchesTyped
<1>1. ItemsTyped' /\ ListsTyped' /\ CasesTyped'
  BY DEF TypeOK, ItemsTyped, ListsTyped, CasesTyped, Existing, custody, cases, Tick, Registry,
         DeregisterParticipant, RegisterParticipant, UpdateRole, Pause, Unpause, SetWasteTtl
<1>2. SwitchesTyped'
  <2>1. CASE Tick
    BY <2>1 DEF TypeOK, Tick
  <2>2. ASSUME NEW a \in Address, DeregisterParticipant(a) PROVE SwitchesTyped'
    BY <2>2 DEF TypeOK, DeregisterParticipant
  <2>3. ASSUME NEW a \in Address, NEW r \in RolesOf[a],
               RegisterParticipant(a, r) \/ UpdateRole(a, r)
        PROVE  SwitchesTyped'
    BY <2>3, RoleAssumption DEF TypeOK, RegisterParticipant, UpdateRole, Roles
  <2>4. CASE Pause \/ Unpause
    BY <2>4 DEF TypeOK, Pause, Unpause
  <2>5. ASSUME NEW t \in Ttls, SetWasteTtl(t) PROVE SwitchesTyped'
    BY <2>5, SpanAssumption DEF TypeOK, SetWasteTtl
  <2> QED
    BY <2>1, <2>2, <2>3, <2>4, <2>5 DEF Registry
<1> QED
  BY <1>1, <1>2 DEF TypeOK

LEMMA TypeNewItems == TypeOK /\ NewItems => TypeOK'
<1> SUFFICES ASSUME TypeOK, NewItems PROVE TypeOK'
  OBVIOUS
<1>0. SwitchesTyped /\ ItemsTyped /\ ListsTyped /\ CasesTyped
  BY DEF TypeOK
<1>a. SwitchesTyped' /\ CasesTyped'
  BY <1>0 DEF SwitchesTyped, CasesTyped, cases, NewItems,
              RecycleWaste, TransferCollected, SplitWaste, MergeWastes
<1>b. /\ Existing \subseteq WasteId /\ count \in Nat
      /\ \A w \in Existing : waste[w].owner \in Party /\ w # count + 1 /\ w # count + 2
      /\ \A w \in WasteId : waste[w] \in WasteRecord
  BY <1>0, ExistingIds
<1> USE <1>b DEF Party
<1>1. ASSUME NEW a \in Address, RecycleWaste(a) PROVE ItemsTyped' /\ ListsTyped'
  <2> DEFINE e == IF ttl > 0 THEN now + ttl ELSE 0
  <2>1. e \in Nat
    BY <1>0 DEF SwitchesTyped
  <2>2. NewWaste(a, e) \in WasteRecord /\ NewWaste(a, e).owner = a
    BY <2>1, NewWasteType
  <2>3. ItemsTyped'
    BY <1>0, <1>1, <2>2, BoundAssumption DEF ItemsTyped, RecycleWaste, Existing, WasteId
  <2>4. ListsTyped'
    BY <1>0, <1>1 DEF ItemsTyped, ListsTyped, RecycleWaste
  <2> QED
    BY <2>3, <2>4
<1>2. ASSUME NEW c \in Address, NEW m \in Address, TransferCollected(c, m)
      PROVE  ItemsTyped' /\ ListsTyped'
  <2>1. NewWaste(m, 0) \in WasteRecord /\ NewWaste(m, 0).owner = m
    BY NewWasteType
  <2>2. ItemsTyped'
    BY <1>0, <1>2, <2>1, BoundAssumption DEF ItemsTyped, TransferCollected, Existing, WasteId
  <2>3. history' \in [WasteId -> Seq(Move)]
    BY <1>0, <1>2, RecordType DEF TransferCollected
  <2>4. index' \in [Address -> [WasteId -> Nat]]
    BY <1>0, <1>2 DEF ItemsTyped, ListsTyped, TransferCollected
  <2> QED
    BY <2>2, <2>3, <2>4 DEF ListsTyped
<1>3. ASSUME NEW w \in Existing, SplitWaste(w) PROVE ItemsTyped' /\ ListsTyped'
  <2> DEFINE children == {count + 1, count + 2}
  <2>1. waste[w].owner \in Address /\ children \in SUBSET WasteId
    BY <1>3 DEF SplitWaste
  <2>2. count' \in 0 .. MaxWastes /\ Existing' = Existing \cup children
    BY <1>3, <2>1, BoundAssumption DEF SplitWaste, Existing, WasteId
  <2>3. /\ waste' \in [WasteId -> WasteRecord]
        /\ \A x \in Existing \cup children : waste'[x].owner \in Party
        /\ index' \in [Address -> [WasteId -> Nat]]
    <3>1. Reissue(waste[w].owner, {w}, children)
      BY <1>3 DEF SplitWaste
    <3>2. {w} \in SUBSET Existing
      OBVIOUS
    <3> QED
      BY <1>0, <2>1, <3>1, <3>2, ReissueType
  <2>4. ItemsTyped'
    BY <2>2, <2>3 DEF ItemsTyped
  <2>5. history' \in [WasteId -> Seq(Move)]
    BY <1>0, <1>3 DEF SplitWaste, ListsTyped
  <2> QED
    BY <2>3, <2>4, <2>5 DEF ListsTyped
<1>4. ASSUME NEW v \in Existing, NEW w \in Existing, MergeWastes(v, w)
      PROVE  ItemsTyped' /\ ListsTyped'
  <2>1. waste[v].owner \in Address /\ {count + 1} \in SUBSET WasteId
    BY <1>4 DEF MergeWastes
  <2>2. count' \in 0 .. MaxWastes /\ Existing' = Existing \cup {count + 1}
    BY <1>4, <2>1, BoundAssumption DEF MergeWastes, Existing, WasteId
  <2>3. /\ waste' \in [WasteId -> WasteRecord]
        /\ \A x \in Existing \cup {count + 1} : waste'[x].owner \in Party
        /\ index' \in [Address -> [WasteId -> Nat]]
    <3>1. Reissue(waste[v].owner, {v, w}, {count + 1})
      BY <1>4 DEF MergeWastes
    <3>2. {v, w} \in SUBSET Existing
      OBVIOUS
    <3> QED
      BY <1>0, <2>1, <3>1, <3>2, ReissueType
  <2>4. ItemsTyped'
    BY <2>2, <2>3 DEF ItemsTyped
  <2>5. history' \in [WasteId -> Seq(Move)]
    <3>1. history[v] \o history[w] \in Seq(Move)
      BY <1>0 DEF ListsTyped
    <3> QED
      BY <1>0, <1>4, <3>1 DEF MergeWastes, ListsTyped
  <2> QED
    BY <2>3, <2>4, <2>5 DEF ListsTyped
<1> QED
  BY <1>0, <1>a, <1>1, <1>2, <1>3, <1>4 DEF NewItems, TypeOK

LEMMA TypeTransfers == TypeOK /\ Transfers => TypeOK'
<1> SUFFICES ASSUME TypeOK, Transfers PROVE TypeOK'
  OBVIOUS
<1>0. SwitchesTyped /\ ItemsTyped /\ ListsTyped /\ CasesTyped
  BY DEF TypeOK
<1>a. SwitchesTyped'
  BY <1>0 DEF SwitchesTyped, Transfers, TransferWaste, AdminOverride, InitiateTransfer,
              BatchTransfer, ApproveTransfer, RejectTransfer, ExpireTransfer
<1>b. /\ Existing \subseteq WasteId /\ count \in Nat
      /\ \A w \in Existing : waste[w].owner \in Party /\ w # count + 1 /\ w # count + 2
      /\ \A w \in WasteId : waste[w] \in WasteRecord
  BY <1>0, ExistingIds
<1> USE <1>b DEF Party
<1>1. ASSUME NEW w \in Existing, NEW a \in Address, TransferWaste(w, a) PROVE TypeOK'
  <2>1. ItemsTyped'
    BY <1>0, <1>1 DEF ItemsTyped, TransferWaste, WasteRecord, Existing
  <2>2. w \in WasteId /\ waste[w].owner \in Party
    BY <1>0 DEF ItemsTyped
  <2>3. ListsTyped'
    BY <1>0, <1>1, <2>2, RelistType, RecordType DEF ListsTyped, TransferWaste
  <2> QED
    BY <1>0, <1>a, <1>1, <2>1, <2>3 DEF TypeOK, TransferWaste, CasesTyped, cases
<1>2. ASSUME NEW w \in Existing, NEW a \in Address, AdminOverride(w, a) PROVE TypeOK'
  <2>1. ItemsTyped'
    BY <1>0, <1>2 DEF ItemsTyped, AdminOverride, WasteRecord, Existing
  <2>2. w \in WasteId /\ waste[w].owner \in Party
    BY <1>0 DEF ItemsTyped
  <2>3. ListsTyped'
    BY <1>0, <1>2, <2>2, RecordType DEF ListsTyped, AdminOverride
  <2> QED
    BY <1>0, <1>a, <1>2, <2>1, <2>3 DEF TypeOK, AdminOverride, CasesTyped, cases
<1>3. ASSUME NEW w \in Existing, NEW a \in Address, InitiateTransfer(w, a) PROVE TypeOK'
  <2>1. ItemsTyped' /\ ListsTyped'
    BY <1>0, <1>3 DEF ItemsTyped, ListsTyped, InitiateTransfer, custody, Existing
  <2>2. [waste |-> w, from |-> waste[w].owner, to |-> a,
         expires |-> now + PendingLife, status |-> "Pending"] \in PendingTransfer
    BY <1>0, <1>3, SpanAssumption
    DEF ItemsTyped, SwitchesTyped, InitiateTransfer, PendingTransfer, PendingStatus
  <2>3. CasesTyped'
    BY <1>0, <1>3, <2>2 DEF CasesTyped, InitiateTransfer
  <2> QED
    BY <1>a, <2>1, <2>3 DEF TypeOK
<1>4. ASSUME NEW n \in 1 .. MaxBatch, NEW a \in Address,
             NEW b \in [1 .. n -> Existing], BatchTransfer(b, a)
      PROVE  TypeOK'
  <2> DEFINE moved == {b[i] : i \in DOMAIN b}
  <2>1. moved \subseteq WasteId /\ n \in Nat
    BY BoundAssumption
  <2>2. ASSUME NEW w \in WasteId
        PROVE  Named(b, w) \in Nat /\ (w \in moved <=> Named(b, w) > 0)
    BY <2>1, NamedCount
  <2>3. ItemsTyped'
    BY <1>0, <1>4, <2>1 DEF ItemsTyped, BatchTransfer, WasteRecord, Existing
  <2>4. ASSUME NEW w \in WasteId PROVE history'[w] \in Seq(Move)
    <3> DEFINE added == [i \in 1 .. Named(b, w) |-> Record(waste[w].owner, a, "transfer")]
    <3>1. history'[w] = history[w] \o added
      BY <1>4 DEF BatchTransfer
    <3>2. ASSUME NEW i \in 1 .. Named(b, w) PROVE Record(waste[w].owner, a, "transfer") \in Move
      <4>1. w \in moved
        BY <2>2
      <4>2. waste[w].owner \in Address
        BY <1>4, <4>1 DEF BatchTransfer
      <4> QED
        BY <4>2 DEF Record, Move
    <3>3. added \in Seq(Move)
      BY <2>2, <3>2
    <3> QED
      BY <1>0, <3>1, <3>3 DEF ListsTyped
  <2>5. history' \in [WasteId -> Seq(Move)]
    BY <1>4, <2>4 DEF BatchTransfer
  <2>6. index' \in [Address -> [WasteId -> Nat]]
    <3>1. ASSUME NEW x \in Address, NEW w \in WasteId, w \in moved
          PROVE  Relist(w, waste[w].owner, a, Named(b, w))[x][w] \in Nat
      BY <1>0, <2>2 DEF ListsTyped, Relist
    <3> QED
      BY <1>0, <1>4, <3>1 DEF BatchTransfer, ListsTyped
  <2> QED
    BY <1>0, <1>a, <1>4, <2>3, <2>5, <2>6 DEF TypeOK, ListsTyped, BatchTransfer, CasesTyped, cases
<1>5. ASSUME NEW i \in DOMAIN pending, ApproveTransfer(i) PROVE TypeOK'
  <2> DEFINE w == pending[i].waste  x == pending[i].from  y == pending[i].to
  <2>1. pending[i] \in PendingTransfer
    BY <1>0 DEF CasesTyped
  <2>2. w \in WasteId /\ x \in Address /\ y \in Address
    BY <2>1 DEF PendingTransfer
  <2>3. ItemsTyped'
    <3>1. waste' = [waste EXCEPT ![w].owner = y] /\ count' = count
      BY <1>5 DEF ApproveTransfer
    <3>2. [waste[w] EXCEPT !.owner = y] \in WasteRecord
      BY <2>2 DEF WasteRecord
    <3>3. \A v \in Existing : waste'[v].owner \in Party
      BY <2>2, <3>1
    <3> QED
      BY <1>0, <3>1, <3>2, <3>3 DEF ItemsTyped, Existing
  <2>4. ListsTyped'
    BY <1>0, <1>5, <2>2, RelistType, RecordType DEF ListsTyped, ApproveTransfer
  <2>5. CasesTyped'
    <3>1. [pending[i] EXCEPT !.status = "Approved"] \in PendingTransfer
      BY <2>1 DEF PendingTransfer, PendingStatus
    <3> QED
      BY <1>0, <1>5, <3>1 DEF CasesTyped, ApproveTransfer
  <2> QED
    BY <1>a, <2>3, <2>4, <2>5 DEF TypeOK
<1>6. ASSUME NEW i \in DOMAIN pending, RejectTransfer(i) \/ ExpireTransfer(i) PROVE TypeOK'
  <2>1. ItemsTyped' /\ ListsTyped'
    BY <1>0, <1>6 DEF ItemsTyped, ListsTyped, RejectTransfer, ExpireTransfer, custody, Existing
  <2>2. PICK st \in PendingStatus : pending' = [pending EXCEPT ![i].status = st]
    BY <1>6 DEF RejectTransfer, ExpireTransfer, PendingStatus
  <2>3. [pending[i] EXCEPT !.status = st] \in PendingTransfer
    <3>1. pending[i] \in PendingTransfer
      BY <1>0 DEF CasesTyped
    <3> QED
      BY <3>1 DEF PendingTransfer
  <2>4. CasesTyped'
    BY <1>0, <1>6, <2>2, <2>3 DEF CasesTyped, RejectTransfer, ExpireTransfer
  <2> QED
    BY <1>a, <2>1, <2>4 DEF TypeOK
<1> QED
  BY <1>1, <1>2, <1>3, <1>4, <1>5, <1>6 DEF Transfers

LEMMA TypeAuctions == TypeOK /\ Auctions => TypeOK'
<1> SUFFICES ASSUME TypeOK, Auctions PROVE TypeOK'
  OBVIOUS
<1>0. SwitchesTyped /\ ItemsTyped /\ ListsTyped /\ CasesTyped
  BY DEF TypeOK
<1>a. SwitchesTyped' /\ ListsTyped'
  BY <1>0 DEF SwitchesTyped, ListsTyped, custody, Auctions,
              CreateAuction, PlaceBid, EndAuction, CancelAuction
<1>b. /\ Existing \subseteq WasteId
      /\ \A w \in Existing : waste[w].owner \in Party
      /\ \A w \in WasteId : waste[w] \in WasteRecord
  BY <1>0, ExistingIds
<1>c. \A i \in DOMAIN auction : auction[i] \in Auction
  BY <1>0 DEF CasesTyped
<1>1. ASSUME NEW w \in Existing, NEW d \in AuctionSpans, CreateAuction(w, d) PROVE TypeOK'
  <2>1. [waste[w] EXCEPT !.owner = Contract] \in WasteRecord
    BY <1>b DEF WasteRecord, Party
  <2>2. ItemsTyped'
    BY <1>0, <1>1, <1>b, <2>1 DEF CreateAuction, ItemsTyped, Existing, Party
  <2>3. [waste |-> w, creator |-> waste[w].owner, bid |-> StartPrice, bidder |-> NoOne,
         ends |-> now + d, status |-> "Active"] \in Auction
    BY <1>0, <1>1, <1>b, SpanAssumption, PriceAssumption
    DEF CreateAuction, SwitchesTyped, Auction, AuctionStatus
  <2>4. CasesTyped'
    BY <1>0, <1>1, <2>3 DEF CreateAuction, CasesTyped
  <2> QED
    BY <1>a, <2>2, <2>4 DEF TypeOK
<1>2. ASSUME NEW i \in DOMAIN auction, NEW a \in Address, NEW amount \in Bids,
             PlaceBid(i, a, amount)
      PROVE  TypeOK'
  <2>1. ItemsTyped'
    BY <1>0, <1>2 DEF PlaceBid, custody, ItemsTyped, Existing
  <2>2. [auction[i] EXCEPT !.bid = amount, !.bidder = a] \in Auction
    BY <1>c, PriceAssumption DEF Auction
  <2>3. /\ auction' = [auction EXCEPT ![i] = [auction[i] EXCEPT !.bid = amount, !.bidder = a]]
        /\ UNCHANGED <<pending, dispute>>
    BY <1>2 DEF PlaceBid
  <2>4. CasesTyped'
    BY <1>0, <2>2, <2>3 DEF CasesTyped
  <2> QED
    BY <1>a, <2>1, <2>4 DEF TypeOK
<1>3. ASSUME NEW i \in DOMAIN auction, EndAuction(i) PROVE TypeOK'
  <2> DEFINE w == auction[i].waste
             a == auction[i].bidder
  <2>1. w \in WasteId /\ a \in Address \cup {NoOne}
    BY <1>c DEF Auction
  <2>2. /\ waste' = IF a = NoOne THEN waste ELSE [waste EXCEPT ![w].owner = a]
        /\ count' = count
    BY <1>3 DEF EndAuction
  <2>3. ItemsTyped'
    <3>1. CASE a = NoOne
      BY <1>0, <2>2, <3>1 DEF ItemsTyped, Existing
    <3>2. CASE a # NoOne
      <4>1. [waste[w] EXCEPT !.owner = a] \in WasteRecord
        BY <1>b, <2>1, <3>2 DEF WasteRecord, Party
      <4>2. \A v \in Existing : waste'[v].owner \in Party
        BY <1>b, <2>1, <2>2, <3>2 DEF Party
      <4> QED
        BY <1>0, <2>2, <3>2, <4>1, <4>2 DEF ItemsTyped, Existing
    <3> QED
      BY <3>1, <3>2
  <2>4. [auction[i] EXCEPT !.status = "Ended"] \in Auction
    BY <1>c DEF Auction, AuctionStatus
  <2>5. CasesTyped'
    BY <1>0, <1>3, <2>4 DEF EndAuction, CasesTyped
  <2> QED
    BY <1>a, <2>3, <2>5 DEF TypeOK
<1>4. ASSUME NEW i \in DOMAIN auction, CancelAuction(i) PROVE TypeOK'
  <2>1. ItemsTyped'
    BY <1>0, <1>4 DEF CancelAuction, custody, ItemsTyped, Existing
  <2>2. [auction[i] EXCEPT !.status = "Removed"] \in Auction
    BY <1>c DEF Auction, AuctionStatus
  <2>3. CasesTyped'
    BY <1>0, <1>4, <2>2 DEF CancelAuction, CasesTyped
  <2> QED
    BY <1>a, <2>1, <2>3 DEF TypeOK
<1> QED
  BY <1>1, <1>2, <1>3, <1>4 DEF Auctions

(* A step that rewrites records of items without changing any owner.       *)
LEMMA ItemsRewritten ==
  ASSUME ItemsTyped, count' = count, waste' \in [WasteId -> WasteRecord],
         \A w \in WasteId : waste'[w].owner = waste[w].owner
  PROVE  ItemsTyped'
BY ExistingIds DEF ItemsTyped, Existing

LEMMA DeactivatedType ==
  ASSUME ItemsTyped, NEW S
  PROVE  /\ Deactivated(S) \in [WasteId -> WasteRecord]
         /\ \A w \in WasteId : /\ Deactivated(S)[w].owner = waste[w].owner
                               /\ Deactivated(S)[w].frozen = waste[w].frozen
<1>1. ASSUME NEW w \in WasteId
      PROVE  /\ Deactivated(S)[w] \in WasteRecord
             /\ Deactivated(S)[w].owner = waste[w].owner
             /\ Deactivated(S)[w].frozen = waste[w].frozen
  BY DEF Deactivated, ItemsTyped, WasteRecord
<1> QED
  BY <1>1 DEF Deactivated

LEMMA TypeCaseWork == TypeOK /\ CaseWork => TypeOK'
<1> SUFFICES ASSUME TypeOK, CaseWork PROVE TypeOK'
  OBVIOUS
<1>0. SwitchesTyped /\ ItemsTyped /\ ListsTyped /\ CasesTyped
  BY DEF TypeOK
<1>a. SwitchesTyped' /\ ListsTyped' /\ count' = count
  BY <1>0 DEF SwitchesTyped, ListsTyped, CaseWork, CreateDispute, ReserveWaste, ResolveDispute,
              DeactivateWaste, SubstituteWaste, CancelReservation, CleanupExpired
<1>b. Existing \subseteq WasteId /\ \A w \in WasteId : waste[w] \in WasteRecord
  BY <1>0, ExistingIds
<1>1. ASSUME NEW w \in Existing, NEW a \in Address, CreateDispute(w, a) PROVE TypeOK'
  <2>1. [waste[w] EXCEPT !.frozen = TRUE] \in WasteRecord
    BY <1>b DEF WasteRecord
  <2>2. ItemsTyped'
    BY <1>0, <1>1, <1>a, <1>b, <2>1, ItemsRewritten DEF CreateDispute, ItemsTyped
  <2>3. [waste |-> w, status |-> "Pending"] \in Dispute
    BY <1>b DEF Dispute, DisputeStatus
  <2>4. CasesTyped'
    BY <1>0, <1>1, <2>3 DEF CreateDispute, CasesTyped
  <2> QED
    BY <1>a, <2>2, <2>4 DEF TypeOK
<1>2. ASSUME NEW i \in DOMAIN dispute, NEW accepted \in BOOLEAN, ResolveDispute(i, accepted)
      PROVE  TypeOK'
  <2> DEFINE w == dispute[i].waste
  <2>0. dispute[i] \in Dispute
    BY <1>0 DEF CasesTyped
  <2>1. w \in WasteId
    BY <2>0 DEF Dispute
  <2>2. [waste[w] EXCEPT !.frozen = FALSE] \in WasteRecord
    BY <1>b, <2>1 DEF WasteRecord
  <2>3. waste' = [waste EXCEPT ![w] = [waste[w] EXCEPT !.frozen = FALSE]]
    BY <1>2 DEF ResolveDispute
  <2>4. ItemsTyped'
    BY <1>0, <1>a, <1>b, <2>1, <2>2, <2>3, ItemsRewritten DEF ItemsTyped
  <2>5. PICK st \in DisputeStatus : /\ dispute' = [dispute EXCEPT ![i].status = st]
                                   /\ UNCHANGED <<pending, auction>>
    BY <1>2 DEF ResolveDispute, DisputeStatus
  <2>6. [dispute[i] EXCEPT !.status = st] \in Dispute
    BY <2>0 DEF Dispute
  <2>7. CasesTyped'
    BY <1>0, <2>5, <2>6 DEF CasesTyped
  <2> QED
    BY <1>a, <2>4, <2>7 DEF TypeOK
<1>3. ASSUME NEW w \in Existing, NEW a \in Address, NEW d \in Durations, ReserveWaste(w, a, d)
      PROVE  TypeOK'
  <2>0. now + d \in Nat
    BY <1>0, SpanAssumption DEF SwitchesTyped
  <2>1. [waste[w] EXCEPT !.reservedBy = a, !.reservedUntil = now + d] \in WasteRecord
    BY <1>b, <2>0 DEF WasteRecord
  <2>2. waste' = [waste EXCEPT ![w] = [waste[w] EXCEPT !.reservedBy = a, !.reservedUntil = now + d]]
    BY <1>3 DEF ReserveWaste
  <2>3. ItemsTyped'
    BY <1>0, <1>a, <1>b, <2>1, <2>2, ItemsRewritten DEF ItemsTyped
  <2> QED
    BY <1>0, <1>3, <1>a, <2>3 DEF TypeOK, ReserveWaste, CasesTyped, cases
<1>4. ASSUME NEW w \in Existing, CancelReservation(w) PROVE TypeOK'
  <2>1. [waste[w] EXCEPT !.reservedBy = NoOne, !.reservedUntil = 0] \in WasteRecord
    BY <1>b DEF WasteRecord
  <2>2. waste' = [waste EXCEPT ![w] = [waste[w] EXCEPT !.reservedBy = NoOne, !.reservedUntil = 0]]
    BY <1>4 DEF CancelReservation
  <2>3. ItemsTyped'
    BY <1>0, <1>a, <1>b, <2>1, <2>2, ItemsRewritten DEF ItemsTyped
  <2> QED
    BY <1>0, <1>4, <1>a, <2>3 DEF TypeOK, CancelReservation, CasesTyped, cases
<1>5. ASSUME NEW S, waste' = Deactivated(S), UNCHANGED cases PROVE TypeOK'
  <2>1. ItemsTyped'
    BY <1>0, <1>5, <1>a, DeactivatedType, ItemsRewritten
  <2> QED
    BY <1>0, <1>5, <1>a, <2>1 DEF TypeOK, CasesTyped, cases
<1> QED
  BY <1>1, <1>2, <1>3, <1>4, <1>5
  DEF CaseWork, DeactivateWaste, SubstituteWaste, CleanupExpired

(* The whole contract state keeps its types: every record the handlers     *)
(* write is well formed and every item handed out has an owner.            *)
THEOREM TypeCorrect == Spec => []TypeOK
<1>1. Init => TypeOK
  BY TypeInit
<1>2. TypeOK /\ [Next]_vars => TypeOK'
  <2>1. TypeOK /\ UNCHANGED vars => TypeOK'
    BY DEF TypeOK, SwitchesTyped, ItemsTyped, ListsTyped, CasesTyped,
           vars, custody, cases, Existing
  <2> QED
    BY <2>1, TypeRegistry, TypeNewItems, TypeTransfers, TypeAuctions, TypeCaseWork DEF Next
<1> QED
  BY <1>1, <1>2, PTL DEF Spec

-----------------------------------------------------------------------------
(* FrozenIffDisputed is not inductive by itself: a new item starts         *)
(* unfrozen, which is right only because no dispute names an id that was   *)
(* not handed out yet.                                                     *)
DisputesNameItems == \A i \in DOMAIN dispute : dispute[i].waste \in Existing

Disputed(x) ==
  \E i \in DOMAIN dispute : dispute[i].waste = x /\ dispute[i].status = "Pending"

FreezeInv == TypeOK /\ DisputesNameItems /\ FrozenIffDisputed

(* Ids beyond the counter are not frozen.                                  *)
LEMMA NewIdsUnfrozen ==
  ASSUME FreezeInv
  PROVE  \A w \in WasteId : w \notin Existing => ~waste[w].frozen
BY DEF FreezeInv, DisputesNameItems, FrozenIffDisputed

(* What a step that opens and closes no dispute must leave as it is.       *)
FreezeFramed ==
  /\ dispute' = dispute
  /\ Existing \subseteq Existing'
  /\ \A w \in WasteId : waste'[w].frozen = waste[w].frozen

LEMMA FreezeFrame ==
  ASSUME FreezeInv, FreezeFramed, TypeOK' PROVE FreezeInv'
BY DEF FreezeInv, FreezeFramed, DisputesNameItems, FrozenIffDisputed

LEMMA FramedRegistry == TypeOK /\ (Tick \/ Registry) => FreezeFramed
BY DEF FreezeFramed, Existing, custody, cases, Tick, Registry, DeregisterParticipant,
       RegisterParticipant, UpdateRole, Pause, Unpause, SetWasteTtl

LEMMA FramedNewItems == FreezeInv /\ NewItems => FreezeFramed
<1> SUFFICES ASSUME FreezeInv, NewItems PROVE FreezeFramed
  OBVIOUS
<1>0. /\ ItemsTyped /\ count \in Nat /\ Existing \subseteq WasteId
      /\ \A w \in WasteId : w \notin Existing => ~waste[w].frozen
      /\ \A w \in Existing : w # count + 1 /\ w # count + 2
  BY NewIdsUnfrozen, ExistingIds DEF FreezeInv, TypeOK
<1>2. \A w \in WasteId : w \notin Existing => waste[w].frozen = FALSE
  BY <1>0 DEF ItemsTyped, WasteRecord
<1>3. \A a, e : NewWaste(a, e).frozen = FALSE
  BY DEF NewWaste, Blank
<1>1. /\ dispute' = dispute
      /\ count' \in {count + 1, count + 2}
  BY DEF NewItems, RecycleWaste, TransferCollected, SplitWaste, MergeWastes, cases
<1>4. Existing \subseteq Existing'
  BY <1>0, <1>1 DEF Existing
<1>5. ASSUME NEW a, NEW e, waste' = [waste EXCEPT ![count + 1] = NewWaste(a, e)],
             count + 1 \in WasteId
      PROVE  FreezeFramed
  <2>1. \A w \in WasteId : waste'[w] = IF w = count + 1 THEN NewWaste(a, e) ELSE waste[w]
    BY <1>0, <1>5 DEF ItemsTyped
  <2>2. waste[count + 1].frozen = FALSE
    BY <1>0, <1>5, <1>2
  <2>3. ASSUME NEW w \in WasteId PROVE waste'[w].frozen = waste[w].frozen
    <3>1. CASE w = count + 1
      BY <1>3, <2>1, <2>2, <3>1
    <3>2. CASE w # count + 1
      BY <2>1, <3>2
    <3> QED
      BY <3>1, <3>2
  <2> QED
    BY <1>1, <1>4, <2>3 DEF FreezeFramed
<1> USE DEF FreezeFramed
<1>6. ASSUME NEW a \in Address, RecycleWaste(a) PROVE FreezeFramed
  <2>1. PICK e : waste' = [waste EXCEPT ![count + 1] = NewWaste(a, e)]
    BY <1>6 DEF RecycleWaste
  <2> QED
    BY <1>5, <2>1, <1>6 DEF RecycleWaste
<1>7. ASSUME NEW c \in Address, NEW m \in Address, TransferCollected(c, m) PROVE FreezeFramed
  BY <1>7, <1>5 DEF TransferCollected
<1>8. ASSUME NEW a, NEW old, NEW new \in SUBSET {count + 1, count + 2}, Reissue(a, old, new)
      PROVE  FreezeFramed
  <2>1. ASSUME NEW w \in WasteId PROVE waste'[w].frozen = waste[w].frozen
    <3>1. waste'[w] = IF w \in new THEN NewWaste(a, 0) ELSE Deactivated(old)[w]
      BY <1>8 DEF Reissue
    <3>2. CASE w \in new
      <4>1. w \notin Existing
        BY <1>0, <1>8, <3>2
      <4> QED
        BY <1>3, <1>2, <3>1, <3>2, <4>1
    <3>3. CASE w \notin new
      BY <1>0, <3>1, <3>3, DeactivatedType
    <3> QED
      BY <3>2, <3>3
  <2> QED
    BY <1>1, <1>4, <2>1
<1>9. ASSUME NEW w \in Existing, SplitWaste(w) PROVE FreezeFramed
  BY <1>8, <1>9 DEF SplitWaste
<1>10. ASSUME NEW v \in Existing, NEW w \in Existing, MergeWastes(v, w) PROVE FreezeFramed
  BY <1>8, <1>10 DEF MergeWastes
<1> QED
  BY <1>6, <1>7, <1>9, <1>10 DEF NewItems

(* No move of an item touches a freeze.                                    *)
LEMMA FramedTransfers == TypeOK /\ Transfers => FreezeFramed
<1> SUFFICES ASSUME TypeOK, Transfers PROVE FreezeFramed
  OBVIOUS
<1>0. waste \in [WasteId -> WasteRecord]
  BY DEF TypeOK, ItemsTyped
<1> USE <1>0 DEF FreezeFramed, Existing, cases, custody, WasteRecord
<1>1. ASSUME NEW w \in Existing, NEW a \in Address, TransferWaste(w, a) PROVE FreezeFramed
  BY <1>1 DEF TransferWaste
<1>2. ASSUME NEW w \in Existing, NEW a \in Address, AdminOverride(w, a) PROVE FreezeFramed
  BY <1>2 DEF AdminOverride
<1>3. ASSUME NEW w \in Existing, NEW a \in Address, InitiateTransfer(w, a) PROVE FreezeFramed
  BY <1>3 DEF InitiateTransfer
<1>4. ASSUME NEW b, NEW a \in Address, BatchTransfer(b, a) PROVE FreezeFramed
  BY <1>4 DEF BatchTransfer
<1>5. ASSUME NEW i, ApproveTransfer(i) PROVE FreezeFramed
  BY <1>5 DEF ApproveTransfer
<1>6. ASSUME NEW i, RejectTransfer(i) \/ ExpireTransfer(i) PROVE FreezeFramed
  BY <1>6 DEF RejectTransfer, ExpireTransfer
<1> QED
  BY <1>1, <1>2, <1>3, <1>4, <1>5, <1>6 DEF Transfers

LEMMA FramedAuctions == TypeOK /\ Auctions => FreezeFramed
<1> SUFFICES ASSUME TypeOK, Auctions PROVE FreezeFramed
  OBVIOUS
<1>0. waste \in [WasteId -> WasteRecord]
  BY DEF TypeOK, ItemsTyped
<1> USE <1>0 DEF FreezeFramed, Existing, custody, WasteRecord
<1>1. ASSUME NEW w, NEW d, CreateAuction(w, d) PROVE FreezeFramed
  BY <1>1 DEF CreateAuction
<1>2. ASSUME NEW i, NEW a, NEW amount, PlaceBid(i, a, amount) PROVE FreezeFramed
  BY <1>2 DEF PlaceBid
<1>3. ASSUME NEW i, EndAuction(i) PROVE FreezeFramed
  BY <1>3 DEF EndAuction
<1>4. ASSUME NEW i, CancelAuction(i) PROVE FreezeFramed
  BY <1>4 DEF CancelAuction
<1> QED
  BY <1>1, <1>2, <1>3, <1>4 DEF Auctions

(* Opening a dispute freezes an item that was not frozen, so the new       *)
(* dispute is the only pending one about it.                               *)
LEMMA DisputeOpened ==
  ASSUME FreezeInv, TypeOK', NEW w \in Existing, NEW a \in Address, CreateDispute(w, a)
  PROVE  FreezeInv'
<1> DEFINE d == [waste |-> w, status |-> "Pending"]
<1>0. /\ waste \in [WasteId -> WasteRecord] /\ dispute \in Seq(Dispute) /\ w \in WasteId
      /\ count' = count /\ ~waste[w].frozen
      /\ waste' = [waste EXCEPT ![w].frozen = TRUE]
      /\ dispute' = Append(dispute, d)
  BY ExistingIds DEF FreezeInv, TypeOK, ItemsTyped, CasesTyped, CreateDispute
<1>1. /\ Len(dispute) \in Nat
      /\ DOMAIN dispute = 1 .. Len(dispute) /\ DOMAIN dispute' = 1 .. Len(dispute) + 1
      /\ \A i \in DOMAIN dispute : dispute'[i] = dispute[i]
      /\ dispute'[Len(dispute) + 1] = d
  BY <1>0
<1>2. \A x \in WasteId : waste'[x].frozen = IF x = w THEN TRUE ELSE waste[x].frozen
  BY <1>0 DEF WasteRecord
<1>3. \A i \in DOMAIN dispute : ~(dispute[i].waste = w /\ dispute[i].status = "Pending")
  BY <1>0 DEF FreezeInv, FrozenIffDisputed
<1>4. DisputesNameItems'
  BY <1>0, <1>1 DEF FreezeInv, DisputesNameItems, Existing
<1>5. ASSUME NEW x \in WasteId
      PROVE  waste'[x].frozen <=> \E i \in DOMAIN dispute' :
               dispute'[i].waste = x /\ dispute'[i].status = "Pending"
  <2>1. CASE x = w
    <3>1. waste'[x].frozen
      BY <1>2, <2>1
    <3>2. Len(dispute) + 1 \in DOMAIN dispute' /\ d.waste = x /\ d.status = "Pending"
      BY <1>1, <2>1
    <3> QED
      BY <1>1, <3>1, <3>2
  <2>2. CASE x # w
    <3>1. waste'[x].frozen = waste[x].frozen
      BY <1>2, <2>2
    <3>2. waste[x].frozen <=> Disputed(x)
      BY DEF FreezeInv, FrozenIffDisputed, Disputed
    <3>3. Disputed(x) => Disputed(x)'
      BY <1>1 DEF Disputed
    <3>4. d.waste # x
      BY <2>2
    <3>5. Disputed(x)' => Disputed(x)
      BY <1>1, <3>4 DEF Disputed
    <3> QED
      BY <3>1, <3>2, <3>3, <3>5 DEF Disputed
  <2> QED
    BY <2>1, <2>2
<1>6. ASSUME NEW i \in DOMAIN dispute', NEW j \in DOMAIN dispute',
             dispute'[i].waste = dispute'[j].waste,
             dispute'[i].status = "Pending", dispute'[j].status = "Pending"
      PROVE  i = j
  BY <1>1, <1>3, <1>6 DEF FreezeInv, FrozenIffDisputed
<1> QED
  BY <1>4, <1>5, <1>6 DEF FreezeInv, FrozenIffDisputed

(* Resolving a dispute lifts the freeze, and no other pending dispute      *)
(* about the item is left behind.                                          *)
LEMMA DisputeResolved ==
  ASSUME FreezeInv, TypeOK', NEW k \in DOMAIN dispute, NEW accepted \in BOOLEAN,
         ResolveDispute(k, accepted)
  PROVE  FreezeInv'
<1> DEFINE w == dispute[k].waste
<1>0. /\ waste \in [WasteId -> WasteRecord] /\ dispute \in Seq(Dispute)
      /\ count' = count /\ dispute[k].status = "Pending"
      /\ waste' = [waste EXCEPT ![w].frozen = FALSE]
  BY DEF FreezeInv, TypeOK, ItemsTyped, CasesTyped, ResolveDispute
<1>1. PICK st \in {"Resolved", "Rejected"} : dispute' = [dispute EXCEPT ![k].status = st]
  BY DEF ResolveDispute
<1>2. /\ DOMAIN dispute' = DOMAIN dispute
      /\ \A i \in DOMAIN dispute : i # k => dispute'[i] = dispute[i]
  BY <1>0, <1>1
<1>3. dispute[k] \in Dispute
  BY <1>0
<1>4. dispute'[k].waste = w /\ dispute'[k].status # "Pending"
  BY <1>0, <1>1, <1>3 DEF Dispute
<1>5. \A x \in WasteId : waste'[x].frozen = IF x = w THEN FALSE ELSE waste[x].frozen
  BY <1>0 DEF WasteRecord
<1>6. DisputesNameItems'
  BY <1>0, <1>2, <1>4 DEF FreezeInv, DisputesNameItems, Existing
<1>7. \A i \in DOMAIN dispute :
        i # k => ~(dispute[i].waste = w /\ dispute[i].status = "Pending")
  BY <1>0 DEF FreezeInv, FrozenIffDisputed
<1>8. ASSUME NEW x \in WasteId
      PROVE  waste'[x].frozen <=> \E i \in DOMAIN dispute' :
               dispute'[i].waste = x /\ dispute'[i].status = "Pending"
  <2>1. CASE x = w
    BY <1>2, <1>4, <1>5, <1>7, <2>1
  <2>2. CASE x # w
    <3>1. waste'[x].frozen = waste[x].frozen
      BY <1>5, <2>2
    <3>2. waste[x].frozen <=> Disputed(x)
      BY DEF FreezeInv, FrozenIffDisputed, Disputed
    <3>3. Disputed(x)' <=> Disputed(x)
      BY <1>2, <1>4, <2>2 DEF Disputed
    <3> QED
      BY <3>1, <3>2, <3>3 DEF Disputed
  <2> QED
    BY <2>1, <2>2
<1>9. ASSUME NEW i \in DOMAIN dispute', NEW j \in DOMAIN dispute',
             dispute'[i].waste = dispute'[j].waste,
             dispute'[i].status = "Pending", dispute'[j].status = "Pending"
      PROVE  i = j
  BY <1>2, <1>4, <1>9 DEF FreezeInv, FrozenIffDisputed
<1> QED
  BY <1>6, <1>8, <1>9 DEF FreezeInv, FrozenIffDisputed

LEMMA FramedCaseWork ==
  ASSUME TypeOK, CaseWork,
         ~ \E w \in Existing, a \in Address : CreateDispute(w, a),
         ~ \E i \in DOMAIN dispute, accepted \in BOOLEAN : ResolveDispute(i, accepted)
  PROVE  FreezeFramed
<1>0. waste \in [WasteId -> WasteRecord] /\ ItemsTyped
  BY DEF TypeOK, ItemsTyped
<1> USE <1>0 DEF FreezeFramed, Existing, cases, WasteRecord
<1>1. ASSUME NEW w, NEW a, NEW d, ReserveWaste(w, a, d) PROVE FreezeFramed
  BY <1>1 DEF ReserveWaste
<1>2. ASSUME NEW w, CancelReservation(w) PROVE FreezeFramed
  BY <1>2 DEF CancelReservation
<1>3. ASSUME NEW S, waste' = Deactivated(S), count' = count, dispute' = dispute
      PROVE  FreezeFramed
  BY <1>3, DeactivatedType
<1> QED
  BY <1>1, <1>2, <1>3 DEF CaseWork, DeactivateWaste, SubstituteWaste, CleanupExpired

(* An item is frozen exactly while one dispute about it is pending: no     *)
(* interleaving of transfers, auctions, splits and merges with the dispute *)
(* calls leaves an item frozen with nothing to resolve, or lets one        *)
(* resolution lift the freeze another dispute relies on.                   *)
THEOREM FreezeCorrect == Spec => []FrozenIffDisputed
<1>1. Init => FreezeInv
  <2> SUFFICES ASSUME Init PROVE FreezeInv
    OBVIOUS
  <2>1. TypeOK
    BY TypeInit
  <2>2. dispute = <<>> /\ \A w \in WasteId : ~waste[w].frozen
    BY DEF Init, Blank
  <2> QED
    BY <2>1, <2>2 DEF FreezeInv, DisputesNameItems, FrozenIffDisputed
<1>2. FreezeInv /\ TypeOK' /\ [Next]_vars => FreezeInv'
  <2> SUFFICES ASSUME FreezeInv, TypeOK', [Next]_vars PROVE FreezeInv'
    OBVIOUS
  <2>1. CASE UNCHANGED vars
    BY <2>1 DEF vars, custody, cases, FreezeInv, DisputesNameItems, FrozenIffDisputed, Existing
  <2>2. CASE Tick \/ Registry \/ NewItems \/ Transfers \/ Auctions
    BY <2>2, FreezeFrame, FramedRegistry, FramedNewItems, FramedTransfers, FramedAuctions
    DEF FreezeInv
  <2>3. CASE CaseWork
    BY <2>3, FreezeFrame, FramedCaseWork, DisputeOpened, DisputeResolved DEF FreezeInv
  <2> QED
    BY <2>1, <2>2, <2>3 DEF Next
<1>3. FreezeInv => FrozenIffDisputed
  BY DEF FreezeInv
<1> QED
  BY <1>1, <1>2, <1>3, TypeCorrect, PTL DEF Spec

-----------------------------------------------------------------------------
(* Who writes what: the offers, the disputes and the auctions change only  *)
(* in the calls that are about them.                                       *)
LEMMA OfferWriters ==
  ASSUME [Next]_vars, pending' # pending
  PROVE  \/ \E w \in Existing, a \in Address : InitiateTransfer(w, a)
         \/ \E i \in DOMAIN pending :
              ApproveTransfer(i) \/ RejectTransfer(i) \/ ExpireTransfer(i)
<1>1. ~(Tick \/ Registry \/ UNCHANGED vars)
  BY DEF Tick, Registry, DeregisterParticipant, RegisterParticipant, UpdateRole, Pause,
         Unpause, SetWasteTtl, cases, vars
<1>2. ~NewItems
  BY DEF NewItems, RecycleWaste, TransferCollected, SplitWaste, MergeWastes, cases
<1>3. ~Auctions
  BY DEF Auctions, CreateAuction, PlaceBid, EndAuction, CancelAuction
<1>4. ~CaseWork
  BY DEF CaseWork, CreateDispute, ReserveWaste, ResolveDispute, DeactivateWaste,
         SubstituteWaste, CancelReservation, CleanupExpired, cases
<1> QED
  BY <1>1, <1>2, <1>3, <1>4
  DEF Next, Transfers, TransferWaste, AdminOverride, BatchTransfer, cases

LEMMA DisputeWriters ==
  ASSUME [Next]_vars, dispute' # dispute
  PROVE  \/ \E w \in Existing, a \in Address : CreateDispute(w, a)
         \/ \E i \in DOMAIN dispute, accepted \in BOOLEAN : ResolveDispute(i, accepted)
<1>1. ~(Tick \/ Registry \/ UNCHANGED vars)
  BY DEF Tick, Registry, DeregisterParticipant, RegisterParticipant, UpdateRole, Pause,
         Unpause, SetWasteTtl, cases, vars
<1>2. ~NewItems
  BY DEF NewItems, RecycleWaste, TransferCollected, SplitWaste, MergeWastes, cases
<1>3. ~Auctions
  BY DEF Auctions, CreateAuction, PlaceBid, EndAuction, CancelAuction
<1>4. ~Transfers
  BY DEF Transfers, TransferWaste, AdminOverride, InitiateTransfer, BatchTransfer,
         ApproveTransfer, RejectTransfer, ExpireTransfer, cases
<1> QED
  BY <1>1, <1>2, <1>3, <1>4
  DEF Next, CaseWork, ReserveWaste, DeactivateWaste, SubstituteWaste, CancelReservation,
      CleanupExpired, cases

LEMMA AuctionWriters ==
  ASSUME [Next]_vars, auction' # auction
  PROVE  \/ \E w \in Existing, d \in AuctionSpans : CreateAuction(w, d)
         \/ \E i \in DOMAIN auction :
              \/ \E a \in Address, amount \in Bids : PlaceBid(i, a, amount)
              \/ EndAuction(i) \/ CancelAuction(i)
<1>1. ~(Tick \/ Registry \/ UNCHANGED vars)
  BY DEF Tick, Registry, DeregisterParticipant, RegisterParticipant, UpdateRole, Pause,
         Unpause, SetWasteTtl, cases, vars
<1>2. ~NewItems
  BY DEF NewItems, RecycleWaste, TransferCollected, SplitWaste, MergeWastes, cases
<1>3. ~CaseWork
  BY DEF CaseWork, CreateDispute, ReserveWaste, ResolveDispute, DeactivateWaste,
         SubstituteWaste, CancelReservation, CleanupExpired, cases
<1>4. ~Transfers
  BY DEF Transfers, TransferWaste, AdminOverride, InitiateTransfer, BatchTransfer,
         ApproveTransfer, RejectTransfer, ExpireTransfer, cases
<1> QED
  BY <1>1, <1>2, <1>3, <1>4 DEF Next, Auctions

-----------------------------------------------------------------------------
(* What the three action properties about them say of one step.            *)
OffersSettled ==
  \A i \in DOMAIN pending : pending[i].status # "Pending" => pending'[i] = pending[i]
DisputesSettled ==
  \A i \in DOMAIN dispute : dispute[i].status # "Pending" => dispute'[i] = dispute[i]
AuctionsSettled ==
  \A i \in DOMAIN auction : auction[i].status = "Removed" => auction'[i] = auction[i]

LEMMA OffersStep == TypeOK /\ [Next]_vars => OffersSettled
<1> SUFFICES ASSUME TypeOK, [Next]_vars PROVE OffersSettled
  OBVIOUS
<1>0. pending \in Seq(PendingTransfer)
  BY DEF TypeOK, CasesTyped
<1>1. CASE pending' = pending
  BY <1>1 DEF OffersSettled
<1>2. ASSUME NEW w, NEW a, InitiateTransfer(w, a) PROVE OffersSettled
  BY <1>0, <1>2 DEF InitiateTransfer, OffersSettled
<1>3. ASSUME NEW i \in DOMAIN pending,
             ApproveTransfer(i) \/ RejectTransfer(i) \/ ExpireTransfer(i)
      PROVE  OffersSettled
  <2>1. pending[i].status = "Pending"
    BY <1>3 DEF ApproveTransfer, RejectTransfer, ExpireTransfer
  <2>2. \A j \in DOMAIN pending : j # i => pending'[j] = pending[j]
    BY <1>0, <1>3 DEF ApproveTransfer, RejectTransfer, ExpireTransfer
  <2> QED
    BY <2>1, <2>2 DEF OffersSettled
<1> QED
  BY <1>1, <1>2, <1>3, OfferWriters

LEMMA DisputesStep == TypeOK /\ [Next]_vars => DisputesSettled
<1> SUFFICES ASSUME TypeOK, [Next]_vars PROVE DisputesSettled
  OBVIOUS
<1>0. dispute \in Seq(Dispute)
  BY DEF TypeOK, CasesTyped
<1>1. CASE dispute' = dispute
  BY <1>1 DEF DisputesSettled
<1>2. ASSUME NEW w, NEW a, CreateDispute(w, a) PROVE DisputesSettled
  BY <1>0, <1>2 DEF CreateDispute, DisputesSettled
<1>3. ASSUME NEW i \in DOMAIN dispute, NEW accepted \in BOOLEAN, ResolveDispute(i, accepted)
      PROVE  DisputesSettled
  <2>1. dispute[i].status = "Pending"
    BY <1>3 DEF ResolveDispute
  <2>2. \A j \in DOMAIN dispute : j # i => dispute'[j] = dispute[j]
    BY <1>0, <1>3 DEF ResolveDispute
  <2> QED
    BY <2>1, <2>2 DEF DisputesSettled
<1> QED
  BY <1>1, <1>2, <1>3, DisputeWriters

(* An auction that is not the one a call is about stays as it is.          *)
LEMMA AuctionRewritten ==
  ASSUME TypeOK, NEW i \in DOMAIN auction,
         \/ \E a \in Address, amount \in Bids : PlaceBid(i, a, amount)
         \/ EndAuction(i) \/ CancelAuction(i)
  PROVE  /\ auction[i].status # "Removed"
         /\ DOMAIN auction' = DOMAIN auction
         /\ \A j \in DOMAIN auction : j # i => auction'[j] = auction[j]
         /\ auction'[i].waste = auction[i].waste
<1>0. auction \in Seq(Auction) /\ auction[i] \in Auction
  BY DEF TypeOK, CasesTyped
<1>1. ASSUME NEW a, NEW amount, PlaceBid(i, a, amount)
      PROVE  /\ auction[i].status # "Removed"
             /\ DOMAIN auction' = DOMAIN auction
             /\ \A j \in DOMAIN auction : j # i => auction'[j] = auction[j]
             /\ auction'[i].waste = auction[i].waste
  BY <1>0, <1>1 DEF PlaceBid, Auction
<1>2. CASE EndAuction(i)
  BY <1>0, <1>2 DEF EndAuction, Auction
<1>3. CASE CancelAuction(i)
  BY <1>0, <1>3 DEF CancelAuction, Auction
<1> QED
  BY <1>1, <1>2, <1>3

LEMMA AuctionsStep == TypeOK /\ [Next]_vars => AuctionsSettled
<1> SUFFICES ASSUME TypeOK, [Next]_vars PROVE AuctionsSettled
  OBVIOUS
<1>0. auction \in Seq(Auction)
  BY DEF TypeOK, CasesTyped
<1>1. CASE auction' = auction
  BY <1>1 DEF AuctionsSettled
<1>2. ASSUME NEW w, NEW d, CreateAuction(w, d) PROVE AuctionsSettled
  BY <1>0, <1>2 DEF CreateAuction, AuctionsSettled
<1> QED
  BY <1>1, <1>2, AuctionRewritten, AuctionWriters DEF AuctionsSettled

(* Offers, disputes and removed auctions that were settled stay as they    *)
(* are, whichever of approve_transfer, reject_transfer and expire_transfer *)
(* comes late.                                                             *)
THEOREM SettledForGood == Spec => SettledStaysSettled
<1>1. TypeOK /\ [Next]_vars => [OffersSettled /\ DisputesSettled /\ AuctionsSettled]_vars
  BY OffersStep, DisputesStep, AuctionsStep
<1>2. [][OffersSettled /\ DisputesSettled /\ AuctionsSettled]_vars => SettledStaysSettled
  BY PTL DEF SettledStaysSettled, OffersSettled, DisputesSettled, AuctionsSettled
<1> QED
  BY <1>1, <1>2, TypeCorrect, PTL DEF Spec

-----------------------------------------------------------------------------
BidsRise ==
  \A i \in DOMAIN auction :
    /\ auction'[i].bid >= auction[i].bid
    /\ auction'[i].bidder # auction[i].bidder
       => auction'[i].bid > auction[i].bid /\ now < auction[i].ends

LEMMA BidsStep == TypeOK /\ [Next]_vars => BidsRise
<1> SUFFICES ASSUME TypeOK, [Next]_vars, NEW i \in DOMAIN auction
             PROVE  /\ auction'[i].bid >= auction[i].bid
                    /\ auction'[i].bidder # auction[i].bidder
                       => auction'[i].bid > auction[i].bid /\ now < auction[i].ends
  BY DEF BidsRise
<1>0. auction \in Seq(Auction) /\ auction[i] \in Auction
  BY DEF TypeOK, CasesTyped
<1>a. auction[i].bid \in Nat
  BY <1>0 DEF Auction
<1>1. CASE auction'[i] = auction[i]
  BY <1>a, <1>1
<1>2. ASSUME NEW w, NEW d, CreateAuction(w, d) PROVE auction'[i] = auction[i]
  BY <1>0, <1>2 DEF CreateAuction
<1>3. ASSUME NEW a \in Address, NEW amount \in Bids, PlaceBid(i, a, amount)
      PROVE  /\ auction'[i].bid > auction[i].bid /\ now < auction[i].ends
             /\ auction'[i].bid \in Nat
  <2>1. amount > auction[i].bid /\ now < auction[i].ends
    BY <1>3 DEF PlaceBid, ValidBid
  <2>2. auction'[i].bid = amount
    BY <1>0, <1>3 DEF PlaceBid, Auction
  <2> QED
    BY <2>1, <2>2, PriceAssumption
<1>4. CASE EndAuction(i) \/ CancelAuction(i)
  <2>1. auction'[i].bid = auction[i].bid /\ auction'[i].bidder = auction[i].bidder
    BY <1>0, <1>4 DEF EndAuction, CancelAuction, Auction
  <2> QED
    BY <1>a, <2>1
<1>5. CASE \E a \in Address, amount \in Bids : PlaceBid(i, a, amount)
  BY <1>a, <1>3, <1>5
<1> QED
  BY <1>1, <1>2, <1>4, <1>5, AuctionRewritten, AuctionWriters

(* A bid only rises, and only a higher bid before the end of the auction   *)
(* makes somebody else the bidder (place_bid, Auction::is_valid_bid).      *)
THEOREM BidsNeverFall == Spec => BidsOnlyRise
<1>1. TypeOK /\ [Next]_vars => [BidsRise]_vars
  BY BidsStep
<1>2. [][BidsRise]_vars => BidsOnlyRise
  BY PTL DEF BidsOnlyRise, BidsRise
<1> QED
  BY <1>1, <1>2, TypeCorrect, PTL DEF Spec

-----------------------------------------------------------------------------
(* What a pause leaves of the calls.                                       *)
LEMMA PausedCalls ==
  ASSUME [Next]_vars, paused
  PROVE  \/ Tick \/ Unpause \/ \E t \in Ttls : SetWasteTtl(t)
         \/ \E i \in DOMAIN pending : ExpireTransfer(i)
         \/ \E i \in DOMAIN dispute, accepted \in BOOLEAN : ResolveDispute(i, accepted)
         \/ \E S \in SUBSET Existing : DeactivateWaste(S)
         \/ CleanupExpired
         \/ UNCHANGED vars
<1>1. CASE Registry
  BY <1>1 DEF Registry, DeregisterParticipant, RegisterParticipant, UpdateRole, Pause
<1>2. ~NewItems
  BY DEF NewItems, RecycleWaste, TransferCollected, SplitWaste, MergeWastes
<1>3. ~Auctions
  BY DEF Auctions, CreateAuction, PlaceBid, EndAuction, CancelAuction
<1>4. CASE Transfers
  BY <1>4 DEF Transfers, TransferWaste, AdminOverride, InitiateTransfer, BatchTransfer,
              ApproveTransfer, RejectTransfer
<1>5. CASE CaseWork
  BY <1>5 DEF CaseWork, CreateDispute, ReserveWaste, SubstituteWaste, CancelReservation
<1> QED
  BY <1>1, <1>2, <1>3, <1>4, <1>5 DEF Next

HandsKept ==
  paused =>
    /\ count' = count /\ history' = history
    /\ \A w \in WasteId : /\ waste'[w].owner = waste[w].owner
                          /\ waste'[w].reservedBy = waste[w].reservedBy
    /\ Len(pending') = Len(pending) /\ auction' = auction

LEMMA PausedStep == TypeOK /\ [Next]_vars => HandsKept
<1> SUFFICES ASSUME TypeOK, [Next]_vars, paused PROVE HandsKept
  BY DEF HandsKept
<1>0. /\ ItemsTyped /\ waste \in [WasteId -> WasteRecord]
      /\ pending \in Seq(PendingTransfer)
  BY DEF TypeOK, ItemsTyped, CasesTyped
<1> USE DEF HandsKept, custody, cases
<1>1. CASE Tick \/ Unpause \/ (\E t \in Ttls : SetWasteTtl(t)) \/ UNCHANGED vars
  BY <1>1 DEF Tick, Unpause, SetWasteTtl, vars
<1>2. ASSUME NEW i \in DOMAIN pending, ExpireTransfer(i) PROVE HandsKept
  BY <1>0, <1>2 DEF ExpireTransfer
<1>3. ASSUME NEW i \in DOMAIN dispute, NEW accepted \in BOOLEAN, ResolveDispute(i, accepted)
      PROVE  HandsKept
  <2>1. \A w \in WasteId : /\ waste'[w].owner = waste[w].owner
                           /\ waste'[w].reservedBy = waste[w].reservedBy
    BY <1>0, <1>3 DEF ResolveDispute, WasteRecord
  <2> QED
    BY <1>3, <2>1 DEF ResolveDispute
<1>4. ASSUME NEW S, waste' = Deactivated(S) PROVE
        \A w \in WasteId : /\ waste'[w].owner = waste[w].owner
                           /\ waste'[w].reservedBy = waste[w].reservedBy
  BY <1>0, <1>4 DEF Deactivated, WasteRecord
<1>5. CASE (\E S \in SUBSET Existing : DeactivateWaste(S)) \/ CleanupExpired
  BY <1>4, <1>5 DEF DeactivateWaste, CleanupExpired
<1> QED
  BY <1>1, <1>2, <1>3, <1>5, PausedCalls

(* During a pause no item changes hands, appears or is promised to anyone; *)
(* only the clock, the admin's calls and the expiry of offers go on        *)
(* (require_not_paused).                                                   *)
THEOREM PauseKeepsHands == Spec => PausedKeepsHands
<1>1. TypeOK /\ [Next]_vars => [HandsKept]_vars
  BY PausedStep
<1>2. [][HandsKept]_vars => PausedKeepsHands
  BY PTL DEF PausedKeepsHands, HandsKept
<1> QED
  BY <1>1, <1>2, TypeCorrect, PTL DEF Spec

-----------------------------------------------------------------------------
(* An item whose owner and history a step leaves alone; while it stays     *)
(* active its place on the lists is left alone too.                        *)
ItemKept(w) ==
  /\ waste'[w].owner = waste[w].owner /\ history'[w] = history[w]
  /\ waste'[w].active =>
       waste[w].active /\ \A a \in Address : index'[a][w] = index[a][w]

(* An item that was not there before starts on the list of its owner.      *)
ItemListed(w) ==
  waste'[w].owner \in Address /\ index'[waste'[w].owner][w] > 0

LEMMA ReissueKeeps ==
  ASSUME TypeOK, NEW a \in Address, NEW old, NEW new \in SUBSET WasteId,
         new \cap Existing = {}, Reissue(a, old, new)
  PROVE  /\ \A w \in Existing :
              /\ waste'[w].owner = waste[w].owner
              /\ waste'[w].active =>
                   waste[w].active /\ \A b \in Address : index'[b][w] = index[b][w]
         /\ \A w \in new : ItemListed(w)
<1>0. ItemsTyped /\ ListsTyped /\ Existing \subseteq WasteId /\ new \subseteq WasteId
  BY ExistingIds DEF TypeOK
<1>1. ASSUME NEW w \in WasteId
      PROVE  /\ w \in new => waste'[w] = NewWaste(a, 0) /\ index'[a][w] = index[a][w] + 1
             /\ w \notin new => waste'[w] = Deactivated(old)[w]
             /\ w \notin new /\ w \notin old => index'[a][w] = index[a][w]
             /\ \A b \in Address : b # a => index'[b][w] = index[b][w]
  BY <1>0 DEF Reissue, ListsTyped
<1>2. ASSUME NEW w \in WasteId
      PROVE  /\ Deactivated(old)[w].owner = waste[w].owner
             /\ Deactivated(old)[w].active => waste[w].active /\ w \notin old
  BY <1>0 DEF Deactivated, ItemsTyped, WasteRecord
<1>3. NewWaste(a, 0).owner = a
  BY DEF NewWaste, Blank
<1>4. \A w \in WasteId : index[a][w] \in Nat
  BY <1>0 DEF ListsTyped
<1>5. ASSUME NEW w \in new PROVE ItemListed(w)
  BY <1>0, <1>1, <1>3, <1>4 DEF ItemListed
<1>6. ASSUME NEW w \in Existing
      PROVE  /\ waste'[w].owner = waste[w].owner
             /\ waste'[w].active =>
                  waste[w].active /\ \A b \in Address : index'[b][w] = index[b][w]
  <2>1. w \in WasteId /\ w \notin new
    BY <1>0
  <2>2. waste'[w] = Deactivated(old)[w]
    BY <1>1, <2>1
  <2>3. w \notin old => \A b \in Address : index'[b][w] = index[b][w]
    BY <1>1, <2>1
  <2> QED
    BY <1>2, <2>1, <2>2, <2>3
<1> QED
  BY <1>5, <1>6

LEMMA NewItemsListed ==
  ASSUME TypeOK, NewItems
  PROVE  /\ \A w \in Existing : w \in Existing' /\ ItemKept(w)
         /\ \A w \in Existing' : w \notin Existing => ItemListed(w)
<1>0. /\ ItemsTyped /\ ListsTyped /\ count \in Nat /\ Existing \subseteq WasteId
      /\ \A w \in Existing : w # count + 1 /\ w # count + 2
  BY ExistingIds DEF TypeOK
<1>a. /\ waste \in [WasteId -> WasteRecord] /\ index \in [Address -> [WasteId -> Nat]]
      /\ history \in [WasteId -> Seq(Move)]
  BY <1>0 DEF ItemsTyped, ListsTyped
<1> DEFINE Goal == /\ \A w \in Existing : w \in Existing' /\ ItemKept(w)
                   /\ \A w \in Existing' : w \notin Existing => ItemListed(w)
<1>b. ASSUME count' = count + 1 PROVE Existing' = Existing \cup {count + 1}
  BY <1>0, <1>b DEF Existing
<1>c. ASSUME count' = count + 2 PROVE Existing' = Existing \cup {count + 1, count + 2}
  BY <1>0, <1>c DEF Existing
<1>1. ASSUME NEW a \in Address, NEW e, count + 1 \in WasteId, count' = count + 1,
             waste' = [waste EXCEPT ![count + 1] = NewWaste(a, e)],
             index' = [index EXCEPT ![a][count + 1] = @ + 1],
             \A w \in Existing : history'[w] = history[w]
      PROVE  Goal
  <2>1. waste'[count + 1] = NewWaste(a, e) /\ NewWaste(a, e).owner = a
    BY <1>1, <1>a DEF NewWaste, Blank
  <2>2. index'[a][count + 1] = index[a][count + 1] + 1 /\ index[a][count + 1] \in Nat
    BY <1>1, <1>a
  <2>3. ItemListed(count + 1)
    BY <2>1, <2>2 DEF ItemListed
  <2>4. ASSUME NEW w \in Existing PROVE ItemKept(w)
    <3>1. w # count + 1 /\ w \in WasteId
      BY <1>0
    <3>2. waste'[w] = waste[w] /\ history'[w] = history[w]
      BY <1>1, <1>a, <3>1
    <3>3. \A b \in Address : index'[b][w] = index[b][w]
      BY <1>1, <1>a, <3>1
    <3> QED
      BY <3>2, <3>3 DEF ItemKept
  <2> QED
    BY <1>1, <1>b, <2>3, <2>4
<1>2. ASSUME NEW a \in Address, RecycleWaste(a) PROVE Goal
  <2>1. PICK e : waste' = [waste EXCEPT ![count + 1] = NewWaste(a, e)]
    BY <1>2 DEF RecycleWaste
  <2> QED
    BY <1>1, <1>2, <2>1 DEF RecycleWaste
<1>3. ASSUME NEW c \in Address, NEW m \in Address, TransferCollected(c, m) PROVE Goal
  <2>1. \A w \in Existing : history'[w] = history[w]
    BY <1>0, <1>a, <1>3 DEF TransferCollected
  <2> QED
    BY <1>1, <1>3, <2>1 DEF TransferCollected
<1>4. ASSUME NEW w \in Existing, SplitWaste(w) PROVE Goal
  <2> DEFINE new == {count + 1, count + 2}
  <2>1. new \in SUBSET WasteId /\ new \cap Existing = {} /\ waste[w].owner \in Address
    BY <1>0, <1>4 DEF SplitWaste
  <2>2. Reissue(waste[w].owner, {w}, new)
    BY <1>4 DEF SplitWaste
  <2>3. \A x \in Existing : history'[x] = history[x]
    BY <1>0, <1>a, <1>4, <2>1 DEF SplitWaste
  <2>4. Existing' = Existing \cup new
    BY <1>c, <1>4 DEF SplitWaste
  <2> HIDE DEF new
  <2> QED
    BY <2>1, <2>2, <2>3, <2>4, ReissueKeeps DEF ItemKept
<1>5. ASSUME NEW v \in Existing, NEW w \in Existing, MergeWastes(v, w) PROVE Goal
  <2> DEFINE new == {count + 1}
  <2>1. new \in SUBSET WasteId /\ new \cap Existing = {} /\ waste[v].owner \in Address
    BY <1>0, <1>5 DEF MergeWastes
  <2>2. Reissue(waste[v].owner, {v, w}, new)
    BY <1>5 DEF MergeWastes
  <2>3. \A x \in Existing : history'[x] = history[x]
    BY <1>0, <1>a, <1>5 DEF MergeWastes
  <2>4. Existing' = Existing \cup new
    BY <1>b, <1>5 DEF MergeWastes
  <2> HIDE DEF new
  <2> QED
    BY <2>1, <2>2, <2>3, <2>4, ReissueKeeps DEF ItemKept
<1> QED
  BY <1>2, <1>3, <1>4, <1>5 DEF NewItems

(* The clock, the registry and the case work leave every item in its       *)
(* owner's hands and lists.                                                *)
LEMMA OthersKeep ==
  ASSUME TypeOK, Tick \/ Registry \/ CaseWork \/ UNCHANGED vars
  PROVE  /\ count' = count
         /\ \A w \in Existing : ItemKept(w)
<1>0. ItemsTyped /\ waste \in [WasteId -> WasteRecord] /\ Existing \subseteq WasteId
  BY ExistingIds DEF TypeOK, ItemsTyped
<1> USE <1>0 DEF ItemKept, WasteRecord
<1>1. CASE Tick \/ Registry \/ UNCHANGED vars
  BY <1>1 DEF Tick, Registry, DeregisterParticipant, RegisterParticipant, UpdateRole, Pause,
              Unpause, SetWasteTtl, custody, vars
<1>2. CASE CaseWork
  <2>1. count' = count /\ index' = index /\ history' = history
    BY <1>2 DEF CaseWork, CreateDispute, ReserveWaste, ResolveDispute, DeactivateWaste,
                SubstituteWaste, CancelReservation, CleanupExpired
  <2>2. ASSUME NEW w \in Existing
        PROVE  waste'[w].owner = waste[w].owner /\ (waste'[w].active => waste[w].active)
    <3>1. ASSUME NEW S, waste' = Deactivated(S)
          PROVE  waste'[w].owner = waste[w].owner /\ (waste'[w].active => waste[w].active)
      BY <3>1 DEF Deactivated
    <3>2. ASSUME NEW x, NEW a, CreateDispute(x, a)
          PROVE  waste'[w].owner = waste[w].owner /\ (waste'[w].active => waste[w].active)
      BY <3>2 DEF CreateDispute
    <3>3. ASSUME NEW x, NEW a, NEW d, ReserveWaste(x, a, d)
          PROVE  waste'[w].owner = waste[w].owner /\ (waste'[w].active => waste[w].active)
      BY <3>3 DEF ReserveWaste
    <3>4. ASSUME NEW i, NEW accepted, ResolveDispute(i, accepted)
          PROVE  waste'[w].owner = waste[w].owner /\ (waste'[w].active => waste[w].active)
      BY <3>4 DEF ResolveDispute
    <3>5. ASSUME NEW x, CancelReservation(x)
          PROVE  waste'[w].owner = waste[w].owner /\ (waste'[w].active => waste[w].active)
      BY <3>5 DEF CancelReservation
    <3> QED
      BY <1>2, <3>1, <3>2, <3>3, <3>4, <3>5
      DEF CaseWork, DeactivateWaste, SubstituteWaste, CleanupExpired
  <2> QED
    BY <2>1, <2>2
<1> QED
  BY <1>1, <1>2

-----------------------------------------------------------------------------
(* An item that a transfer moved: the record of it is appended, and says   *)
(* from whom it came or that it was approved; the new owner has it listed, *)
(* except after an admin override.                                         *)
Moved(w) ==
  /\ Len(history'[w]) > Len(history[w])
  /\ \A k \in DOMAIN history[w] : history'[w][k] = history[w][k]
  /\ \E k \in DOMAIN history'[w] :
       history'[w][k].from = waste[w].owner \/ history'[w][k].kind = "approved"
  /\ waste'[w].owner \in Address
  /\ index'[waste'[w].owner][w] > 0 \/ Overridden(w)'

LEMMA RelistCounts ==
  ASSUME ListsTyped, NEW w \in WasteId, NEW x, NEW y \in Address, NEW n \in Nat \ {0}
  PROVE  /\ Relist(w, x, y, n)[y][w] > 0
         /\ \A v \in WasteId : v # w =>
              \A a \in Address : Relist(w, x, y, n)[a][v] = index[a][v]
BY DEF ListsTyped, Relist

(* One record appended to the history of w.                                *)
LEMMA OneRecord ==
  ASSUME ListsTyped, NEW w \in WasteId, NEW r,
         history' = [history EXCEPT ![w] = Append(@, r)]
  PROVE  /\ Len(history'[w]) > Len(history[w])
         /\ \A k \in DOMAIN history[w] : history'[w][k] = history[w][k]
         /\ Len(history'[w]) \in DOMAIN history'[w]
         /\ history'[w][Len(history'[w])] = r
         /\ history'[w] # <<>>
         /\ \A v \in WasteId : v # w => history'[v] = history[v]
<1>1. history[w] \in Seq(Move) /\ history'[w] = Append(history[w], r)
  BY DEF ListsTyped
<1> QED
  BY <1>1 DEF ListsTyped

(* The writes that the single transfers make.                              *)
LEMMA OneMove ==
  ASSUME TypeOK, NEW w \in WasteId, NEW x, NEW y \in Address, NEW k,
         waste' = [waste EXCEPT ![w].owner = y],
         history' = [history EXCEPT ![w] = Append(@, Record(x, y, k))],
         \/ index' = Relist(w, x, y, 1)
         \/ index' = index /\ k = "admin",
         x = waste[w].owner \/ k = "approved"
  PROVE  \A v \in Existing : ItemKept(v) \/ Moved(v)
<1>0. /\ ListsTyped /\ Existing \subseteq WasteId /\ waste \in [WasteId -> WasteRecord]
  BY ExistingIds DEF TypeOK, ItemsTyped
<1> DEFINE r == Record(x, y, k)
<1>1. r.from = x /\ r.kind = k
  BY DEF Record
<1>2. history' = [history EXCEPT ![w] = Append(@, r)]
  OBVIOUS
<1> HIDE DEF r
<1>3. /\ Len(history'[w]) > Len(history[w])
      /\ \A l \in DOMAIN history[w] : history'[w][l] = history[w][l]
      /\ Len(history'[w]) \in DOMAIN history'[w]
      /\ history'[w][Len(history'[w])] = r
      /\ history'[w] # <<>>
      /\ \A v \in WasteId : v # w => history'[v] = history[v]
  BY <1>0, <1>2, OneRecord
<1>4. waste'[w].owner = y /\ \A v \in WasteId : v # w => waste'[v] = waste[v]
  BY <1>0 DEF WasteRecord
<1>5. \A v \in WasteId : v # w => \A a \in Address : index'[a][v] = index[a][v]
  BY <1>0, RelistCounts
<1>6. index'[y][w] > 0 \/ Overridden(w)'
  <2>1. CASE index' = Relist(w, x, y, 1)
    BY <1>0, <2>1, RelistCounts
  <2>2. CASE k = "admin"
    BY <1>1, <1>3, <2>2 DEF Overridden
  <2> QED
    BY <2>1, <2>2
<1>7. Moved(w)
  <2>1. \E l \in DOMAIN history'[w] :
          history'[w][l].from = waste[w].owner \/ history'[w][l].kind = "approved"
    BY <1>1, <1>3
  <2> QED
    BY <1>3, <1>4, <1>6, <2>1 DEF Moved
<1>8. ASSUME NEW v \in Existing, v # w PROVE ItemKept(v)
  <2>1. v \in WasteId
    BY <1>0
  <2> QED
    BY <1>3, <1>4, <1>5, <1>8, <2>1 DEF ItemKept
<1> QED
  BY <1>7, <1>8

LEMMA TransfersMove ==
  ASSUME TypeOK, Transfers
  PROVE  /\ count' = count /\ auction' = auction
         /\ \A w \in Existing : ItemKept(w) \/ Moved(w)
<1>0. /\ ItemsTyped /\ ListsTyped /\ CasesTyped /\ Existing \subseteq WasteId
      /\ waste \in [WasteId -> WasteRecord]
  BY ExistingIds DEF TypeOK, ItemsTyped
<1>a. count' = count /\ auction' = auction
  BY DEF Transfers, TransferWaste, AdminOverride, InitiateTransfer, BatchTransfer,
         ApproveTransfer, RejectTransfer, ExpireTransfer, custody, cases
<1> DEFINE Goal == \A w \in Existing : ItemKept(w) \/ Moved(w)
<1>1. ASSUME NEW w \in Existing, NEW a \in Address, TransferWaste(w, a) PROVE Goal
  BY <1>0, <1>1, OneMove DEF TransferWaste
<1>2. ASSUME NEW w \in Existing, NEW a \in Address, AdminOverride(w, a) PROVE Goal
  BY <1>0, <1>2, OneMove DEF AdminOverride
<1>3. ASSUME NEW w, NEW a, InitiateTransfer(w, a) PROVE Goal
  BY <1>3 DEF InitiateTransfer, custody, ItemKept
<1>4. ASSUME NEW n \in 1 .. MaxBatch, NEW a \in Address,
             NEW b \in [1 .. n -> Existing], BatchTransfer(b, a), NEW w \in Existing
      PROVE  ItemKept(w) \/ Moved(w)
  <2> DEFINE moved == {b[i] : i \in DOMAIN b}
             added == [i \in 1 .. Named(b, w) |-> Record(waste[w].owner, a, "transfer")]
  <2>1. Named(b, w) \in Nat /\ (w \in moved <=> Named(b, w) > 0) /\ w \in WasteId
    BY <1>0, NamedCount, BoundAssumption
  <2>2. history'[w] = history[w] \o added /\ history[w] \in Seq(Move)
    BY <1>0, <1>4, <2>1 DEF BatchTransfer, ListsTyped
  <2>3. added \in Seq({Record(waste[w].owner, a, "transfer")}) /\ Len(added) = Named(b, w)
    BY <2>1
  <2>4. CASE w \in moved
    <3>1. waste'[w].owner = a
      BY <1>0, <1>4, <2>1, <2>4 DEF BatchTransfer, WasteRecord
    <3>2. index'[a][w] > 0
      <4>1. index'[a][w] = Relist(w, waste[w].owner, a, Named(b, w))[a][w]
        BY <1>4, <2>1, <2>4 DEF BatchTransfer
      <4> QED
        BY <1>0, <2>1, <2>4, <4>1, RelistCounts
    <3>3. Named(b, w) \in Nat /\ Named(b, w) > 0
      BY <2>1, <2>4
    <3> DEFINE l == Len(history[w]) + 1
               r == Record(waste[w].owner, a, "transfer")
    <3>4. l \in DOMAIN (history[w] \o added) /\ (history[w] \o added)[l] = r
      BY <2>2, <2>3, <3>3
    <3>5. /\ Len(history[w] \o added) > Len(history[w])
          /\ \A k \in DOMAIN history[w] : (history[w] \o added)[k] = history[w][k]
      BY <2>2, <2>3, <3>3
    <3>6. r.from = waste[w].owner
      BY DEF Record
    <3> HIDE DEF r, l, added
    <3> QED
      BY <2>2, <3>1, <3>2, <3>4, <3>5, <3>6 DEF Moved
  <2>5. CASE w \notin moved
    <3>1. Named(b, w) = 0
      BY <2>1, <2>5
    <3>2. added = <<>>
      BY <3>1
    <3> HIDE DEF added
    <3>3. history'[w] = history[w]
      BY <2>2, <3>2, ConcatEmptySeq
    <3>4. waste'[w] = waste[w] /\ \A x \in Address : index'[x][w] = index[x][w]
      BY <1>4, <2>1, <2>5 DEF BatchTransfer
    <3> QED
      BY <3>3, <3>4 DEF ItemKept
  <2> QED
    BY <2>4, <2>5
<1>5. ASSUME NEW i \in DOMAIN pending, ApproveTransfer(i) PROVE Goal
  <2> DEFINE w == pending[i].waste  x == pending[i].from  y == pending[i].to
  <2>1. w \in WasteId /\ x \in Address /\ y \in Address
    <3>1. pending[i] \in PendingTransfer
      BY <1>0 DEF CasesTyped
    <3> QED
      BY <3>1 DEF PendingTransfer
  <2> QED
    BY <1>5, <2>1, OneMove DEF ApproveTransfer
<1>6. ASSUME NEW i, RejectTransfer(i) \/ ExpireTransfer(i) PROVE Goal
  BY <1>6 DEF RejectTransfer, ExpireTransfer, custody, ItemKept
<1> QED
  BY <1>a, <1>1, <1>2, <1>3, <1>4, <1>5, <1>6 DEF Transfers

-----------------------------------------------------------------------------
(* What the calls of an auction do to an item: nothing, or it goes to the  *)
(* contract as one is opened, or to the winner of one that was running.    *)
PutUp(w) == waste'[w].owner = Contract /\ Len(auction') > Len(auction)

Closed(w, i) ==
  /\ i \in DOMAIN auction /\ auction[i].waste = w
  /\ auction[i].status = "Active" /\ auction[i].bidder # NoOne
  /\ auction' = [auction EXCEPT ![i].status = "Ended"]
  /\ waste'[w].owner = auction[i].bidder

LEMMA AuctionsMove ==
  ASSUME TypeOK, Auctions
  PROVE  /\ count' = count /\ history' = history /\ index' = index
         /\ \A w \in WasteId : waste'[w].active = waste[w].active
         /\ \A w \in WasteId :
              \/ waste'[w].owner = waste[w].owner
              \/ PutUp(w)
              \/ \E i \in DOMAIN auction : Closed(w, i)
<1>0. waste \in [WasteId -> WasteRecord] /\ auction \in Seq(Auction)
  BY DEF TypeOK, ItemsTyped, CasesTyped
<1>1. count' = count /\ history' = history /\ index' = index
  BY DEF Auctions, CreateAuction, PlaceBid, EndAuction, CancelAuction, custody
<1> DEFINE Goal(w) == /\ waste'[w].active = waste[w].active
                      /\ \/ waste'[w].owner = waste[w].owner
                         \/ PutUp(w)
                         \/ \E i \in DOMAIN auction : Closed(w, i)
<1> SUFFICES ASSUME NEW w \in WasteId PROVE Goal(w)
  BY <1>1
<1>2. ASSUME NEW v, NEW d, CreateAuction(v, d) PROVE Goal(w)
  <2>1. Len(auction') > Len(auction)
    BY <1>0, <1>2 DEF CreateAuction
  <2>2. waste' = [waste EXCEPT ![v].owner = Contract]
    BY <1>2 DEF CreateAuction
  <2> HIDE <1>2
  <2> QED
    BY <1>0, <2>1, <2>2 DEF PutUp, WasteRecord
<1>3. ASSUME NEW i \in DOMAIN auction, EndAuction(i) PROVE Goal(w)
  <2>1. CASE waste' = waste
    BY <2>1
  <2>2. CASE waste' # waste
    <3>1. /\ auction[i].bidder # NoOne /\ auction[i].status = "Active"
          /\ auction' = [auction EXCEPT ![i].status = "Ended"]
          /\ waste' = [waste EXCEPT ![auction[i].waste].owner = auction[i].bidder]
      BY <1>3, <2>2 DEF EndAuction
    <3>2. CASE auction[i].waste = w
      BY <1>0, <3>1, <3>2 DEF Closed, WasteRecord
    <3>3. CASE auction[i].waste # w
      BY <1>0, <3>1, <3>3
    <3> QED
      BY <3>2, <3>3
  <2> QED
    BY <2>1, <2>2
<1>4. ASSUME NEW i, NEW a, NEW amount, PlaceBid(i, a, amount) \/ CancelAuction(i) PROVE Goal(w)
  BY <1>4 DEF PlaceBid, CancelAuction, custody
<1> QED
  BY <1>2, <1>3, <1>4 DEF Auctions

-----------------------------------------------------------------------------
Accounted ==
  \A w \in Existing :
    waste'[w].owner # waste[w].owner
    => \/ Len(history'[w]) > Len(history[w])
       \/ Len(auction') > Len(auction)
       \/ \E i \in DOMAIN auction :
            /\ auction[i].waste = w
            /\ auction[i].status = "Active" /\ auction'[i].status = "Ended"

LEMMA AccountedStep == TypeOK /\ [Next]_vars => Accounted
<1> SUFFICES ASSUME TypeOK, [Next]_vars PROVE Accounted
  OBVIOUS
<1>0. Existing \subseteq WasteId /\ auction \in Seq(Auction)
  BY ExistingIds DEF TypeOK, CasesTyped
<1>1. CASE Tick \/ Registry \/ CaseWork \/ UNCHANGED vars
  BY <1>1, OthersKeep DEF Accounted, ItemKept
<1>2. CASE NewItems
  BY <1>2, NewItemsListed DEF Accounted, ItemKept
<1>3. CASE Transfers
  BY <1>3, TransfersMove DEF Accounted, ItemKept, Moved
<1>4. CASE Auctions
  <2>1. ASSUME NEW w, NEW i, Closed(w, i)
        PROVE  /\ auction[i].waste = w /\ i \in DOMAIN auction
               /\ auction[i].status = "Active" /\ auction'[i].status = "Ended"
    <3>1. auction[i] \in Auction /\ auction'[i] = [auction[i] EXCEPT !.status = "Ended"]
      BY <1>0, <2>1 DEF Closed
    <3> QED
      BY <2>1, <3>1 DEF Closed, Auction
  <2>2. ASSUME NEW w \in Existing, waste'[w].owner # waste[w].owner
        PROVE  PutUp(w) \/ \E i \in DOMAIN auction : Closed(w, i)
    BY <1>0, <1>4, <2>2, AuctionsMove
  <2> QED
    BY <2>1, <2>2 DEF Accounted, PutUp
<1> QED
  BY <1>1, <1>2, <1>3, <1>4 DEF Next

(* The owner of an item changes only with a record of it, with an auction  *)
(* that opens, or with the close of an auction that was running; a closed  *)
(* auction never hands the item over again (end_auction).                  *)
THEOREM NoSilentHandover == Spec => HandoversAccounted
<1>1. TypeOK /\ [Next]_vars => [Accounted]_vars
  BY AccountedStep
<1>2. [][Accounted]_vars => HandoversAccounted
  BY PTL DEF HandoversAccounted, Accounted
<1> QED
  BY <1>1, <1>2, TypeCorrect, PTL DEF Spec

-----------------------------------------------------------------------------
(* Why OwnerListed holds, item by item.                                    *)
Listed(w) ==
  waste[w].active /\ waste[w].owner # Contract
  => index[waste[w].owner][w] > 0 \/ Overridden(w) \/ WonBy(w, waste[w].owner)

(* Who won an auction has won it for good.                                 *)
LEMMA WonForGood ==
  ASSUME TypeOK, [Next]_vars, NEW w, NEW a \in Address, WonBy(w, a)
  PROVE  WonBy(w, a)'
<1>0. auction \in Seq(Auction) /\ a # NoOne
  BY PartyAssumption DEF TypeOK, CasesTyped
<1>1. PICK i \in DOMAIN auction :
        auction[i].waste = w /\ auction[i].status = "Ended" /\ auction[i].bidder = a
  BY DEF WonBy
<1>2. i \in DOMAIN auction' /\ auction'[i] = auction[i]
  <2>1. CASE auction' = auction
    BY <2>1
  <2>2. ASSUME NEW v, NEW d, CreateAuction(v, d)
        PROVE  i \in DOMAIN auction' /\ auction'[i] = auction[i]
    BY <1>0, <2>2 DEF CreateAuction
  <2>3. ASSUME NEW j \in DOMAIN auction,
               \/ \E p \in Address, amount \in Bids : PlaceBid(j, p, amount)
               \/ EndAuction(j) \/ CancelAuction(j)
        PROVE  i \in DOMAIN auction' /\ auction'[i] = auction[i]
    <3>1. i # j
      BY <1>0, <1>1, <2>3 DEF PlaceBid, EndAuction, CancelAuction
    <3> QED
      BY <2>3, <3>1, AuctionRewritten
  <2> QED
    BY <2>1, <2>2, <2>3, AuctionWriters
<1> QED
  BY <1>1, <1>2 DEF WonBy

LEMMA ListedKept ==
  ASSUME TypeOK, [Next]_vars, NEW w \in Existing, Listed(w), ItemKept(w)
  PROVE  Listed(w)'
<1>1. waste[w].owner \in Party /\ w \in WasteId
  BY ExistingIds DEF TypeOK
<1>2. Overridden(w) => Overridden(w)'
  BY DEF ItemKept, Overridden
<1>3. waste[w].owner # Contract => waste[w].owner \in Address
  BY <1>1 DEF Party
<1>4. waste[w].owner # Contract /\ WonBy(w, waste[w].owner) => WonBy(w, waste[w].owner)'
  <2> SUFFICES ASSUME NEW a \in Address, a = waste[w].owner, WonBy(w, a)
               PROVE  WonBy(w, waste[w].owner)'
    BY <1>3
  <2>1. WonBy(w, a)'
    BY WonForGood
  <2>2. waste'[w].owner = a
    BY DEF ItemKept
  <2> QED
    BY <2>1, <2>2 DEF WonBy
<1> QED
  BY <1>2, <1>3, <1>4 DEF Listed, ItemKept

LEMMA ListedStep ==
  ASSUME TypeOK, TypeOK', OwnerListed, [Next]_vars
  PROVE  OwnerListed'
<1>0. /\ \A w \in Existing : Listed(w) /\ w \in WasteId
      /\ auction \in Seq(Auction)
  BY ExistingIds DEF TypeOK, CasesTyped, OwnerListed, Listed
<1>1. SUFFICES ASSUME NEW w \in Existing' PROVE Listed(w)'
  BY DEF OwnerListed, Listed
<1>2. CASE Tick \/ Registry \/ CaseWork \/ UNCHANGED vars
  <2>1. w \in Existing
    BY <1>2, OthersKeep DEF Existing
  <2> QED
    BY <1>0, <1>2, <2>1, OthersKeep, ListedKept
<1>3. CASE NewItems
  <2>1. CASE w \in Existing
    BY <1>0, <1>3, <2>1, NewItemsListed, ListedKept
  <2>2. CASE w \notin Existing
    BY <1>3, <2>2, NewItemsListed DEF ItemListed, Listed
  <2> QED
    BY <2>1, <2>2
<1>4. CASE Transfers
  <2>1. w \in Existing
    BY <1>4, TransfersMove DEF Existing
  <2>2. CASE Moved(w)
    BY <2>2 DEF Moved, Listed
  <2> QED
    BY <1>0, <1>4, <2>1, <2>2, TransfersMove, ListedKept
<1>5. CASE Auctions
  <2>1. count' = count /\ history' = history /\ index' = index
    BY <1>5, AuctionsMove
  <2>2. w \in Existing /\ w \in WasteId
    BY <1>0, <2>1 DEF Existing
  <2>3. waste'[w].active = waste[w].active
    BY <1>5, <2>2, AuctionsMove
  <2>4. CASE waste'[w].owner = waste[w].owner
    BY <1>0, <2>1, <2>2, <2>3, <2>4, ListedKept DEF ItemKept
  <2>5. CASE PutUp(w)
    BY <2>5 DEF PutUp, Listed
  <2>6. ASSUME NEW i, Closed(w, i) PROVE Listed(w)'
    <3>1. auction'[i] = [auction[i] EXCEPT !.status = "Ended"] /\ auction[i] \in Auction
      BY <1>0, <2>6 DEF Closed
    <3>2. /\ i \in DOMAIN auction' /\ auction'[i].waste = w
          /\ auction'[i].status = "Ended" /\ auction'[i].bidder = waste'[w].owner
      BY <1>0, <2>6, <3>1 DEF Closed, Auction
    <3> QED
      BY <3>2 DEF Listed, WonBy
  <2> QED
    BY <1>5, <2>2, <2>4, <2>5, <2>6, AuctionsMove
<1> QED
  BY <1>2, <1>3, <1>4, <1>5 DEF Next

(* An active item is on its owner's list, unless an admin override is its  *)
(* last record or the owner won it at an auction: the list that            *)
(* get_participant_wastes_v2 reads loses an item in no other way.          *)
THEOREM OwnerListedCorrect == Spec => []OwnerListed
<1>1. Init => OwnerListed
  BY BoundAssumption DEF Init, OwnerListed, Existing
<1>2. TypeOK /\ TypeOK' /\ OwnerListed /\ [Next]_vars => OwnerListed'
  BY ListedStep
<1> QED
  BY <1>1, <1>2, TypeCorrect, PTL DEF Spec

-----------------------------------------------------------------------------
(* Why an item under a running auction stays with the contract.  A second  *)
(* auction of it can be opened only once it got out, and how it got out is *)
(* in its history, which the step that opens an auction does not change.   *)
Marked ==
  {w \in WasteId :
     \E k \in DOMAIN history[w] :
       history[w][k].from = Contract \/ history[w][k].kind = "approved"}

Running == {i \in DOMAIN auction : auction[i].status = "Active"}

AuctionsNameItems == \A i \in DOMAIN auction : auction[i].waste \in Existing

OneSale ==
  \A i, j \in Running :
    i # j /\ auction[i].waste = auction[j].waste => auction[i].waste \in Marked

HeldOrMarked ==
  \A i \in Running :
    waste[auction[i].waste].owner = Contract \/ auction[i].waste \in Marked

SaleInv == TypeOK /\ AuctionsNameItems /\ OneSale /\ HeldOrMarked

(* What a step that leaves the auctions alone must leave true of an item.  *)
StillHeld(w) ==
  (waste[w].owner = Contract \/ w \in Marked) => (waste'[w].owner = Contract \/ w \in Marked')

LEMMA SaleFrame ==
  ASSUME SaleInv, TypeOK', auction' = auction, count' >= count,
         \A w \in Existing : StillHeld(w) /\ (w \in Marked => w \in Marked')
  PROVE  SaleInv'
<1>0. count \in Nat /\ count' \in Nat
  BY BoundAssumption DEF SaleInv, TypeOK, ItemsTyped
<1>1. Existing \subseteq Existing'
  BY <1>0 DEF Existing
<1>2. /\ Running' = Running
      /\ \A i \in Running : i \in DOMAIN auction /\ auction[i].waste \in Existing
  BY DEF SaleInv, AuctionsNameItems, Running
<1>3. AuctionsNameItems'
  BY <1>1 DEF SaleInv, AuctionsNameItems
<1>4. OneSale'
  BY <1>2 DEF SaleInv, OneSale
<1>5. HeldOrMarked'
  BY <1>2 DEF SaleInv, HeldOrMarked, StillHeld
<1> QED
  BY <1>3, <1>4, <1>5 DEF SaleInv

LEMMA SaleOthers ==
  ASSUME SaleInv, TypeOK', Tick \/ Registry \/ CaseWork \/ UNCHANGED vars
  PROVE  SaleInv'
<1>1. auction' = auction
  BY DEF Tick, Registry, DeregisterParticipant, RegisterParticipant, UpdateRole, Pause,
         Unpause, SetWasteTtl, CaseWork, CreateDispute, ReserveWaste, ResolveDispute,
         DeactivateWaste, SubstituteWaste, CancelReservation, CleanupExpired, cases, vars
<1>2. count' = count /\ \A w \in Existing : ItemKept(w)
  BY OthersKeep DEF SaleInv
<1>3. count \in Nat
  BY BoundAssumption DEF SaleInv, TypeOK, ItemsTyped
<1> QED
  BY <1>1, <1>2, <1>3, SaleFrame DEF ItemKept, StillHeld, Marked

LEMMA SaleNewItems ==
  ASSUME SaleInv, TypeOK', NewItems
  PROVE  SaleInv'
<1>1. auction' = auction
  BY DEF NewItems, RecycleWaste, TransferCollected, SplitWaste, MergeWastes, cases
<1>2. \A w \in Existing : ItemKept(w)
  BY NewItemsListed DEF SaleInv
<1>3. count' \in {count + 1, count + 2}
  BY DEF NewItems, RecycleWaste, TransferCollected, SplitWaste, MergeWastes
<1>4. count \in Nat /\ count' >= count
  BY <1>3, ExistingIds DEF SaleInv, TypeOK
<1> QED
  BY <1>1, <1>2, <1>4, SaleFrame DEF ItemKept, StillHeld, Marked

LEMMA SaleTransfers ==
  ASSUME SaleInv, TypeOK', Transfers
  PROVE  SaleInv'
<1>1. /\ auction' = auction /\ count' = count
      /\ \A w \in Existing : ItemKept(w) \/ Moved(w)
  BY TransfersMove DEF SaleInv
<1>2. ASSUME NEW w \in Existing PROVE StillHeld(w) /\ (w \in Marked => w \in Marked')
  <2>1. CASE ItemKept(w)
    BY <2>1 DEF ItemKept, StillHeld, Marked
  <2>2. CASE Moved(w)
    <3>1. w \in WasteId /\ history[w] \in Seq(Move) /\ history'[w] \in Seq(Move)
      BY ExistingIds DEF SaleInv, TypeOK, ListsTyped
    <3>2. DOMAIN history[w] \subseteq DOMAIN history'[w]
      BY <2>2, <3>1 DEF Moved
    <3>3. w \in Marked => w \in Marked'
      BY <2>2, <3>2 DEF Moved, Marked
    <3>4. waste[w].owner = Contract => w \in Marked'
      BY <2>2, <3>1 DEF Moved, Marked
    <3> QED
      BY <3>3, <3>4 DEF StillHeld
  <2> QED
    BY <1>1, <2>1, <2>2
<1>3. count \in Nat
  BY BoundAssumption DEF SaleInv, TypeOK, ItemsTyped
<1> QED
  BY <1>1, <1>2, <1>3, SaleFrame

LEMMA SaleOpened ==
  ASSUME SaleInv, TypeOK', NEW w \in Existing, NEW d \in AuctionSpans, CreateAuction(w, d)
  PROVE  SaleInv'
<1>0. /\ auction \in Seq(Auction) /\ waste \in [WasteId -> WasteRecord] /\ w \in WasteId
      /\ Existing' = Existing
  BY ExistingIds DEF SaleInv, TypeOK, ItemsTyped, CasesTyped, CreateAuction, Existing
<1> DEFINE n == Len(auction) + 1
<1>1. /\ DOMAIN auction' = DOMAIN auction \cup {n} /\ n \notin DOMAIN auction
      /\ \A i \in DOMAIN auction : auction'[i] = auction[i]
      /\ auction'[n].waste = w /\ auction'[n].status = "Active"
  BY <1>0 DEF CreateAuction
<1>2. /\ history' = history
      /\ waste'[w].owner = Contract
      /\ \A v \in WasteId : v # w => waste'[v] = waste[v]
      /\ waste[w].owner \in Address
  BY <1>0 DEF CreateAuction, WasteRecord
<1> HIDE DEF n
<1>3. Marked' = Marked
  BY <1>2 DEF Marked
<1>4. /\ Running' = Running \cup {n}
      /\ Running \subseteq DOMAIN auction /\ Running' \subseteq DOMAIN auction'
      /\ \A i \in DOMAIN auction : auction[i].waste \in Existing
  BY <1>1 DEF Running, SaleInv, AuctionsNameItems
<1>5. AuctionsNameItems'
  BY <1>0, <1>1, <1>4 DEF AuctionsNameItems
<1>6. \A i \in Running : auction[i].waste = w => w \in Marked
  BY <1>2, PartyAssumption DEF SaleInv, HeldOrMarked
<1>7. OneSale'
  <2> SUFFICES ASSUME NEW i \in Running', NEW j \in Running',
                      i # j, auction'[i].waste = auction'[j].waste
               PROVE  auction'[i].waste \in Marked'
    BY DEF OneSale
  <2>1. CASE i # n /\ j # n
    BY <1>1, <1>3, <1>4, <2>1 DEF SaleInv, OneSale
  <2>2. CASE i = n \/ j = n
    BY <1>1, <1>3, <1>4, <1>6, <2>2
  <2> QED
    BY <2>1, <2>2
<1>8. HeldOrMarked'
  <2> SUFFICES ASSUME NEW i \in Running'
               PROVE  \/ waste'[auction'[i].waste].owner = Contract
                      \/ auction'[i].waste \in Marked'
    BY DEF HeldOrMarked
  <2>1. CASE auction'[i].waste = w
    BY <1>2, <2>1
  <2>2. CASE auction'[i].waste # w
    <3>1. i \in DOMAIN auction /\ auction'[i] = auction[i] /\ i \in Running
      BY <1>1, <1>4, <2>2
    <3>2. waste[auction[i].waste].owner = Contract \/ auction[i].waste \in Marked
      BY <3>1 DEF SaleInv, HeldOrMarked
    <3>3. auction[i].waste \in WasteId
      BY <1>4, <3>1, ExistingIds DEF SaleInv, TypeOK
    <3> QED
      BY <1>2, <1>3, <2>2, <3>1, <3>2, <3>3
  <2> QED
    BY <2>1, <2>2
<1> QED
  BY <1>5, <1>7, <1>8 DEF SaleInv

LEMMA SaleGoesOn ==
  ASSUME SaleInv, TypeOK', NEW j \in DOMAIN auction,
         \/ \E a \in Address, amount \in Bids : PlaceBid(j, a, amount)
         \/ EndAuction(j) \/ CancelAuction(j)
  PROVE  SaleInv'
<1>0. /\ auction \in Seq(Auction) /\ auction[j] \in Auction
      /\ waste \in [WasteId -> WasteRecord]
  BY DEF SaleInv, TypeOK, ItemsTyped, CasesTyped
<1>a. history' = history /\ Existing' = Existing
  BY DEF PlaceBid, EndAuction, CancelAuction, custody, Existing
<1>1. /\ DOMAIN auction' = DOMAIN auction
      /\ \A i \in DOMAIN auction :
           auction'[i].waste = auction[i].waste /\ (i # j => auction'[i] = auction[i])
  BY AuctionRewritten DEF SaleInv
<1>2. Marked' = Marked
  BY <1>a DEF Marked
<1>3. Running' \subseteq Running /\ Running \subseteq DOMAIN auction
  <2>1. CASE CancelAuction(j)
    <3>1. auction'[j].status = "Removed"
      BY <1>0, <2>1 DEF CancelAuction, Auction
    <3> QED
      BY <1>1, <3>1 DEF Running
  <2>2. CASE auction[j].status = "Active"
    BY <1>1, <2>2 DEF Running
  <2> QED
    BY <2>1, <2>2 DEF PlaceBid, EndAuction
<1>4. AuctionsNameItems'
  BY <1>a, <1>1 DEF SaleInv, AuctionsNameItems
<1>5. OneSale'
  BY <1>1, <1>2, <1>3 DEF SaleInv, OneSale
<1>6. HeldOrMarked'
  <2> SUFFICES ASSUME NEW i \in Running'
               PROVE  \/ waste'[auction[i].waste].owner = Contract
                      \/ auction[i].waste \in Marked
    BY <1>1, <1>2, <1>3 DEF HeldOrMarked
  <2>0. i \in Running /\ i \in DOMAIN auction
    BY <1>3
  <2>1. waste[auction[i].waste].owner = Contract \/ auction[i].waste \in Marked
    BY <2>0 DEF SaleInv, HeldOrMarked
  <2>2. CASE waste' = waste
    BY <2>1, <2>2
  <2>3. CASE waste' # waste
    <3>1. /\ j \in Running
          /\ auction' = [auction EXCEPT ![j].status = "Ended"]
          /\ waste' = [waste EXCEPT ![auction[j].waste].owner = auction[j].bidder]
      BY <2>3 DEF PlaceBid, EndAuction, CancelAuction, custody, Running
    <3>2. i # j
      BY <1>0, <3>1 DEF Running, Auction
    <3>3. CASE auction[i].waste = auction[j].waste
      BY <2>0, <3>1, <3>2, <3>3 DEF SaleInv, OneSale
    <3>4. CASE auction[i].waste # auction[j].waste
      <4>1. waste'[auction[i].waste] = waste[auction[i].waste]
        BY <1>0, <3>1, <3>4
      <4> QED
        BY <2>1, <4>1
    <3> QED
      BY <3>3, <3>4
  <2> QED
    BY <2>2, <2>3
<1> QED
  BY <1>4, <1>5, <1>6 DEF SaleInv

(* An item under a running auction is the contract's, unless its history   *)
(* says that it was moved out of the contract or an offer of it approved.  *)
THEOREM AuctionedWasteStays == Spec => []AuctionedWasteHeld
<1>1. Init => SaleInv
  <2> SUFFICES ASSUME Init PROVE SaleInv
    OBVIOUS
  <2>1. TypeOK /\ DOMAIN auction = {}
    BY TypeInit DEF Init
  <2> QED
    BY <2>1 DEF SaleInv, AuctionsNameItems, OneSale, HeldOrMarked, Running
<1>2. SaleInv /\ TypeOK' /\ [Next]_vars => SaleInv'
  <2> SUFFICES ASSUME SaleInv, TypeOK', [Next]_vars PROVE SaleInv'
    OBVIOUS
  <2>1. CASE Auctions
    BY <2>1, SaleOpened, SaleGoesOn DEF Auctions
  <2> QED
    BY <2>1, SaleOthers, SaleNewItems, SaleTransfers DEF Next
<1>3. SaleInv => AuctionedWasteHeld
  BY ExistingIds
  DEF SaleInv, AuctionsNameItems, HeldOrMarked, Running, Marked, AuctionedWasteHeld, TypeOK
<1> QED
  BY <1>1, <1>2, <1>3, TypeCorrect, PTL DEF Spec

=============================================================================
