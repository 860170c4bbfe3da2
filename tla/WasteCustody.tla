---------------------------- MODULE WasteCustody ----------------------------
(***************************************************************************)
(* Custody of v2 waste items in the Soroban contract                       *)
(* (stellar-contract/src/lib.rs): who owns an item, what the per-owner     *)
(* list and the transfer history say, and every way an item changes hands: *)
(* direct, batch and admin transfers, transfers the recipient approves,    *)
(* auctions, splits and merges, together with disputes, reservations,      *)
(* expiry, deactivation, the participant registry and the pause switch.    *)
(*                                                                         *)
(* A contract call is atomic: calls are serialised by the ledger, and a    *)
(* panic or an Err rolls every write of the call back.  So one action is   *)
(* one successful call, and a call that fails is no step at all.           *)
(***************************************************************************)
EXTENDS Integers, Sequences, FiniteSets

CONSTANTS
  Address,        \* accounts that may register and own waste
  Contract,       \* env.current_contract_address()
  NoOne,          \* no reserver, no bidder, no owner yet
  RolesOf,        \* [Address -> set of roles the account may ask for]
  Ttls,           \* values set_waste_ttl may be given (0 disables expiry)
  Durations,      \* durations reserve_waste may be given
  AuctionSpans,   \* durations create_auction accepts
  PendingLife,    \* TRANSFER_EXPIRY_SECS
  StartPrice,     \* the start price of every auction
  Bids,           \* amounts place_bid may be given
  MaxTime, MaxWastes, MaxBatch, MaxMoves,   \* bounds of the instance
  MaxPending, MaxDisputes, MaxAuctions      \* bounds of the instance

ASSUME PartyAssumption == /\ Contract \notin Address
                          /\ NoOne \notin Address \cup {Contract}
ASSUME RoleAssumption ==
  RolesOf \in [Address -> SUBSET {"Recycler", "Collector", "Manufacturer"}]
ASSUME SpanAssumption == /\ Ttls \subseteq Nat
                         /\ Durations \subseteq Nat
                         /\ AuctionSpans \subseteq Nat
                         /\ PendingLife \in Nat \ {0}
ASSUME PriceAssumption == /\ StartPrice \in Nat
                          /\ Bids \subseteq Nat
ASSUME BoundAssumption ==
  /\ MaxTime \in Nat /\ MaxWastes \in Nat /\ MaxBatch \in Nat /\ MaxMoves \in Nat
  /\ MaxPending \in Nat /\ MaxDisputes \in Nat /\ MaxAuctions \in Nat

VARIABLES
  now,        \* env.ledger().timestamp(), which starts at 1
  paused,     \* PAUSED
  role,       \* the role of a registered participant, "None" for the others
  ttl,        \* ("waste_ttl", type)
  count,      \* ("waste_count",): ids 1..count have been handed out
  waste,      \* ("waste_v2", id)
  index,      \* ("participant_wastes", a): how often an id is listed
  history,    \* ("transfer_history", id)
  pending,    \* ("pending_xfr", id)
  dispute,    \* ("dispute", id)
  auction     \* ("auction", id)

custody == <<count, waste, index, history>>
cases   == <<pending, dispute, auction>>
vars    == <<now, paused, role, ttl, custody, cases>>

-----------------------------------------------------------------------------
Roles   == {"Recycler", "Collector", "Manufacturer"}
Party   == Address \cup {Contract}
WasteId == 1 .. MaxWastes

(* WasteTransfer: the kind is its note.                                    *)
Move == [from : Party, to : Party, kind : {"transfer", "admin", "approved"}]

(* types::Waste, the fields that custody reads or writes.                  *)
WasteRecord ==
  [owner : Party \cup {NoOne}, active : BOOLEAN, frozen : BOOLEAN,
   expires : Nat, reservedBy : Address \cup {NoOne}, reservedUntil : Nat]

(* PendingTransfer *)
PendingStatus   == {"Pending", "Approved", "Rejected", "Expired"}
PendingTransfer ==
  [waste : WasteId, from : Address, to : Address, expires : Nat,
   status : PendingStatus]

(* Dispute *)
DisputeStatus == {"Pending", "Resolved", "Rejected"}
Dispute       == [waste : WasteId, status : DisputeStatus]

(* types::Auction; a record that cancel_auction removed is "Removed".      *)
AuctionStatus == {"Active", "Ended", "Removed"}
Auction ==
  [waste : WasteId, creator : Address, bid : Nat,
   bidder : Address \cup {NoOne}, ends : Nat, status : AuctionStatus]

Blank == [owner |-> NoOne, active |-> FALSE, frozen |-> FALSE, expires |-> 0,
          reservedBy |-> NoOne, reservedUntil |-> 0]

-----------------------------------------------------------------------------
Existing      == 1 .. count
Registered(a) == role[a] # "None"

(* is_valid_transfer: the three permitted role transitions.                *)
ValidRoute(a, b) ==
  <<role[a], role[b]>> \in { <<"Recycler", "Collector">>,
                             <<"Recycler", "Manufacturer">>,
                             <<"Collector", "Manufacturer">> }

(* Waste::is_expired *)
IsExpired(w) == waste[w].expires # 0 /\ now >= waste[w].expires

(* A reservation that has not run out yet.                                 *)
ReservedNow(w) == waste[w].reservedBy # NoOne /\ waste[w].reservedUntil > now

(* Mutant of NewWaste: the owner is forgotten.                             *)
NewWasteUnowned(a, e) == [Blank EXCEPT !.active = TRUE, !.expires = e]

(* Waste::new with its owner: active, not frozen, not reserved.            *)
NewWaste(a, e) == [Blank EXCEPT !.owner = a, !.active = TRUE, !.expires = e]

(* The items once those of S are out of use.                               *)
Deactivated(S) ==
  [w \in WasteId |-> IF w \in S THEN [waste[w] EXCEPT !.active = FALSE] ELSE waste[w]]

(* Mutant of Relist: taken off one list and put on no other.               *)
RelistDropsRecipient(w, x, y, n) ==
  [a \in Address |-> [index[a] EXCEPT ![w] = IF a = x THEN 0 ELSE @]]

(* The writes every transfer makes, n times over for an id that a batch    *)
(* names n times: take w out of the list of x, list it under y, append the *)
(* record.                                                                 *)
Relist(w, x, y, n) ==
  [a \in Address |->
     [index[a] EXCEPT ![w] = IF a = y THEN @ + n ELSE IF a = x THEN 0 ELSE @]]

Record(x, y, k) == [from |-> x, to |-> y, kind |-> k]

Init ==
  /\ now = 1 /\ paused = FALSE /\ ttl = 0 /\ count = 0
  /\ role    = [a \in Address |-> "None"]
  /\ waste   = [w \in WasteId |-> Blank]
  /\ index   = [a \in Address |-> [w \in WasteId |-> 0]]
  /\ history = [w \in WasteId |-> <<>>]
  /\ pending = <<>> /\ dispute = <<>> /\ auction = <<>>

-----------------------------------------------------------------------------
(* The ledger clock, the registry and the switches.                        *)

Tick ==
  /\ now < MaxTime
  /\ now' = now + 1
  /\ UNCHANGED <<paused, role, ttl, custody, cases>>

Pause ==
  /\ ~paused /\ paused' = TRUE
  /\ UNCHANGED <<now, role, ttl, custody, cases>>

Unpause ==
  /\ paused /\ paused' = FALSE
  /\ UNCHANGED <<now, role, ttl, custody, cases>>

SetWasteTtl(t) ==
  /\ ttl' = t
  /\ UNCHANGED <<now, paused, role, custody, cases>>

RegisterParticipant(a, r) ==
  /\ ~paused /\ ~Registered(a)
  /\ role' = [role EXCEPT ![a] = r]
  /\ UNCHANGED <<now, paused, ttl, custody, cases>>

UpdateRole(a, r) ==
  /\ ~paused /\ Registered(a)
  /\ role' = [role EXCEPT ![a] = r]
  /\ UNCHANGED <<now, paused, ttl, custody, cases>>

(* The waste the participant owns, and its offers and auctions, stay.      *)
DeregisterParticipant(a) ==
  /\ ~paused /\ Registered(a)
  /\ role' = [role EXCEPT ![a] = "None"]
  /\ UNCHANGED <<now, paused, ttl, custody, cases>>

-----------------------------------------------------------------------------
(* New items.                                                              *)

RecycleWaste(a) ==
  LET w == count + 1 IN
  /\ ~paused /\ Registered(a) /\ w \in WasteId
  /\ count' = w
  /\ waste' = [waste EXCEPT ![w] = NewWaste(a, IF ttl > 0 THEN now + ttl ELSE 0)]
  /\ index' = [index EXCEPT ![a][w] = @ + 1]
  /\ UNCHANGED <<now, paused, role, ttl, history, cases>>

(* transfer_collected_waste: a new item for the manufacturer, whose first  *)
(* record says that the collector handed it over.                          *)
TransferCollected(c, m) ==
  LET w == count + 1 IN
  /\ ~paused /\ w \in WasteId
  /\ role[c] = "Collector" /\ role[m] = "Manufacturer"
  /\ count' = w
  /\ waste'   = [waste EXCEPT ![w] = NewWaste(m, 0)]
  /\ index'   = [index EXCEPT ![m][w] = @ + 1]
  /\ history' = [history EXCEPT ![w] = Append(@, Record(c, m, "transfer"))]
  /\ UNCHANGED <<now, paused, role, ttl, cases>>

(* Mutant of Reissue: the new items are stored but not listed.             *)
ReissueUnlisted(a, old, new) ==
  /\ waste' = [w \in WasteId |-> IF w \in new THEN NewWaste(a, 0)
                                 ELSE Deactivated(old)[w]]
  /\ index' = [index EXCEPT ![a] =
                 [w \in WasteId |-> IF w \in old THEN 0 ELSE index[a][w]]]

(* What split_waste and merge_wastes have in common: the items old go out  *)
(* of use and off the list of a, the items new come into use and on it.    *)
Reissue(a, old, new) ==
  /\ waste' = [w \in WasteId |-> IF w \in new THEN NewWaste(a, 0)
                                 ELSE Deactivated(old)[w]]
  /\ index' = [index EXCEPT ![a] =
                 [w \in WasteId |-> IF w \in new THEN index[a][w] + 1
                                    ELSE IF w \in old THEN 0 ELSE index[a][w]]]

(* split_waste, into two children.  Neither a freeze nor a reservation of  *)
(* the parent stops it, and the children inherit neither.                  *)
SplitWaste(w) ==
  LET children == {count + 1, count + 2} IN
  /\ ~paused /\ children \subseteq WasteId
  /\ waste[w].owner \in Address /\ waste[w].active
  /\ count' = count + 2
  /\ Reissue(waste[w].owner, {w}, children)
  /\ history' = [x \in WasteId |-> IF x \in children THEN history[w] ELSE history[x]]
  /\ UNCHANGED <<now, paused, role, ttl, cases>>

(* merge_wastes, of two ids that may be the same one.                      *)
MergeWastes(v, w) ==
  /\ ~paused /\ count + 1 \in WasteId
  /\ waste[v].owner \in Address /\ waste[w].owner = waste[v].owner
  /\ waste[v].active /\ waste[w].active
  /\ Len(history[v]) + Len(history[w]) <= MaxMoves
  /\ count' = count + 1
  /\ Reissue(waste[v].owner, {v, w}, {count + 1})
  /\ history' = [history EXCEPT ![count + 1] = history[v] \o history[w]]
  /\ UNCHANGED <<now, paused, role, ttl, cases>>

-----------------------------------------------------------------------------
(* Transfers that take effect at once.                                     *)

TransferWaste(w, to) ==
  LET from == waste[w].owner IN
  /\ ~paused /\ from \in Address /\ from # to
  /\ waste[w].active /\ ~waste[w].frozen /\ ~IsExpired(w)
  /\ ValidRoute(from, to)
  /\ ReservedNow(w) => waste[w].reservedBy = to
  /\ Len(history[w]) < MaxMoves
  /\ waste'   = [waste EXCEPT ![w].owner = to]
  /\ index'   = Relist(w, from, to, 1)
  /\ history' = [history EXCEPT ![w] = Append(@, Record(from, to, "transfer"))]
  /\ UNCHANGED <<now, paused, role, ttl, count, cases>>

(* How often the batch b names w.                                          *)
Named(b, w) == Cardinality({i \in DOMAIN b : b[i] = w})

(* batch_transfer_waste checks every id before it writes.  The checks run  *)
(* on the state before the batch, look at neither freeze nor reservation,  *)
(* and let an id appear twice, which then is listed and recorded twice.    *)
BatchTransfer(b, to) ==
  LET moved == {b[i] : i \in DOMAIN b}
      from(w) == waste[w].owner IN
  /\ ~paused /\ Registered(to)
  /\ \A w \in moved :
       /\ from(w) \in Address /\ from(w) # to
       /\ waste[w].active /\ ~IsExpired(w)
       /\ ValidRoute(from(w), to)
       /\ Len(history[w]) + Named(b, w) <= MaxMoves
  /\ waste'   = [w \in WasteId |->
                   IF w \in moved THEN [waste[w] EXCEPT !.owner = to] ELSE waste[w]]
  /\ index'   = [a \in Address |-> [w \in WasteId |->
                   IF w \in moved THEN Relist(w, from(w), to, Named(b, w))[a][w]
                                  ELSE index[a][w]]]
  /\ history' = [w \in WasteId |->
                   history[w] \o [i \in 1 .. Named(b, w) |->
                                    Record(from(w), to, "transfer")]]
  /\ UNCHANGED <<now, paused, role, ttl, count, cases>>

(* admin_override_transfer: any owner, any target, and no list is touched. *)
AdminOverride(w, to) ==
  LET from == waste[w].owner IN
  /\ ~paused /\ from # to /\ ~waste[w].frozen
  /\ Len(history[w]) < MaxMoves
  /\ waste'   = [waste EXCEPT ![w].owner = to]
  /\ history' = [history EXCEPT ![w] = Append(@, Record(from, to, "admin"))]
  /\ UNCHANGED <<now, paused, role, ttl, count, index, cases>>

-----------------------------------------------------------------------------
(* Transfers that wait for the recipient.                                  *)

InitiateTransfer(w, to) ==
  LET from == waste[w].owner IN
  /\ ~paused /\ from \in Address /\ from # to
  /\ Registered(from) /\ Registered(to) /\ waste[w].active
  /\ Len(pending) < MaxPending
  /\ pending' = Append(pending, [waste |-> w, from |-> from, to |-> to,
                                 expires |-> now + PendingLife,
                                 status |-> "Pending"])
  /\ UNCHANGED <<now, paused, role, ttl, custody, dispute, auction>>

(* approve_transfer trusts the sender that the offer recorded.  (A late    *)
(* approval writes "Expired" and then panics, which undoes the write.)     *)
ApproveTransfer(i) ==
  LET w    == pending[i].waste
      from == pending[i].from
      to   == pending[i].to IN
  /\ ~paused /\ pending[i].status = "Pending" /\ now < pending[i].expires
  /\ waste[w].active
  /\ Len(history[w]) < MaxMoves
  /\ waste'   = [waste EXCEPT ![w].owner = to]
  /\ index'   = Relist(w, from, to, 1)
  /\ history' = [history EXCEPT ![w] = Append(@, Record(from, to, "approved"))]
  /\ pending' = [pending EXCEPT ![i].status = "Approved"]
  /\ UNCHANGED <<now, paused, role, ttl, count, dispute, auction>>

(* Mutant of RejectTransfer: no look at the status.                        *)
RejectAnyTransfer(i) ==
  /\ ~paused
  /\ pending' = [pending EXCEPT ![i].status =
                   IF now >= pending[i].expires THEN "Expired" ELSE "Rejected"]
  /\ UNCHANGED <<now, paused, role, ttl, custody, dispute, auction>>

RejectTransfer(i) ==
  /\ ~paused /\ pending[i].status = "Pending"
  /\ pending' = [pending EXCEPT ![i].status =
                   IF now >= pending[i].expires THEN "Expired" ELSE "Rejected"]
  /\ UNCHANGED <<now, paused, role, ttl, custody, dispute, auction>>

(* expire_transfer: anyone, also while the contract is paused.             *)
ExpireTransfer(i) ==
  /\ pending[i].status = "Pending" /\ now >= pending[i].expires
  /\ pending' = [pending EXCEPT ![i].status = "Expired"]
  /\ UNCHANGED <<now, paused, role, ttl, custody, dispute, auction>>

-----------------------------------------------------------------------------
(* Auctions.  The contract account owns the item while it is for sale; no  *)
(* list and no history follows these moves.                                *)

(* Mutant of CreateAuction: the item stays with the seller.                *)
CreateAuctionUnheld(w, d) ==
  /\ ~paused /\ waste[w].owner \in Address
  /\ Len(auction) < MaxAuctions
  /\ auction' = Append(auction, [waste |-> w, creator |-> waste[w].owner,
                                 bid |-> StartPrice, bidder |-> NoOne,
                                 ends |-> now + d, status |-> "Active"])
  /\ UNCHANGED <<now, paused, role, ttl, custody, pending, dispute>>

(* create_auction checks the owner and nothing else of the item.           *)
CreateAuction(w, d) ==
  /\ ~paused /\ waste[w].owner \in Address
  /\ Len(auction) < MaxAuctions
  /\ waste'   = [waste EXCEPT ![w].owner = Contract]
  /\ auction' = Append(auction, [waste |-> w, creator |-> waste[w].owner,
                                 bid |-> StartPrice, bidder |-> NoOne,
                                 ends |-> now + d, status |-> "Active"])
  /\ UNCHANGED <<now, paused, role, ttl, count, index, history, pending, dispute>>

(* Mutant of ValidBid: the current bid may be matched.                     *)
ValidBidMatching(current, amount) == amount >= current

(* Auction::is_valid_bid, in the integers of the code.                     *)
ValidBid(current, amount) ==
  amount > current /\ amount >= (current * 105) \div 100

(* Mutant of PlaceBid: bidding goes on during a pause.                     *)
PlaceBidPaused(i, p, amount) ==
  /\ auction[i].status = "Active" /\ now < auction[i].ends
  /\ ValidBid(auction[i].bid, amount)
  /\ auction' = [auction EXCEPT ![i].bid = amount, ![i].bidder = p]
  /\ UNCHANGED <<now, paused, role, ttl, custody, pending, dispute>>

(* Anyone may bid, the creator included, registered or not.                *)
PlaceBid(i, p, amount) ==
  /\ ~paused /\ auction[i].status = "Active" /\ now < auction[i].ends
  /\ ValidBid(auction[i].bid, amount)
  /\ auction' = [auction EXCEPT ![i].bid = amount, ![i].bidder = p]
  /\ UNCHANGED <<now, paused, role, ttl, custody, pending, dispute>>

(* Mutant of EndAuction: an ended auction can be ended again.              *)
EndAuctionAgain(i) ==
  /\ ~paused /\ auction[i].status # "Removed" /\ now >= auction[i].ends
  /\ auction' = [auction EXCEPT ![i].status = "Ended"]
  /\ waste' = IF auction[i].bidder = NoOne THEN waste
              ELSE [waste EXCEPT ![auction[i].waste].owner = auction[i].bidder]
  /\ UNCHANGED <<now, paused, role, ttl, count, index, history, pending, dispute>>

(* end_auction gives the item to the winner, whoever owns it by then; an   *)
(* auction without a bid leaves it with the contract.                      *)
EndAuction(i) ==
  /\ ~paused /\ auction[i].status = "Active" /\ now >= auction[i].ends
  /\ auction' = [auction EXCEPT ![i].status = "Ended"]
  /\ waste' = IF auction[i].bidder = NoOne THEN waste
              ELSE [waste EXCEPT ![auction[i].waste].owner = auction[i].bidder]
  /\ UNCHANGED <<now, paused, role, ttl, count, index, history, pending, dispute>>

(* cancel_auction removes the record, and does not give the item back.     *)
CancelAuction(i) ==
  /\ ~paused /\ auction[i].status # "Removed" /\ auction[i].bidder = NoOne
  /\ auction' = [auction EXCEPT ![i].status = "Removed"]
  /\ UNCHANGED <<now, paused, role, ttl, custody, pending, dispute>>

-----------------------------------------------------------------------------
(* Disputes, reservations, deactivation.                                   *)

(* Mutant of CreateDispute: a frozen item can be disputed again.           *)
CreateSecondDispute(w, a) ==
  /\ ~paused /\ Registered(a)
  /\ Len(dispute) < MaxDisputes
  /\ dispute' = Append(dispute, [waste |-> w, status |-> "Pending"])
  /\ waste'   = [waste EXCEPT ![w].frozen = TRUE]
  /\ UNCHANGED <<now, paused, role, ttl, count, index, history, pending, auction>>

CreateDispute(w, a) ==
  /\ ~paused /\ Registered(a) /\ ~waste[w].frozen
  /\ Len(dispute) < MaxDisputes
  /\ dispute' = Append(dispute, [waste |-> w, status |-> "Pending"])
  /\ waste'   = [waste EXCEPT ![w].frozen = TRUE]
  /\ UNCHANGED <<now, paused, role, ttl, count, index, history, pending, auction>>

(* resolve_dispute: an admin, also while the contract is paused.           *)
ResolveDispute(i, accepted) ==
  /\ dispute[i].status = "Pending"
  /\ dispute' = [dispute EXCEPT ![i].status =
                   IF accepted THEN "Resolved" ELSE "Rejected"]
  /\ waste'   = [waste EXCEPT ![dispute[i].waste].frozen = FALSE]
  /\ UNCHANGED <<now, paused, role, ttl, count, index, history, pending, auction>>

(* deactivate_waste, and batch_deactivate_waste, which skips the ids that  *)
(* are inactive: an admin, also while the contract is paused.              *)
DeactivateWaste(S) ==
  /\ \E w \in S : waste[w].active
  /\ waste' = Deactivated(S)
  /\ UNCHANGED <<now, paused, role, ttl, count, index, history, cases>>

CleanupExpired ==
  /\ \E w \in Existing : waste[w].active /\ IsExpired(w)
  /\ waste' = Deactivated({w \in Existing : IsExpired(w)})
  /\ UNCHANGED <<now, paused, role, ttl, count, index, history, cases>>

(* substitute_waste: the original goes out of use.  With the same id twice *)
(* the second copy, still active, is stored last, and nothing changes.     *)
SubstituteWaste(w, s) ==
  /\ ~paused /\ w # s
  /\ \E a \in Address : Registered(a)
  /\ waste' = Deactivated({w})
  /\ UNCHANGED <<now, paused, role, ttl, count, index, history, cases>>

ReserveWaste(w, a, d) ==
  /\ ~paused /\ Registered(a) /\ waste[w].active /\ ~ReservedNow(w)
  /\ waste' = [waste EXCEPT ![w].reservedBy = a, ![w].reservedUntil = now + d]
  /\ UNCHANGED <<now, paused, role, ttl, count, index, history, cases>>

(* cancel_reservation: the reserver or the owner, so always someone.       *)
CancelReservation(w) ==
  /\ ~paused /\ waste[w].reservedBy # NoOne
  /\ waste' = [waste EXCEPT ![w].reservedBy = NoOne, ![w].reservedUntil = 0]
  /\ UNCHANGED <<now, paused, role, ttl, count, index, history, cases>>

-----------------------------------------------------------------------------
Registry ==
  \/ \E a \in Address : DeregisterParticipant(a)
  \/ \E a \in Address : \E r \in RolesOf[a] : RegisterParticipant(a, r) \/ UpdateRole(a, r)
  \/ Pause \/ Unpause \/ \E t \in Ttls : SetWasteTtl(t)

NewItems ==
  \/ \E a \in Address : RecycleWaste(a)
  \/ \E c, m \in Address : TransferCollected(c, m)
  \/ \E w \in Existing : SplitWaste(w)
  \/ \E v, w \in Existing : MergeWastes(v, w)

Transfers ==
  \/ \E w \in Existing, a \in Address :
       TransferWaste(w, a) \/ AdminOverride(w, a) \/ InitiateTransfer(w, a)
  \/ \E n \in 1 .. MaxBatch, a \in Address :
       \E b \in [1 .. n -> Existing] : BatchTransfer(b, a)
  \/ \E i \in DOMAIN pending :
       ApproveTransfer(i) \/ RejectTransfer(i) \/ ExpireTransfer(i)

Auctions ==
  \/ \E w \in Existing, d \in AuctionSpans : CreateAuction(w, d)
  \/ \E i \in DOMAIN auction :
       \/ \E a \in Address, amount \in Bids : PlaceBid(i, a, amount)
       \/ EndAuction(i)
       \/ CancelAuction(i)

CaseWork ==
  \/ \E w \in Existing, a \in Address :
       CreateDispute(w, a) \/ \E d \in Durations : ReserveWaste(w, a, d)
  \/ \E i \in DOMAIN dispute, accepted \in BOOLEAN : ResolveDispute(i, accepted)
  \/ \E S \in SUBSET Existing : DeactivateWaste(S)
  \/ \E w, s \in Existing : SubstituteWaste(w, s)
  \/ \E w \in Existing : CancelReservation(w)
  \/ CleanupExpired

Next == Tick \/ Registry \/ NewItems \/ Transfers \/ Auctions \/ CaseWork

Spec == Init /\ [][Next]_vars

-----------------------------------------------------------------------------
(* The type invariant, part by part.                                       *)
SwitchesTyped == /\ now \in Nat /\ paused \in BOOLEAN /\ ttl \in Nat
                 /\ role \in [Address -> Roles \cup {"None"}]
ItemsTyped    == /\ count \in 0 .. MaxWastes
                 /\ waste \in [WasteId -> WasteRecord]
                 /\ \A w \in Existing : waste[w].owner \in Party
ListsTyped    == /\ index   \in [Address -> [WasteId -> Nat]]
                 /\ history \in [WasteId -> Seq(Move)]
CasesTyped    == /\ pending \in Seq(PendingTransfer)
                 /\ dispute \in Seq(Dispute)
                 /\ auction \in Seq(Auction)

(* The contract state keeps its types: every record a handler stores is    *)
(* well formed, and every item that was ever handed out has an owner.      *)
TypeOK == SwitchesTyped /\ ItemsTyped /\ ListsTyped /\ CasesTyped

(* A freeze is exactly an open dispute: an item is frozen if and only if a *)
(* dispute about it is pending, and there is at most one such dispute, so  *)
(* that resolving it never lifts the freeze of another (create_dispute,    *)
(* resolve_dispute).  Splits, merges and transfers do not break the tie.   *)
FrozenIffDisputed ==
  /\ \A w \in WasteId :
       waste[w].frozen <=>
         \E i \in DOMAIN dispute : dispute[i].waste = w /\ dispute[i].status = "Pending"
  /\ \A i, j \in DOMAIN dispute :
       /\ dispute[i].waste = dispute[j].waste
       /\ dispute[i].status = "Pending" /\ dispute[j].status = "Pending"
       => i = j

Overridden(w) ==
  history[w] # <<>> /\ history[w][Len(history[w])].kind = "admin"

WonBy(w, a) ==
  \E i \in DOMAIN auction :
    auction[i].waste = w /\ auction[i].status = "Ended" /\ auction[i].bidder = a

(* What get_participant_wastes_v2 can be trusted for: an active item is    *)
(* missing from its owner's list only if the last recorded move was an     *)
(* admin override, or its owner won it at an auction.  No order of direct, *)
(* batch and approved transfers, splits and merges loses one.              *)
OwnerListed ==
  \A w \in Existing :
    waste[w].active /\ waste[w].owner # Contract
    => \/ index[waste[w].owner][w] > 0
       \/ Overridden(w)
       \/ WonBy(w, waste[w].owner)

(* An item under a running auction stays with the contract, unless an      *)
(* admin moved it out or someone approved an offer made before the auction *)
(* (create_auction, end_auction, cancel_auction, approve_transfer).        *)
AuctionedWasteHeld ==
  \A i \in DOMAIN auction :
    LET w == auction[i].waste IN
    auction[i].status = "Active"
    => \/ waste[w].owner = Contract
       \/ \E k \in DOMAIN history[w] :
            history[w][k].from = Contract \/ history[w][k].kind = "approved"

(* Every change of hands is accounted for: the owner of an item changes    *)
(* only in a step that records a transfer of it, puts it up for auction,   *)
(* or closes an auction of it that was running until then.  In particular  *)
(* a closed auction can never hand the item over a second time.            *)
HandoversAccounted ==
  [][\A w \in Existing :
       waste'[w].owner # waste[w].owner
       => \/ Len(history'[w]) > Len(history[w])
          \/ Len(auction') > Len(auction)
          \/ \E i \in DOMAIN auction :
               /\ auction[i].waste = w
               /\ auction[i].status = "Active" /\ auction'[i].status = "Ended"]_vars

(* Offers and disputes that were settled stay settled, whichever of        *)
(* approve_transfer, reject_transfer and expire_transfer comes late.       *)
SettledStaysSettled ==
  [][/\ \A i \in DOMAIN pending :
          pending[i].status # "Pending" => pending'[i] = pending[i]
     /\ \A i \in DOMAIN dispute :
          dispute[i].status # "Pending" => dispute'[i] = dispute[i]
     /\ \A i \in DOMAIN auction :
          auction[i].status = "Removed" => auction'[i] = auction[i]]_vars

(* While the contract is paused no item changes hands, appears, or is      *)
(* promised to anyone.                                                     *)
PausedKeepsHands ==
  [][paused =>
       /\ count' = count /\ history' = history
       /\ \A w \in WasteId : /\ waste'[w].owner = waste[w].owner
                             /\ waste'[w].reservedBy = waste[w].reservedBy
       /\ Len(pending') = Len(pending) /\ auction' = auction]_vars

(* The bid of an auction only rises, and nobody outbids after its end.     *)
BidsOnlyRise ==
  [][\A i \in DOMAIN auction :
       /\ auction'[i].bid >= auction[i].bid
       /\ auction'[i].bidder # auction[i].bidder
          => auction'[i].bid > auction[i].bid /\ now < auction[i].ends]_vars

=============================================================================
