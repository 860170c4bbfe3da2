# Scavenger: TLA+ models and proofs

Scavenger is a recycling platform. A Soroban smart contract keeps the waste
items, participants, rewards and carbon credits; an indexer follows the
contract's events into Postgres; a Rust backend and a web front end (with an
offline queue) sit around them. This directory holds TLA+ specifications of the
parts where order, concurrency and failure matter, TLC configurations that check
them on small instances, and TLAPS proofs of the results that hold for every
instance. All paths below are relative to the repository root; `lib.rs` and
`types.rs` are those of `src/stellar-contract/src/`.

To check a run: `tlc -config custody_items.cfg MCWasteCustody.tla`. To check the
proofs: `tlapm WasteCustody_proofs.tla` (four minutes for `Parts_proofs`, the longest).

## 1. The system

| Component | State | Operations | Interacts with | What is hard |
|---|---|---|---|---|
| contract: waste custody | `waste_v2`, `participant_wastes`, `transfer_history`, pending transfers, auctions, disputes, clock, pause | some thirty calls: recycle, split, merge, transfer (direct, batch, admin, approved), auction, dispute, reserve, expire, deactivate | registry, pause, proposals (deactivation) | every call repeats the checks for itself; an item has several claims on it at once (offer, auction, reservation, dispute) |
| contract: materials, carbon credits, market | v1 materials, per-participant stats, `TOTAL_CARBON`, listings, index of active listings | submit, transfer, verify, redeem, list, cancel, purchase | external token contract | escrow, a hand-kept index, batches that name one id twice |
| contract: administration | `ADMINS`, threshold, `RWD_CFG`, proposals | admin list, percentages, propose / approve / execute, pause | custody (deactivation), rewards (percentages) | approvals outlive their admins; thresholds change under proposals |
| contract: incentives and rewards | incentives, budgets, schedules, token totals | create, claim, update, distribute, donate | materials, percentages | budgets that are updated, claims that leave no record |
| contract: item processing, challenges, routes, reputation, compliance | one or two fields or records each | setters and counters | items, participants | mostly data |
| contract clients (SDK and application) | per call: transaction, time of submission, polls | build, simulate, sign, submit, poll | RPC node, wallet | lost replies, timeouts while the transaction is on its way, two calls that build the same transaction, arguments that do not fit the contract |
| indexer: ingestion | cursor, raw event log, projected tables, poll runs in flight | read cursor, fetch page, apply in one transaction, detect reorganisations | RPC server, Postgres | overlapping runs, first page only, restarts, aborted transactions, reorganisations |
| indexer: job queue, rate limiter | Redis sorted sets and hashes | enqueue, take, retry; trim, count, add, renew | Redis, other processes | several Redis calls for one decision, each of which may fail unnoticed |
| indexer: migrations | tables, rows of `migrations` | up, down | Postgres, other processes | three queries per file without a transaction |
| frontend: offline queue | mutations in IndexedDB, status | enqueue, sync, retry | tabs of one browser, network | closed tabs, several tabs at once |
| frontend: list of wastes, verification dashboard, community proposals | React state, a query cache, `localStorage` | load, confirm, transfer, verify, reject; propose, vote, veto, finalise | contract clients, other tabs | optimistic updates, loads that end in any order, bulk actions that fail half way, whole-list saves |
| backend: idempotency, webhooks, upgrades, caches | in-memory maps behind mutexes, spawned deliveries | lookup, run, insert; deliver, retry | HTTP workers | state read before an await and used after it; lock order |
| the rest (search, analytics, crypto, CSRF, other pages, mobile, website, infrastructure) | none or data only | reads, formatting | | no protocol of their own |

Contract calls are atomic: the ledger serialises them and a panic or an `Err`
rolls back every write (the re-entrancy `lock` is taken and released inside one
call and is never seen by another). So in the contract modules one action is one
successful call and a failing call is no step. In the indexer a step is what
happens between two awaits that another run, the server or a crash can separate.

What makes each component correct, in one line: custody - an item has one
holder, lists and histories agree with it, and no claim on it survives its
settlement; credits - none is made, lost or spent twice; administration - a
decision needs as many people as it says; ingestion - the cursor never passes an
event that has had no effect, and goes on; incentives - a budget knows what it
has spent, and everything taken from it reaches somebody; contract clients - what
a call reports is what becomes of it; offline queue and idempotency - a change is
neither lost nor made again, apart from the cases that can be named; job queue -
no job is lost and retries do not pile up; rate limiter - how far a limit can be
exceeded is known; pages - what is shown as done is done or said to be under way.

`PROJECT.json` lists every component and every hazard with its source line.

## 2. Modules

| Module | Models | Proofs |
|---|---|---|
| `WasteCustody` | v2 items of the contract: who owns an item and every way it changes hands | `WasteCustody_proofs` |
| `WasteCustodyClaims` | sentences of the repository's docs and comments about custody | |
| `Materials` | v1 materials: submission, transfer, verification | |
| `CarbonMarket` (extends `Materials`) | carbon credits: earning, redeeming, listing, cancelling, buying | `CarbonMarket_proofs` |
| `CreditLedger` | abstract specification: credits are issued, moved and burned | |
| `AdminGovernance` | admin list, threshold, percentages, proposals | `AdminGovernance_proofs` |
| `IndexerSync` | poll runs of the indexer against the chain and Postgres | `IndexerSync_proofs` |
| `Incentives` (extends `Materials`) | budgets, claims, distributions and what everybody has earned | `Incentives_proofs` |
| `ContractInterface` | the calls of the two TypeScript clients and the functions the contract exports, with their types | |
| `CallPromise` | abstract specification: what a caller may conclude from what a call reports | |
| `ContractCall` (extends `ContractInterface`) | a signed call of either client, the node and the ledger | `Parts_proofs` |
| `OfflineQueue` | changes made offline, tabs that share them, and their synchronisation | `Parts_proofs` |
| `WasteList` | the hook behind the list of wastes | `Parts_proofs` |
| `VerificationDashboard` | approvals and rejections, one by one and in bulk | `Parts_proofs` |
| `CommunityVotes` | proposals and votes in the browser's storage | `Parts_proofs` |
| `RateLimiter` | the sliding window in Redis | `Services_proofs` |
| `JobQueue` | the job queue in Redis | `Services_proofs` |
| `Migrations` | migrations of the indexer's database | `Services_proofs` |
| `IdempotencyGate` | the backend's idempotency middleware | `Services_proofs` |
| `MCParts` | composes the ten modules from `Incentives` on for one run | `Parts_proofs` |
| `Vectors` | vectors of the contract that are kept in order: removing a value | `Collections_proofs` |
| `Collections_proofs` | nothing of the code: induction over finite sets, sums over sets, and what removing a value from a vector keeps | itself |
| other `MC*` | values of the constants for TLC | |

### WasteCustody

`waste[w]` is `("waste_v2", w)` restricted to owner, activity, freeze, expiry and
reservation; `index[a][w]` counts how often `w` is in `("participant_wastes", a)`;
`history[w]` is `("transfer_history", w)` with its note as `kind`; `pending`,
`dispute` and `auction` are the records by id. Each action has the name of the
call it models (`TransferWaste`, `BatchTransfer`, `ApproveTransfer`,
`CreateAuction`, ...). `Registry`, `NewItems`, `Transfers`, `Auctions` and
`CaseWork` group them as the source does.

Left out or narrowed, each of them data that the properties do not read: weights,
types (so one TTL for all items), places and confirmation of an item;
`split_waste` makes exactly two children; `merge_wastes` takes two ids, which may
be equal; the list is a bag, its order is not modelled;
the new owner of an admin override is one of the addresses; `bulk_import_wastes`
is not modelled.

### Materials, CarbonMarket and CreditLedger

`earned` is `carbon_credits_earned` of the stats, `totalCarbon` is
`TOTAL_CARBON`, `listing` the listings by id (a listing keeps its amount until it
is cancelled or sold), `index` is `CARB_LIST_IDX`. The token contract is external:
`tokens` holds its balances, and a payment fails when the payer has too little
(`Pay`). `redeemed` and `sales` collect the events the calls emit. Batches have at most two
ids, which may be equal. Contamination lowers rewards, not credits, and is left
out, as are rewards and reputation. A `u128` total of credits cannot overflow with
lots of at most `MAX_WASTE_WEIGHT`, so it is not cut off; the conversion of a
price to the token's `i128` is modelled (`MaxToken`). The participants and their roles are fixed.

`CreditLedger` knows accounts only. The refinement mapping makes every listing
id an account: its holding is the listed amount while the listing is active.
Listing, cancelling and selling then are moves, verifying issues, redeeming
burns. `KeepsLedger` says that every step of `CarbonMarket` is a step of the
ledger or leaves it as it is.

### AdminGovernance

`admins` is the list `ADMINS` (duplicates possible), `shares` is `RWD_CFG`,
`active` the items that still have `is_active`. Half of the actions are what an
admin may do alone, also during a pause (`transfer_admin`, `add_admin`,
`set_multisig_threshold`, the percentages, `deactivate_waste`), and half are the
proposals. `Execute` counts all approvals, also of people who are no longer
admins, against the threshold of the moment, as `execute_admin_proposal` does.

### IndexerSync

`Log` is every event the chain will ever hold; `head` the latest closed ledger;
`reorged` the ledgers that a reorganisation replaced (entries with `fork` are on
the chain only then). `raw`, `rows`, `confirmed`, `copies` and `cursor` are
`raw_events`, the keyed tables, `is_confirmed`, the tables without a key and
`sync_status.last_ledger`. `run[r]` is a poll run: idle, after reading the
cursor, with a page in hand, inside its transaction, or about to move the cursor
over an empty range. A transaction is two steps: `Begin` reads what the first
statement of `processEvents` reads and locks nothing; `Commit` is the rest, since
the statements after it conflict with those of any other run on the row of
`sync_status` at the latest. `Fail` is an error of the server or the database,
`Abort` the foreign key that fails, `Restart` a crash.

`processEvents` goes through the page ledger by ledger, and the first of them that does
not match the raw log empties everything from there on (`Gone`). What a run has inserted
before that stands, what it inserts afterwards meets tables that are already empty:
`Seen` is what the tables still hold when it comes to an event, and the keys that let an
event in or not (`SameRaw`, `SameRow`) are compared with that.

Two kinds of ledgers are `Disturbed`: those a reorganisation replaced, since no run looks
at them again, and those within which a page can end (`Cuttable`), since the cursor then
passes the rest of the ledger. With overlapping runs everything above a disturbed ledger
is `Exposed` as well: a run that finds the stored hashes of that ledger different rolls
back the tables and the cursor under another run that is already further on. This is what
the code guarantees and what it does not (section 6); the properties speak of the rest.

Left out: updates of a row other than `is_confirmed`, event parsing, metrics,
broadcasting.

### Incentives

`incentive[i]` is `("incentive", i)` without its schedule and tiers, `split` is `RWD_CFG`,
`tokensEarned` the `total_tokens_earned` of the participants, `totalTokens` is
`TOTAL_TOKENS`. `VerifyMaterial` and `DistributeRewards` share `Gains`, which is the
distribution of `_reward_tokens`: a share for each place in the history whose holder has
a role that earns, the rest for the submitter; in a verification each is multiplied by
the certification and tier of its receiver, so that the sum differs from the reward.
`charged`, `cut`, `donated`, `bonuses` and `twice` are ghosts. Participants, roles and
multipliers are fixed, every account of the token contract can pay, and the challenge's
own bookkeeping is left out of `CompleteChallenge`.

### ContractInterface, CallPromise and ContractCall

`ContractInterface` holds, section by section, the name and the argument types of
every wrapper of the SDK and of the application's client, and of the functions with
those names in `lib.rs`. `Fits` keeps the wrappers that agree. 24 do; 11 do not
(section 6), and the host refuses such a call before the function runs.

In `ContractCall`, `stage[c]` is where `invoke` is in its awaits, `tx[c]` the
transaction it built, identified by method, signer, sequence number and time bound -
two calls may build the same one. The node takes a transaction with the next sequence
number (`Take`), the ledger applies it or fails it (`CloseLedger`), the network drops it
(`Drop`). Replies to the submission and to polls may be lost. The SDK polls until a
deadline, the application twenty times (`PollsOn`). Two calls with the
same transaction are part of the state space: both report what became of the one.

`CallPromise` has for each caller an effect and an answer: a value only after the
effect, an error only if there is none and never will be, a doubt at any time. The
refinement mapping reads the effect off the ledger and the answer off the verdict.

### OfflineQueue

`store` is the object store `mutations`, `step[t]` where tab `t` is in
`performSync`/`syncSingleMutation`, one value per await; `updateMutationStatus` is two
steps, because it reads and writes in two transactions. A tab can be closed at any
step, the user can clear the data, and a request to IndexedDB can fail. `Handled` are
the changes for which a handler is registered.

### WasteList, VerificationDashboard and CommunityVotes

`WasteList`: each task (a load, a confirmation, a batch, a transfer) runs once and
beside the others; `wastes` is what is shown. `VerificationDashboard`: `allMaterials` is
the query's data, `rest` what the running action has still to verify; the buttons are
disabled while it is not empty. Lists that are read may lag behind the ledger in both.
`CommunityVotes`: an operation loads and changes the list (`Prepare`) and stores it
(`SaveProposals`) in two steps, since nothing keeps two tabs apart; weights are fixed.

### RateLimiter, JobQueue, Migrations and IdempotencyGate

Each step is one call to Redis, Postgres or the handler. `RateLimiter`: `phase[r]` is
where request `r` is in `checkLimit`; a failing call rejects the promise and the
callback goes on, as written. `JobQueue`: an entry is the text of a job, `current[w]`
the copy a worker changes, and `Matching` is what `zrem` of that copy's text removes.
`Migrations`: `place[p]` and `file[p]` are where a process is in `migrateUp` or
`migrateDown`; `doubled` and `broken` remember which files ran on top of their own tables
and where that ended a process. `IdempotencyGate`: `kept[w]` is the store of a worker; between
`Intercept` and `Created` the handler runs and the client may hang up (`Unstored`).

### MCParts

The ten modules share no variables. `MCParts` chooses one of them in the initial state
(`part`) and lets it alone take steps, so the state spaces add up instead of
multiplying, and one run checks all. Each property reads one part's variables and
holds of the others, which stay as they began. What is proved, is proved of the
modules' own specifications (`CallSpec`, `QueueSpec`, ...), and `PartsAreParts` proves
that a behaviour of `PartsSpec` is one of each of them, so that it holds in the product
that the run checks (`PartsTypeCorrect`, `PartsCorrect`).

### Source that does not compile as it stands

The commit holds leftovers of merges (for example `lib.rs:1664-1671`,
`lib.rs:4148-4160`, `types.rs:282-285`, `types.rs:1426-1460`,
`validation.rs:82-85`). Where they touch a modelled function the evident intent is
modelled: the statement or brace that is doubled or missing is read once.

## 3. Runs

| Run | Question | Bounds and why they are enough | States |
|---|---|---|---|
| `custody_offers` | Do lists stay right and settled offers settled, while transfers, offers and expiry interleave? | one item, three roles, two offers, two moves: an item can be offered, go elsewhere and be approved; the clock reaches the offers' deadline and the item's expiry | 2.0 M |
| `custody_items` | Do splits, merges, batches and disputes keep lists and freezes right? | three items: a split, then a merge of any two or of one with itself; two disputes, two ids per batch | 1.1 M |
| `custody_auctions` | Is an item under auction never given away twice? | two auctions of one item, a pending offer, bids above and below the 5 % step, the clock passes both ends | 1.0 M |
| `credits_market` | Are stats and listings a ledger that balances? | two traders, two lots (one rounded down), two listings, three credits: each can list, buy back and redeem; token limit 3 so that a product does not fit | 83 k |
| `governance` | Does agreement mean what it says? | three addresses, lists with and without duplicates, one proposal over its whole life; what a second proposal could do meanwhile the calls of single admins do | 0.7 M |
| `index_overlap` | Does the cursor stay behind the tables and does it go on, with two runs at once, a reorganisation, a page that ends inside a ledger and a waste that the foreign key refuses? | a transaction with two wastes, a transfer that a reorganisation replaces, an empty ledger, and a ledger of two events that a page of three can cut, one of them the waste of somebody who never registered; two runs, so that one overtakes the other and is rolled back | 22 k |
| `parts` | Do the ten small machines of `MCParts` keep what they promise? | see below | 354 k |
| `custody_frozen_claim`, `custody_holder_claim`, `index_copies_claim`, `index_raw_claim`, `index_reorg_claim` | sentences of docs and comments that the code does not keep (section 6) | | |

The parts of `parts`: three calls (SDK, application, and a deprecated wrapper that does
not fit) of one signer, so that sequence numbers clash and two calls can be one
transaction, clocks past the validity, the polling and the lag; two tabs, two changes, one
without a handler; three requests with two under way, a limit of one, a window shorter
than the clock's range; two jobs, two workers, two attempts, two runs; two processes
and three migrations, the third refused; a load, a confirmation, a batch of two and a
transfer over two items; two materials on the dashboard; one proposal, two voters of
different weight, two tabs; one lot, one incentive, an update below and above the
spending, boosts and shares that round; three requests with one idempotency key on two
workers, so that two overlap and a third comes after. A second proposal, lot, incentive or key would
only repeat what the first does, as the actions touch one of them at a time.

`Slack`, `LastBuild`, `LastSend`, `MaxClock`, `LimiterEnd`, `Score`, `MaxRuns`,
`MaxIncentives`, `MaxTokens`, `MaxAside`, `MaxTime`, `MaxWastes`, `MaxBatch`, `MaxMoves`, `MaxPending`, `MaxDisputes`,
`MaxAuctions`, `MaxMaterials`, `MaxCarbon`, `MaxListings`, `MaxAdmins` and
`MaxProposals` bound the instances; each stands in the guard of the action that
would pass it. No symmetry is used: the addresses differ by role, or a temporal
property is checked.

`governance` and `credits_market` do not check for deadlock: a contract whose admin list
is empty really stops being administered, and at the bounds a paused or sold-out market
has nothing left to do. `parts` does not either: its parts end, by their bounds or by
having sent all they had.

### Properties

Custody. `OwnerListed`: an active item is missing from its owner's list only
after an override or an auction. `FrozenIffDisputed`: a freeze is exactly one
open dispute. `AuctionedWasteHeld`: an item for sale stays with the contract,
apart from overrides and offers made before. `HandoversAccounted`: no change of
hands without a record, an auction put up or a running auction closed.
`SettledStaysSettled`, `PausedKeepsHands`, `BidsOnlyRise`.

Credits. `KeepsLedger` (refinement), `CreditsBalance` (nothing made or lost),
`IndexedActive` (index and flags agree, in order), `SalesArePaid` (every listing
is sold at most once and token balances follow from the sales).

Administration. `ExecutedAgreed`, `SharesFit`, `AdminsRemain`.

Indexer. `NothingLost` (every event up to the cursor has had its effect, unless its
ledger is exposed), `LossesRefetched` (what a commit undoes is ahead of the cursor again,
so that a rollback is only a setback; this one holds above a disturbed ledger too),
`TransactionsLogged` (rows and raw log are filled and rolled back together: no row whose
transaction left no raw event of the kind), `CatchesUp` (liveness, again after every
setback). That every row has a raw event of *its own* is what ADR 0005 wants and the code
does not give: `index_raw_claim`.

Rewards. `SpendingKnown`: total minus remaining is what was taken from a budget, unless
the total was once set below it. `EarningsCounted`: by exactly what the contract's total
differs from what the participants have. `ChargesArePaid`: what a budget is charged
reaches participants.

Calls. `CallKeepsPromise` (refinement), `LateLandingBounded` (a call that timed out
settles within the lag), `PollingEnds` (liveness).

Browser. `SentOnceByOneTab`, `GoneMeansSentOrCleared`, `OptimismExplained`,
`ApprovalsVerified`, `PassedByVotes`.

Services. `OvershootBounded` (a limit is exceeded by the concurrency at most, apart from
entries a reset or the key's expiry deletes), `NeitherLostNorPiledUp`,
`RecordedIsApplied`, `DoublingFails` (a migration executed twice costs a process its
start), `AnsweredOnce` (what is left of "at most once").

### Fairness

The contract modules have none: nobody is obliged to call. `FairSpec` of
`IndexerSync` has weak fairness of starting a run, because `setInterval` fires for
ever, and strong fairness of the steps of a run, because neither the RPC
server nor the database fails, and the process is not restarted, at every
attempt for ever. `Commit` and `Abort` are one there: how a transaction ends is not a
matter of luck, and a batch that the foreign key refuses is refused every time. Nothing is
assumed of the chain: `CatchesUp` speaks of ledgers that are closed, and excepts only a
cursor before a page with an orphaned waste, which the run's log has: there the indexer
stays for ever (section 6), and before it must not. `PartsSpec` has weak fairness of
the poll of each call, because `setTimeout` fires in a tab or process that runs on, and
of the clock, which nothing stops: `Tick` waits for polls that are due, so the two
alternate. Nothing is assumed of the node, the ledger or the user, and `PollingEnds`
needs no more: it is the deadline, or the count, that ends the loop.

## 4. What is proved

Every safety property that a passing run checks is also proved, except `LossesRefetched`,
for all values of the constants under the named assumptions of the modules (which TLC
evaluates on each run). Two theorems about the indexer have a hypothesis (below). A theorem about an
invariant `P` shows `Init => I`, `I /\ [Next]_vars => I'` and `I => P` for the
strengthening `I` named with it; an action property is shown of each action from `I`.

### Custody (`WasteCustody_proofs`)

* `TypeCorrect`: the contract's custody state keeps its types.
* `FreezeCorrect`: `FrozenIffDisputed`. It is not inductive alone: a dispute about
  an id not yet issued would freeze a future item. `FreezeInv` adds the types and
  `DisputesNameItems` (a dispute names an issued item), and most calls are
  dispatched by one frame lemma (`FreezeFrame`): they change no freeze and no dispute.
* `SettledForGood`, `BidsNeverFall`, `PauseKeepsHands`: `SettledStaysSettled`,
  `BidsOnlyRise`, `PausedKeepsHands`, call by call from the types.
* `NoSilentHandover`: `HandoversAccounted`, from what each group of calls can do to an
  item: leave it (`ItemKept`), move it with a record (`Moved`), put it up (`PutUp`) or
  close its auction (`Closed`).
* `OwnerListedCorrect`: `OwnerListed`, inductive with the types, from the same lemmas: a
  move puts the item on its new owner's list or is an override, and who won an auction
  has won it for good (`WonForGood`).
* `AuctionedWasteStays`: `AuctionedWasteHeld`. Not inductive alone: were there two running
  auctions of one item, the end of one would take it from the other. `SaleInv` adds
  that there are not (`OneSale`), except of an item that an override or an offer
  approved during an auction has taken out (`Marked`), which its history
  remembers for good.

### Credits and their market (`CarbonMarket_proofs`)

* `LedgerKept`: `CarbonMarket` implements `CreditLedger`. The inductive part is
  only the shape of the credits (`CreditsTypeOK`); each call is then mapped to
  `Issue`, `Move` or `Burn`, or to a stutter. The assumption that addresses are
  not listing ids keeps the escrow accounts apart.
* `CreditsTypeCorrect`, `MarketTypeCorrect`: no balance is ever below zero, the index
  names listings, sales name listings and buyers.
* `IndexCorrect`: `IndexedActive`. Inductive with the types: listing appends the
  largest id, and `Without` removes one value and keeps the order (`Collections_proofs`).
* `SalesStayPaid`: `SalesArePaid`. `SalesInv` adds that what is sold is no longer
  active (`SoldClosed`), so that it is sold once; a listing keeps seller, price and amount
  for good (`ListingsKept`).
* `CreditsStayBalanced`: `CreditsBalance`, on the level of the abstract ledger: issuing
  and burning change one holding and the total alike, a move keeps the sum, and the
  refinement carries it to the code.

Sums over participants are folds, about which the prover can do no induction
over data with an operator as parameter. `Collections_proofs` therefore states induction
over finite sets with a *set* of subsets in place of the operator, proved from the
library's well-founded induction, and derives from it what changes a sum. This
needs finitely many participants (`AddressAssumption`).

### Administration (`AdminGovernance_proofs`)

* `GovernanceTypeCorrect`: `TypeOK`, with the list that `remove_admin` leaves.
* `ProposalsAgreed`: `ExecutedAgreed`. The length of the list of approvals counts
  people only because no address is in it twice, which `GovernanceInv` carries
  (`DistinctApprovers`).
* `SharesAlwaysFit`: the percentages never exceed a hundred, also when an old
  proposal writes them.
* `AdminsStay`: `AdminsRemain`. If removing one address empties a list that is longer
  than one, the list named that address alone, and more than once.

### Indexer (`IndexerSync_proofs`)

* `IndexerTypeCorrect`: tables, cursor and runs keep their shape.
* `CursorIsSafe`: `NothingLost`, for any log, any page size, any number of overlapping runs
  and any failures, restarts and reorganisations, without a hypothesis. `SafeInv`
  says that all lasting events (those of ledgers that are not exposed) up to the cursor, and
  up to the cursor that each run has read, have had their effect (`Covered`); that a page
  has no gap between where its run began and where it ends (`PageWhole`), and an empty one
  means that nothing was there (`NothingAhead`); and that what a run read of its first
  ledger is part of its page (`KnownIncoming`), which is why it rolls back nothing that
  lasts. An effect alone is not inductive: a row with the key of an event may come from a
  later event and go with it in a rollback. `Held` therefore asks for a row of an event no
  later than itself, and `RowsInOrder` says that later ones find it there.
* `RowsLogged`: `TransactionsLogged`, for any log in which a transaction is in one ledger
  (`TxInOneLedger`), with several events of one kind in it or not. It needs the order of
  the rollback: what the commit finds under the key of an event is in the event's own
  ledger, so it is emptied before the event comes, or not at all (`RawTakesPage`). A
  reorganisation that moves a transaction to *another* ledger is outside the theorem:
  then the raw event that keeps a new one out may be rolled back afterwards.
* `OneRunOneCopy`: `OneCopyEach` with one poll run at a time (`OneRun`), whatever is
  reorganised, fails or is cut off; with two it is false (`index_copies_claim`).
  `OneRunInv` says that what is stored is of ledgers the cursor has passed, and
  that the page of the run is ahead of the cursor (`PageAhead`).

The log of `index_overlap` satisfies `TxInOneLedger`, and TLC finds `SafeInv` true on it.

### Rewards (`Incentives_proofs`)

* `RewardsTypeCorrect` and `SpendingStaysKnown`: remaining never exceeds total, and an
  update moves both by the same amount unless it cuts.
* `EarningsStayCounted`: `EarningsCounted`. Where a verification or a distribution pays
  several participants, the sum of the earnings grows by the sum of what each of them
  gains (`SumOfBoth`); where one is paid, by that (`SumOfOnly`).
* `ChargesStayPaid`: `ChargesArePaid`. What the shares and the owner's part
  leave of a reward goes to the submitter, so rounding is to nobody's loss (`GainsCover`).

### Clients, browser and services (`Parts_proofs`, `Services_proofs`)

* `PromiseKept`: `ContractCall` implements `CallPromise`. `CallInv` says what is
  known at each stage: a transaction that landed or failed left the pool and used its
  sequence number, so it can never be applied again; a call that has not
  handed over its transaction has none of its own on the ledger; and
  a refusal comes before handing over or after the failure.
* `TimedOutSettlesSoon`: `LateLandingBounded`. A client gives up no earlier than its
  transaction expires (`PatienceAssumption`: the defaults of both clients), carried by
  bounds on `since`, `slept` and `polls`.
* `SentOnce`, `NoChangeIsLost`: the offline queue. The invariant ties a tab's step to the
  change it holds and says that a change that was sent is in no other list unless contested.
* `ListHonest`, `HistoryHonest`, `TallyKept`: the pages. For `TallyKept` every
  list that a tab is about to save is consistent, not only the stored one.
* `OvershootIsBounded`: it counts the requests that hold a place or are about
  to take one; at most the limit found room, plus one for each other request under way.
* `QueueKeepsJobs`: entries of `enqueue` are never removed because the text of a copy
  always says one attempt more.
* `RecordedHasTables`: between executing and recording a migration only a down takes
  its tables away, and then `undone` says so.
* `DoublingNoticed`: `DoublingFails`. Tables that exist are recorded, about to be recorded by
  some process, or known to be left over (`Noted`); so of two that executed one file, one
  comes to `Insert` when the row is there.
* `AnsweredIsKept`: an answer that is not lost is in its worker's store, itself or
  replaced by a later one with its key.
* `PartsTypeCorrect`, `PartsCorrect`: the types and all of the above hold in the product
  `PartsSpec`, since each part runs there as it does alone.

### Only model-checked

`CatchesUp` and `PollingEnds`: liveness under fairness is outside the prover's reach.
`LossesRefetched`: it is about ledgers *above* a disturbed one, which `SafeInv` leaves out
as soon as runs overlap. For any log it needs to know which rows a rollback that takes one
of two events with one key may take; on the log of `index_overlap` TLC finds it true.

## 5. Plan

Done: custody, credits, administration and ingestion; then rewards, the contract clients,
the offline queue, three pieces of the front end, the indexer's services and the
idempotency middleware; and proofs of the safety properties that the runs check, but one.

Next, in this order:

1. Life of an item: confirmation, processing status, grading, contamination,
   next to custody; no call revives a deactivated item (`lib.rs:1901`).
2. Backend: upgrade plans (`contract_upgrades.rs:259`), the lock order of the cache
   (`cache.rs:98`), webhooks.
3. Challenges, with the rewards `CompleteChallenge` already pays.
4. Proofs: `LossesRefetched`; an abstract specification of custody (who holds an item, and by which
   right) that `WasteCustody` implements.

A composition worth having later is custody with `AdminGovernance`, where an
executed `DeactivateWaste` races the calls on the item.

## 6. Where code and words differ

Shown by a run:

* `custody_frozen_claim`: `batch_transfer_waste` (`lib.rs:2902`) does not look at
  the freeze; `lib.rs:7284` says a disputed item cannot be transferred.
* `custody_holder_claim`: `approve_transfer` (`lib.rs:6353`) does not compare the
  owner with the sender of the offer; `docs/SYSTEM_DESIGN.md:231` makes that a
  condition of a transfer.
* `index_copies_claim`: overlapping runs insert a transfer twice
  (`indexer.ts:115`); ADR 0005, lines 39-40, says it cannot be.
* `index_raw_claim`: the unique index of `raw_events` (`001_initial_schema_up.sql:29`) is on
  transaction, event type and `topic[1]`, and arrays count from one, so `topic[1]` is the
  type again. Of several events of one kind in a transaction (`batch_transfer_waste`,
  distributions, batches of credits) each is projected and only the first is logged. ADR
  0005, line 95, wants every table "reconstructible from `raw_events` alone".
* `index_reorg_claim`: a run never fetches a ledger it has passed, so a
  reorganisation below the cursor is not seen; ADR 0002, line 55, says it must be.

Read in the code, each explained by the models but without a run of its own:

* Lists are not updated by `admin_override_transfer` (`lib.rs:1387`) nor by auctions; an item
  whose auction ends without a bid, or is cancelled, stays with the contract.
* An item that was deactivated can be put up for auction (`lib.rs:1900`).
* The 5 % step of a bid is rounded down (`types.rs:1029`).
* Some calls do not check the pause (`expire_transfer`, `resolve_dispute`,
  `deactivate_waste`, `cleanup_expired_wastes`), against `docs/SYSTEM_DESIGN.md:539`.
* The last admin is protected by the length of the list only (`lib.rs:473`), and `transfer_admin`
  accepts a list with duplicates; `AdminsRemain` states what does hold.
* `remove_admin` leaves the threshold as it is, which may then exceed the number of
  admins (`lib.rs:4870`), and a single admin can still do directly everything a proposal does.
* `verify_material` may be repeated, and earns each time (`lib.rs:3578`).
* Overlapping runs and a reorganisation, or a page that ends inside a ledger, lose rows that
  nothing was wrong with: a run that began below that ledger finds other hashes than are
  stored, rolls back the tables and the cursor (`syncStatus.ts:53`) while another has read
  the higher cursor, and that one goes on from there. This is why `NothingLost` exempts
  what is above (`Exposed`); one run alone never rolls anything back, so that there only the
  disturbed ledgers themselves suffer.
* With `START_LEDGER` after a registration, a waste of that participant is retried for
  ever, and nothing behind it is indexed (`CatchesUp` excepts it).
* Only the first page of events is read (`streamer.ts:46`), which is safe because the
  cursor moves to the last event of the page, unless a page ends inside a ledger: what is
  left of that ledger is never fetched (`Cuttable`).
* `idempotency.rs:7` promises "at most once", which concurrent requests with one
  key, requests on different workers (`main.rs:126` makes a store for each) and retries
  after a dropped connection do not get; `docs/api-reference.md:25` recommends the key
  for just that retry.
* Rewards: a distribution is added to `TOTAL_TOKENS` twice (`lib.rs:5582`), a challenge
  reward not at all (`lib.rs:6181`), `reward_tokens` counts tokens nobody transfers; a
  claim ignores the incentive's schedule; a total set below what was spent makes the
  budget forget it; `deactivate_incentive` says "permanently", but
  `update_incentive_status` turns the incentive on again, also with an empty budget;
  `calculate_incentive_reward` does not cap at the remaining budget as its comment says.
* The SDK says it "Provides typed wrappers for all contract functions"
  (`packages/scavenger-sdk/src/client.ts:43`); the wrappers of `transfer_admin`,
  `register_participant`, `update_role`, `submit_material`, `submit_materials_batch`,
  `transfer_waste`, `deactivate_waste`, `get_waste`, `get_waste_transfer_history`,
  `update_incentive` and `distribute_rewards` pass other types, or another number of
  arguments, than the contract takes.
* Two identical calls built in the same second on the same sequence number are one
  transaction; both report success although it was applied once.
* Offline queue: nothing in the source calls `registerMutationHandler`, so every sync
  leaves every change pending; a failed change is never tried again, against
  `docs/OFFLINE_FAQ.md:51`; `OfflinePage` shows the queue of another database.
* Job queue: the entry of an ended job is never removed, so it runs again, and later
  jobs wait behind it; with more than one attempt a job never ends as `failed`.
* The third migration has `CREATE INDEX CONCURRENTLY` among several statements, which
  PostgreSQL refuses, so `migrateUp` ends with an error there.
* Two processes that start together execute a file twice: the statements say `IF NOT
  EXISTS`, but `sync_status` gets a second row (`001_initial_schema_up.sql:12`: no column
  makes it conflict), and until the next update, which has no `WHERE`, `SELECT ... LIMIT
  1` may read the fresh 0. `DoublingFails` says that it does not go unnoticed.
* The application throws a `ContractError` when its polling ends
  (`frontend/src/api/client.ts:106`), as it does for a transaction that failed: the two
  differ in the message only. The models keep them apart (`Doubt` and a refusal), as a
  caller must; one that looks at the class alone takes a doubt for a failure.
* Community proposals: `finalizeProposal` does not look at `votingEndsAt` ("Finalise an
  expired active proposal"), `vetoProposal` accepts decided proposals and any caller
  while `GovernancePage.tsx:265` says "Any admin can veto an active proposal".
* `POST /replay` passes rows whose names the pipeline does not know, and has no effect;
  a subscription made before the web socket is open is dropped without a word.
* A load of the list of wastes started for another account may end last and be shown.

## 7. Not modelled, and why

Item processing, challenges, webhooks, upgrade plans and the backend's cache are
candidates (section 5). Storage helpers, search,
analytics, reports, encryption, signing, CSRF, validation, API routes,
website, mobile app and infrastructure are pure computation, input and output, or
data without an order that could go wrong. Key rotation
(`src/stellar-contract/src/key_rotation.rs`) has no caller in the contract, the
indexer's `CacheManager` no writer, the front end's `batchOperations` only simulates.

Left out of what is modelled: an address keeps its role (custody); requests to the limiter
read one clock, while processes on two machines may differ; a `zadd` of the job queue that
fails after the job's hash was written; the time between two approvals of a bulk action.
`LateLandingBounded` holds of the default timeouts (`PatienceAssumption`); a caller of
the SDK may set others, and with patience shorter than the validity it is false. In
`custody_offers`, which has no disputes and no auctions, `SettledStaysSettled` is about
offers only; that disputes and auctions stay settled too rests on `SettledForGood`.

Most of the TypeScript of the repository is markup: of some 51 000 lines in 437 files
about 31 000 are pages and components that render what one call returned. The logic
that the models cover lies in a few hundred lines of hooks, clients and services, so
the modelled share of the lines is small and stays so; most of the modelled
behaviour is in the contract, which is Rust.
