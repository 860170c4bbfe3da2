---------------------------- MODULE IndexerSync -----------------------------
(***************************************************************************)
(* The ingestion loop of the indexer (indexer/src): poll runs that read    *)
(* the cursor, fetch a page of contract events and apply it to Postgres in *)
(* one transaction.  setInterval starts a run without waiting for the one  *)
(* before, so runs overlap.                                                *)
(*                                                                         *)
(* A transaction is the two steps Begin and Commit.  Its first statement   *)
(* reads the stored hashes of the first ledger and locks nothing.  The     *)
(* statements after it conflict with those of any other run of the same    *)
(* ledgers, at the latest on the one row of sync_status, so that Postgres  *)
(* makes one run wait for the other to commit, or aborts it (Fail).        *)
(***************************************************************************)
EXTENDS Integers, Sequences, FiniteSets

CONSTANTS
  Log,          \* every event the chain will ever hold, in ledger order
  StartLedger,  \* START_LEDGER
  BatchSize,    \* BATCH_SIZE
  PageSize,     \* events the RPC server puts on the first page
  Runs          \* the poll runs that may be under way at the same time

Entry == 1 .. Len(Log)

Kinds == {"participant", "waste", "transfer", "confirm"}

(* An event: its ledger and transaction, its kind and the id it is about,  *)
(* for a waste the participant who recycled it, and whether it is on the   *)
(* chain only after a reorganisation of its ledger (fork).                 *)
ASSUME LogAssumption ==
  /\ Len(Log) \in Nat
  /\ \A i \in Entry :
       /\ Log[i].ledger \in Nat \ {0} /\ Log[i].kind \in Kinds
       /\ Log[i].fork \in BOOLEAN
  /\ \A i, j \in Entry : i < j => Log[i].ledger <= Log[j].ledger
ASSUME SizeAssumption ==
  StartLedger \in Nat \ {0} /\ BatchSize \in Nat \ {0} /\ PageSize \in Nat \ {0}

Ledger == {Log[i].ledger : i \in Entry}

VARIABLES
  head,       \* the latest ledger of the chain
  reorged,    \* the ledgers that a reorganisation replaced
  raw,        \* raw_events, as entries of Log
  rows,       \* participants and wastes, as the entries that inserted them
  confirmed,  \* the ids of wastes with is_confirmed
  copies,     \* how often an entry is in waste_transfers (or another table
              \* without a key: token_rewards, carbon_credits)
  cursor,     \* sync_status.last_ledger
  run         \* per poll run: where it is and what it has read

chain == <<head, reorged>>
db    == <<raw, rows, confirmed, copies, cursor>>
vars  == <<chain, db, run>>

Idle == [at |-> "idle", last |-> 0, to |-> 0, page |-> {}, known |-> {}]

Init ==
  /\ head = 0 /\ reorged = {}
  /\ raw = {} /\ rows = {} /\ confirmed = {} /\ cursor = 0
  /\ copies = [i \in Entry |-> 0]
  /\ run = [r \in Runs |-> Idle]

-----------------------------------------------------------------------------
(* The chain.                                                              *)
OnChain(i) ==
  Log[i].ledger <= head /\ (Log[i].fork <=> Log[i].ledger \in reorged)

CloseLedger ==
  /\ \E l \in Ledger : head < l
  /\ head' = head + 1
  /\ UNCHANGED <<reorged, db, run>>

Reorg(l) ==
  /\ l <= head /\ l \notin reorged
  /\ \E i \in Entry : Log[i].ledger = l /\ Log[i].fork
  /\ reorged' = reorged \cup {l}
  /\ UNCHANGED <<head, db, run>>

-----------------------------------------------------------------------------
(* What fetchEvents returns: the first page from ledger f on.  It does not *)
(* ask for the next page, and ignores the upper end it is given.           *)
Page(f) ==
  LET ahead == {i \in Entry : OnChain(i) /\ Log[i].ledger >= f} IN
  {i \in ahead : Cardinality({j \in ahead : j < i}) < PageSize}

PageLedgers(P)  == {Log[i].ledger : i \in P}
Hashes(S, l)    == {Log[i].tx : i \in {j \in S : Log[j].ledger = l}}
IsFirst(P, l)   == \A k \in PageLedgers(P) : l <= k
IsLast(P, l)    == \A k \in PageLedgers(P) : k <= l

(* detectAndHandleReorg, for each ledger of the page: the ledgers of which *)
(* a stored transaction is not among those that come in.                   *)
Stale(r) ==
  LET P == run[r].page IN
  {l \in PageLedgers(P) :
     ~ ((IF IsFirst(P, l) THEN run[r].known ELSE Hashes(raw, l)) \subseteq Hashes(P, l))}

(* rollbackFromLedger, called for the first of them: the ledgers that it   *)
(* empties, and what it leaves of T.                                       *)
Gone(r)       == UNION {{l \in Ledger : s <= l} : s \in Stale(r)}
Kept(T, gone) == {i \in T : Log[i].ledger \notin gone}

(* Mutant of Seen: the rollback comes after the inserts of its ledger.     *)
SeenLate(T, gone, i) == T

(* What is left of T when a run comes to the entry i of its page.          *)
Seen(T, gone, i) == IF Log[i].ledger \in gone THEN Kept(T, gone) ELSE T

(* ON CONFLICT DO NOTHING: an entry of the page P goes into T if no row    *)
(* with its key is there by then, nor was put there by an earlier entry.   *)
SameRaw(x, y) == x.tx = y.tx /\ x.kind = y.kind
SameRow(x, y) == x.kind = y.kind /\ x.id = y.id

New(T, P, gone, Same(_, _)) ==
  LET Free(i) == \A j \in Seen(T, gone, i) : ~Same(Log[j], Log[i]) IN
  {i \in P : Free(i) /\ \A k \in P : k < i /\ Same(Log[k], Log[i]) => ~Free(k)}

NewRaw(P, gone)  == New(raw, P, gone, SameRaw)
NewRows(P, gone) ==
  {i \in New(rows, P, gone, SameRow) : Log[i].kind \in {"participant", "waste"}}

(* There is a row of the kind k with this id.                              *)
Has(T, k, id) == \E j \in T : Log[j].kind = k /\ Log[j].id = id

(* Mutants of NextCursor: the end of the range that was asked for, and a   *)
(* cursor that never goes back.                                            *)
NextCursorEnd(r)      == {run[r].to}
NextCursorGreatest(r) ==
  {IF l < cursor THEN cursor ELSE l :
     l \in {k \in PageLedgers(run[r].page) : IsLast(run[r].page, k)}}

(* updateSyncStatus, called after each ledger: the last one of the page    *)
(* stands.                                                                 *)
NextCursor(r) == {l \in PageLedgers(run[r].page) : IsLast(run[r].page, l)}

(* The foreign key wastes.recycler_address: a new waste without a          *)
(* participant, or a participant that a rollback deletes under a waste.    *)
BreaksKey(new, gone) ==
  LET left == Kept(rows \cup new, gone) IN
  \/ \E i \in new :
       /\ Log[i].kind = "waste"
       /\ ~Has(Seen(rows, gone, i) \cup {k \in new : k < i}, "participant", Log[i].by)
  \/ \E i \in left : Log[i].kind = "waste" /\ ~Has(left, "participant", Log[i].by)

-----------------------------------------------------------------------------
(* A poll run.                                                             *)

ReadCursor(r) ==
  /\ run[r].at = "idle"
  /\ run' = [run EXCEPT ![r] = [Idle EXCEPT !.at = "read", !.last = cursor]]
  /\ UNCHANGED <<chain, db>>

(* Mutant of FirstWanted: the last ledger is fetched again.                *)
FirstWantedAgain(last) == IF last = 0 THEN StartLedger ELSE last

FirstWanted(last) == IF last = 0 THEN StartLedger ELSE last + 1

(* Mutant of Fetch: an empty page is processed like any other.             *)
FetchEmpty(r) ==
  /\ run[r].at = "read"
  /\ \E from \in {FirstWanted(run[r].last)} :
       run' = [run EXCEPT ![r] =
         IF run[r].last >= head \/ from > head THEN Idle
         ELSE [@ EXCEPT !.at = "begin", !.to = head, !.page = Page(from)]]
  /\ UNCHANGED <<chain, db>>

(* getLatestLedger and fetchEvents.  The server refuses a start beyond the *)
(* latest ledger, which ends the run.  (A quantifier over one value, here  *)
(* and in Commit, names a value that is then used more than once.)         *)
Fetch(r) ==
  /\ run[r].at = "read"
  /\ \E from \in {FirstWanted(run[r].last)} : \E page \in {Page(from)} :
       LET to == IF from + BatchSize - 1 < head THEN from + BatchSize - 1 ELSE head IN
       run' = [run EXCEPT ![r] =
         IF run[r].last >= head \/ from > head THEN Idle
         ELSE [@ EXCEPT !.at = IF page = {} THEN "advance" ELSE "begin",
                        !.to = to, !.page = page]]
  /\ UNCHANGED <<chain, db>>

(* An empty page: the cursor moves over the ledgers asked for.             *)
Advance(r) ==
  /\ run[r].at = "advance"
  /\ cursor' = run[r].to
  /\ run' = [run EXCEPT ![r] = Idle]
  /\ UNCHANGED <<chain, raw, rows, confirmed, copies>>

(* BEGIN, and the first statement of processEvents.                        *)
Begin(r) ==
  /\ run[r].at = "begin"
  /\ run' = [run EXCEPT ![r].at = "commit",
       ![r].known = UNION {Hashes(raw, l) : l \in {k \in PageLedgers(run[r].page) :
                                                      IsFirst(run[r].page, k)}}]
  /\ UNCHANGED <<chain, db>>

(* The rest of processEvents, and COMMIT.                                  *)
Commit(r) ==
  /\ run[r].at = "commit"
  /\ \E P \in {run[r].page}, gone \in {Gone(r)} : \E new \in {NewRows(P, gone)} :
       /\ ~BreaksKey(new, gone)
       /\ raw'  = Kept(raw, gone) \cup NewRaw(P, gone)
       /\ rows' = Kept(rows, gone) \cup new
       /\ confirmed' = {id \in confirmed : Has(Kept(rows, gone), "waste", id)} \cup
            {Log[i].id : i \in {j \in P : /\ Log[j].kind = "confirm"
               /\ Has(Kept(rows, gone) \cup {k \in new : k < j}, "waste", Log[j].id)}}
       /\ copies' = [i \in Entry |->
            (IF Log[i].ledger \in gone THEN 0 ELSE copies[i])
              + (IF i \in P /\ Log[i].kind = "transfer" THEN 1 ELSE 0)]
  /\ cursor' \in NextCursor(r)
  /\ run' = [run EXCEPT ![r] = Idle]
  /\ UNCHANGED chain

(* A failed statement aborts the whole transaction: the statements after   *)
(* it fail too, updateSyncStatus throws, and the batch is rolled back.     *)
Abort(r) ==
  /\ run[r].at = "commit"
  /\ \E gone \in {Gone(r)} : BreaksKey(NewRows(run[r].page, gone), gone)
  /\ run' = [run EXCEPT ![r] = Idle]
  /\ UNCHANGED <<chain, db>>

(* The RPC server or the database fails the run.                           *)
Fail(r) ==
  /\ run[r].at # "idle"
  /\ run' = [run EXCEPT ![r] = Idle]
  /\ UNCHANGED <<chain, db>>

(* The process stops and starts again.                                     *)
Restart ==
  /\ run' = [r \in Runs |-> Idle]
  /\ UNCHANGED <<chain, db>>

Next ==
  \/ CloseLedger
  \/ \E l \in Ledger : Reorg(l)
  \/ \E r \in Runs : \/ ReadCursor(r) \/ Fetch(r) \/ Advance(r) \/ Begin(r)
                     \/ Commit(r) \/ Abort(r) \/ Fail(r)
  \/ Restart

Spec == Init /\ [][Next]_vars

(* The interval keeps starting runs, and neither the server nor the        *)
(* database fails every attempt for ever.                                  *)
Fairness ==
  \A r \in Runs : /\ WF_vars(ReadCursor(r)) /\ SF_vars(Fetch(r)) /\ SF_vars(Begin(r))
                  /\ SF_vars(Advance(r)) /\ SF_vars(Commit(r) \/ Abort(r))

FairSpec == Spec /\ Fairness

-----------------------------------------------------------------------------
(* The ledgers a reorganisation may replace, the entries that are on the   *)
(* chain when those of R are the ones replaced, and those of them that a   *)
(* page from f on takes before i.                                          *)
Forkable        == {l \in Ledger : \E i \in Entry : Log[i].ledger = l /\ Log[i].fork}
Chosen(R)       == {i \in Entry : Log[i].fork <=> Log[i].ledger \in R}
Before(f, i, R) == {k \in Chosen(R) : Log[k].ledger >= f /\ k < i}

(* The ledgers between two events of which a page can end.                 *)
Cuttable ==
  {l \in Ledger : \E f \in 1 .. l : \E R \in SUBSET Forkable :
     \E i, j \in {k \in Chosen(R) : Log[k].ledger = l} :
       Cardinality(Before(f, i, R)) < PageSize /\ Cardinality(Before(f, j, R)) >= PageSize}

(* Of a disturbed ledger a run may store what is not on the chain, or not  *)
(* all of it.  The other ledgers are safe from that, except that with      *)
(* overlapping runs one rolls back those above it under another that has   *)
(* already gone beyond them.                                               *)
OneRun     == \A r, s \in Runs : r = s
Disturbed  == reorged \cup Cuttable
Exposed(l) == \E k \in Disturbed : k = l \/ (k < l /\ ~OneRun)

(* The entry i has had its effect on the tables.                           *)
Applied(i) ==
  CASE Log[i].kind \in {"participant", "waste"} -> Has(rows, Log[i].kind, Log[i].id)
    [] Log[i].kind = "transfer" -> copies[i] > 0
    [] OTHER -> \A j \in Entry :
         /\ Log[j].kind = "waste" /\ Log[j].id = Log[i].id /\ j < i /\ ~Log[j].fork
         /\ Log[j].ledger >= StartLedger /\ ~Exposed(Log[j].ledger)
         => Log[i].id \in confirmed

(* A waste whose recycler registered before START_LEDGER, or nowhere.      *)
Orphan(i) ==
  /\ Log[i].kind = "waste"
  /\ ~\E j \in Entry : /\ Log[j].kind = "participant" /\ Log[j].id = Log[i].by
                       /\ j < i /\ Log[j].ledger >= StartLedger

Phases == {"idle", "read", "begin", "commit", "advance"}

(* The tables hold entries of the log, the cursor is a ledger or zero, and *)
(* a run in a phase has what the phase needs.                              *)
TypeOK ==
  /\ head \in Nat /\ reorged \subseteq Ledger /\ cursor \in Nat
  /\ raw \subseteq Entry /\ rows \subseteq Entry
  /\ confirmed \subseteq {Log[i].id : i \in Entry}
  /\ copies \in [Entry -> Nat]
  /\ run \in [Runs -> [at : Phases, last : Nat, to : Nat, page : SUBSET Entry,
                        known : SUBSET {Log[i].tx : i \in Entry}]]
  /\ \A r \in Runs : run[r].at \in {"begin", "commit"} => run[r].page # {}

(* The cursor never runs ahead of the tables, however runs overlap, fail,  *)
(* or are cut off by a restart, and whatever is reorganised: every event   *)
(* up to it, of a ledger that is not exposed, has had its effect           *)
(* (runIndexer, processEvents, detectAndHandleReorg, updateSyncStatus).    *)
NothingLost ==
  \A i \in Entry :
    OnChain(i) /\ Log[i].ledger \in StartLedger .. cursor /\ ~Exposed(Log[i].ledger)
    => Applied(i)

(* What a rollback takes away and does not put back is ahead of the cursor *)
(* again, so that a later run fetches it: a commit undoes no event up to   *)
(* the new cursor, but for those of ledgers that are themselves disturbed  *)
(* (rollbackFromLedger, updateSyncStatus).                                 *)
LossesRefetched ==
  [][\A i \in Entry :
       /\ Applied(i) /\ Log[i].ledger \in StartLedger .. cursor'
       /\ OnChain(i) /\ Log[i].ledger \notin Disturbed
       => Applied(i)']_db

(* A row of a table has in the raw log an event of its transaction and     *)
(* kind, though perhaps not its own: tables and raw log are rolled back    *)
(* and filled together (rollbackFromLedger, storeRawEvent, storeEvent).    *)
TransactionsLogged ==
  \A i \in Entry : i \in rows \/ copies[i] > 0
                   => \E j \in raw : Log[j].tx = Log[i].tx /\ Log[j].kind = Log[i].kind

(* The indexer catches up with the chain of the model, which ends, again   *)
(* after every setback: unless the page ahead of the cursor holds a waste  *)
(* that the foreign key refuses, which the loop never gets past.           *)
CatchesUp ==
  []<>(\/ head < StartLedger \/ cursor >= head
       \/ \E i \in Page(FirstWanted(cursor)) : Orphan(i))

(* docs/adr/0005, "a replayed or reorg-duplicated event cannot be          *)
(* double-inserted": a transfer is in the table at most once.              *)
OneCopyEach == \A i \in Entry : copies[i] <= 1

(* docs/adr/0005, "keeps every projected table reconstructible from        *)
(* `raw_events` alone": every row of a table is an event of the raw log.   *)
RawExplains ==
  \A i \in Entry :
    i \in rows \/ copies[i] > 0
    => \E j \in raw : SameRaw(Log[j], Log[i]) /\ SameRow(Log[j], Log[i])

(* docs/adr/0002, "Reorgs must be detected and handled rather than         *)
(* ignored": in the end the raw log holds only what is on the chain.       *)
FollowsChain == <>[](\A i \in raw : OnChain(i))

=============================================================================
