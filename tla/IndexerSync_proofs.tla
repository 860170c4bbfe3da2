------------------------ MODULE IndexerSync_proofs --------------------------
(***************************************************************************)
(* The cursor of the indexer is safe: no event up to it is lost but those  *)
(* of the exposed ledgers, for any log of events, any number of runs that  *)
(* overlap, fail or are cut off, and any reorganisations.  Every row of a  *)
(* table has its transaction in the raw log.  One poll run at a time       *)
(* stores a transfer at most once.                                         *)
(***************************************************************************)
EXTENDS IndexerSync, FiniteSetTheorems, WellFoundedInduction, TLAPS

-----------------------------------------------------------------------------
(* A non-empty set of numbers has a least one.                             *)
LEMMA LeastNumber ==
  ASSUME NEW T \in SUBSET Nat, T # {}
  PROVE  \E m \in T : \A k \in T : m <= k
<1>1. \E m \in T : \A k \in T : ~ (<<k, m>> \in OpToRel(<, Nat))
  BY NatLessThanWellFounded, WFMin
<1>2. PICK m \in T : \A k \in T : ~ (<<k, m>> \in OpToRel(<, Nat))
  BY <1>1
<1>3. ASSUME NEW k \in T
      PROVE  m <= k
  <2>1. <<k, m>> \in Nat \X Nat /\ <<k, m>>[1] = k /\ <<k, m>>[2] = m
    OBVIOUS
  <2>2. ~ (k < m)
    BY <1>2, <2>1 DEF OpToRel
  <2> QED BY <2>2
<1> QED BY <1>2, <1>3

(* The entries are finite, and so is every set of them.                    *)
LEMMA EntriesFinite ==
  ASSUME NEW S \in SUBSET Entry
  PROVE  IsFiniteSet(S) /\ Cardinality(S) \in Nat
<1>1. IsFiniteSet(1 .. Len(Log))
  BY LogAssumption, FS_Interval
<1>2. IsFiniteSet(S)
  BY <1>1, FS_Subset DEF Entry
<1> QED BY <1>2, FS_CardinalityType

(* Entries and their ledgers are numbers, in the same order.               *)
LEMMA EntryFacts ==
  /\ Entry \subseteq Nat
  /\ \A i \in Entry : Log[i].ledger \in Nat /\ Log[i].ledger > 0
  /\ \A i, j \in Entry : i < j => Log[i].ledger <= Log[j].ledger
BY LogAssumption DEF Entry

(* What a fetch and a commit do, with the values they name spelled out.    *)
LEMMA FetchGives ==
  ASSUME NEW r \in Runs, Fetch(r)
  PROVE  LET last == run[r].last
             from == FirstWanted(last)
             to   == IF from + BatchSize - 1 < head THEN from + BatchSize - 1 ELSE head IN
         /\ run[r].at = "read"
         /\ run' = [run EXCEPT ![r] =
              IF last >= head \/ from > head THEN Idle
              ELSE [run[r] EXCEPT !.at = IF Page(from) = {} THEN "advance" ELSE "begin",
                                  !.to = to, !.page = Page(from)]]
         /\ UNCHANGED <<chain, db>>
BY DEF Fetch

LEMMA CommitGives ==
  ASSUME NEW r \in Runs, Commit(r)
  PROVE  LET P    == run[r].page
             gone == Gone(r)
             new  == NewRows(P, gone) IN
         /\ run[r].at = "commit"
         /\ raw'  = Kept(raw, gone) \cup NewRaw(P, gone)
         /\ rows' = Kept(rows, gone) \cup new
         /\ confirmed' = {id \in confirmed : Has(Kept(rows, gone), "waste", id)} \cup
              {Log[i].id : i \in {j \in P : /\ Log[j].kind = "confirm"
                 /\ Has(Kept(rows, gone) \cup {k \in new : k < j}, "waste", Log[j].id)}}
         /\ copies' = [i \in Entry |->
              (IF Log[i].ledger \in gone THEN 0 ELSE copies[i])
                + (IF i \in P /\ Log[i].kind = "transfer" THEN 1 ELSE 0)]
         /\ cursor' \in NextCursor(r) /\ run' = [run EXCEPT ![r] = Idle]
         /\ UNCHANGED chain
BY DEF Commit

-----------------------------------------------------------------------------
(* Type correctness.                                                       *)
LEMMA TypeInit == Init => TypeOK
BY DEF Init, TypeOK, Idle, Phases

LEMMA TypeStep == TypeOK /\ [Next]_vars => TypeOK'
<1> SUFFICES ASSUME TypeOK, [Next]_vars
             PROVE  TypeOK'
  OBVIOUS
<1> DEFINE RunType == [at : Phases, last : Nat, to : Nat, page : SUBSET Entry,
                       known : SUBSET {Log[i].tx : i \in Entry}]
<1>1. /\ head \in Nat /\ reorged \subseteq Ledger /\ cursor \in Nat
      /\ raw \subseteq Entry /\ rows \subseteq Entry
      /\ confirmed \subseteq {Log[i].id : i \in Entry}
      /\ copies \in [Entry -> Nat] /\ run \in [Runs -> RunType]
      /\ \A r \in Runs : run[r].at \in {"begin", "commit"} => run[r].page # {}
  BY DEF TypeOK
<1>2. Idle \in RunType /\ Idle.at = "idle"
  BY DEF Idle, Phases
<1>3. ASSUME NEW r \in Runs, run' = [run EXCEPT ![r] = Idle]
      PROVE  /\ run' \in [Runs -> RunType]
             /\ \A q \in Runs : run'[q].at \in {"begin", "commit"} => run'[q].page # {}
  BY <1>1, <1>2, <1>3
<1>4. CASE CloseLedger
  BY <1>1, <1>4 DEF CloseLedger, TypeOK, db
<1>5. ASSUME NEW l \in Ledger, Reorg(l)
      PROVE  TypeOK'
  BY <1>1, <1>5 DEF Reorg, TypeOK, db
<1>6. ASSUME NEW r \in Runs, ReadCursor(r)
      PROVE  TypeOK'
  <2>1. [Idle EXCEPT !.at = "read", !.last = cursor] \in RunType
    BY <1>1 DEF Idle, Phases
  <2> QED BY <1>1, <1>6, <2>1 DEF ReadCursor, Idle, TypeOK, chain, db
<1>7. ASSUME NEW r \in Runs, Fetch(r)
      PROVE  TypeOK'
  <2> DEFINE last == run[r].last
             from == FirstWanted(last)
             to   == IF from + BatchSize - 1 < head THEN from + BatchSize - 1 ELSE head
             got  == [run[r] EXCEPT !.at = IF Page(from) = {} THEN "advance" ELSE "begin",
                                    !.to = to, !.page = Page(from)]
  <2>1. run[r] \in RunType /\ from \in Nat /\ to \in Nat
    BY <1>1, SizeAssumption DEF FirstWanted
  <2>2. Page(from) \subseteq Entry
    BY DEF Page
  <2>3. got \in RunType
    BY <2>1, <2>2 DEF Phases
  <2>4. got.at \in {"begin", "commit"} => got.page # {}
    BY <2>1
  <2>5. /\ run' = [run EXCEPT ![r] = IF last >= head \/ from > head THEN Idle ELSE got]
        /\ UNCHANGED <<chain, db>>
    BY <1>7, FetchGives
  <2>6. /\ run' \in [Runs -> RunType]
        /\ \A q \in Runs : run'[q].at \in {"begin", "commit"} => run'[q].page # {}
    <3> HIDE DEF got
    <3> QED BY <1>1, <1>2, <2>3, <2>4, <2>5
  <2> QED BY <1>1, <2>5, <2>6 DEF TypeOK, chain, db
<1>8. ASSUME NEW r \in Runs, Advance(r)
      PROVE  TypeOK'
  BY <1>1, <1>3, <1>8 DEF Advance, TypeOK, chain
<1>9. ASSUME NEW r \in Runs, Begin(r)
      PROVE  TypeOK'
  <2> DEFINE hashes == UNION {Hashes(raw, l) : l \in {k \in PageLedgers(run[r].page) :
                                                         IsFirst(run[r].page, k)}}
  <2>1. hashes \subseteq {Log[i].tx : i \in Entry}
    BY <1>1 DEF Hashes
  <2>2. run' = [run EXCEPT ![r].at = "commit", ![r].known = hashes]
    BY <1>9 DEF Begin
  <2>3. /\ run' \in [Runs -> RunType]
        /\ \A q \in Runs : run'[q].at \in {"begin", "commit"} => run'[q].page # {}
    <3> HIDE DEF hashes
    <3>1. run[r].at = "begin"
      BY <1>9 DEF Begin
    <3> QED BY <1>1, <2>1, <2>2, <3>1 DEF Phases
  <2> QED BY <1>1, <1>9, <2>3 DEF Begin, TypeOK, chain, db
<1>10. ASSUME NEW r \in Runs, Commit(r)
       PROVE  TypeOK'
  <2>1. run[r].page \subseteq Entry
    BY <1>1
  <2>2. raw' \subseteq Entry
    BY <1>1, <1>10, <2>1, CommitGives DEF Kept, NewRaw, New
  <2>3. rows' \subseteq Entry
    BY <1>1, <1>10, <2>1, CommitGives DEF Kept, NewRows, New
  <2>4. confirmed' \subseteq {Log[i].id : i \in Entry}
    <3>1. \A id \in confirmed' : id \in confirmed \/ \E i \in run[r].page : id = Log[i].id
      BY <1>10 DEF Commit
    <3> QED BY <1>1, <2>1, <3>1
  <2>5. copies' \in [Entry -> Nat]
    BY <1>1, <1>10, CommitGives
  <2>6. cursor' \in Nat
    <3>1. cursor' \in NextCursor(r)
      BY <1>10 DEF Commit
    <3> QED BY <2>1, <3>1, EntryFacts DEF NextCursor, PageLedgers
  <2>7. run' = [run EXCEPT ![r] = Idle] /\ UNCHANGED chain
    BY <1>10, CommitGives
  <2> QED BY <1>1, <1>3, <2>2, <2>3, <2>4, <2>5, <2>6, <2>7 DEF TypeOK, chain
<1>11. ASSUME NEW r \in Runs, Abort(r)
       PROVE  TypeOK'
  BY <1>1, <1>3, <1>11 DEF Abort, TypeOK, chain, db
<1>12. ASSUME NEW r \in Runs, Fail(r)
       PROVE  TypeOK'
  BY <1>1, <1>3, <1>12 DEF Fail, TypeOK, chain, db
<1>13. CASE Restart
  BY <1>1, <1>2, <1>13 DEF Restart, TypeOK, chain, db
<1>14. CASE UNCHANGED vars
  BY <1>1, <1>14 DEF TypeOK, vars, chain, db
<1> QED
  BY <1>4, <1>5, <1>6, <1>7, <1>8, <1>9, <1>10, <1>11, <1>12, <1>13, <1>14 DEF Next

(* The tables and the runs keep their shape for every log and set of runs  *)
(* (runIndexer, processEvents).                                            *)
THEOREM IndexerTypeCorrect == Spec => []TypeOK
BY TypeInit, TypeStep, PTL DEF Spec

-----------------------------------------------------------------------------
(* One poll run at a time.  What is stored is of ledgers the cursor has    *)
(* passed, and the page of the run is ahead of it: a run that finds its    *)
(* own events stored must have read the cursor before another committed.   *)
PageAhead(r) ==
  /\ run[r].at # "idle" => run[r].last = cursor
  /\ run[r].at \in {"begin", "commit"} =>
       \A i \in run[r].page : Log[i].ledger > cursor
  /\ run[r].at = "advance" => run[r].to >= cursor

StoredBehind ==
  \A i \in Entry : /\ copies[i] <= 1
                   /\ copies[i] > 0 \/ i \in raw => Log[i].ledger <= cursor

OneRunInv == TypeOK /\ StoredBehind /\ \A r \in Runs : PageAhead(r)

LEMMA OneRunCommit ==
  ASSUME OneRun, OneRunInv, NEW r \in Runs, Commit(r)
  PROVE  StoredBehind' /\ \A q \in Runs : PageAhead(q)'
<1> DEFINE P == run[r].page
<1>1. /\ copies \in [Entry -> Nat] /\ cursor \in Nat /\ P \in SUBSET Entry /\ P # {}
      /\ run \in [Runs -> [at : Phases, last : Nat, to : Nat, page : SUBSET Entry,
                           known : SUBSET {Log[i].tx : i \in Entry}]]
  BY CommitGives DEF OneRunInv, TypeOK
<1>2. \A i \in P : Log[i].ledger > cursor
  BY CommitGives DEF OneRunInv, PageAhead
<1>3. /\ cursor' \in NextCursor(r) /\ run' = [run EXCEPT ![r] = Idle]
      /\ \A i \in raw' : i \in raw \/ i \in P
      /\ copies' = [i \in Entry |->
           (IF Log[i].ledger \in Gone(r) THEN 0 ELSE copies[i])
             + (IF i \in P /\ Log[i].kind = "transfer" THEN 1 ELSE 0)]
  BY CommitGives DEF Kept, NewRaw, New
<1>4. /\ cursor' \in Nat /\ cursor' > cursor
      /\ \A i \in P : Log[i].ledger <= cursor'
  BY <1>1, <1>2, <1>3, EntryFacts DEF NextCursor, PageLedgers, IsLast
<1>5. ASSUME NEW i \in Entry
      PROVE  copies'[i] <= 1 /\ (copies'[i] > 0 \/ i \in raw' => Log[i].ledger <= cursor')
  <2>1. copies[i] \in Nat /\ copies[i] <= 1
        /\ (copies[i] > 0 \/ i \in raw => Log[i].ledger <= cursor)
        /\ Log[i].ledger \in Nat
    BY <1>1, EntryFacts DEF OneRunInv, StoredBehind
  <2>2. copies'[i] = (IF Log[i].ledger \in Gone(r) THEN 0 ELSE copies[i])
                       + (IF i \in P /\ Log[i].kind = "transfer" THEN 1 ELSE 0)
    BY <1>3
  <2>3. CASE i \in P
    BY <1>1, <1>2, <1>3, <1>4, <2>1, <2>2, <2>3
  <2>4. CASE i \notin P
    BY <1>1, <1>3, <1>4, <2>1, <2>2, <2>4
  <2> QED BY <2>3, <2>4
<1>6. ASSUME NEW q \in Runs
      PROVE  PageAhead(q)'
  <2>1. q = r /\ run'[q] = Idle
    BY <1>1, <1>3 DEF OneRun
  <2> QED BY <2>1 DEF PageAhead, Idle
<1> QED BY <1>5, <1>6 DEF StoredBehind

LEMMA OneRunStep ==
  ASSUME OneRun, OneRunInv, [Next]_vars
  PROVE  OneRunInv'
<1>1. TypeOK /\ TypeOK' /\ StoredBehind
  BY TypeStep DEF OneRunInv
<1>2. /\ head \in Nat /\ cursor \in Nat /\ copies \in [Entry -> Nat]
      /\ run \in [Runs -> [at : Phases, last : Nat, to : Nat, page : SUBSET Entry,
                           known : SUBSET {Log[i].tx : i \in Entry}]]
  BY <1>1 DEF TypeOK
<1>3. ASSUME NEW r \in Runs, UNCHANGED <<chain, db>>, PageAhead(r)'
      PROVE  OneRunInv'
  BY <1>1, <1>3 DEF OneRun, OneRunInv, StoredBehind, db
<1>4. CASE UNCHANGED <<db, run>>
  BY <1>1, <1>4 DEF OneRunInv, StoredBehind, PageAhead, db
<1>5. ASSUME NEW r \in Runs, ReadCursor(r)
      PROVE  OneRunInv'
  <2>1. run'[r].at = "read" /\ run'[r].last = cursor /\ UNCHANGED <<chain, db>>
    BY <1>2, <1>5 DEF ReadCursor, Idle
  <2> QED BY <1>3, <2>1 DEF PageAhead, db
<1>6. ASSUME NEW r \in Runs, Fetch(r)
      PROVE  OneRunInv'
  <2> DEFINE from == FirstWanted(run[r].last)
             to   == IF from + BatchSize - 1 < head THEN from + BatchSize - 1 ELSE head
             got  == [run[r] EXCEPT !.at = IF Page(from) = {} THEN "advance" ELSE "begin",
                                    !.to = to, !.page = Page(from)]
  <2>1. UNCHANGED <<chain, db>> /\ run[r].at = "read" /\ run[r].last = cursor
    BY <1>6, FetchGives DEF OneRunInv, PageAhead
  <2>2. from \in Nat /\ \A i \in Page(from) : i \in Entry /\ from <= Log[i].ledger
    BY <1>2, <2>1, SizeAssumption DEF FirstWanted, Page
  <2>3. CASE run'[r] = Idle
    BY <1>3, <2>1, <2>3 DEF PageAhead, Idle
  <2>4. CASE run'[r] = got /\ ~ (run[r].last >= head \/ from > head)
    <3>1. /\ run'[r].last = cursor /\ run'[r].to = to /\ run'[r].page = Page(from)
          /\ run'[r].at \in {"advance", "begin"} /\ cursor' = cursor
      BY <1>2, <2>1, <2>4 DEF db
    <3>2. to >= cursor
      BY <1>2, <2>1, <2>4, SizeAssumption DEF FirstWanted
    <3>3. \A i \in Page(from) : Log[i].ledger > cursor
      <4>1. from > cursor
        BY <1>2, <2>1, SizeAssumption DEF FirstWanted
      <4>2. ASSUME NEW i \in Page(from)
            PROVE  Log[i].ledger > cursor
        <5>1. from <= Log[i].ledger /\ Log[i].ledger \in Nat /\ from \in Nat
          BY <2>2, EntryFacts
        <5> HIDE DEF from
        <5> QED BY <1>2, <4>1, <5>1
      <4> QED BY <4>2
    <3>4. PageAhead(r)'
      BY <3>1, <3>2, <3>3 DEF PageAhead
    <3> QED BY <1>3, <2>1, <3>4
  <2> QED BY <1>2, <1>6, <2>3, <2>4, FetchGives
<1>7. ASSUME NEW r \in Runs, Advance(r)
      PROVE  OneRunInv'
  <2>1. /\ copies' = copies /\ raw' = raw /\ cursor' = run[r].to /\ run'[r] = Idle
        /\ run[r].to \in Nat /\ run[r].to >= cursor
    BY <1>2, <1>7 DEF Advance, OneRunInv, PageAhead
  <2>2. StoredBehind'
    <3>1. \A i \in Entry : Log[i].ledger \in Nat
      BY EntryFacts
    <3> QED BY <1>1, <1>2, <2>1, <3>1 DEF StoredBehind
  <2>3. PageAhead(r)'
    BY <2>1 DEF PageAhead, Idle
  <2> QED BY <1>1, <2>2, <2>3 DEF OneRun, OneRunInv
<1>8. ASSUME NEW r \in Runs, Begin(r)
      PROVE  OneRunInv'
  <2>1. /\ UNCHANGED <<chain, db>> /\ run[r].at = "begin" /\ run'[r].at = "commit"
        /\ run'[r].page = run[r].page /\ run'[r].last = run[r].last
    BY <1>2, <1>8 DEF Begin
  <2>2. PageAhead(r)'
    BY <2>1 DEF OneRunInv, PageAhead, db
  <2> QED BY <1>3, <2>1, <2>2
<1>9. ASSUME NEW r \in Runs, Commit(r)
      PROVE  OneRunInv'
  BY <1>1, <1>9, OneRunCommit DEF OneRunInv
<1>10. ASSUME NEW r \in Runs, Abort(r) \/ Fail(r)
       PROVE  OneRunInv'
  <2>1. UNCHANGED <<chain, db>> /\ run'[r] = Idle
    BY <1>2, <1>10 DEF Abort, Fail
  <2> QED BY <1>3, <2>1 DEF PageAhead, Idle
<1>11. CASE Restart
  <2>1. UNCHANGED <<chain, db>> /\ \A r \in Runs : run'[r] = Idle
    BY <1>11 DEF Restart
  <2> QED BY <1>1, <2>1 DEF OneRunInv, StoredBehind, PageAhead, Idle, db
<1>12. CASE CloseLedger \/ (\E l \in Ledger : Reorg(l)) \/ UNCHANGED vars
  BY <1>4, <1>12 DEF CloseLedger, Reorg, vars
<1> QED BY <1>5, <1>6, <1>7, <1>8, <1>9, <1>10, <1>11, <1>12 DEF Next

LEMMA OneRunInit == Init => OneRunInv
<1> SUFFICES ASSUME Init PROVE OneRunInv
  OBVIOUS
<1>1. /\ raw = {} /\ \A i \in Entry : copies[i] = 0
      /\ \A r \in Runs : run[r].at = "idle"
  BY DEF Init, Idle
<1> QED BY <1>1, TypeInit DEF OneRunInv, StoredBehind, PageAhead

(* With one poll run at a time no transfer is in its table twice, whatever *)
(* is reorganised, fails or is cut off: only overlapping runs repeat one   *)
(* (runIndexer, processEvents; waste_transfers has no key).                *)
THEOREM OneRunOneCopy ==
  ASSUME OneRun
  PROVE  Spec => []OneCopyEach
<1>1. Init => OneRunInv
  BY OneRunInit
<1>2. OneRunInv /\ [Next]_vars => OneRunInv'
  BY OneRunStep
<1>3. OneRunInv => OneCopyEach
  BY DEF OneRunInv, StoredBehind, OneCopyEach
<1> QED BY <1>1, <1>2, <1>3, PTL DEF Spec

-----------------------------------------------------------------------------
(* The inductive invariant.                                                *)

(* The entry i is on the chain to stay, as far as one can tell by now.     *)
Lasting(i) == ~Log[i].fork /\ ~Exposed(Log[i].ledger)

(* A row with the key of i is there, and no later event has put it there:  *)
(* a rollback that leaves the ledger of i leaves the row.                  *)
Held(i) == \E k \in rows : k <= i /\ SameRow(Log[k], Log[i])

(* The event i confirms the waste that the event j records.                *)
Confirms(i, j) ==
  /\ Log[j].kind = "waste" /\ Log[j].id = Log[i].id /\ j < i
  /\ Log[j].ledger >= StartLedger /\ Lasting(j)

(* The event i has had its effect, in rows that are held.                  *)
Effect(i) ==
  /\ Log[i].kind \in {"participant", "waste"} => Held(i)
  /\ Log[i].kind = "transfer" => copies[i] > 0
  /\ Log[i].kind = "confirm" =>
       \A j \in Entry : Confirms(i, j) => Held(j) /\ Log[i].id \in confirmed

(* Every lasting event of the ledgers up to n has had its effect.          *)
Covered(n) ==
  \A i \in Entry : Lasting(i) /\ Log[i].ledger \in StartLedger .. n => Effect(i)

(* A later event puts no row where that of a lasting one is missing: such  *)
(* a row would be lost in a rollback that spares the lasting event.        *)
RowsInOrder ==
  \A i \in Entry, j \in Entry :
    /\ Lasting(i) /\ Log[i].ledger >= StartLedger
    /\ j \in rows /\ i < j /\ SameRow(Log[j], Log[i])
    => Held(i)

(* The entries of S are, or were, on the chain.                            *)
Genuine(S) == \A i \in S : Log[i].fork => Log[i].ledger \in reorged

CursorSafe == /\ reorged \subseteq Forkable /\ cursor <= head
              /\ Covered(cursor) /\ RowsInOrder /\ Genuine(raw)

(* The page of a run has no gap between where the run began and its end.   *)
PageWhole(r) ==
  /\ Genuine(run[r].page)
  /\ \A i \in run[r].page :
       /\ FirstWanted(run[r].last) <= Log[i].ledger /\ Log[i].ledger <= head
       /\ \A j \in Entry :
            /\ Lasting(j)
            /\ FirstWanted(run[r].last) <= Log[j].ledger /\ Log[j].ledger <= Log[i].ledger
            => j \in run[r].page

KnownIncoming(r) ==
  \A l \in PageLedgers(run[r].page) :
    IsFirst(run[r].page, l) /\ (OneRun \/ ~Exposed(l))
    => run[r].known \subseteq Hashes(run[r].page, l)

NothingAhead(r) ==
  /\ run[r].to <= head
  /\ \A j \in Entry : ~ (/\ Lasting(j)
                         /\ FirstWanted(run[r].last) <= Log[j].ledger
                         /\ Log[j].ledger <= run[r].to)

RunSafe(r) ==
  /\ run[r].last <= head /\ Covered(run[r].last)
  /\ run[r].at \in {"begin", "commit"} => PageWhole(r)
  /\ run[r].at = "commit" => KnownIncoming(r)
  /\ run[r].at = "advance" => NothingAhead(r)

SafeInv == TypeOK /\ CursorSafe /\ \A r \in Runs : RunSafe(r)

-----------------------------------------------------------------------------
(* What the operators of a run give.                                       *)

(* The ledgers that may be exposed are numbers.                            *)
LEMMA DisturbedNumbers ==
  ASSUME TypeOK
  PROVE  Disturbed \subseteq Nat /\ Ledger \subseteq Nat
BY EntryFacts DEF TypeOK, Disturbed, Cuttable, Ledger

(* A page holds every lasting event from its start to the ledger of each   *)
(* of its events, and is empty only if there is none.                      *)
LEMMA PageIsWhole ==
  ASSUME TypeOK, reorged \subseteq Forkable, NEW f \in Nat, f > 0
  PROVE  /\ Page(f) \subseteq Entry
         /\ Genuine(Page(f))
         /\ \A i \in Page(f) :
              /\ f <= Log[i].ledger /\ Log[i].ledger <= head
              /\ \A j \in Entry :
                   /\ Lasting(j)
                   /\ f <= Log[j].ledger /\ Log[j].ledger <= Log[i].ledger
                   => j \in Page(f)
         /\ Page(f) = {} => \A j \in Entry :
              ~ (Lasting(j) /\ f <= Log[j].ledger /\ Log[j].ledger <= head)
<1> DEFINE ahead == {i \in Entry : OnChain(i) /\ Log[i].ledger >= f}
           upto(i) == {j \in ahead : j < i}
<1>0. head \in Nat
  BY DEF TypeOK
<1>1. Page(f) = {i \in ahead : Cardinality(upto(i)) < PageSize}
  BY DEF Page
<1>2. \A i \in Entry : i \in ahead <=> /\ i \in Chosen(reorged)
                                      /\ f <= Log[i].ledger /\ Log[i].ledger <= head
  BY <1>0, EntryFacts DEF OnChain, Chosen
<1>3. ASSUME NEW i \in ahead
      PROVE  upto(i) = Before(f, i, reorged)
  <2>1. i \in Entry /\ Log[i].ledger \in Nat /\ Log[i].ledger <= head
    BY <1>2, EntryFacts
  <2>2. ASSUME NEW k \in Chosen(reorged), k < i, f <= Log[k].ledger
        PROVE  k \in ahead
    <3>1. k \in Entry /\ Log[k].ledger <= Log[i].ledger /\ Log[k].ledger \in Nat
      BY <2>1, <2>2, EntryFacts DEF Chosen
    <3> QED BY <1>0, <1>2, <2>1, <2>2, <3>1
  <2>3. ASSUME NEW k \in ahead
        PROVE  k \in Chosen(reorged) /\ Log[k].ledger >= f
    BY <1>2, EntryFacts
  <2> QED BY <2>2, <2>3, EntryFacts DEF Before
<1>4. ASSUME NEW i \in Page(f), NEW j \in Entry, Lasting(j), j \in Chosen(reorged),
             f <= Log[j].ledger, Log[j].ledger <= Log[i].ledger
      PROVE  j \in Page(f)
  <2>1. i \in ahead /\ j \in ahead /\ i \in Entry /\ Cardinality(upto(i)) < PageSize
    <3>1. i \in ahead /\ Cardinality(upto(i)) < PageSize
      BY <1>1, <1>4
    <3>2. i \in Entry /\ Log[i].ledger <= head
      BY <1>2, <3>1
    <3>3. Log[i].ledger \in Nat /\ Log[j].ledger \in Nat
      BY <1>4, <3>2, EntryFacts
    <3>4. j \in ahead
      BY <1>0, <1>2, <1>4, <3>2, <3>3
    <3> QED BY <3>1, <3>2, <3>4
  <2>2. CASE j <= i
    <3>0. ahead \subseteq Entry /\ ahead \subseteq Nat /\ i \in Nat /\ j \in Nat
      BY <1>4, <2>1, EntryFacts
    <3>1. upto(j) \subseteq upto(i) /\ upto(i) \subseteq Entry
      BY <2>2, <3>0
    <3>2. Cardinality(upto(j)) <= Cardinality(upto(i))
      BY <3>1, EntriesFinite, FS_Subset
    <3>3. Cardinality(upto(j)) \in Nat /\ Cardinality(upto(i)) \in Nat
      BY <3>1, EntriesFinite
    <3> QED BY <1>1, <2>1, <3>2, <3>3, SizeAssumption
  <2>3. CASE i < j
    <3>1. Log[i].ledger = Log[j].ledger
      BY <1>4, <2>1, <2>3, EntryFacts
    <3>2. Cardinality(Before(f, i, reorged)) < PageSize
      BY <1>3, <2>1
    <3>3. Cardinality(Before(f, j, reorged)) < PageSize
      <4>1. i \in Chosen(reorged) /\ j \in Chosen(reorged) /\ Log[j].ledger \in Ledger
        BY <1>2, <1>4, <2>1 DEF Ledger
      <4>2. f \in 1 .. Log[j].ledger
        BY <1>4, EntryFacts
      <4>3. Log[j].ledger \notin Cuttable
        BY <1>4 DEF Lasting, Exposed, Disturbed
      <4>4. ~ (Cardinality(Before(f, j, reorged)) >= PageSize)
        BY <3>1, <3>2, <4>1, <4>2, <4>3 DEF Cuttable
      <4>5. Cardinality(Before(f, j, reorged)) \in Nat
        BY EntriesFinite DEF Before, Chosen
      <4> QED BY <4>4, <4>5, SizeAssumption
    <3> QED BY <1>1, <1>3, <2>1, <3>3
  <2> QED BY <2>1, <2>2, <2>3, EntryFacts
<1>5. ASSUME Page(f) = {}, NEW j \in ahead
      PROVE  FALSE
  <2>1. PICK m \in ahead : \A k \in ahead : m <= k
    BY <1>5, LeastNumber, EntryFacts
  <2>2. upto(m) = {}
    <3>1. ahead \subseteq Nat
      BY EntryFacts
    <3> QED BY <2>1, <3>1
  <2>3. Cardinality(upto(m)) = 0
    BY <2>2, FS_EmptySet
  <2> QED BY <1>1, <1>5, <2>1, <2>3, SizeAssumption
<1>6. Page(f) \subseteq ahead /\ ahead \subseteq Entry
  BY <1>1
<1>7. \A j \in Entry : Lasting(j) => j \in Chosen(reorged)
  BY LogAssumption DEF Lasting, Exposed, Disturbed, Chosen
<1>8. Genuine(Page(f))
  BY <1>6 DEF Genuine, OnChain
<1> QED BY <1>2, <1>4, <1>5, <1>6, <1>7, <1>8

(* The page of a run holds every stored hash of its ledgers: none is       *)
(* stored if the run is alone, and of a ledger that is not exposed all of  *)
(* what is stored is lasting.                                              *)
LEMMA StoredIncoming ==
  ASSUME OneRun => OneRunInv, TypeOK, CursorSafe,
         NEW r \in Runs, run[r].at \in {"begin", "commit"}, PageWhole(r),
         NEW l \in PageLedgers(run[r].page), OneRun \/ ~Exposed(l)
  PROVE  Hashes(raw, l) \subseteq Hashes(run[r].page, l)
<1>1. PICK p \in run[r].page : Log[p].ledger = l
  BY DEF PageLedgers
<1>2. run[r].page \subseteq Entry /\ raw \subseteq Entry /\ cursor \in Nat
  BY DEF TypeOK
<1>3. \A i \in raw : Log[i].ledger = l => i \in run[r].page
  <2>1. CASE ~Exposed(l)
    <3>1. l \notin reorged
      BY <2>1 DEF Exposed, Disturbed
    <3>2. \A i \in raw : Log[i].ledger = l => Lasting(i)
      BY <2>1, <3>1 DEF CursorSafe, Genuine, Lasting
    <3> QED BY <1>1, <1>2, <3>2, EntryFacts DEF PageWhole
  <2>2. CASE OneRun
    <3>1. l > cursor /\ l \in Nat
      BY <1>1, <1>2, <2>2, EntryFacts DEF OneRunInv, PageAhead
    <3>2. \A i \in raw : Log[i].ledger <= cursor /\ Log[i].ledger \in Nat
      BY <1>2, <2>2, EntryFacts DEF OneRunInv, StoredBehind
    <3> QED BY <1>2, <3>1, <3>2
  <2> QED BY <2>1, <2>2
<1> QED BY <1>3 DEF Hashes

(* A run rolls back only ledgers that are exposed.                         *)
LEMMA LastingNotGone ==
  ASSUME OneRun => OneRunInv, TypeOK, CursorSafe,
         NEW r \in Runs, run[r].at = "commit", PageWhole(r), KnownIncoming(r),
         NEW i \in Entry, Lasting(i), NEW k \in Entry, k <= i
  PROVE  Log[k].ledger \notin Gone(r)
<1>1. \A l \in Stale(r) : ~OneRun /\ Exposed(l)
  BY StoredIncoming DEF Stale, KnownIncoming
<1>2. SUFFICES ASSUME NEW s \in Stale(r), s <= Log[k].ledger
               PROVE  FALSE
  BY DEF Gone
<1>3. PICK d \in Disturbed : d = s \/ d < s
  BY <1>1, <1>2 DEF Exposed
<1>4. s \in Nat /\ d \in Nat /\ Log[k].ledger \in Nat /\ Log[i].ledger \in Nat
      /\ Log[k].ledger <= Log[i].ledger
  <2>1. run[r].page \subseteq Entry /\ s \in PageLedgers(run[r].page)
    BY DEF TypeOK, Stale
  <2>2. k \in Nat /\ i \in Nat
    BY EntryFacts
  <2>3. k = i \/ k < i
    BY <2>2
  <2> QED BY <1>3, <2>1, <2>3, EntryFacts, DisturbedNumbers DEF PageLedgers
<1>5. d = Log[i].ledger \/ d < Log[i].ledger
  BY <1>2, <1>3, <1>4
<1> QED BY <1>1, <1>3, <1>5 DEF Lasting, Exposed

(* After the insert a lasting entry of the page finds a row with its key,  *)
(* its own or one that was there before it.                                *)
LEMMA RowsInserted ==
  ASSUME OneRun => OneRunInv, TypeOK, CursorSafe,
         NEW r \in Runs, run[r].at = "commit", PageWhole(r), KnownIncoming(r),
         NEW j \in run[r].page, Log[j].kind \in {"participant", "waste"},
         Lasting(j), Log[j].ledger >= StartLedger
  PROVE  \E k \in Kept(rows, Gone(r)) \cup NewRows(run[r].page, Gone(r)) :
           k <= j /\ SameRow(Log[k], Log[j])
<1> DEFINE P       == run[r].page
           gone    == Gone(r)
           Free(i) == \A k \in Seen(rows, gone, i) : ~SameRow(Log[k], Log[i])
           Rival   == {k \in P : k <= j /\ SameRow(Log[k], Log[j]) /\ Free(k)}
<1>1. P \subseteq Entry /\ P \subseteq Nat /\ rows \subseteq Entry /\ j \in Entry
  BY EntryFacts DEF TypeOK
<1>2. New(rows, P, gone, SameRow) =
        {i \in P : Free(i) /\ \A k \in P : k < i /\ SameRow(Log[k], Log[i]) => ~Free(k)}
  BY DEF New
<1>3. \A k \in Entry : k <= j => Log[k].ledger \notin gone
  BY <1>1, LastingNotGone
<1>4. Seen(rows, gone, j) = rows
  BY <1>1, <1>3 DEF Seen
<1>5. Held(j) => \E k \in Kept(rows, gone) : k <= j /\ SameRow(Log[k], Log[j])
  BY <1>1, <1>3 DEF Held, Kept
<1>6. CASE ~Free(j)
  <2>1. PICK k \in rows : SameRow(Log[k], Log[j])
    BY <1>4, <1>6
  <2>2. k \in Nat /\ j \in Nat /\ k \in Entry
    BY <1>1, <2>1, EntryFacts
  <2>3. CASE k <= j
    BY <1>5, <2>1, <2>3 DEF Held
  <2>4. CASE j < k
    <3>1. Held(j)
      BY <1>1, <2>1, <2>2, <2>4 DEF CursorSafe, RowsInOrder
    <3> QED BY <1>5, <3>1
  <2> QED BY <2>2, <2>3, <2>4
<1>7. CASE Free(j)
  <2>1. j \in Rival
    BY <1>1, <1>7 DEF SameRow
  <2>2. PICK m \in Rival : \A k \in Rival : m <= k
    <3>1. Rival \in SUBSET Nat /\ Rival # {}
      BY <1>1, <2>1
    <3> HIDE DEF Rival
    <3> QED BY <3>1, LeastNumber
  <2>3. ASSUME NEW k \in P, k < m, SameRow(Log[k], Log[m])
        PROVE  ~Free(k)
    <3>1. m \in Nat /\ k \in Nat /\ j \in Nat /\ m <= j /\ SameRow(Log[m], Log[j])
      BY <1>1, <2>2
    <3>2. k <= j /\ SameRow(Log[k], Log[j]) /\ ~ (m <= k)
      BY <2>3, <3>1 DEF SameRow
    <3>3. k \notin Rival
      BY <2>2, <3>2
    <3> QED BY <3>2, <3>3
  <2>4. m \in NewRows(P, gone)
    BY <1>2, <2>2, <2>3 DEF NewRows, SameRow
  <2> QED BY <2>2, <2>4
<1> QED BY <1>6, <1>7

-----------------------------------------------------------------------------
(* What carries over from one state to the next.                           *)

(* What the step takes from the tables is not of lasting events.           *)
Spares ==
  /\ reorged \subseteq reorged'
  /\ \A i \in Entry : Lasting(i) =>
       /\ Held(i) => Held(i)'
       /\ copies'[i] >= copies[i]
       /\ Log[i].kind = "waste" /\ Held(i) /\ Log[i].id \in confirmed
          => Log[i].id \in confirmed'

(* A step that leaves the tables alone takes nothing.                      *)
LEMMA IdleSpares ==
  ASSUME TypeOK, reorged \subseteq reorged',
         rows' = rows, confirmed' = confirmed, copies' = copies
  PROVE  Spares
<1>1. \A i \in Entry : copies[i] \in Nat
  BY DEF TypeOK
<1> QED BY <1>1 DEF Spares, Held

(* A ledger that is exposed stays so.                                      *)
LEMMA StaysExposed ==
  ASSUME reorged \subseteq reorged'
  PROVE  /\ \A l : Exposed(l) => Exposed(l)'
         /\ \A i \in Entry : Lasting(i)' => Lasting(i)
         /\ \A i, j \in Entry : Confirms(i, j)' => Confirms(i, j)
<1>1. Disturbed \subseteq Disturbed'
  BY DEF Disturbed
<1>2. \A l : Exposed(l) => Exposed(l)'
  BY <1>1 DEF Exposed
<1>3. \A i \in Entry : Lasting(i)' => Lasting(i)
  BY <1>2 DEF Lasting
<1> QED BY <1>2, <1>3 DEF Confirms

LEMMA EffectsKept ==
  ASSUME TypeOK, TypeOK', Spares, NEW i \in Entry, Lasting(i), Effect(i)
  PROVE  Effect(i)'
<1>1. copies[i] \in Nat /\ copies'[i] \in Nat /\ copies'[i] >= copies[i]
  BY DEF TypeOK, Spares
<1>2. Log[i].kind \in {"participant", "waste"} => Held(i)'
  BY DEF Effect, Spares
<1>3. Log[i].kind = "transfer" => copies'[i] > 0
  BY <1>1 DEF Effect
<1>4. ASSUME Log[i].kind = "confirm", NEW j \in Entry, Confirms(i, j)'
      PROVE  Held(j)' /\ Log[i].id \in confirmed'
  <2>1. Confirms(i, j) /\ Lasting(j) /\ Log[j].kind = "waste" /\ Log[j].id = Log[i].id
    BY <1>4, StaysExposed DEF Spares, Confirms
  <2>2. Held(j) /\ Log[j].id \in confirmed
    BY <1>4, <2>1 DEF Effect
  <2> QED BY <2>1, <2>2 DEF Spares
<1> QED BY <1>2, <1>3, <1>4 DEF Effect

LEMMA CoveredKept ==
  ASSUME TypeOK, TypeOK', Spares, NEW n, Covered(n)
  PROVE  \A i \in Entry : Lasting(i)' /\ Log[i].ledger \in StartLedger .. n => Effect(i)'
BY EffectsKept, StaysExposed DEF Covered, Spares

(* A run that the step leaves alone stays safe, and an idle run is safe.   *)
LEMMA OtherRunSafe ==
  ASSUME TypeOK, TypeOK', Spares, head <= head',
         NEW q \in Runs, RunSafe(q), run'[q] = run[q]
  PROVE  RunSafe(q)'
<1>1. /\ head \in Nat /\ head' \in Nat /\ run[q].last \in Nat /\ run[q].to \in Nat
      /\ run[q].page \subseteq Entry /\ reorged \subseteq reorged'
  BY DEF TypeOK, Spares
<1>2. Covered(run[q].last)'
  BY CoveredKept DEF RunSafe, Covered
<1>3. run'[q].last <= head'
  BY <1>1 DEF RunSafe
<1>4. ASSUME PageWhole(q)
      PROVE  PageWhole(q)'
  <2>1. \A i \in run[q].page : Log[i].ledger <= head'
    <3>1. \A i \in run[q].page : Log[i].ledger <= head /\ Log[i].ledger \in Nat
      BY <1>1, <1>4, EntryFacts DEF PageWhole
    <3> QED BY <1>1, <3>1
  <2>2. Genuine(run[q].page)'
    BY <1>1, <1>4 DEF PageWhole, Genuine
  <2> QED BY <1>1, <1>4, <2>1, <2>2, StaysExposed DEF PageWhole
<1>5. KnownIncoming(q) => KnownIncoming(q)'
  BY <1>1, StaysExposed DEF KnownIncoming
<1>6. NothingAhead(q) => NothingAhead(q)'
  BY <1>1, StaysExposed DEF NothingAhead
<1> QED BY <1>2, <1>3, <1>4, <1>5, <1>6 DEF RunSafe

LEMMA IdleRunSafe ==
  ASSUME TypeOK', NEW q \in Runs, run'[q] = Idle
  PROVE  RunSafe(q)'
<1>1. Idle.last = 0 /\ Idle.at = "idle" /\ head' \in Nat
  BY DEF Idle, TypeOK
<1>2. \A i \in Entry : Log[i].ledger \notin StartLedger .. 0
  BY EntryFacts, SizeAssumption
<1>3. Covered(run[q].last)'
  BY <1>1, <1>2 DEF Covered
<1> QED BY <1>1, <1>3 DEF RunSafe

(* Below the start of its page a run knows everything to have had effect.  *)
LEMMA BelowPage ==
  ASSUME TypeOK, NEW r \in Runs, Covered(run[r].last), NEW i \in Entry, Lasting(i),
         StartLedger <= Log[i].ledger, Log[i].ledger < FirstWanted(run[r].last)
  PROVE  Effect(i)
<1>1. run[r].last \in Nat /\ Log[i].ledger \in Nat /\ StartLedger \in Nat
  BY EntryFacts, SizeAssumption DEF TypeOK
<1>2. Log[i].ledger \in StartLedger .. run[r].last
  BY <1>1 DEF FirstWanted
<1> QED BY <1>2 DEF Covered

(* A step that leaves the tables and the cursor alone keeps what they say. *)
LEMMA TablesQuiet ==
  ASSUME TypeOK, TypeOK', CursorSafe, UNCHANGED db, head <= head',
         reorged \subseteq reorged', reorged' \subseteq Forkable
  PROVE  CursorSafe' /\ Spares
<1>1. /\ rows' = rows /\ confirmed' = confirmed /\ copies' = copies
      /\ raw' = raw /\ cursor' = cursor
  BY DEF db
<1>2. Spares
  BY <1>1, IdleSpares
<1>3. Covered(cursor)'
  BY <1>1, <1>2, CoveredKept DEF CursorSafe, Covered
<1>4. RowsInOrder'
  BY <1>1, <1>2, StaysExposed DEF CursorSafe, RowsInOrder, Spares
<1>5. Genuine(raw)'
  BY <1>1 DEF CursorSafe, Genuine
<1>6. cursor' <= head'
  BY <1>1 DEF CursorSafe, TypeOK
<1> QED BY <1>2, <1>3, <1>4, <1>5, <1>6 DEF CursorSafe

(* If it moves the run r alone, to a safe state, it keeps the invariant.   *)
LEMMA QuietStep ==
  ASSUME SafeInv, TypeOK', NEW r \in Runs, UNCHANGED <<chain, db>>,
         \A q \in Runs : q # r => run'[q] = run[q],
         RunSafe(r)'
  PROVE  SafeInv'
<1>1. head' = head /\ reorged' = reorged /\ head \in Nat /\ TypeOK
  BY DEF chain, SafeInv, TypeOK
<1>2. CursorSafe' /\ Spares
  BY <1>1, TablesQuiet DEF SafeInv, CursorSafe
<1>3. ASSUME NEW q \in Runs, q # r
      PROVE  RunSafe(q)'
  BY <1>1, <1>2, <1>3, OtherRunSafe DEF SafeInv
<1> QED BY <1>2, <1>3 DEF SafeInv

(* A commit takes away nothing that lasts.                                 *)
LEMMA CommitSpares ==
  ASSUME OneRun => OneRunInv, SafeInv, NEW r \in Runs, Commit(r)
  PROVE  Spares
<1> DEFINE gone == Gone(r)
<1>1. /\ TypeOK /\ CursorSafe /\ run[r].at = "commit" /\ PageWhole(r) /\ KnownIncoming(r)
      /\ rows \subseteq Entry /\ copies \in [Entry -> Nat]
  BY CommitGives DEF SafeInv, RunSafe, TypeOK
<1>2. /\ rows' = Kept(rows, gone) \cup NewRows(run[r].page, gone) /\ reorged' = reorged
      /\ \A id \in confirmed : Has(Kept(rows, gone), "waste", id) => id \in confirmed'
      /\ \A i \in Entry : copies'[i] = (IF Log[i].ledger \in gone THEN 0 ELSE copies[i])
                                + (IF i \in run[r].page /\ Log[i].kind = "transfer" THEN 1 ELSE 0)
  BY CommitGives DEF chain
<1>3. ASSUME NEW i \in Entry, Lasting(i)
      PROVE  /\ Log[i].ledger \notin gone
             /\ Held(i) => \E k \in Kept(rows, gone) : k <= i /\ SameRow(Log[k], Log[i])
  <2>1. i <= i
    BY EntryFacts
  <2>2. \A k \in Entry : k <= i => Log[k].ledger \notin gone
    BY <1>1, <1>3, LastingNotGone
  <2> QED BY <1>1, <2>1, <2>2 DEF Held, Kept
<1>4. ASSUME NEW i \in Entry, Lasting(i)
      PROVE  /\ Held(i) => Held(i)'
             /\ copies'[i] >= copies[i]
             /\ Log[i].kind = "waste" /\ Held(i) /\ Log[i].id \in confirmed
                => Log[i].id \in confirmed'
  <2>1. Held(i) => Held(i)'
    BY <1>2, <1>3, <1>4 DEF Held
  <2>2. copies'[i] >= copies[i]
    BY <1>1, <1>2, <1>3, <1>4
  <2>3. ASSUME Log[i].kind = "waste", Held(i)
        PROVE  Has(Kept(rows, gone), "waste", Log[i].id)
    BY <1>3, <1>4, <2>3 DEF Has, SameRow
  <2> QED BY <1>2, <2>1, <2>2, <2>3
<1> QED BY <1>2, <1>4 DEF Spares

(* The lasting entries of a page have had their effect once it is          *)
(* committed, and what they confirm, lasting, is held by then.             *)
LEMMA PageTakesEffect ==
  ASSUME OneRun => OneRunInv, SafeInv, TypeOK', NEW r \in Runs, Commit(r),
         NEW i \in run[r].page, Lasting(i), Log[i].ledger >= StartLedger
  PROVE  Effect(i)'
<1> DEFINE P    == run[r].page
           gone == Gone(r)
           new  == NewRows(P, gone)
           from == FirstWanted(run[r].last)
<1>1. /\ TypeOK /\ CursorSafe /\ run[r].at = "commit" /\ PageWhole(r) /\ KnownIncoming(r)
      /\ Covered(run[r].last) /\ P \subseteq Entry /\ copies \in [Entry -> Nat]
      /\ from \in Nat /\ i \in Entry
  BY CommitGives, SizeAssumption DEF SafeInv, RunSafe, TypeOK, FirstWanted
<1>2. /\ rows' = Kept(rows, gone) \cup new /\ reorged' = reorged
      /\ \A k \in P : /\ Log[k].kind = "confirm"
                      /\ Has(Kept(rows, gone) \cup {m \in new : m < k}, "waste", Log[k].id)
                      => Log[k].id \in confirmed'
      /\ \A k \in Entry : copies'[k] = (IF Log[k].ledger \in gone THEN 0 ELSE copies[k])
                                + (IF k \in P /\ Log[k].kind = "transfer" THEN 1 ELSE 0)
  <2>1. /\ rows' = Kept(rows, gone) \cup new /\ reorged' = reorged
        /\ copies' = [k \in Entry |->
             (IF Log[k].ledger \in gone THEN 0 ELSE copies[k])
               + (IF k \in P /\ Log[k].kind = "transfer" THEN 1 ELSE 0)]
    BY CommitGives DEF chain
  <2>2. confirmed' = {id \in confirmed : Has(Kept(rows, gone), "waste", id)} \cup
          {Log[k].id : k \in {m \in P : /\ Log[m].kind = "confirm"
             /\ Has(Kept(rows, gone) \cup {n \in new : n < m}, "waste", Log[m].id)}}
    BY DEF Commit
  <2> HIDE DEF new, gone, P
  <2> QED BY <2>1, <2>2
<1>3. Log[i].kind \in {"participant", "waste"} => Held(i)'
  BY <1>1, <1>2, RowsInserted DEF Held
<1>4. Log[i].kind = "transfer" => copies'[i] > 0
  BY <1>1, <1>2
<1>5. ASSUME Log[i].kind = "confirm", NEW j \in Entry, Confirms(i, j)'
      PROVE  Held(j)' /\ Log[i].id \in confirmed'
  <2>1. /\ Lasting(j) /\ Log[j].kind = "waste" /\ Log[j].id = Log[i].id /\ j < i
        /\ Log[j].ledger >= StartLedger
    BY <1>2, <1>5, StaysExposed DEF Confirms
  <2>2. /\ j \in Nat /\ i \in Nat /\ Log[j].ledger \in Nat /\ Log[i].ledger \in Nat
        /\ Log[j].ledger <= Log[i].ledger
    BY <1>1, <2>1, EntryFacts
  <2>3. \E k \in Kept(rows, gone) \cup new : k <= j /\ SameRow(Log[k], Log[j])
    <3>1. CASE Log[j].ledger < from
      <4>1. Effect(j)
        BY <1>1, <2>1, <3>1, SizeAssumption, <2>2, BelowPage
      <4>2. PICK k \in rows : k <= j /\ SameRow(Log[k], Log[j])
        BY <2>1, <4>1 DEF Effect, Held
      <4>3. k \in Entry
        BY <1>1 DEF TypeOK
      <4>4. Log[k].ledger \notin gone
        BY <1>1, <2>1, <4>2, <4>3, LastingNotGone
      <4> QED BY <4>2, <4>4 DEF Kept
    <3>2. CASE from <= Log[j].ledger
      <4>1. j \in P
        BY <1>1, <2>1, <2>2, <3>2 DEF PageWhole
      <4> QED BY <1>1, <2>1, <4>1, RowsInserted
    <3> QED BY <1>1, <2>2, <3>1, <3>2
  <2>4. PICK k \in Kept(rows, gone) \cup new : k <= j /\ SameRow(Log[k], Log[j])
    BY <2>3
  <2>5. k \in Nat
    BY <1>1, EntryFacts DEF Kept, NewRows, New, TypeOK
  <2>6. k \in Kept(rows, gone) \cup {m \in new : m < i}
    BY <2>1, <2>2, <2>4, <2>5
  <2>7. Has(Kept(rows, gone) \cup {m \in new : m < i}, "waste", Log[i].id)
    BY <2>1, <2>4, <2>6 DEF Has, SameRow
  <2>8. Held(j)'
    BY <1>2, <2>4 DEF Held
  <2> QED BY <1>2, <1>5, <2>7, <2>8
<1> QED BY <1>3, <1>4, <1>5 DEF Effect

(* Committing a page keeps the invariant: what lies below the page has had *)
(* its effect before and keeps it, what is on it has it now.               *)
LEMMA CommitStep ==
  ASSUME OneRun => OneRunInv, SafeInv, TypeOK', NEW r \in Runs, Commit(r)
  PROVE  SafeInv'
<1> DEFINE P    == run[r].page
           gone == Gone(r)
           from == FirstWanted(run[r].last)
<1>1. /\ TypeOK /\ CursorSafe /\ RunSafe(r) /\ PageWhole(r) /\ KnownIncoming(r)
      /\ Covered(run[r].last) /\ run[r].at = "commit"
      /\ P \subseteq Entry /\ rows \subseteq Entry /\ raw \subseteq Entry
      /\ run[r].last \in Nat /\ from \in Nat /\ head \in Nat
  BY CommitGives, SizeAssumption DEF SafeInv, RunSafe, TypeOK, FirstWanted
<1>2. /\ rows' = Kept(rows, gone) \cup NewRows(P, gone)
      /\ raw' = Kept(raw, gone) \cup NewRaw(P, gone)
      /\ run' = [run EXCEPT ![r] = Idle] /\ head' = head /\ reorged' = reorged
  BY CommitGives DEF chain
<1>3. Spares
  BY CommitSpares, <1>1
<1>4. PICK z \in P : cursor' = Log[z].ledger
  BY CommitGives DEF NextCursor, PageLedgers
<1>5. /\ z \in Entry /\ Log[z].ledger \in Nat /\ cursor' <= head'
  BY <1>1, <1>2, <1>4, EntryFacts DEF PageWhole
<1>6. ASSUME NEW i \in Entry, Lasting(i), Log[i].ledger >= StartLedger,
             Log[i].ledger <= Log[z].ledger \/ \E j \in P : i < j
      PROVE  Effect(i)'
  <2>0. StartLedger \in Nat /\ Log[i].ledger \in Nat /\ i \in Nat
    BY SizeAssumption, EntryFacts
  <2>1. \E j \in P : Log[i].ledger <= Log[j].ledger
    BY <1>1, <1>6, EntryFacts
  <2>2. CASE Log[i].ledger < from
    <3>1. Effect(i)
      BY <1>1, <1>6, <2>0, <2>2, BelowPage
    <3> QED BY <1>1, <1>3, <1>6, <3>1, EffectsKept
  <2>3. CASE from <= Log[i].ledger
    <3>1. i \in P
      BY <1>1, <1>6, <2>1, <2>3 DEF PageWhole
    <3> QED BY <1>6, <3>1, PageTakesEffect
  <2> QED BY <1>1, <2>0, <2>2, <2>3
<1>7. Covered(cursor)'
  <2>1. ASSUME NEW i \in Entry, Lasting(i)', Log[i].ledger \in StartLedger .. cursor'
        PROVE  Effect(i)'
    <3>1. Lasting(i) /\ Log[i].ledger >= StartLedger /\ Log[i].ledger <= Log[z].ledger
      BY <1>2, <1>4, <1>5, <2>1, StaysExposed, SizeAssumption
    <3> QED BY <1>6, <3>1
  <2> QED BY <2>1 DEF Covered
<1>8. RowsInOrder'
  <2>1. ASSUME NEW i \in Entry, NEW j \in Entry, Lasting(i)', Log[i].ledger >= StartLedger,
               j \in rows', i < j, SameRow(Log[j], Log[i])
        PROVE  Held(i)'
    <3>0. Lasting(i)
      BY <1>2, <2>1, StaysExposed
    <3>1. CASE j \in rows
      <4>1. Held(i)
        BY <1>1, <2>1, <3>0, <3>1 DEF CursorSafe, RowsInOrder
      <4> QED BY <1>3, <3>0, <4>1 DEF Spares
    <3>2. CASE j \in NewRows(P, gone)
      <4>1. j \in P /\ Log[j].kind \in {"participant", "waste"}
        BY <3>2 DEF NewRows, New
      <4>2. Effect(i)'
        BY <1>6, <2>1, <3>0, <4>1
      <4> QED BY <2>1, <4>1, <4>2 DEF Effect, SameRow
    <3> QED BY <1>2, <2>1, <3>1, <3>2 DEF Kept
  <2> QED BY <2>1 DEF RowsInOrder
<1>9. Genuine(raw)'
  <2>1. raw' \subseteq raw \cup P
    BY <1>2 DEF Kept, NewRaw, New
  <2> QED BY <1>1, <1>2, <2>1 DEF Genuine, CursorSafe, PageWhole
<1>10. ASSUME NEW q \in Runs
       PROVE  RunSafe(q)'
  <2>1. run \in [Runs -> [at : Phases, last : Nat, to : Nat, page : SUBSET Entry,
                           known : SUBSET {Log[i].tx : i \in Entry}]]
    BY <1>1 DEF TypeOK
  <2>2. CASE q = r
    BY <1>2, <2>1, <2>2, IdleRunSafe
  <2>3. CASE q # r
    <3>1. run'[q] = run[q] /\ head <= head' /\ RunSafe(q)
      BY <1>1, <1>2, <2>1, <2>3 DEF SafeInv
    <3> QED BY <1>1, <1>3, <3>1, OtherRunSafe
  <2> QED BY <2>2, <2>3
<1>11. CursorSafe'
  BY <1>1, <1>2, <1>5, <1>7, <1>8, <1>9 DEF CursorSafe
<1> QED BY <1>10, <1>11 DEF SafeInv

-----------------------------------------------------------------------------
(* The invariant holds at the start and is kept by every step.             *)
LEMMA SafeInit == Init => SafeInv
<1> SUFFICES ASSUME Init
             PROVE  SafeInv
  OBVIOUS
<1>1. TypeOK
  BY TypeInit
<1>2. /\ head = 0 /\ reorged = {} /\ cursor = 0 /\ raw = {} /\ rows = {}
      /\ \A r \in Runs : run[r].at = "idle" /\ run[r].last = 0
  BY DEF Init, Idle
<1>3. Covered(0)
  BY EntryFacts, SizeAssumption DEF Covered
<1>4. CursorSafe
  BY <1>2, <1>3 DEF CursorSafe, RowsInOrder, Genuine
<1>5. ASSUME NEW r \in Runs
      PROVE  RunSafe(r)
  BY <1>2, <1>3 DEF RunSafe
<1> QED BY <1>1, <1>4, <1>5 DEF SafeInv

LEMMA FetchStep ==
  ASSUME SafeInv, TypeOK', NEW r \in Runs, Fetch(r)
  PROVE  SafeInv'
<1> DEFINE from == FirstWanted(run[r].last)
           to   == IF from + BatchSize - 1 < head THEN from + BatchSize - 1 ELSE head
           got  == [run[r] EXCEPT !.at = IF Page(from) = {} THEN "advance" ELSE "begin",
                                  !.to = to, !.page = Page(from)]
<1>1. /\ TypeOK /\ CursorSafe /\ RunSafe(r) /\ head \in Nat /\ run[r].last \in Nat
      /\ run \in [Runs -> [at : Phases, last : Nat, to : Nat, page : SUBSET Entry,
                           known : SUBSET {Log[i].tx : i \in Entry}]]
  BY DEF SafeInv, TypeOK
<1>2. /\ run' = [run EXCEPT ![r] =
             IF run[r].last >= head \/ from > head THEN Idle ELSE got]
      /\ UNCHANGED <<chain, db>>
  BY FetchGives
<1>3. \A q \in Runs : q # r => run'[q] = run[q]
  BY <1>1, <1>2
<1>4. /\ from \in Nat /\ from > 0 /\ to \in Nat /\ to <= head
      /\ reorged \subseteq Forkable
  BY <1>1, SizeAssumption DEF FirstWanted, CursorSafe
<1>5. /\ Page(from) \subseteq Entry
      /\ Genuine(Page(from))
      /\ \A i \in Page(from) :
           /\ from <= Log[i].ledger /\ Log[i].ledger <= head
           /\ \A j \in Entry :
                /\ Lasting(j)
                /\ from <= Log[j].ledger /\ Log[j].ledger <= Log[i].ledger
                => j \in Page(from)
      /\ Page(from) = {} => \A j \in Entry :
           ~ (Lasting(j) /\ from <= Log[j].ledger /\ Log[j].ledger <= head)
  BY <1>1, <1>4, PageIsWhole
<1>6. CASE run'[r] = Idle
  BY <1>2, <1>3, <1>6, IdleRunSafe, QuietStep
<1>7. CASE run'[r] = got
  <2>0. head' = head /\ reorged' = reorged /\ CursorSafe' /\ Spares
    BY <1>1, <1>2, <1>4, TablesQuiet DEF chain
  <2>1. /\ run'[r].last = run[r].last /\ run'[r].to = to /\ run'[r].page = Page(from)
        /\ run'[r].at = IF Page(from) = {} THEN "advance" ELSE "begin"
    BY <1>1, <1>7
  <2>2. run'[r].last <= head' /\ Covered(run[r].last)'
    BY <1>1, <2>0, <2>1, CoveredKept DEF RunSafe, Covered
  <2>3. PageWhole(r)'
    BY <1>5, <2>0, <2>1, StaysExposed DEF PageWhole, Genuine
  <2>4. run'[r].at = "advance" => NothingAhead(r)'
    <3>1. \A j \in Entry : Log[j].ledger \in Nat
      BY EntryFacts
    <3>2. run'[r].at = "advance" => Page(from) = {}
      BY <2>1
    <3>3. FirstWanted(run'[r].last) = from
      BY <2>1
    <3>4. \A j \in Entry : Lasting(j)' => Lasting(j)
      BY <2>0, StaysExposed
    <3> HIDE DEF from, to
    <3> QED BY <1>1, <1>4, <1>5, <2>0, <2>1, <3>1, <3>2, <3>3, <3>4 DEF NothingAhead
  <2>5. RunSafe(r)'
    <3>1. run'[r].at \in {"begin", "advance"}
      BY <2>1
    <3> QED BY <2>2, <2>3, <2>4, <3>1 DEF RunSafe
  <2> QED BY <1>2, <1>3, <2>5, QuietStep
<1> QED BY <1>1, <1>2, <1>6, <1>7

LEMMA AdvanceStep ==
  ASSUME SafeInv, TypeOK', NEW r \in Runs, Advance(r)
  PROVE  SafeInv'
<1>1. /\ TypeOK /\ CursorSafe /\ run[r].at = "advance" /\ RunSafe(r) /\ NothingAhead(r)
      /\ Covered(run[r].last) /\ run[r].to \in Nat /\ run[r].last \in Nat /\ head \in Nat
      /\ run \in [Runs -> [at : Phases, last : Nat, to : Nat, page : SUBSET Entry,
                           known : SUBSET {Log[i].tx : i \in Entry}]]
  BY DEF Advance, SafeInv, RunSafe, TypeOK
<1>2. /\ rows' = rows /\ confirmed' = confirmed /\ copies' = copies /\ raw' = raw
      /\ head' = head /\ reorged' = reorged
      /\ cursor' = run[r].to /\ run' = [run EXCEPT ![r] = Idle]
  BY DEF Advance, chain
<1>3. Spares
  BY <1>1, <1>2, IdleSpares
<1>4. ASSUME NEW i \in Entry, Lasting(i)', Log[i].ledger \in StartLedger .. run[r].to
      PROVE  Effect(i)'
  <2>1. Log[i].ledger \in Nat /\ StartLedger \in Nat /\ StartLedger <= Log[i].ledger
        /\ Log[i].ledger <= run[r].to
    BY <1>1, <1>4, EntryFacts, SizeAssumption
  <2>2. Lasting(i)
    BY <1>2, <1>4, StaysExposed
  <2>3. Log[i].ledger < FirstWanted(run[r].last)
    BY <1>1, <2>1, <2>2, SizeAssumption DEF NothingAhead, FirstWanted
  <2>4. Effect(i)
    BY <1>1, <2>1, <2>2, <2>3, BelowPage
  <2> QED BY <1>1, <1>3, <2>2, <2>4, EffectsKept
<1>5. Covered(cursor)' /\ cursor' <= head'
  BY <1>1, <1>2, <1>4 DEF Covered, NothingAhead
<1>6. RowsInOrder' /\ Genuine(raw)' /\ reorged' \subseteq Forkable
  BY <1>1, <1>2, <1>3, StaysExposed DEF CursorSafe, RowsInOrder, Genuine, Spares
<1>7. ASSUME NEW q \in Runs
      PROVE  RunSafe(q)'
  <2>1. CASE q = r
    BY <1>1, <1>2, <2>1, IdleRunSafe
  <2>2. CASE q # r
    BY <1>1, <1>2, <1>3, <2>2, OtherRunSafe DEF SafeInv
  <2> QED BY <2>1, <2>2
<1> QED BY <1>5, <1>6, <1>7 DEF SafeInv, CursorSafe

LEMMA BeginStep ==
  ASSUME OneRun => OneRunInv, SafeInv, TypeOK', NEW r \in Runs, Begin(r)
  PROVE  SafeInv'
<1> DEFINE P      == run[r].page
           hashes == UNION {Hashes(raw, l) : l \in {k \in PageLedgers(P) : IsFirst(P, k)}}
<1>1. /\ TypeOK /\ CursorSafe /\ run[r].at = "begin" /\ RunSafe(r) /\ PageWhole(r)
      /\ Covered(run[r].last) /\ P \subseteq Entry /\ head \in Nat
      /\ run \in [Runs -> [at : Phases, last : Nat, to : Nat, page : SUBSET Entry,
                           known : SUBSET {Log[i].tx : i \in Entry}]]
  BY DEF Begin, SafeInv, RunSafe, TypeOK
<1>2. /\ UNCHANGED <<chain, db>>
      /\ run' = [run EXCEPT ![r].at = "commit", ![r].known = hashes]
  BY DEF Begin
<1>3. /\ run'[r].at = "commit" /\ run'[r].known = hashes
      /\ run'[r].page = P /\ run'[r].last = run[r].last
      /\ \A q \in Runs : q # r => run'[q] = run[q]
  <2> HIDE DEF hashes
  <2> QED BY <1>1, <1>2
<1>4. head' = head /\ reorged' = reorged /\ reorged' \subseteq Forkable
  BY <1>1, <1>2 DEF chain, CursorSafe
<1>5. Spares
  BY <1>1, <1>2, <1>4, TablesQuiet
<1>6. ASSUME NEW l \in PageLedgers(P), IsFirst(P, l), OneRun \/ ~Exposed(l)
      PROVE  hashes \subseteq Hashes(P, l)
  <2>1. \A k \in PageLedgers(P) : IsFirst(P, k) => k = l
    <3>1. PageLedgers(P) \subseteq Nat
      BY <1>1, EntryFacts DEF PageLedgers
    <3> QED BY <1>6, <3>1 DEF IsFirst
  <2>2. Hashes(raw, l) \subseteq Hashes(P, l)
    BY <1>1, <1>6, StoredIncoming
  <2> QED BY <2>1, <2>2
<1>7. KnownIncoming(r)'
  <2>1. \A l : Exposed(l) <=> Exposed(l)'
    BY <1>4 DEF Exposed, Disturbed
  <2> HIDE DEF hashes
  <2> QED BY <1>3, <1>6, <2>1 DEF KnownIncoming
<1>8. PageWhole(r)'
  BY <1>1, <1>3, <1>4, StaysExposed DEF PageWhole, Genuine
<1>9. Covered(run[r].last)' /\ run'[r].last <= head'
  BY <1>1, <1>3, <1>4, <1>5, CoveredKept DEF RunSafe, Covered
<1>10. RunSafe(r)'
  BY <1>3, <1>7, <1>8, <1>9 DEF RunSafe
<1> QED BY <1>2, <1>3, <1>10, QuietStep

LEMMA SafeStep ==
  ASSUME OneRun => OneRunInv, SafeInv, [Next]_vars
  PROVE  SafeInv'
<1>1. TypeOK /\ TypeOK' /\ CursorSafe
  BY TypeStep DEF SafeInv
<1>2. /\ head \in Nat
      /\ run \in [Runs -> [at : Phases, last : Nat, to : Nat, page : SUBSET Entry,
                           known : SUBSET {Log[i].tx : i \in Entry}]]
  BY <1>1 DEF TypeOK
<1>3. ASSUME UNCHANGED <<db, run>>, head <= head', reorged \subseteq reorged',
             reorged' \subseteq Forkable
      PROVE  SafeInv'
  <2>1. CursorSafe' /\ Spares
    BY <1>1, <1>3, TablesQuiet
  <2>2. \A q \in Runs : RunSafe(q)'
    BY <1>1, <1>3, <2>1, OtherRunSafe DEF SafeInv
  <2> QED BY <1>1, <2>1, <2>2 DEF SafeInv
<1>4. CASE CloseLedger
  BY <1>1, <1>2, <1>3, <1>4 DEF CloseLedger, CursorSafe
<1>5. ASSUME NEW l \in Ledger, Reorg(l)
      PROVE  SafeInv'
  <2>1. l \in Forkable
    BY <1>5 DEF Reorg, Forkable
  <2> QED BY <1>1, <1>2, <1>3, <1>5, <2>1 DEF Reorg, CursorSafe
<1>6. ASSUME NEW r \in Runs, ReadCursor(r)
      PROVE  SafeInv'
  <2>1. /\ run'[r].at = "read" /\ run'[r].last = cursor /\ UNCHANGED <<chain, db>>
        /\ \A q \in Runs : q # r => run'[q] = run[q]
    BY <1>2, <1>6 DEF ReadCursor, Idle
  <2>2. CursorSafe' /\ cursor' = cursor
    BY <1>1, <1>2, <2>1, TablesQuiet DEF chain, db, CursorSafe
  <2>3. RunSafe(r)'
    BY <2>1, <2>2 DEF RunSafe, CursorSafe, Covered
  <2> QED BY <1>1, <2>1, <2>3, QuietStep
<1>7. ASSUME NEW r \in Runs, Fetch(r)
      PROVE  SafeInv'
  BY <1>1, <1>7, FetchStep
<1>8. ASSUME NEW r \in Runs, Advance(r)
      PROVE  SafeInv'
  BY <1>1, <1>8, AdvanceStep
<1>9. ASSUME NEW r \in Runs, Begin(r)
      PROVE  SafeInv'
  BY <1>1, <1>9, BeginStep
<1>10. ASSUME NEW r \in Runs, Commit(r)
       PROVE  SafeInv'
  BY <1>1, <1>10, CommitStep
<1>11. ASSUME NEW r \in Runs, Abort(r) \/ Fail(r)
       PROVE  SafeInv'
  <2>1. /\ UNCHANGED <<chain, db>> /\ run'[r] = Idle
        /\ \A q \in Runs : q # r => run'[q] = run[q]
    BY <1>2, <1>11 DEF Abort, Fail
  <2> QED BY <1>1, <2>1, IdleRunSafe, QuietStep
<1>12. CASE Restart
  <2>1. UNCHANGED <<chain, db>> /\ \A q \in Runs : run'[q] = Idle
    BY <1>12 DEF Restart
  <2>2. CursorSafe'
    BY <1>1, <1>2, <2>1, TablesQuiet DEF chain, CursorSafe
  <2> QED BY <1>1, <2>1, <2>2, IdleRunSafe DEF SafeInv
<1>13. CASE UNCHANGED vars
  BY <1>1, <1>2, <1>3, <1>13 DEF vars, chain, CursorSafe
<1> QED
  BY <1>4, <1>5, <1>6, <1>7, <1>8, <1>9, <1>10, <1>11, <1>12, <1>13 DEF Next

(* No event up to the cursor is lost but those of the exposed ledgers,     *)
(* whatever the log and the page size, however many runs overlap, fail or  *)
(* are cut off, and whatever is reorganised (runIndexer, processEvents,    *)
(* detectAndHandleReorg, updateSyncStatus).                                *)
THEOREM CursorIsSafe == Spec => []NothingLost
<1>1. SafeInv => NothingLost
  <2> SUFFICES ASSUME SafeInv, NEW i \in Entry, OnChain(i),
                      Log[i].ledger \in StartLedger .. cursor, ~Exposed(Log[i].ledger)
               PROVE  Applied(i)
    BY DEF NothingLost
  <2>1. Log[i].ledger \notin reorged /\ Log[i].fork \in BOOLEAN /\ Log[i].kind \in Kinds
    BY LogAssumption DEF Exposed, Disturbed
  <2>2. Lasting(i)
    BY <2>1 DEF OnChain, Lasting
  <2>3. Effect(i)
    BY <2>2 DEF SafeInv, CursorSafe, Covered
  <2>4. CASE Log[i].kind \in {"participant", "waste"}
    BY <2>3, <2>4 DEF Effect, Held, Applied, Has, SameRow
  <2>5. CASE Log[i].kind = "transfer"
    BY <2>3, <2>5 DEF Effect, Applied
  <2>6. CASE Log[i].kind = "confirm"
    <3>1. ASSUME NEW j \in Entry, Log[j].kind = "waste", Log[j].id = Log[i].id, j < i,
                 ~Log[j].fork, Log[j].ledger >= StartLedger, ~Exposed(Log[j].ledger)
          PROVE  Log[i].id \in confirmed
      BY <2>3, <2>6, <3>1 DEF Effect, Confirms, Lasting
    <3> QED BY <2>6, <3>1 DEF Applied
  <2> QED BY <2>1, <2>4, <2>5, <2>6 DEF Kinds
<1>2. CASE OneRun
  <2>1. OneRunInv /\ SafeInv /\ [Next]_vars => OneRunInv' /\ SafeInv'
    BY <1>2, OneRunStep, SafeStep
  <2> QED BY OneRunInit, SafeInit, <1>1, <2>1, PTL DEF Spec
<1>3. CASE ~OneRun
  <2>1. SafeInv /\ [Next]_vars => SafeInv'
    BY <1>3, SafeStep
  <2> QED BY SafeInit, <1>1, <2>1, PTL DEF Spec
<1> QED BY <1>2, <1>3

-----------------------------------------------------------------------------
(* A transaction is in one ledger: a reorganisation may replace it by      *)
(* others, but does not move it.                                           *)
TxInOneLedger ==
  \A i, j \in Entry : Log[i].tx = Log[j].tx => Log[i].ledger = Log[j].ledger

(* The raw log has an event of the transaction and kind of i.              *)
InRaw(i) == \E j \in raw : SameRaw(Log[j], Log[i])

(* What is left of the raw log in the ledgers that a run does not empty.   *)
LEMMA RawKept ==
  ASSUME TxInOneLedger, TypeOK, NEW r \in Runs,
         NEW i \in Entry, Log[i].ledger \notin Gone(r), InRaw(i)
  PROVE  \E j \in Kept(raw, Gone(r)) : SameRaw(Log[j], Log[i])
<1>1. PICK j \in raw : SameRaw(Log[j], Log[i])
  BY DEF InRaw
<1>2. j \in Entry /\ Log[j].ledger = Log[i].ledger
  BY <1>1 DEF TypeOK, TxInOneLedger, SameRaw
<1>3. j \in Kept(raw, Gone(r))
  BY <1>1, <1>2 DEF Kept
<1> QED BY <1>1, <1>3

(* Every entry of a page has its transaction in the raw log after the      *)
(* commit: where it finds a row of its key, that row is not rolled back.   *)
LEMMA RawTakesPage ==
  ASSUME TxInOneLedger, TypeOK, NEW r \in Runs, NEW i \in run[r].page
  PROVE  \E j \in Kept(raw, Gone(r)) \cup NewRaw(run[r].page, Gone(r)) :
           SameRaw(Log[j], Log[i])
<1> DEFINE P       == run[r].page
           gone    == Gone(r)
           Free(k) == \A j \in Seen(raw, gone, k) : ~SameRaw(Log[j], Log[k])
           Alike   == {k \in P : SameRaw(Log[k], Log[i]) /\ Free(k)}
<1>1. P \subseteq Entry /\ raw \subseteq Entry /\ Entry \subseteq Nat
  BY EntryFacts DEF TypeOK
<1>2. NewRaw(P, gone) =
        {k \in P : Free(k) /\ \A m \in P : m < k /\ SameRaw(Log[m], Log[k]) => ~Free(m)}
  BY DEF NewRaw, New
<1>3. CASE Free(i)
  <2>1. i \in Alike
    BY <1>3 DEF SameRaw
  <2>2. Alike \in SUBSET Nat /\ Alike # {}
    BY <1>1, <2>1
  <2>3. PICK m \in Alike : \A k \in Alike : m <= k
    <3> HIDE DEF Alike
    <3> QED BY <2>2, LeastNumber
  <2>4. m \in P /\ SameRaw(Log[m], Log[i]) /\ Free(m)
    BY <2>3
  <2>5. ASSUME NEW k \in P, k < m, SameRaw(Log[k], Log[m])
        PROVE  ~Free(k)
    <3>1. SameRaw(Log[k], Log[i])
      BY <2>4, <2>5 DEF SameRaw
    <3>2. m \in Nat /\ k \in Nat
      BY <1>1, <2>4
    <3>3. ~ (m <= k)
      BY <2>5, <3>2
    <3>4. k \notin Alike
      BY <2>3, <3>3
    <3> QED BY <3>1, <3>4
  <2> QED BY <1>2, <2>4, <2>5
<1>4. CASE ~Free(i)
  <2>1. PICK j \in Seen(raw, gone, i) : SameRaw(Log[j], Log[i])
    BY <1>4
  <2>2. j \in raw
    BY <2>1 DEF Seen, Kept
  <2>3. Log[j].ledger = Log[i].ledger
    BY <1>1, <2>1, <2>2 DEF TxInOneLedger, SameRaw
  <2>4. j \in Kept(raw, gone)
    BY <2>1, <2>2, <2>3 DEF Seen, Kept
  <2> QED BY <2>1, <2>4
<1> QED BY <1>3, <1>4

LoggedInv == TypeOK /\ TransactionsLogged

LEMMA LoggedCommit ==
  ASSUME TxInOneLedger, LoggedInv, NEW r \in Runs, Commit(r)
  PROVE  TransactionsLogged'
<1> DEFINE P    == run[r].page
           gone == Gone(r)
<1>1. /\ raw'  = Kept(raw, gone) \cup NewRaw(P, gone)
      /\ rows' = Kept(rows, gone) \cup NewRows(P, gone)
      /\ copies' = [i \in Entry |->
           (IF Log[i].ledger \in gone THEN 0 ELSE copies[i])
             + (IF i \in P /\ Log[i].kind = "transfer" THEN 1 ELSE 0)]
  BY CommitGives
<1>2. copies \in [Entry -> Nat] /\ TypeOK /\ P \subseteq Entry
  BY DEF LoggedInv, TypeOK
<1>3. ASSUME NEW i \in Entry, i \in rows' \/ copies'[i] > 0
      PROVE  i \in P \/ (Log[i].ledger \notin gone /\ (i \in rows \/ copies[i] > 0))
  <2>1. CASE i \in rows'
    BY <1>1, <2>1 DEF NewRows, New, Kept
  <2>2. CASE copies'[i] > 0
    BY <1>1, <1>2, <2>2
  <2> QED BY <1>3, <2>1, <2>2
<1>4. ASSUME NEW i \in Entry, i \in rows' \/ copies'[i] > 0
      PROVE  \E j \in raw' : SameRaw(Log[j], Log[i])
  <2>1. i \in rows \/ copies[i] > 0 => InRaw(i)
    BY DEF LoggedInv, TransactionsLogged, InRaw, SameRaw
  <2> QED BY <1>1, <1>2, <1>3, <1>4, <2>1, RawKept, RawTakesPage
<1> QED BY <1>4 DEF TransactionsLogged, SameRaw

LEMMA LoggedStep ==
  ASSUME TxInOneLedger, LoggedInv, [Next]_vars
  PROVE  LoggedInv'
<1>1. TypeOK'
  BY TypeStep DEF LoggedInv
<1>2. CASE \E r \in Runs : Commit(r)
  BY <1>1, <1>2, LoggedCommit DEF LoggedInv
<1>3. CASE UNCHANGED <<raw, rows, copies>>
  BY <1>1, <1>3 DEF LoggedInv, TransactionsLogged
<1>4. (\E r \in Runs : Commit(r)) \/ UNCHANGED <<raw, rows, copies>>
  BY DEF Next, CloseLedger, Reorg, ReadCursor, Fetch, Advance, Begin, Abort, Fail,
         Restart, db, vars
<1> QED BY <1>1, <1>2, <1>3, <1>4

(* Every row of a table has an event of its transaction and kind in the    *)
(* raw log, whatever is reorganised and however runs overlap, fail or are  *)
(* cut off: rows and raw log are rolled back and filled together           *)
(* (processEvents, rollbackFromLedger, storeRawEvent, storeEvent).         *)
THEOREM RowsLogged ==
  ASSUME TxInOneLedger
  PROVE  Spec => []TransactionsLogged
<1>1. Init => LoggedInv
  <2> SUFFICES ASSUME Init PROVE LoggedInv
    OBVIOUS
  <2>1. rows = {} /\ \A i \in Entry : copies[i] = 0
    BY DEF Init
  <2> QED BY <2>1, TypeInit DEF LoggedInv, TransactionsLogged
<1>2. LoggedInv /\ [Next]_vars => LoggedInv'
  BY LoggedStep
<1> QED BY <1>1, <1>2, PTL DEF Spec, LoggedInv

=============================================================================
