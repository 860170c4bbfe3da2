---------------------------- MODULE Parts_proofs -----------------------------
(***************************************************************************)
(* Proofs about what runs in the browser, for any tabs, changes, tasks,    *)
(* materials, proposals and voters: the queue of offline changes, the list *)
(* of wastes, the verifier's page and the community proposals.  And about  *)
(* a client's signed call, for any calls, accounts, time bounds and        *)
(* timeouts: it keeps its promise to the caller, and after a timeout it    *)
(* takes effect, if at all, within the lag of the ledger.  The last part   *)
(* puts these, the services and the rewards together: each behaves within  *)
(* MCParts as it does alone.                                               *)
(***************************************************************************)
EXTENDS MCParts, Services_proofs, Incentives_proofs

-----------------------------------------------------------------------------
(* The queue of offline changes                                            *)

(* Nothing makes a change pending again once it has been anything else.    *)
Spent(m) == m \in queued /\ ~(m \in Stored /\ store[m] = "pending")

AfterCall == {"returned", "markSent", "delete", "threw", "markFailed"}
Holding   == Steps \ {"closed", "idle", "next"}

QueueTyped ==
  /\ store \in [Stored -> Status] /\ Stored \subseteq queued /\ queued \subseteq Change
  /\ step \in [Tab -> Steps]
  /\ pending \in [Tab -> SUBSET queued] /\ mutation \in [Tab -> 0 .. Changes]
  /\ \A t \in Tab : step[t] \in Holding => mutation[t] \in pending[t]
  /\ calls \in [Change -> Nat]
  /\ succeeded \subseteq Change /\ cleared \subseteq Change /\ contested \subseteq Change

(* A change is spent before it is sent.                                    *)
SentIsSpent ==
  /\ \A t \in Tab : step[t] \in AfterCall \cup {"call"} => Spent(mutation[t])
  /\ \A m \in Change : calls[m] > 0 => Spent(m)

(* Only the tab that sent it still has it in its list, unless two had.     *)
HeldByOne ==
  \A t \in Tab : \A m \in pending[t] \ contested :
    /\ \A u \in Tab \ {t} : m \notin pending[u]
    /\ calls[m] > 0 => mutation[t] = m /\ step[t] \in AfterCall \cup {"over"}

(* What is about to be deleted was sent.                                   *)
DeletedIsSent ==
  \A t \in Tab : step[t] \in {"returned", "markSent", "delete"} => mutation[t] \in succeeded

QueueInv ==
  /\ QueueTyped /\ SentIsSpent /\ HeldByOne /\ DeletedIsSent
  /\ SentOnceByOneTab /\ GoneMeansSentOrCleared

(* What the steps within a run leave alone                                 *)
LEMMA QuietParts ==
  ASSUME QueueInv, UNCHANGED <<store, queued, calls, succeeded, cleared, contested>>
  PROVE  /\ \A m : Spent(m)' <=> Spent(m)
         /\ SentOnceByOneTab' /\ GoneMeansSentOrCleared'
BY DEF QueueInv, Spent, Stored, SentOnceByOneTab, GoneMeansSentOrCleared

LEMMA TabKeeps ==
  ASSUME QueueInv, NEW t \in Tab, Open(t) \/ Close(t) \/ Notice(t)
  PROVE  QueueInv'
<1>1. /\ \A m : Spent(m)' <=> Spent(m)
      /\ SentOnceByOneTab' /\ GoneMeansSentOrCleared'
  BY QuietParts DEF Open, Close, Notice
<1>2. QueueTyped'
  BY DEF Open, Close, Notice, QueueInv, QueueTyped, Holding, Steps, Stored
<1>3. SentIsSpent' /\ DeletedIsSent'
  BY <1>1 DEF Open, Close, Notice, QueueInv, QueueTyped, SentIsSpent, DeletedIsSent, AfterCall
<1>4. HeldByOne'
  BY DEF Open, Close, Notice, QueueInv, QueueTyped, HeldByOne, AfterCall
<1> QED
  BY <1>1, <1>2, <1>3, <1>4 DEF QueueInv

(* The loop goes on with the next change of the list.                      *)
LEMMA ContinueKeeps ==
  ASSUME QueueInv, NEW t \in Tab, NEW m \in Change, Continue(t, m),
         step[t] \in {"next", "over"}, step[t] = "next" => m \in pending[t] \ Handled,
         step[t] = "over" => m = mutation[t],
         UNCHANGED <<isOnline, mutation, store, queued, calls, succeeded, cleared, contested>>
  PROVE  QueueInv'
<1>1. /\ \A k : Spent(k)' <=> Spent(k)
      /\ SentOnceByOneTab' /\ GoneMeansSentOrCleared'
  BY QuietParts
<1>2. QueueTyped'
  BY DEF Continue, QueueInv, QueueTyped, Holding, Steps, Stored
<1>3. SentIsSpent' /\ DeletedIsSent'
  BY <1>1 DEF Continue, QueueInv, QueueTyped, SentIsSpent, DeletedIsSent, AfterCall
<1>4. HeldByOne'
  BY DEF Continue, QueueInv, QueueTyped, HeldByOne, AfterCall
<1> QED
  BY <1>1, <1>2, <1>3, <1>4 DEF QueueInv

LEMMA FindHandlerKeeps ==
  ASSUME QueueInv, NEW t \in Tab, FindHandler(t)
  PROVE  QueueInv'
<1> PICK m \in pending[t] :
      IF m \in Handled
      THEN /\ mutation' = [mutation EXCEPT ![t] = m]
           /\ step' = [step EXCEPT ![t] = "read"]
           /\ UNCHANGED pending
      ELSE Continue(t, m) /\ UNCHANGED mutation
  BY DEF FindHandler
<1>1. /\ step[t] = "next" /\ m \in Change /\ m \in 0 .. Changes
      /\ UNCHANGED <<isOnline, store, queued, calls, succeeded, cleared, contested>>
  BY ChangesAssumption DEF FindHandler, QueueInv, QueueTyped, Change, ChangesAssumption
<1>2. CASE m \notin Handled
  BY <1>1, <1>2, ContinueKeeps
<1>3. CASE m \in Handled
  <2>1. /\ \A k : Spent(k)' <=> Spent(k)
        /\ SentOnceByOneTab' /\ GoneMeansSentOrCleared'
    BY <1>1, QuietParts
  <2>2. /\ mutation' = [mutation EXCEPT ![t] = m]
        /\ step' = [step EXCEPT ![t] = "read"]
        /\ UNCHANGED pending
    BY <1>3
  <2>3. QueueTyped'
    BY <1>1, <2>2 DEF QueueInv, QueueTyped, Holding, Steps, Stored
  <2>4. SentIsSpent' /\ DeletedIsSent'
    BY <1>1, <2>1, <2>2 DEF QueueInv, QueueTyped, SentIsSpent, DeletedIsSent, AfterCall
  <2>5. HeldByOne'
    BY <1>1, <2>2 DEF QueueInv, QueueTyped, HeldByOne, AfterCall
  <2> QED
    BY <2>1, <2>3, <2>4, <2>5 DEF QueueInv
<1> QED
  BY <1>2, <1>3

LEMMA NextChangeKeeps ==
  ASSUME QueueInv, NEW t \in Tab, NextChange(t)
  PROVE  QueueInv'
<1>1. mutation[t] \in Change
  BY DEF NextChange, QueueInv, QueueTyped, Holding, Steps
<1> QED
  BY <1>1, ContinueKeeps DEF NextChange

(* Reading the store decides whether the change is there to be marked; one *)
(* that is not there is spent.                                             *)
LEMMA ReadKeeps ==
  ASSUME QueueInv, NEW t \in Tab, Read(t) \/ StorageFails(t)
  PROVE  QueueInv'
<1>1. /\ \A m : Spent(m)' <=> Spent(m)
      /\ SentOnceByOneTab' /\ GoneMeansSentOrCleared'
  BY QuietParts DEF Read, ReadChange, StorageFails
<1>2. /\ UNCHANGED <<isOnline, pending, mutation, store, queued, calls, succeeded, cleared, contested>>
      /\ step' = [step EXCEPT ![t] = step'[t]]
      /\ step[t] \in Holding /\ step'[t] \in Holding
      /\ step'[t] \in AfterCall => step[t] \in AfterCall
      /\ step'[t] = "call" => step[t] = "read" /\ mutation[t] \notin Stored
      /\ step[t] \in AfterCall => step'[t] \in AfterCall \cup {"over"}
      /\ step'[t] \in {"markSent", "delete"} => step[t] \in {"returned", "markSent", "delete"}
      /\ step'[t] # "returned" /\ step[t] # "over"
  BY DEF Read, ReadChange, StorageFails, Holding, Steps, AfterCall, QueueInv, QueueTyped
<1>3. mutation[t] \in pending[t] /\ mutation[t] \in queued
  BY <1>2 DEF QueueInv, QueueTyped
<1>4. QueueTyped'
  BY <1>2 DEF QueueInv, QueueTyped, Holding, Stored
<1>5. SentIsSpent'
  <2>1. step'[t] \in AfterCall \cup {"call"} => Spent(mutation[t])
    BY <1>2, <1>3 DEF QueueInv, SentIsSpent, Spent
  <2> QED
    BY <1>1, <1>2, <2>1 DEF QueueInv, QueueTyped, SentIsSpent
<1>6. DeletedIsSent'
  BY <1>2 DEF QueueInv, QueueTyped, DeletedIsSent
<1>7. HeldByOne'
  BY <1>2 DEF QueueInv, QueueTyped, HeldByOne
<1> QED
  BY <1>1, <1>4, <1>5, <1>6, <1>7 DEF QueueInv

(* A status other than pending is written, and the change is there again.  *)
LEMMA WriteKeeps ==
  ASSUME QueueInv, NEW t \in Tab, MarkSyncing(t) \/ MarkSuccess(t) \/ MarkFailed(t)
  PROVE  QueueInv'
<1> PICK s \in Status \ {"pending"}, to \in {"call", "delete", "over"} :
      /\ store' = [k \in Stored \cup {mutation[t]} |-> IF k = mutation[t] THEN s ELSE store[k]]
      /\ step' = [step EXCEPT ![t] = to]
      /\ to = "call" => step[t] = "mark"
      /\ to = "delete" => step[t] = "markSent"
      /\ to = "over" => step[t] = "markFailed"
      /\ UNCHANGED <<isOnline, pending, mutation, queued, calls, succeeded, cleared, contested>>
  BY DEF MarkSyncing, MarkSuccess, MarkFailed, WriteChange, Status
<1>1. step[t] \in Holding /\ mutation[t] \in pending[t] /\ mutation[t] \in queued
  BY DEF Holding, Steps, QueueInv, QueueTyped
<1>2. /\ Stored' = Stored \cup {mutation[t]}
      /\ Spent(mutation[t])' /\ \A m : Spent(m) => Spent(m)'
  BY <1>1 DEF Stored, Spent
<1>3. QueueTyped'
  BY <1>1, <1>2 DEF QueueInv, QueueTyped, Holding, Steps
<1>4. SentIsSpent' /\ DeletedIsSent'
  BY <1>2 DEF QueueInv, QueueTyped, SentIsSpent, DeletedIsSent, AfterCall
<1>5. HeldByOne'
  BY DEF QueueInv, QueueTyped, HeldByOne, AfterCall
<1>6. SentOnceByOneTab' /\ GoneMeansSentOrCleared'
  BY <1>2 DEF QueueInv, SentOnceByOneTab, GoneMeansSentOrCleared
<1> QED
  BY <1>3, <1>4, <1>5, <1>6 DEF QueueInv

LEMMA DeleteKeeps ==
  ASSUME QueueInv, NEW t \in Tab, DeleteMutation(t)
  PROVE  QueueInv'
<1>1. /\ step[t] = "delete" /\ step' = [step EXCEPT ![t] = "over"]
      /\ store' = [k \in Stored \ {mutation[t]} |-> store[k]]
      /\ UNCHANGED <<isOnline, pending, mutation, queued, calls, succeeded, cleared, contested>>
  BY DEF DeleteMutation
<1>2. mutation[t] \in pending[t] /\ mutation[t] \in succeeded
  BY <1>1 DEF QueueInv, QueueTyped, Holding, Steps, DeletedIsSent
<1>3. Stored' = Stored \ {mutation[t]} /\ \A m : Spent(m) => Spent(m)'
  BY <1>1 DEF Stored, Spent
<1>4. QueueTyped'
  BY <1>1, <1>2, <1>3 DEF QueueInv, QueueTyped, Holding, Steps
<1>5. SentIsSpent' /\ DeletedIsSent'
  BY <1>1, <1>3 DEF QueueInv, QueueTyped, SentIsSpent, DeletedIsSent, AfterCall
<1>6. HeldByOne'
  BY <1>1 DEF QueueInv, QueueTyped, HeldByOne, AfterCall
<1>7. SentOnceByOneTab' /\ GoneMeansSentOrCleared'
  BY <1>1, <1>2, <1>3 DEF QueueInv, SentOnceByOneTab, GoneMeansSentOrCleared
<1> QED
  BY <1>4, <1>5, <1>6, <1>7 DEF QueueInv

LEMMA StoreKeeps ==
  ASSUME QueueInv, NEW t \in Tab, Queue(t) \/ ClearAllData(t)
  PROVE  QueueInv'
<1>1. /\ UNCHANGED <<tabVars, calls, succeeded, contested>>
      /\ queued \subseteq queued' /\ queued' \subseteq Change
      /\ cleared \subseteq cleared' /\ cleared' \subseteq Change
  BY DEF Queue, ClearAllData, QueueInv, QueueTyped
<1>2. /\ store' \in [Stored' -> Status] /\ Stored' \subseteq queued'
      /\ \A m : Spent(m) => Spent(m)'
      /\ queued' \subseteq Stored' \cup succeeded \cup cleared'
  <2>1. CASE Queue(t)
    <3> PICK m \in Change \ queued :
          /\ store' = [k \in Stored \cup {m} |-> IF k = m THEN "pending" ELSE store[k]]
          /\ queued' = queued \cup {m}
      BY <2>1 DEF Queue
    <3>1. Stored' = Stored \cup {m} /\ cleared' = cleared
      BY <2>1 DEF Stored, Queue
    <3> QED
      BY <3>1 DEF QueueInv, QueueTyped, Status, Spent, GoneMeansSentOrCleared
  <2>2. CASE ClearAllData(t)
    <3>1. store' = <<>> /\ cleared' = cleared \cup Stored /\ queued' = queued
      BY <2>2 DEF ClearAllData
    <3>2. Stored' = {} /\ store' \in [Stored' -> Status]
      BY <3>1 DEF Stored
    <3> QED
      BY <3>1, <3>2 DEF QueueInv, QueueTyped, Spent, GoneMeansSentOrCleared
  <2> QED
    BY <2>1, <2>2
<1>3. QueueTyped'
  BY <1>1, <1>2 DEF QueueInv, QueueTyped, tabVars
<1>4. SentIsSpent' /\ DeletedIsSent' /\ HeldByOne'
  BY <1>1, <1>2 DEF QueueInv, SentIsSpent, DeletedIsSent, HeldByOne, tabVars
<1>5. SentOnceByOneTab' /\ GoneMeansSentOrCleared'
  BY <1>1, <1>2 DEF QueueInv, SentOnceByOneTab, GoneMeansSentOrCleared
<1> QED
  BY <1>3, <1>4, <1>5 DEF QueueInv

(* A run begins with what is pending, and so was never sent.               *)
LEMMA PerformSyncKeeps ==
  ASSUME QueueInv, NEW t \in Tab, PerformSync(t)
  PROVE  QueueInv'
<1> DEFINE found == {m \in Stored : store[m] = "pending"}
<1>1. /\ step[t] = "idle" /\ step' = [step EXCEPT ![t] = "next"]
      /\ pending' = [pending EXCEPT ![t] = found]
      /\ contested' = contested \cup {m \in found : \E u \in Tab \ {t} : m \in pending[u]}
      /\ UNCHANGED <<isOnline, mutation, store, queued, calls, succeeded, cleared>>
  BY DEF PerformSync
<1>2. found \subseteq queued /\ found \subseteq Change /\ \A m \in found : ~Spent(m) /\ ~(calls[m] > 0)
  BY DEF QueueInv, QueueTyped, SentIsSpent, Spent
<1>3. \A m : Spent(m)' <=> Spent(m)
  BY <1>1 DEF Spent, Stored
<1> HIDE DEF found
<1>4. QueueTyped'
  BY <1>1, <1>2 DEF QueueInv, QueueTyped, Holding, Steps, Stored
<1>5. SentIsSpent' /\ DeletedIsSent'
  BY <1>1, <1>3 DEF QueueInv, QueueTyped, SentIsSpent, DeletedIsSent, AfterCall
<1>6. HeldByOne'
  BY <1>1, <1>2 DEF QueueInv, QueueTyped, HeldByOne, AfterCall
<1>7. SentOnceByOneTab' /\ GoneMeansSentOrCleared'
  BY <1>1 DEF QueueInv, SentOnceByOneTab, GoneMeansSentOrCleared, Stored
<1> QED
  BY <1>4, <1>5, <1>6, <1>7 DEF QueueInv

(* A change nobody else holds is sent for the first time.                  *)
LEMMA CallbackKeeps ==
  ASSUME QueueInv, NEW t \in Tab, Callback(t)
  PROVE  QueueInv'
<1>1. PICK to \in {"returned", "threw"} :
        /\ step[t] = "call" /\ step' = [step EXCEPT ![t] = to]
        /\ calls' = [calls EXCEPT ![mutation[t]] = @ + 1]
        /\ succeeded' \in {succeeded, succeeded \cup {mutation[t]}}
        /\ to = "returned" => mutation[t] \in succeeded'
        /\ UNCHANGED <<isOnline, pending, mutation, store, queued, cleared, contested>>
  BY DEF Callback
<1>2. mutation[t] \in pending[t] /\ mutation[t] \in Change /\ Spent(mutation[t])
  BY <1>1 DEF QueueInv, QueueTyped, Holding, Steps, SentIsSpent
<1>3. mutation[t] \notin contested => calls[mutation[t]] = 0
  BY <1>1, <1>2 DEF QueueInv, QueueTyped, HeldByOne, AfterCall
<1>4. \A m : Spent(m)' <=> Spent(m)
  BY <1>1 DEF Spent, Stored
<1>5. /\ calls' \in [Change -> Nat] /\ calls'[mutation[t]] = calls[mutation[t]] + 1
      /\ \A m \in Change \ {mutation[t]} : calls'[m] = calls[m]
  BY <1>1, <1>2 DEF QueueInv, QueueTyped
<1>6. QueueTyped'
  BY <1>1, <1>2, <1>5 DEF QueueInv, QueueTyped, Holding, Steps, Stored
<1>7. SentIsSpent' /\ DeletedIsSent'
  BY <1>1, <1>2, <1>4, <1>5 DEF QueueInv, QueueTyped, SentIsSpent, DeletedIsSent, AfterCall
<1>8. HeldByOne'
  BY <1>1, <1>2, <1>5 DEF QueueInv, QueueTyped, HeldByOne, AfterCall
<1>9. SentOnceByOneTab' /\ GoneMeansSentOrCleared'
  BY <1>1, <1>3, <1>5 DEF QueueInv, QueueTyped, SentOnceByOneTab, GoneMeansSentOrCleared, Stored
<1> QED
  BY <1>6, <1>7, <1>8, <1>9 DEF QueueInv

(* The invariant holds in every reachable state.                           *)
THEOREM QueueCorrect == QueueSpec => []QueueInv
<1>1. QueueInit => QueueInv
  BY ChangesAssumption
  DEF QueueInit, QueueInv, QueueTyped, SentIsSpent, HeldByOne, DeletedIsSent, Spent, Stored,
      Status, Steps, Holding, AfterCall, SentOnceByOneTab, GoneMeansSentOrCleared,
      ChangesAssumption
<1>2. QueueInv /\ [QueueNext]_queueVars => QueueInv'
  <2> SUFFICES ASSUME QueueInv, [QueueNext]_queueVars PROVE QueueInv'
    OBVIOUS
  <2>1. CASE QueueNext
    BY <2>1, TabKeeps, FindHandlerKeeps, NextChangeKeeps, ReadKeeps, WriteKeeps, DeleteKeeps,
       StoreKeeps, PerformSyncKeeps, CallbackKeeps
    DEF QueueNext
  <2>2. CASE UNCHANGED queueVars
    BY <2>2 DEF queueVars, tabVars, QueueInv, QueueTyped, SentIsSpent, HeldByOne, DeletedIsSent,
                Spent, Stored, SentOnceByOneTab, GoneMeansSentOrCleared
  <2> QED
    BY <2>1, <2>2
<1> QED
  BY <1>1, <1>2, PTL DEF QueueSpec

(* A change is sent twice only if two tabs had it in their lists at once   *)
(* (syncPendingMutations).                                                 *)
THEOREM SentOnce == QueueSpec => []SentOnceByOneTab
<1>1. QueueInv => SentOnceByOneTab
  BY DEF QueueInv
<1> QED
  BY <1>1, QueueCorrect, PTL

(* A change leaves the store only when it was sent or cleared              *)
(* (deleteMutation, clearAllData).                                         *)
THEOREM NoChangeIsLost == QueueSpec => []GoneMeansSentOrCleared
<1>1. QueueInv => GoneMeansSentOrCleared
  BY DEF QueueInv
<1> QED
  BY <1>1, QueueCorrect, PTL

-----------------------------------------------------------------------------
(* The list of wastes                                                      *)

ListTyped == progress \in [Task -> {"idle", "calling", "loading", "done"}]

(* Every step keeps an explanation of what is shown too early: a task that *)
(* leaves its calls starts a load, unless it never showed anything.        *)
LEMMA ListStep ==
  ASSUME ListTyped, OptimismExplained, ListNext
  PROVE  ListTyped' /\ OptimismExplained'
<1>1. ASSUME NEW t \in Task, Reload(t) \/ LoadFails(t)
      PROVE  ListTyped' /\ OptimismExplained'
  BY <1>1 DEF Reload, StartLoad, LoadFails, ListTyped, OptimismExplained
<1>2. ASSUME NEW t \in Task, Loaded(t)
      PROVE  ListTyped' /\ OptimismExplained'
  <2> PICK ids \in SUBSET Waste : \E seen \in SUBSET (ids \cap confirmed) :
        wastes' = [w \in ids |-> w \in seen]
    BY <1>2 DEF Loaded
  <2>1. PICK seen \in SUBSET (ids \cap confirmed) : wastes' = [w \in ids |-> w \in seen]
    OBVIOUS
  <2>2. \A w \in DOMAIN wastes' : wastes'[w] => w \in confirmed'
    BY <1>2, <2>1 DEF Loaded
  <2> QED
    BY <1>2, <2>2 DEF Loaded, ListTyped, OptimismExplained
<1>3. ASSUME NEW t \in Task, Start(t)
      PROVE  ListTyped' /\ OptimismExplained'
  <2>1. /\ progress[t] = "idle" /\ progress' = [progress EXCEPT ![t] = "calling"]
        /\ UNCHANGED <<isLoading, error, confirmed>>
    BY <1>3 DEF Start
  <2>2. ASSUME NEW w \in DOMAIN wastes', wastes'[w], w \notin confirmed
        PROVE  \/ isLoading \/ error
               \/ \E u \in Task : /\ progress'[u] = "calling" /\ w \in Asked[u].items
                                  /\ Asked[u].kind \in Optimistic
    <3>1. CASE w \in DOMAIN wastes /\ wastes[w]
      BY <2>1, <2>2, <3>1 DEF ListTyped, OptimismExplained
    <3>2. CASE ~(w \in DOMAIN wastes /\ wastes[w])
      <4>1. Asked[t].kind \in Optimistic /\ w \in Asked[t].items
        BY <1>3, <2>2, <3>2 DEF Start
      <4> QED
        BY <2>1, <4>1 DEF ListTyped
    <3> QED
      BY <3>1, <3>2
  <2>3. OptimismExplained'
    BY <2>1, <2>2 DEF OptimismExplained
  <2> QED
    BY <2>1, <2>3 DEF ListTyped
<1>4. ASSUME NEW t \in Task, CallFor(t)
      PROVE  ListTyped' /\ OptimismExplained'
  <2>1. /\ confirmed \subseteq confirmed' /\ UNCHANGED wastes
        /\ \/ UNCHANGED <<progress, isLoading, error>>
           \/ StartLoad(t)
           \/ /\ EndsThere(t) /\ progress' = [progress EXCEPT ![t] = "done"]
              /\ UNCHANGED <<isLoading, error>>
    BY <1>4 DEF CallFor
  <2>2. EndsThere(t) => Asked[t].kind \notin Optimistic
    BY DEF EndsThere, Optimistic
  <2> QED
    BY <2>1, <2>2 DEF StartLoad, ListTyped, OptimismExplained
<1>5. ASSUME NEW w \in Waste, ConfirmedElsewhere(w)
      PROVE  ListTyped' /\ OptimismExplained'
  BY <1>5 DEF ConfirmedElsewhere, ListTyped, OptimismExplained
<1> QED
  BY <1>1, <1>2, <1>3, <1>4, <1>5 DEF ListNext

(* Whatever runs side by side, an item is shown as confirmed too early     *)
(* only with an explanation (useWasteList).                                *)
THEOREM ListHonest == ListSpec => []OptimismExplained
<1>1. ListInit => ListTyped /\ OptimismExplained
  BY DEF ListInit, ListTyped, OptimismExplained
<1>2. ListTyped /\ OptimismExplained /\ [ListNext]_listVars => ListTyped' /\ OptimismExplained'
  <2> SUFFICES ASSUME ListTyped, OptimismExplained, [ListNext]_listVars
               PROVE  ListTyped' /\ OptimismExplained'
    OBVIOUS
  <2>1. CASE ListNext
    BY <2>1, ListStep
  <2>2. CASE UNCHANGED listVars
    BY <2>2 DEF listVars, ListTyped, OptimismExplained
  <2> QED
    BY <2>1, <2>2
<1> QED
  BY <1>1, <1>2, PTL DEF ListSpec

-----------------------------------------------------------------------------
(* The verifier's page                                                     *)

Approved == {r.id : r \in {s \in history : s.decision = "approved"}}

(* What the action under way has behind it is approved.                    *)
BoardInv ==
  /\ finished \subseteq Approved /\ Approved \subseteq verified
  /\ rest # {} => bulk \ rest \subseteq Approved

LEMMA DecideKeeps ==
  ASSUME BoardInv, NEW ids, NEW one, Decide(ids, one), UNCHANGED <<finished, verified>>
  PROVE  BoardInv'
<1>1. Approved' = Approved
  <2>1. CASE UNCHANGED history
    BY <2>1 DEF Approved
  <2>2. CASE history' = history \cup {[id |-> m, decision |-> "rejected"] : m \in ids}
    <3>1. {s \in history' : s.decision = "approved"} = {s \in history : s.decision = "approved"}
      BY <2>2
    <3> QED
      BY <3>1 DEF Approved
  <2> QED
    BY <2>1, <2>2 DEF Decide
<1> QED
  BY <1>1 DEF BoardInv, Decide

LEMMA BoardStep ==
  ASSUME BoardInv, BoardNext
  PROVE  BoardInv'
<1>1. CASE Fetched \/ Refetch \/ Select
  BY <1>1 DEF Fetched, Refetch, Select, BoardInv, Approved
<1>2. CASE BulkAction
  BY <1>2, DecideKeeps DEF BulkAction
<1>3. ASSUME NEW m \in Row, Verify(m)
      PROVE  BoardInv'
  BY <1>3, DecideKeeps DEF Verify
<1>4. ASSUME NEW m \in Row, VerifyReturns(m)
      PROVE  BoardInv'
  <2>1. /\ m \in rest /\ rest' = rest \ {m} /\ verified' = verified \cup {m}
        /\ history' = history \cup {[id |-> m, decision |-> "approved"]}
        /\ finished' \subseteq finished \cup (IF rest = {m} THEN bulk ELSE {})
        /\ UNCHANGED bulk
    BY <1>4 DEF VerifyReturns
  <2>2. Approved' = Approved \cup {m}
    <3> DEFINE added == [id |-> m, decision |-> "approved"]
    <3>1. added.id = m /\ added.decision = "approved" /\ history' = history \cup {added}
      BY <2>1
    <3> HIDE DEF added
    <3>2. Approved' = {r.id : r \in {s \in history \cup {added} : s.decision = "approved"}}
      BY <3>1 DEF Approved
    <3>3. {s \in history \cup {added} : s.decision = "approved"}
            = {s \in history : s.decision = "approved"} \cup {added}
      BY <3>1
    <3>4. {r.id : r \in {s \in history : s.decision = "approved"} \cup {added}} = Approved \cup {m}
      BY <3>1 DEF Approved
    <3> QED
      BY <3>2, <3>3, <3>4
  <2>3. bulk \ rest' \subseteq Approved'
    BY <2>1, <2>2 DEF BoardInv
  <2> QED
    BY <2>1, <2>2, <2>3 DEF BoardInv
<1>5. ASSUME NEW m \in Row, Throws(m) \/ VerifiedElsewhere(m)
      PROVE  BoardInv'
  BY <1>5 DEF Throws, VerifiedElsewhere, BoardInv, Approved
<1> QED
  BY <1>1, <1>2, <1>3, <1>4, <1>5 DEF BoardNext

(* What the session's history calls approved is verified on the ledger     *)
(* (handleVerify, handleBulkAction).                                       *)
THEOREM HistoryHonest == BoardSpec => []ApprovalsVerified
<1>1. BoardInit => BoardInv
  BY DEF BoardInit, BoardInv, Approved
<1>2. BoardInv /\ [BoardNext]_boardVars => BoardInv'
  <2> SUFFICES ASSUME BoardInv, [BoardNext]_boardVars PROVE BoardInv'
    OBVIOUS
  <2>1. CASE BoardNext
    BY <2>1, BoardStep
  <2>2. CASE UNCHANGED boardVars
    BY <2>2 DEF boardVars, BoardInv, Approved
  <2> QED
    BY <2>1, <2>2
<1>3. BoardInv => ApprovalsVerified
  BY DEF BoardInv, Approved, ApprovalsVerified
<1> QED
  BY <1>1, <1>2, <1>3, PTL DEF BoardSpec

-----------------------------------------------------------------------------
(* The community proposals                                                 *)

Record == [status : VoteStatus, votes : Votes]

(* A list whose proposals say of their votes what the tally says           *)
Right(list) ==
  \A p \in DOMAIN list :
    /\ list[p] \in Record
    /\ list[p].status = "passed" => Passes(list[p].votes)
    /\ list[p].status = "rejected" => ~Passes(list[p].votes)

(* So do the lists the tabs are about to save.                             *)
VotesInv ==
  /\ Right(proposals)
  /\ saving = [b \in Browser |-> saving[b]]
  /\ \A b \in Browser : \A l \in saving[b] : Right(l)

LEMMA PutRight ==
  ASSUME Right(proposals), NEW p, NEW r \in Record,
         r.status = "passed" => Passes(r.votes), r.status = "rejected" => ~Passes(r.votes)
  PROVE  Right(Put(p, r))
BY DEF Put, Right

LEMMA PrepareKeeps ==
  ASSUME VotesInv, NEW b \in Browser, NEW l, Right(l), Prepare(b, l)
  PROVE  VotesInv'
BY DEF VotesInv, Prepare

LEMMA CastRecord ==
  ASSUME NEW votes \in Votes, NEW v \in Voter, NEW c \in VoteChoice
  PROVE  [w \in DOMAIN votes \cup {v} |-> IF w = v THEN c ELSE votes[w]] \in Votes
<1>1. PICK W \in SUBSET Voter : votes \in [W -> VoteChoice]
  BY DEF Votes
<1>2. /\ W \cup {v} \in SUBSET Voter
      /\ [w \in DOMAIN votes \cup {v} |-> IF w = v THEN c ELSE votes[w]] \in [W \cup {v} -> VoteChoice]
  BY <1>1
<1> QED
  BY <1>2 DEF Votes

LEMMA VotesStep ==
  ASSUME VotesInv, VotesNext
  PROVE  VotesInv'
<1>1. ASSUME NEW b \in Browser, NEW p \in Proposal, CreateProposal(b, p)
      PROVE  VotesInv'
  <2> DEFINE r == [status |-> "active", votes |-> <<>>]
  <2>1. <<>> \in Votes
    <3>1. {} \in SUBSET Voter /\ <<>> \in [{} -> VoteChoice]
      OBVIOUS
    <3> QED
      BY <3>1 DEF Votes
  <2>2. r \in Record /\ r.status = "active"
    BY <2>1 DEF Record, VoteStatus
  <2>3. Right(Put(p, r))
    BY <2>2, PutRight DEF VotesInv
  <2> QED
    BY <1>1, <2>3, PrepareKeeps DEF CreateProposal
<1>2. ASSUME NEW b \in Browser, NEW p \in Proposal, VetoProposal(b, p) \/ FinalizeProposal(b, p)
      PROVE  VotesInv'
  <2>1. proposals[p] \in Record
    BY <1>2 DEF VetoProposal, FinalizeProposal, VotesInv, Right
  <2>2. PICK s \in {"vetoed", "passed", "rejected"} :
          /\ Prepare(b, Put(p, [proposals[p] EXCEPT !.status = s]))
          /\ s = "passed" => Passes(proposals[p].votes)
          /\ s = "rejected" => ~Passes(proposals[p].votes)
    BY <1>2 DEF VetoProposal, FinalizeProposal
  <2> DEFINE r == [proposals[p] EXCEPT !.status = s]
  <2>3. r \in Record /\ r.status = s /\ r.votes = proposals[p].votes
    BY <2>1 DEF Record, VoteStatus
  <2>4. Right(Put(p, r))
    BY <2>2, <2>3, PutRight DEF VotesInv
  <2> QED
    BY <2>2, <2>4, PrepareKeeps
<1>3. ASSUME NEW b \in Browser, NEW p \in Proposal, NEW v \in Voter, NEW c \in VoteChoice,
             CastVote(b, p, v, c)
      PROVE  VotesInv'
  <2> DEFINE votes == proposals[p].votes
             cast  == [w \in DOMAIN votes \cup {v} |-> IF w = v THEN c ELSE votes[w]]
             r     == [proposals[p] EXCEPT !.votes = cast]
  <2>1. proposals[p] \in Record /\ proposals[p].status = "active"
    BY <1>3 DEF CastVote, VotesInv, Right
  <2>2. cast \in Votes
    BY <2>1, CastRecord DEF Record
  <2> HIDE DEF cast
  <2>3. r \in Record /\ r.status = "active"
    BY <2>1, <2>2 DEF Record
  <2>4. Right(Put(p, r))
    BY <2>3, PutRight DEF VotesInv
  <2>5. Prepare(b, Put(p, r))
    BY <1>3 DEF CastVote, cast
  <2> QED
    BY <2>4, <2>5, PrepareKeeps
<1>4. ASSUME NEW b \in Browser, SaveProposals(b)
      PROVE  VotesInv'
  BY <1>4 DEF SaveProposals, VotesInv
<1>5. ASSUME NEW p \in Proposal, VotingEnds(p)
      PROVE  VotesInv'
  BY <1>5 DEF VotingEnds, VotesInv
<1> QED
  BY <1>1, <1>2, <1>3, <1>4, <1>5 DEF VotesNext

(* A stored proposal says passed or rejected of the votes it holds, for    *)
(* any weights, quorum and threshold (castVote, finalizeProposal).         *)
THEOREM TallyKept == VotesSpec => []PassedByVotes
<1>1. VotesInit => VotesInv
  BY DEF VotesInit, VotesInv, Right
<1>2. VotesInv /\ [VotesNext]_voteVars => VotesInv'
  <2> SUFFICES ASSUME VotesInv, [VotesNext]_voteVars PROVE VotesInv'
    OBVIOUS
  <2>1. CASE VotesNext
    BY <2>1, VotesStep
  <2>2. CASE UNCHANGED voteVars
    BY <2>2 DEF voteVars, VotesInv
  <2> QED
    BY <2>1, <2>2
<1>3. VotesInv => PassedByVotes
  BY DEF VotesInv, Right, PassedByVotes
<1> QED
  BY <1>1, <1>2, <1>3, PTL DEF VotesSpec

-----------------------------------------------------------------------------
(* A client's signed call                                                  *)

(* What a call has done by each stage.                                     *)
StagesOrdered ==
  \A c \in Call :
    /\ verdict[c] = "none" <=> stage[c] # "done"
    /\ stage[c] \in {"idle", "simulate", "sign", "send"} => c \notin handed
    /\ stage[c] = "poll" => c \in handed
    /\ stage[c] \in {"sign", "send"} \/ c \in handed => CanFit(c)

(* A transaction is applied once, and uses up its sequence number.         *)
AppliedOnce ==
  /\ \A t \in landed \cup failed : t.seq <= sequence[t.signer]
  /\ landed \cap failed = {}

(* What was told is so, and stays so.                                      *)
ToldTrue ==
  \A c \in Call :
    /\ verdict[c] = "value" => c \in handed /\ tx[c] \in landed
    /\ verdict[c] \in Refusal => c \notin handed \/ tx[c] \in failed

CallInv == CallTypeOK /\ StagesOrdered /\ AppliedOnce /\ ToldTrue

LEMMA Numbers ==
  /\ TxTimeout \in Nat /\ CloseLag \in Nat
  /\ PollTimeout \in Nat \ {0} /\ PollInterval \in Nat \ {0} /\ AppPolls \in Nat \ {0}
  /\ PollTimeout >= TxTimeout /\ AppPolls * PollInterval >= TxTimeout
BY TimeAssumption, PatienceAssumption DEF TimeAssumption, PatienceAssumption

LEMMA Requested ==
  ASSUME NEW c \in Call
  PROVE  Request[c].signer \in Account
BY RequestAssumption DEF RequestAssumption

(* A call that is sent is polled at least once.                            *)
LEMMA FirstPoll ==
  ASSUME CallTypeOK, NEW c \in Call
  PROVE  PollsOn(c, now, 0)
BY Numbers DEF PollsOn, CallTypeOK

-----------------------------------------------------------------------------
(* Typing, action by action                                                *)
LEMMA EndTyped ==
  ASSUME CallTypeOK, NEW c \in Call, NEW v \in Verdicts, End(c, v)
  PROVE  /\ stage' \in [Call -> Stages] /\ verdict' \in [Call -> Verdicts]
         /\ gaveUp' \in [Call -> Nat]
BY DEF End, CallTypeOK, Stages

LEMMA TakeTyped ==
  ASSUME CallTypeOK, NEW c \in Call, Take(c)
  PROVE  /\ pool' \subseteq Transaction /\ UNCHANGED <<now, sequence, landed, failed>>
BY DEF Take, CallTypeOK

LEMMA PollTyped ==
  ASSUME CallTypeOK, NEW c \in Call, NEW start, NEW n, PollOrGiveUp(c, start, n)
  PROVE  /\ stage' \in [Call -> Stages] /\ verdict' \in [Call -> Verdicts]
         /\ gaveUp' \in [Call -> Nat] /\ slept' \in [Call -> Nat]
<1>1. "TimeoutError" \in Verdicts
  BY DEF Verdicts, Doubt
<1>2. CASE PollsOn(c, start, n)
  BY <1>2 DEF PollOrGiveUp, CallTypeOK, Stages
<1>3. CASE ~PollsOn(c, start, n)
  BY <1>1, <1>3, EndTyped DEF PollOrGiveUp, CallTypeOK
<1> QED
  BY <1>2, <1>3

LEMMA PrepareTyped ==
  ASSUME CallTypeOK, NEW c \in Call,
         Build(c) \/ Simulate(c) \/ Sign(c) \/ SendRefused(c)
  PROVE  CallTypeOK'
<1>1. {"BuildError", "ContractError", "SigningError", "TransactionError"} \subseteq Verdicts
  BY DEF Verdicts, Refusal
<1>2. /\ UNCHANGED <<since, slept, polls, handed, ledgerVars>>
      /\ UNCHANGED tx \/ tx' = [tx EXCEPT ![c] = [@ EXCEPT
           !.seq = sequence[Request[c].signer] + 1, !.maxTime = now + TxTimeout]]
  BY DEF Build, Simulate, Sign, SendRefused
<1>3. tx' \in [Call -> Transaction]
  <2>1. /\ sequence[Request[c].signer] + 1 \in Nat /\ now + TxTimeout \in Nat
    BY Requested, Numbers DEF CallTypeOK
  <2>2. [tx[c] EXCEPT !.seq = sequence[Request[c].signer] + 1, !.maxTime = now + TxTimeout]
          \in Transaction
    BY <2>1 DEF CallTypeOK, Transaction
  <2> QED
    BY <1>2, <2>2 DEF CallTypeOK
<1>4. /\ stage' \in [Call -> Stages] /\ verdict' \in [Call -> Verdicts] /\ gaveUp' \in [Call -> Nat]
  <2>1. CASE \E v \in Verdicts : End(c, v)
    BY <2>1, EndTyped
  <2>2. CASE ~\E v \in Verdicts : End(c, v)
    BY <1>1, <2>2 DEF Build, Simulate, Sign, SendRefused, CallTypeOK, Stages
  <2> QED
    BY <2>1, <2>2
<1> QED
  BY <1>2, <1>3, <1>4 DEF CallTypeOK, ledgerVars

LEMMA SendTyped ==
  ASSUME CallTypeOK, NEW c \in Call, Send(c) \/ SendLost(c) \/ Poll(c)
  PROVE  CallTypeOK'
<1>1. {"value", "TransactionError", "NetworkError"} \subseteq Verdicts
  BY DEF Verdicts, Refusal, Doubt
<1>2. CASE Send(c)
  BY <1>2, PollTyped, TakeTyped DEF Send, CallTypeOK, ledgerVars
<1>3. CASE SendLost(c)
  BY <1>1, <1>3, EndTyped, TakeTyped DEF SendLost, CallTypeOK, ledgerVars
<1>4. CASE Poll(c)
  <2>1. polls' \in [Call -> Nat] /\ slept' \in [Call -> Nat]
    BY <1>4, PollTyped DEF Poll, CallTypeOK
  <2>2. /\ stage' \in [Call -> Stages] /\ verdict' \in [Call -> Verdicts] /\ gaveUp' \in [Call -> Nat]
    BY <1>1, <1>4, PollTyped, EndTyped DEF Poll
  <2> QED
    BY <1>4, <2>1, <2>2 DEF Poll, CallTypeOK, ledgerVars
<1> QED
  BY <1>2, <1>3, <1>4

LEMMA LedgerTyped ==
  ASSUME CallTypeOK,
         Tick \/ \E t \in pool : CloseLedger(t) \/ Drop(t)
  PROVE  CallTypeOK'
<1>1. CASE Tick
  BY <1>1 DEF Tick, CallTypeOK, clientVars
<1>2. ASSUME NEW t \in pool, CloseLedger(t)
      PROVE  CallTypeOK'
  <2>1. t \in Transaction /\ t.signer \in Account
    BY DEF CallTypeOK, Transaction
  <2>2. sequence' \in [Account -> Nat]
    BY <1>2, <2>1 DEF CloseLedger, CallTypeOK
  <2> QED
    BY <1>2, <2>1, <2>2 DEF CloseLedger, CallTypeOK, clientVars
<1>3. ASSUME NEW t \in pool, Drop(t)
      PROVE  CallTypeOK'
  BY <1>3 DEF Drop, CallTypeOK, clientVars
<1> QED
  BY <1>1, <1>2, <1>3

-----------------------------------------------------------------------------
(* The invariant, action by action                                         *)

(* A call ends before it was handed over, with a refusal.                  *)
LEMMA RefusedKeeps ==
  ASSUME CallInv, NEW c \in Call, NEW v \in Refusal, End(c, v), c \notin handed,
         UNCHANGED <<tx, handed, ledgerVars>>
  PROVE  StagesOrdered' /\ AppliedOnce' /\ ToldTrue'
BY DEF CallInv, CallTypeOK, End, StagesOrdered, AppliedOnce, ToldTrue, ledgerVars, Refusal

LEMMA PreparedKeeps ==
  ASSUME CallInv, NEW c \in Call,
         Build(c) \/ Simulate(c) \/ Sign(c) \/ SendRefused(c)
  PROVE  CallInv'
<1>1. CallTypeOK'
  BY PrepareTyped DEF CallInv
<1>2. c \notin handed /\ stage[c] \in {"idle", "simulate", "sign", "send"}
  BY DEF Build, Simulate, Sign, SendRefused, CallInv, StagesOrdered
<1>3. CASE \E v \in Refusal : End(c, v)
  <2>1. UNCHANGED <<tx, handed, ledgerVars>>
    BY <1>3 DEF Build, Simulate, Sign, SendRefused, End, CallInv, CallTypeOK
  <2> QED
    BY <1>1, <1>2, <1>3, <2>1, RefusedKeeps DEF CallInv
<1>4. CASE ~\E v \in Refusal : End(c, v)
  <2>1. PICK to \in {"simulate", "sign", "send"} :
          /\ stage' = [stage EXCEPT ![c] = to]
          /\ to = "sign" => CanFit(c)
          /\ to = "send" => stage[c] = "sign"
          /\ UNCHANGED <<verdict, gaveUp>>
    BY <1>4 DEF Build, Simulate, Sign, SendRefused, Refusal
  <2>2. /\ UNCHANGED <<handed, sequence, landed, failed>>
        /\ \A d \in Call \ {c} : tx'[d] = tx[d]
    BY DEF Build, Simulate, Sign, SendRefused, ledgerVars, CallInv, CallTypeOK
  <2>3. StagesOrdered'
    BY <1>2, <2>1, <2>2 DEF CallInv, CallTypeOK, StagesOrdered
  <2>4. AppliedOnce' /\ ToldTrue'
    BY <1>2, <2>1, <2>2 DEF CallInv, StagesOrdered, AppliedOnce, ToldTrue, Refusal
  <2> QED
    BY <1>1, <2>3, <2>4 DEF CallInv
<1> QED
  BY <1>3, <1>4

LEMMA SendKeeps ==
  ASSUME CallInv, NEW c \in Call, Send(c) \/ SendLost(c)
  PROVE  CallInv'
<1>1. CallTypeOK'
  BY SendTyped DEF CallInv
<1>2. stage[c] = "send" /\ c \notin handed /\ CanFit(c) /\ verdict[c] = "none"
  BY DEF Send, SendLost, CallInv, StagesOrdered
<1>3. UNCHANGED <<tx, sequence, landed, failed>>
  BY DEF Send, SendLost, Take, ledgerVars
<1>4. AppliedOnce'
  BY <1>3 DEF CallInv, AppliedOnce
<1>5. CASE Send(c)
  <2>1. PollsOn(c, now, 0)
    BY FirstPoll DEF CallInv
  <2>2. /\ stage' = [stage EXCEPT ![c] = "poll"] /\ UNCHANGED verdict
        /\ handed' = handed \cup {c}
    BY <1>5, <2>1 DEF Send, PollOrGiveUp
  <2>3. StagesOrdered' /\ ToldTrue'
    BY <1>2, <1>3, <2>2 DEF CallInv, CallTypeOK, StagesOrdered, ToldTrue, Refusal
  <2> QED
    BY <1>1, <1>4, <2>3 DEF CallInv
<1>6. CASE SendLost(c)
  <2>1. /\ stage' = [stage EXCEPT ![c] = "done"] /\ verdict' = [verdict EXCEPT ![c] = "NetworkError"]
        /\ handed' \in {handed, handed \cup {c}}
    BY <1>6 DEF SendLost, End
  <2>2. StagesOrdered' /\ ToldTrue'
    BY <1>2, <1>3, <2>1 DEF CallInv, CallTypeOK, StagesOrdered, ToldTrue, Refusal
  <2> QED
    BY <1>1, <1>4, <2>2 DEF CallInv
<1> QED
  BY <1>5, <1>6

(* A poll ends the call with what it found, or leaves it polling.          *)
LEMMA PollOutcome ==
  ASSUME CallInv, NEW c \in Call, Poll(c)
  PROVE  /\ stage[c] = "poll" /\ c \in handed /\ CanFit(c) /\ verdict[c] = "none"
         /\ UNCHANGED <<tx, since, handed, ledgerVars>>
         /\ \/ \E v \in {"value", "TransactionError"} \cup Doubt :
                 /\ End(c, v)
                 /\ v = "value" => tx[c] \in landed
                 /\ v = "TransactionError" => tx[c] \in failed
            \/ UNCHANGED <<stage, verdict, gaveUp>>
<1>1. stage[c] = "poll" /\ c \in handed /\ CanFit(c) /\ verdict[c] = "none"
  BY DEF Poll, CallInv, StagesOrdered
<1>2. UNCHANGED <<tx, since, handed, ledgerVars>>
  BY DEF Poll
<1>3. CASE PollOrGiveUp(c, since[c], polls[c] + 1)
  <2>1. CASE PollsOn(c, since[c], polls[c] + 1)
    <3>1. stage' = [stage EXCEPT ![c] = "poll"] /\ UNCHANGED <<verdict, gaveUp>>
      BY <1>3, <2>1 DEF PollOrGiveUp
    <3>2. stage' = stage
      BY <1>1, <3>1 DEF CallInv, CallTypeOK
    <3> QED
      BY <1>1, <1>2, <3>1, <3>2
  <2>2. CASE ~PollsOn(c, since[c], polls[c] + 1)
    BY <1>1, <1>2, <1>3, <2>2 DEF PollOrGiveUp, Doubt
  <2> QED
    BY <2>1, <2>2
<1>4. CASE ~PollOrGiveUp(c, since[c], polls[c] + 1)
  BY <1>1, <1>2, <1>4 DEF Poll, Doubt
<1> QED
  BY <1>3, <1>4

LEMMA PollKeeps ==
  ASSUME CallInv, NEW c \in Call, Poll(c)
  PROVE  CallInv'
<1>1. CallTypeOK'
  BY SendTyped DEF CallInv
<1>2. AppliedOnce' /\ UNCHANGED <<landed, failed>>
  BY PollOutcome DEF CallInv, AppliedOnce, ledgerVars
<1>3. StagesOrdered' /\ ToldTrue'
  BY <1>2, PollOutcome
  DEF End, CallInv, CallTypeOK, StagesOrdered, ToldTrue, Refusal, Doubt
<1> QED
  BY <1>1, <1>2, <1>3 DEF CallInv

LEMMA LedgerKeeps ==
  ASSUME CallInv, Tick \/ \E t \in pool : CloseLedger(t) \/ Drop(t)
  PROVE  CallInv'
<1>1. CallTypeOK'
  BY LedgerTyped DEF CallInv
<1>2. UNCHANGED clientVars
  BY DEF Tick, CloseLedger, Drop
<1>3. StagesOrdered'
  BY <1>2 DEF CallInv, StagesOrdered, clientVars
<1>4. AppliedOnce' /\ landed \subseteq landed' /\ failed \subseteq failed'
  <2>1. CASE UNCHANGED <<sequence, landed, failed>>
    BY <2>1 DEF CallInv, AppliedOnce
  <2>2. ASSUME NEW t \in pool, CloseLedger(t)
        PROVE  AppliedOnce' /\ landed \subseteq landed' /\ failed \subseteq failed'
    <3>1. t \in Transaction /\ t.signer \in Account /\ t.seq \in Nat
      BY DEF CallInv, CallTypeOK, Transaction
    <3>2. /\ t.seq = sequence[t.signer] + 1 /\ t \notin landed \cup failed
          /\ sequence' = [sequence EXCEPT ![t.signer] = @ + 1]
          /\ \/ landed' = landed \cup {t} /\ UNCHANGED failed
             \/ failed' = failed \cup {t} /\ UNCHANGED landed
      BY <2>2, <3>1 DEF CloseLedger, CallInv, CallTypeOK, AppliedOnce
    <3>3. \A u \in Transaction : u.seq \in Nat /\ u.signer \in Account
      BY DEF Transaction
    <3>4. \A u \in landed' \cup failed' : u.seq <= sequence'[u.signer]
      BY <3>1, <3>2, <3>3 DEF CallInv, CallTypeOK, AppliedOnce
    <3> QED
      BY <3>2, <3>4 DEF CallInv, AppliedOnce
  <2> QED
    BY <2>1, <2>2 DEF Tick, Drop
<1>5. ToldTrue'
  BY <1>2, <1>4 DEF CallInv, ToldTrue, clientVars
<1> QED
  BY <1>1, <1>3, <1>4, <1>5 DEF CallInv

LEMMA CallStart == CallInit => CallInv
<1> SUFFICES ASSUME CallInit PROVE CallInv
  OBVIOUS
<1>1. CallTypeOK
  BY Requested
  DEF CallInit, CallTypeOK, Transaction, Stages, Verdicts
<1> QED
  BY <1>1 DEF CallInit, CallInv, StagesOrdered, AppliedOnce, ToldTrue, Refusal

LEMMA CallStep ==
  ASSUME CallInv, [CallNext]_callVars
  PROVE  CallInv'
<1>1. CASE CallNext
  BY <1>1, PreparedKeeps, SendKeeps, PollKeeps, LedgerKeeps DEF CallNext
<1>2. CASE UNCHANGED callVars
  BY <1>2 DEF callVars, clientVars, ledgerVars, CallInv, CallTypeOK, StagesOrdered,
              AppliedOnce, ToldTrue
<1> QED
  BY <1>1, <1>2

(* The invariant of the call and the ledger holds in every reachable state. *)
THEOREM CallCorrect == CallSpec => []CallInv
BY CallStart, CallStep, PTL DEF CallSpec

-----------------------------------------------------------------------------
(* The promise, step by step: what a step does to effect and answer        *)
Effects == [c \in Call |-> EffectOf(c)]
Answers == [c \in Call |-> AnswerOf(c)]

(* What was told, in the words of the promise                              *)
LEMMA AnswerWords ==
  ASSUME CallTypeOK, NEW c \in Call
  PROVE  /\ AnswerOf(c) \in {"none", "value", "error", "unknown"}
         /\ AnswerOf(c) = "none" <=> verdict[c] = "none"
         /\ AnswerOf(c) = "value" <=> verdict[c] = "value"
         /\ AnswerOf(c) = "error" <=> verdict[c] \in Refusal
BY DEF AnswerOf, CallTypeOK, Verdicts, Refusal, Doubt

(* An end that is told once and is true is an answer of the promise.       *)
LEMMA EndAnswers ==
  ASSUME CallInv, CallInv', NEW c \in Call, NEW v \in Verdicts \ {"none"}, End(c, v),
         stage[c] # "done", v \in Doubt => CanFit(c),
         Effects' = Effects
  PROVE  Abstract!Answer
<1>1. /\ verdict[c] = "none" /\ verdict' = [verdict EXCEPT ![c] = v]
  BY DEF End, CallInv, StagesOrdered
<1>2. /\ verdict'[c] = v /\ \A d \in Call \ {c} : verdict'[d] = verdict[d]
  BY <1>1 DEF CallInv, CallTypeOK
<1> DEFINE a == AnswerOf(c)'
<1>3. AnswerOf(c) = "none" /\ a \in {"value", "error", "unknown"}
  BY <1>1, <1>2 DEF AnswerOf, CallInv, CallTypeOK, Verdicts, Refusal, Doubt
<1>4. EffectOf(c)' = EffectOf(c)
  <2>1. Effects[c] = EffectOf(c) /\ Effects'[c] = EffectOf(c)'
    BY DEF Effects
  <2> QED
    BY <2>1
<1>5. a = "value" => EffectOf(c) = "landed"
  BY <1>2, <1>4 DEF AnswerOf, EffectOf, CallInv, CallTypeOK, ToldTrue, Verdicts, Refusal, Doubt
<1>6. a = "error" => EffectOf(c) # "landed"
  BY <1>2, <1>4 DEF AnswerOf, EffectOf, CallInv, CallTypeOK, ToldTrue, AppliedOnce,
                    Verdicts, Refusal, Doubt
<1>7. a = "unknown" => c \in {d \in Call : CanFit(d)}
  BY <1>2 DEF AnswerOf, Verdicts, Refusal, Doubt
<1>8. Answers' = [Answers EXCEPT ![c] = a]
  <2>1. \A d \in Call \ {c} : AnswerOf(d)' = AnswerOf(d)
    BY <1>2 DEF AnswerOf
  <2> QED
    BY <2>1 DEF Answers
<1>9. Answers[c] = AnswerOf(c) /\ Effects[c] = EffectOf(c)
  BY DEF Answers, Effects
<1> HIDE DEF a
<1> QED
  BY <1>3, <1>5, <1>6, <1>7, <1>8, <1>9 DEF Abstract!Answer, Answers, Effects

(* The ledger applies a transaction only for calls nobody was told about.  *)
LEMMA SettledUntold ==
  ASSUME CallInv, NEW S \in SUBSET Call, NEW e \in {"landed", "void"},
         \A c \in S : CanFit(c) /\ verdict[c] \in {"none"} \cup Doubt /\ EffectOf(c) = "none",
         \A c \in Call : EffectOf(c)' = IF c \in S THEN e ELSE EffectOf(c),
         UNCHANGED verdict
  PROVE  Abstract!Settle
<1>1. \A c \in S : Answers[c] \in {"none", "unknown"} /\ Effects[c] = "none"
  BY DEF Answers, Effects, AnswerOf, Refusal, Doubt
<1>2. Answers' = Answers
  BY DEF Answers, AnswerOf
<1>3. Effects' = [c \in Call |-> IF c \in S THEN e ELSE Effects[c]]
  BY DEF Effects
<1>4. S \in SUBSET {c \in {d \in Call : CanFit(d)} : Answers[c] \in {"none", "unknown"} /\ Effects[c] = "none"}
  BY <1>1
<1> QED
  BY <1>2, <1>3, <1>4 DEF Abstract!Settle, Abstract!Undecided, Answers, Effects

LEMMA PreparePromised ==
  ASSUME CallInv, CallInv', NEW c \in Call,
         Build(c) \/ Simulate(c) \/ Sign(c) \/ SendRefused(c)
  PROVE  Abstract!Answer \/ (Effects' = Effects /\ Answers' = Answers)
<1>1. /\ stage[c] # "done" /\ c \notin handed /\ UNCHANGED <<handed, landed, failed>>
      /\ \A d \in Call \ {c} : tx'[d] = tx[d]
  BY DEF Build, Simulate, Sign, SendRefused, ledgerVars, CallInv, CallTypeOK, StagesOrdered
<1>2. Effects' = Effects
  <2>1. \A d \in Call : EffectOf(d)' = EffectOf(d)
    BY <1>1 DEF EffectOf
  <2> QED
    BY <2>1 DEF Effects
<1>3. CASE \E v \in Refusal : End(c, v)
  <2>1. PICK v \in Refusal : End(c, v)
    BY <1>3
  <2>2. v \in Verdicts \ {"none"} /\ v \notin Doubt
    BY DEF Verdicts, Refusal, Doubt
  <2> QED
    BY <1>1, <1>2, <2>1, <2>2, EndAnswers
<1>4. CASE ~\E v \in Refusal : End(c, v)
  <2>1. UNCHANGED verdict
    BY <1>4 DEF Build, Simulate, Sign, SendRefused, Refusal
  <2> QED
    BY <1>2, <2>1 DEF Answers, AnswerOf
<1> QED
  BY <1>3, <1>4

(* Handing a transaction over may settle the call at once: another call    *)
(* built the same transaction, and it was applied already.                 *)
LEMMA SendPromised ==
  ASSUME CallInv, CallInv', NEW c \in Call, Send(c)
  PROVE  Abstract!Settle \/ (Effects' = Effects /\ Answers' = Answers)
<1>1. /\ c \notin handed /\ CanFit(c) /\ verdict[c] = "none"
      /\ handed' = handed \cup {c} /\ UNCHANGED <<tx, landed, failed>>
  BY DEF Send, Take, ledgerVars, CallInv, StagesOrdered
<1>2. UNCHANGED verdict
  BY FirstPoll DEF Send, PollOrGiveUp, CallInv
<1>3. \A d \in Call \ {c} : EffectOf(d)' = EffectOf(d)
  BY <1>1 DEF EffectOf
<1>4. EffectOf(c) = "none" /\ EffectOf(c)' \in {"none", "landed", "void"}
  BY <1>1 DEF EffectOf
<1>5. CASE EffectOf(c)' = "none"
  BY <1>2, <1>3, <1>4, <1>5 DEF Effects, Answers, AnswerOf
<1>6. CASE EffectOf(c)' \in {"landed", "void"}
  <2>1. \A d \in Call : EffectOf(d)' = IF d \in {c} THEN EffectOf(c)' ELSE EffectOf(d)
    BY <1>3
  <2>2. \A d \in {c} : CanFit(d) /\ verdict[d] \in {"none"} \cup Doubt /\ EffectOf(d) = "none"
    BY <1>1, <1>4
  <2> QED
    BY <1>2, <1>6, <2>1, <2>2, SettledUntold
<1> QED
  BY <1>4, <1>5, <1>6

(* A lost submission hands over a transaction that was not applied yet.    *)
LEMMA SendLostPromised ==
  ASSUME CallInv, CallInv', NEW c \in Call, SendLost(c)
  PROVE  Abstract!Answer
<1>1. /\ stage[c] = "send" /\ c \notin handed /\ CanFit(c) /\ End(c, "NetworkError")
      /\ UNCHANGED <<tx, landed, failed>>
      /\ \/ UNCHANGED handed
         \/ handed' = handed \cup {c} /\ tx[c].seq = sequence[tx[c].signer] + 1
  BY DEF SendLost, Take, ledgerVars, CallInv, StagesOrdered
<1>2. tx[c].seq = sequence[tx[c].signer] + 1 => tx[c] \notin landed \cup failed
  <2>1. tx[c].signer \in Account /\ tx[c].seq \in Nat
    BY DEF CallInv, CallTypeOK, Transaction
  <2>2. sequence[tx[c].signer] \in Nat
    BY <2>1 DEF CallInv, CallTypeOK
  <2> QED
    BY <2>1, <2>2 DEF CallInv, AppliedOnce
<1>3. \A d \in Call : EffectOf(d)' = EffectOf(d)
  BY <1>1, <1>2 DEF EffectOf
<1>4. Effects' = Effects
  BY <1>3 DEF Effects
<1>5. "NetworkError" \in Verdicts \ {"none"}
  BY DEF Verdicts, Doubt
<1> QED
  BY <1>1, <1>4, <1>5, EndAnswers

LEMMA PollPromised ==
  ASSUME CallInv, CallInv', NEW c \in Call, Poll(c)
  PROVE  Abstract!Answer \/ (Effects' = Effects /\ Answers' = Answers)
<1>1. Effects' = Effects /\ stage[c] # "done" /\ CanFit(c)
  BY PollOutcome DEF Effects, EffectOf, ledgerVars
<1>2. CASE \E v \in {"value", "TransactionError"} \cup Doubt : End(c, v)
  <2>1. PICK v \in {"value", "TransactionError"} \cup Doubt : End(c, v)
    BY <1>2
  <2>2. v \in Verdicts \ {"none"}
    BY DEF Verdicts, Refusal, Doubt
  <2> QED
    BY <1>1, <2>1, <2>2, EndAnswers
<1>3. CASE UNCHANGED verdict
  BY <1>1, <1>3 DEF Answers, AnswerOf
<1> QED
  BY <1>2, <1>3, PollOutcome

LEMMA LedgerPromised ==
  ASSUME CallInv, Tick \/ \E t \in pool : CloseLedger(t) \/ Drop(t)
  PROVE  Abstract!Settle \/ (Effects' = Effects /\ Answers' = Answers)
<1>1. UNCHANGED <<tx, verdict, handed>>
  BY DEF Tick, CloseLedger, Drop, clientVars
<1>2. CASE UNCHANGED <<landed, failed>>
  BY <1>1, <1>2 DEF Effects, Answers, EffectOf, AnswerOf
<1>3. ASSUME NEW t \in pool, CloseLedger(t)
      PROVE  Abstract!Settle
  <2> DEFINE S == {c \in handed : tx[c] = t}
  <2>1. t \in Transaction /\ t.signer \in Account /\ t.seq \in Nat
    BY DEF CallInv, CallTypeOK, Transaction
  <2>2. t \notin landed \cup failed
    BY <1>3, <2>1 DEF CloseLedger, CallInv, CallTypeOK, AppliedOnce
  <2>3. \A c \in S : CanFit(c) /\ verdict[c] \in {"none"} \cup Doubt /\ EffectOf(c) = "none"
    <3> SUFFICES ASSUME NEW c \in S
                 PROVE  CanFit(c) /\ verdict[c] \in {"none"} \cup Doubt /\ EffectOf(c) = "none"
      OBVIOUS
    <3>1. c \in Call /\ CanFit(c)
      BY DEF CallInv, CallTypeOK, StagesOrdered
    <3>2. verdict[c] # "value" /\ verdict[c] \notin Refusal
      BY <2>2, <3>1 DEF CallInv, ToldTrue
    <3>3. EffectOf(c) = "none"
      BY <2>2 DEF EffectOf
    <3> QED
      BY <3>1, <3>2, <3>3 DEF CallInv, CallTypeOK, Verdicts
  <2>4. PICK e \in {"landed", "void"} :
          /\ landed' = IF e = "landed" THEN landed \cup {t} ELSE landed
          /\ failed' = IF e = "void" THEN failed \cup {t} ELSE failed
    BY <1>3 DEF CloseLedger
  <2>5. \A c \in Call : EffectOf(c)' = IF c \in S THEN e ELSE EffectOf(c)
    BY <1>1, <2>2, <2>4 DEF EffectOf
  <2>6. S \in SUBSET Call
    BY DEF CallInv, CallTypeOK
  <2> HIDE DEF S
  <2> QED
    BY <1>1, <2>3, <2>5, <2>6, SettledUntold
<1> QED
  BY <1>2, <1>3 DEF Tick, Drop

(* A value means the call took effect, an error that it never will, and a  *)
(* call that does not fit ends in an error: invoke of both clients         *)
(* implements the promise.                                                 *)
THEOREM PromiseKept == CallSpec => CallKeepsPromise
<1>1. CallInit => Abstract!PromiseInit
  BY DEF CallInit, Abstract!PromiseInit, EffectOf, AnswerOf, Refusal, Doubt
<1>2. CallInv /\ [CallNext]_callVars => [Abstract!PromiseNext]_<<Effects, Answers>>
  <2> SUFFICES ASSUME CallInv, [CallNext]_callVars
               PROVE  Abstract!Settle \/ Abstract!Answer \/ (Effects' = Effects /\ Answers' = Answers)
    BY DEF Abstract!PromiseNext
  <2>1. CallInv'
    BY CallStep
  <2>2. CASE CallNext
    BY <2>1, <2>2, PreparePromised, SendPromised, SendLostPromised, PollPromised, LedgerPromised
    DEF CallNext
  <2>3. CASE UNCHANGED callVars
    BY <2>3 DEF callVars, clientVars, ledgerVars, Effects, Answers, EffectOf, AnswerOf
  <2> QED
    BY <2>2, <2>3
<1>3. CallInv /\ [CallNext]_callVars => [Abstract!PromiseNext]_<<[c \in Call |-> EffectOf(c)], [c \in Call |-> AnswerOf(c)]>>
  BY <1>2 DEF Effects, Answers
<1> QED
  BY <1>1, <1>3, CallCorrect, PTL DEF CallSpec, CallKeepsPromise, Abstract!Promise

-----------------------------------------------------------------------------
(* Timeouts                                                                *)

(* A transaction is valid no longer than TxTimeout from when it was        *)
(* submitted; the polls are spaced; whoever timed out had waited as long   *)
(* as it was valid.                                                        *)
PatientInv ==
  \A c \in Call :
    /\ tx[c].maxTime <= now + TxTimeout
    /\ stage[c] = "poll" =>
         /\ tx[c].maxTime <= since[c] + TxTimeout
         /\ slept[c] >= since[c] + polls[c] * PollInterval
    /\ verdict[c] = "TimeoutError" => tx[c].maxTime <= gaveUp[c]
    /\ stage[c] \notin {"poll", "done"} => polls[c] = 0

LEMMA Multiples ==
  ASSUME NEW p \in Nat, NEW q \in Nat, NEW i \in Nat
  PROVE  /\ p * i \in Nat /\ (p + 1) * i = p * i + i
         /\ p >= q => p * i >= q * i
<1>1. p * i \in Nat /\ (p + 1) * i = p * i + i
  OBVIOUS
<1>2. ASSUME p >= q PROVE p * i >= q * i
  <2>1. PICK d \in Nat : p = q + d
    BY <1>2
  <2>2. p * i = q * i + d * i /\ d * i \in Nat /\ q * i \in Nat
    BY <2>1
  <2> QED
    BY <2>2
<1> QED
  BY <1>1, <1>2

(* Whoever gives up at a poll has waited that long.                        *)
LEMMA GivesUpLate ==
  ASSUME CallInv, PatientInv, NEW c \in Call, stage[c] = "poll",
         now >= slept[c] + PollInterval, ~PollsOn(c, since[c], polls[c] + 1)
  PROVE  tx[c].maxTime <= now
<1>1. /\ since[c] \in Nat /\ slept[c] \in Nat /\ polls[c] \in Nat /\ now \in Nat
      /\ tx[c].maxTime \in Nat
  BY DEF CallInv, CallTypeOK, Transaction
<1>2. /\ tx[c].maxTime <= since[c] + TxTimeout
      /\ slept[c] >= since[c] + polls[c] * PollInterval
  BY DEF PatientInv
<1>3. CASE Request[c].client = "sdk"
  BY <1>1, <1>2, <1>3, Numbers DEF PollsOn
<1>4. CASE Request[c].client # "sdk"
  <2>1. polls[c] + 1 >= AppPolls
    BY <1>1, <1>4, Numbers DEF PollsOn
  <2>2. /\ polls[c] * PollInterval \in Nat
        /\ (polls[c] + 1) * PollInterval = polls[c] * PollInterval + PollInterval
        /\ (polls[c] + 1) * PollInterval >= AppPolls * PollInterval
    BY <1>1, <2>1, Numbers, Multiples
  <2>3. AppPolls * PollInterval \in Nat /\ AppPolls * PollInterval >= TxTimeout
    BY Numbers
  <2> DEFINE waited == polls[c] * PollInterval
             enough == AppPolls * PollInterval
  <2>4. /\ waited \in Nat /\ enough \in Nat /\ enough >= TxTimeout
        /\ waited + PollInterval >= enough /\ slept[c] >= since[c] + waited
    BY <1>2, <2>2, <2>3
  <2> HIDE DEF waited, enough
  <2> QED
    BY <1>1, <1>2, <2>4, Numbers
<1> QED
  BY <1>3, <1>4

LEMMA PatientPoll ==
  ASSUME CallInv, CallInv', PatientInv, NEW c \in Call, Poll(c)
  PROVE  PatientInv'
<1>1. /\ stage[c] = "poll" /\ now >= slept[c] + PollInterval
      /\ UNCHANGED <<tx, since, now>>
  BY DEF Poll, ledgerVars
<1>2. /\ \A d \in Call \ {c} : /\ stage'[d] = stage[d] /\ verdict'[d] = verdict[d]
                               /\ gaveUp'[d] = gaveUp[d] /\ slept'[d] = slept[d]
                               /\ polls'[d] = polls[d]
      /\ stage'[c] \in {"poll", "done"}
  BY DEF Poll, PollOrGiveUp, End, CallInv, CallTypeOK
<1>3. tx[c].maxTime <= now + TxTimeout /\ tx[c].maxTime <= since[c] + TxTimeout
  BY <1>1 DEF PatientInv
<1>4. stage'[c] = "poll" => slept'[c] >= since[c] + polls'[c] * PollInterval
  <2> SUFFICES ASSUME stage'[c] = "poll"
               PROVE  slept'[c] >= since[c] + polls'[c] * PollInterval
    OBVIOUS
  <2>1. slept'[c] = now /\ polls'[c] \in {polls[c], polls[c] + 1}
    BY <1>1 DEF Poll, PollOrGiveUp, End, CallInv, CallTypeOK
  <2>2. /\ since[c] \in Nat /\ slept[c] \in Nat /\ polls[c] \in Nat /\ now \in Nat
    BY DEF CallInv, CallTypeOK
  <2>3. slept[c] >= since[c] + polls[c] * PollInterval
    BY <1>1 DEF PatientInv
  <2>4. /\ polls[c] * PollInterval \in Nat
        /\ (polls[c] + 1) * PollInterval = polls[c] * PollInterval + PollInterval
    BY <2>2, Numbers, Multiples
  <2> DEFINE waited == polls[c] * PollInterval
  <2>5. polls'[c] * PollInterval \in {waited, waited + PollInterval}
    BY <2>1, <2>4
  <2>6. waited \in Nat /\ slept[c] >= since[c] + waited
    BY <2>3, <2>4
  <2> HIDE DEF waited
  <2> DEFINE then == polls'[c] * PollInterval
  <2>7. then \in {waited, waited + PollInterval}
    BY <2>5
  <2> HIDE DEF then
  <2>8. slept'[c] >= since[c] + then
    BY <1>1, <2>1, <2>2, <2>6, <2>7, Numbers
  <2> QED
    BY <2>8 DEF then
<1>5. verdict'[c] = "TimeoutError" => tx[c].maxTime <= gaveUp'[c]
  <2> SUFFICES ASSUME verdict'[c] = "TimeoutError" PROVE tx[c].maxTime <= gaveUp'[c]
    OBVIOUS
  <2>1. verdict[c] = "none"
    BY <1>1 DEF CallInv, StagesOrdered
  <2>2. ~PollsOn(c, since[c], polls[c] + 1) /\ gaveUp'[c] = now
    BY <2>1 DEF Poll, PollOrGiveUp, End, CallInv, CallTypeOK
  <2> QED
    BY <1>1, <2>2, GivesUpLate
<1> QED
  BY <1>1, <1>2, <1>3, <1>4, <1>5 DEF PatientInv

LEMMA PatientPrepare ==
  ASSUME CallInv, PatientInv, NEW c \in Call,
         Build(c) \/ Simulate(c) \/ Sign(c) \/ SendRefused(c)
  PROVE  PatientInv'
<1>1. /\ UNCHANGED <<since, slept, polls, now>>
      /\ stage[c] \notin {"poll", "done"} /\ stage'[c] # "poll" /\ verdict'[c] # "TimeoutError"
      /\ \A d \in Call \ {c} : /\ stage'[d] = stage[d] /\ verdict'[d] = verdict[d]
                               /\ gaveUp'[d] = gaveUp[d] /\ tx'[d] = tx[d]
  BY DEF Build, Simulate, Sign, SendRefused, End, ledgerVars, CallInv, CallTypeOK, StagesOrdered
<1>2. tx'[c].maxTime <= now + TxTimeout
  <2>1. CASE UNCHANGED tx
    BY <2>1 DEF PatientInv
  <2>2. CASE Build(c) /\ tx' # tx
    <3>1. tx'[c].maxTime = now + TxTimeout
      BY <2>2 DEF Build, CallInv, CallTypeOK, Transaction
    <3> QED
      BY <3>1, Numbers DEF CallInv, CallTypeOK
  <2> QED
    BY <2>1, <2>2 DEF Simulate, Sign, SendRefused
<1> QED
  BY <1>1, <1>2 DEF PatientInv

LEMMA PatientSend ==
  ASSUME CallInv, PatientInv, NEW c \in Call, Send(c) \/ SendLost(c)
  PROVE  PatientInv'
<1>1. stage[c] = "send" /\ polls[c] = 0 /\ UNCHANGED <<tx, polls, now>>
  BY DEF Send, SendLost, Take, ledgerVars, PatientInv
<1>2. CASE Send(c)
  <2>1. /\ stage' = [stage EXCEPT ![c] = "poll"] /\ slept' = [slept EXCEPT ![c] = now]
        /\ since' = [since EXCEPT ![c] = now] /\ UNCHANGED <<verdict, gaveUp>>
    BY <1>2, FirstPoll DEF Send, PollOrGiveUp, CallInv
  <2>2. now >= now + polls[c] * PollInterval
    BY <1>1, Numbers DEF CallInv, CallTypeOK
  <2> QED
    BY <1>1, <2>1, <2>2 DEF PatientInv, CallInv, CallTypeOK
<1>3. CASE SendLost(c)
  BY <1>1, <1>3 DEF SendLost, End, PatientInv, CallInv, CallTypeOK
<1> QED
  BY <1>2, <1>3

LEMMA PatientLedger ==
  ASSUME CallInv, PatientInv, Tick \/ \E t \in pool : CloseLedger(t) \/ Drop(t)
  PROVE  PatientInv'
<1>1. UNCHANGED clientVars /\ now' >= now
  BY DEF Tick, CloseLedger, Drop, CallInv, CallTypeOK
<1>2. \A c \in Call : tx[c].maxTime \in Nat
  BY DEF CallInv, CallTypeOK, Transaction
<1>3. now \in Nat /\ now' \in Nat
  BY DEF Tick, CloseLedger, Drop, CallInv, CallTypeOK
<1> QED
  BY <1>1, <1>2, <1>3, Numbers DEF PatientInv, clientVars

(* A call that timed out takes effect, if it still does, within the lag of *)
(* the ledger's close times (invoke, setTimeout, the polling loops).       *)
THEOREM TimedOutSettlesSoon == CallSpec => LateLandingBounded
<1> DEFINE Late == \A c \in Call :
             verdict[c] = "TimeoutError" /\ c \in handed /\ tx[c] \in landed' \ landed
               => now <= gaveUp[c] + CloseLag
<1>1. CallInit => PatientInv
  BY Numbers DEF CallInit, PatientInv
<1>2. CallInv /\ PatientInv /\ [CallNext]_callVars => PatientInv'
  <2> SUFFICES ASSUME CallInv, PatientInv, [CallNext]_callVars PROVE PatientInv'
    OBVIOUS
  <2>1. CallInv'
    BY CallStep
  <2>2. CASE CallNext
    BY <2>1, <2>2, PatientPrepare, PatientSend, PatientPoll, PatientLedger DEF CallNext
  <2>3. CASE UNCHANGED callVars
    BY <2>3 DEF callVars, clientVars, ledgerVars, PatientInv
  <2> QED
    BY <2>2, <2>3
<1>3. CallInv /\ PatientInv /\ [CallNext]_callVars => [Late]_callVars
  <2> SUFFICES ASSUME CallInv, PatientInv, CallNext, NEW c \in Call,
                      verdict[c] = "TimeoutError", tx[c] \in landed' \ landed
               PROVE  now <= gaveUp[c] + CloseLag
    OBVIOUS
  <2>1. PICK t \in pool : CloseLedger(t)
    BY DEF CallNext, Build, Simulate, Sign, Send, SendRefused, SendLost, Poll, Take, Drop, Tick,
           ledgerVars
  <2>2. tx[c] = t /\ now <= tx[c].maxTime + CloseLag
    BY <2>1 DEF CloseLedger
  <2>3. tx[c].maxTime <= gaveUp[c]
    BY DEF PatientInv
  <2>4. tx[c].maxTime \in Nat /\ gaveUp[c] \in Nat /\ now \in Nat
    BY DEF CallInv, CallTypeOK, Transaction
  <2> QED
    BY <2>2, <2>3, <2>4, Numbers
<1>4. [][Late]_callVars => LateLandingBounded
  BY PTL DEF LateLandingBounded
<1> QED
  BY <1>1, <1>2, <1>3, <1>4, CallCorrect, PTL DEF CallSpec

-----------------------------------------------------------------------------
(* All the parts together                                                  *)

(* The types of a call, of the queue, the list, the page and the proposals *)
LEMMA CallTypes == CallSpec => []CallTypeOK
<1>1. CallInv => CallTypeOK
  BY DEF CallInv
<1> QED
  BY <1>1, CallCorrect, PTL

LEMMA QueueTypes == QueueSpec => []QueueTypeOK
<1> DEFINE Online == isOnline \in [Tab -> BOOLEAN]
<1>1. QueueInit => Online
  BY DEF QueueInit
<1>2. Online /\ [QueueNext]_queueVars => Online'
  BY DEF QueueNext, Open, Close, Notice, Queue, ClearAllData, PerformSync, FindHandler, Read,
         ReadChange, MarkSyncing, MarkSuccess, MarkFailed, WriteChange, Callback,
         DeleteMutation, StorageFails, NextChange, tabVars, queueVars
<1>3. QueueInv /\ Online => QueueTypeOK
  BY DEF QueueInv, QueueTyped, QueueTypeOK, Holding
<1> QED
  BY <1>1, <1>2, <1>3, QueueCorrect, PTL DEF QueueSpec

LEMMA ListTypes == ListSpec => []ListTypeOK
<1>1. ListInit => ListTypeOK
  <2> SUFFICES ASSUME ListInit PROVE ListTypeOK
    OBVIOUS
  <2>1. DOMAIN wastes = {} /\ wastes = [w \in {} |-> FALSE]
    BY DEF ListInit
  <2>2. wastes \in [DOMAIN wastes -> BOOLEAN]
    BY <2>1
  <2> QED
    BY <2>1, <2>2 DEF ListInit, ListTypeOK
<1>2. ListTypeOK /\ [ListNext]_listVars => ListTypeOK'
  <2> SUFFICES ASSUME ListTypeOK, [ListNext]_listVars PROVE ListTypeOK'
    OBVIOUS
  <2> USE DEF ListTypeOK
  <2>1. ASSUME NEW t \in Task, Reload(t) \/ LoadFails(t)
        PROVE  ListTypeOK'
    BY <2>1 DEF Reload, LoadFails, StartLoad
  <2>2. ASSUME NEW t \in Task, Loaded(t)
        PROVE  ListTypeOK'
    <3>1. PICK ids \in SUBSET Waste : \E seen \in SUBSET (ids \cap confirmed) :
            wastes' = [w \in ids |-> w \in seen]
      BY <2>2 DEF Loaded
    <3>2. DOMAIN wastes' = ids /\ wastes' \in [ids -> BOOLEAN]
      BY <3>1
    <3> QED
      BY <2>2, <3>2 DEF Loaded
  <2>3. ASSUME NEW t \in Task, Start(t)
        PROVE  ListTypeOK'
    <3>1. Asked[t].items \subseteq Waste
      BY AskedAssumption
    <3>2. DOMAIN wastes' = DOMAIN wastes /\ wastes' \in [DOMAIN wastes -> BOOLEAN]
      BY <2>3 DEF Start
    <3> QED
      BY <2>3, <3>1, <3>2 DEF Start
  <2>4. ASSUME NEW t \in Task, CallFor(t)
        PROVE  ListTypeOK'
    BY <2>4 DEF CallFor, StartLoad
  <2>5. ASSUME NEW w \in Waste, ConfirmedElsewhere(w)
        PROVE  ListTypeOK'
    BY <2>5 DEF ConfirmedElsewhere
  <2>6. CASE UNCHANGED listVars
    BY <2>6 DEF listVars
  <2> QED
    BY <2>1, <2>2, <2>3, <2>4, <2>5, <2>6 DEF ListNext
<1> QED
  BY <1>1, <1>2, PTL DEF ListSpec

(* A decision keeps the page's types, for any materials of the list.       *)
LEMMA DecideTypes ==
  ASSUME BoardTypeOK, NEW ids \in SUBSET Row, NEW one \in BOOLEAN, Decide(ids, one), Unpending,
         UNCHANGED <<allMaterials, refetching, finished, verified>>
  PROVE  BoardTypeOK'
<1>1. {[id |-> m, decision |-> "rejected"] : m \in ids} \subseteq [id : Row, decision : Decision]
  BY DEF Decision
<1> QED
  BY <1>1 DEF Decide, BoardTypeOK, Listed, Unpending

LEMMA BoardTypes == BoardSpec => []BoardTypeOK
<1>1. BoardInit => BoardTypeOK
  <2> SUFFICES ASSUME BoardInit PROVE BoardTypeOK
    OBVIOUS
  <2>1. Listed = {} /\ allMaterials = [m \in {} |-> FALSE]
    BY DEF BoardInit, Listed
  <2>2. allMaterials \in [Listed -> BOOLEAN]
    BY <2>1
  <2> QED
    BY <2>1, <2>2 DEF BoardInit, BoardTypeOK
<1>2. BoardTypeOK /\ [BoardNext]_boardVars => BoardTypeOK'
  <2> SUFFICES ASSUME BoardTypeOK, [BoardNext]_boardVars PROVE BoardTypeOK'
    OBVIOUS
  <2>1. CASE Fetched
    <3>1. PICK ids \in SUBSET Row : \E seen \in SUBSET (ids \cap verified) :
            allMaterials' = [m \in ids |-> m \in seen]
      BY <2>1 DEF Fetched
    <3>2. Listed' = ids /\ allMaterials' \in [ids -> BOOLEAN]
      BY <3>1 DEF Listed
    <3> QED
      BY <2>1, <3>2 DEF Fetched, BoardTypeOK
  <2>2. CASE Refetch \/ Select
    BY <2>2 DEF Refetch, Select, BoardTypeOK, Listed
  <2>3. CASE BulkAction
    <3>1. {m \in checkedIds \cap Listed : ~allMaterials[m]} \in SUBSET Row
      BY DEF BoardTypeOK
    <3> QED
      BY <2>3, <3>1, DecideTypes DEF BulkAction
  <2>4. ASSUME NEW m \in Row, Verify(m)
        PROVE  BoardTypeOK'
    BY <2>4, DecideTypes DEF Verify
  <2>5. ASSUME NEW m \in Row, VerifyReturns(m)
        PROVE  BoardTypeOK'
    <3>1. [id |-> m, decision |-> "approved"] \in [id : Row, decision : Decision]
      BY DEF Decision
    <3> QED
      BY <2>5, <3>1 DEF VerifyReturns, BoardTypeOK, Listed
  <2>6. ASSUME NEW m \in Row, Throws(m) \/ VerifiedElsewhere(m)
        PROVE  BoardTypeOK'
    BY <2>6 DEF Throws, VerifiedElsewhere, BoardTypeOK, Listed
  <2>7. CASE UNCHANGED boardVars
    BY <2>7 DEF boardVars, BoardTypeOK, Listed
  <2> QED
    BY <2>1, <2>2, <2>3, <2>4, <2>5, <2>6, <2>7 DEF BoardNext
<1> QED
  BY <1>1, <1>2, PTL DEF BoardSpec

(* A list with one record more, or another, is a list.                     *)
LEMMA PutTyped ==
  ASSUME proposals \in List, NEW p \in Proposal, NEW r \in Record
  PROVE  Put(p, r) \in List
<1>1. PICK S \in SUBSET Proposal : proposals \in [S -> Record]
  BY DEF List, Record
<1>2. S \cup {p} \in SUBSET Proposal /\ Put(p, r) \in [S \cup {p} -> Record]
  BY <1>1 DEF Put
<1> QED
  BY <1>2 DEF List, Record

LEMMA StoredRecord ==
  ASSUME proposals \in List, NEW p \in DOMAIN proposals
  PROVE  p \in Proposal /\ proposals[p] \in Record
BY DEF List, Record

LEMMA VotesTypes == VotesSpec => []VotesTypeOK
<1>1. VotesInit => VotesTypeOK
  <2> SUFFICES ASSUME VotesInit PROVE VotesTypeOK
    OBVIOUS
  <2>1. {} \in SUBSET Proposal /\ <<>> \in [{} -> Record]
    OBVIOUS
  <2>2. <<>> \in List
    BY <2>1 DEF List, Record
  <2> QED
    BY <2>2 DEF VotesInit, VotesTypeOK
<1>2. VotesTypeOK /\ [VotesNext]_voteVars => VotesTypeOK'
  <2> SUFFICES ASSUME VotesTypeOK, [VotesNext]_voteVars PROVE VotesTypeOK'
    OBVIOUS
  <2>1. ASSUME NEW b \in Browser, NEW p \in Proposal, NEW r \in Record, Prepare(b, Put(p, r))
        PROVE  VotesTypeOK'
    <3>1. Put(p, r) \in List
      BY PutTyped DEF VotesTypeOK
    <3> QED
      BY <2>1, <3>1 DEF Prepare, VotesTypeOK
  <2>2. ASSUME NEW b \in Browser, NEW p \in Proposal, CreateProposal(b, p)
        PROVE  VotesTypeOK'
    <3>1. {} \in SUBSET Voter /\ <<>> \in [{} -> VoteChoice]
      OBVIOUS
    <3>2. [status |-> "active", votes |-> <<>>] \in Record
      BY <3>1 DEF Record, VoteStatus, Votes
    <3> QED
      BY <2>1, <2>2, <3>2 DEF CreateProposal
  <2>3. ASSUME NEW b \in Browser, NEW p \in Proposal, VetoProposal(b, p) \/ FinalizeProposal(b, p)
        PROVE  VotesTypeOK'
    <3>1. proposals[p] \in Record
      BY <2>3, StoredRecord DEF VetoProposal, FinalizeProposal, VotesTypeOK
    <3>2. PICK s \in VoteStatus : Prepare(b, Put(p, [proposals[p] EXCEPT !.status = s]))
      BY <2>3 DEF VetoProposal, FinalizeProposal, VoteStatus
    <3>3. [proposals[p] EXCEPT !.status = s] \in Record
      BY <3>1 DEF Record
    <3> QED
      BY <2>1, <3>2, <3>3
  <2>4. ASSUME NEW b \in Browser, NEW p \in Proposal, NEW v \in Voter, NEW c \in VoteChoice,
               CastVote(b, p, v, c)
        PROVE  VotesTypeOK'
    <3> DEFINE votes == proposals[p].votes
               cast  == [w \in DOMAIN votes \cup {v} |-> IF w = v THEN c ELSE votes[w]]
    <3>1. proposals[p] \in Record
      BY <2>4, StoredRecord DEF CastVote, VotesTypeOK
    <3>2. cast \in Votes
      BY <3>1, CastRecord DEF Record
    <3>3. Prepare(b, Put(p, [proposals[p] EXCEPT !.votes = cast]))
      BY <2>4 DEF CastVote
    <3> HIDE DEF cast
    <3>4. [proposals[p] EXCEPT !.votes = cast] \in Record
      BY <3>1, <3>2 DEF Record
    <3> QED
      BY <2>1, <3>3, <3>4
  <2>5. ASSUME NEW b \in Browser, SaveProposals(b)
        PROVE  VotesTypeOK'
    BY <2>5 DEF SaveProposals, VotesTypeOK
  <2>6. ASSUME NEW p \in Proposal, VotingEnds(p)
        PROVE  VotesTypeOK'
    BY <2>6 DEF VotingEnds, VotesTypeOK
  <2>7. CASE UNCHANGED voteVars
    BY <2>7 DEF voteVars, VotesTypeOK
  <2> QED
    BY <2>2, <2>3, <2>4, <2>5, <2>6, <2>7 DEF VotesNext
<1> QED
  BY <1>1, <1>2, PTL DEF VotesSpec

(* The types of the services                                               *)
LEMMA ServicesTypes ==
  /\ LimiterSpec => []LimiterTypeOK
  /\ JobSpec     => []JobTypeOK
  /\ MigrateSpec => []MigrateTypeOK
  /\ GateSpec    => []GateTypeOK
<1>1. /\ LimiterInv => LimiterTypeOK
      /\ JobInv     => JobTypeOK
      /\ MigrateInv => MigrateTypeOK
      /\ GateInv    => GateTypeOK
  BY DEF LimiterInv, JobInv, MigrateInv, GateInv
<1> QED
  BY <1>1, LimiterCorrect, JobsCorrect, MigrateCorrect, GateCorrect, PTL

(* A step of the whole is a step of the part that runs, which the others   *)
(* do not notice.                                                          *)
LEMMA StepOfPart ==
  [Next]_vars =>
    /\ [CallNext]_callVars /\ [QueueNext]_queueVars /\ [LimiterNext]_limiterVars
    /\ [JobNext]_jobVars /\ [MigrateNext]_migrateVars /\ [ListNext]_listVars
    /\ [BoardNext]_boardVars /\ [VotesNext]_voteVars /\ [RewardsNext]_rewardVars
    /\ [GateNext]_gateVars
<1> SUFFICES ASSUME [Next]_vars
             PROVE  /\ [CallNext]_callVars /\ [QueueNext]_queueVars
                    /\ [LimiterNext]_limiterVars /\ [JobNext]_jobVars
                    /\ [MigrateNext]_migrateVars /\ [ListNext]_listVars
                    /\ [BoardNext]_boardVars /\ [VotesNext]_voteVars
                    /\ [RewardsNext]_rewardVars /\ [GateNext]_gateVars
  OBVIOUS
<1>1. CASE UNCHANGED vars
  BY <1>1 DEF vars
<1>2. CASE Next
  <2>1. [CallNext]_callVars
    BY <1>2 DEF Next, In, CallNext
  <2>2. [QueueNext]_queueVars
    BY <1>2 DEF Next, In, QueueNext
  <2>3. [LimiterNext]_limiterVars
    BY <1>2 DEF Next, In, LimiterNext
  <2>4. [JobNext]_jobVars
    BY <1>2 DEF Next, In, JobNext
  <2>5. [MigrateNext]_migrateVars
    BY <1>2 DEF Next, In, MigrateNext, MigrateStep
  <2>6. [ListNext]_listVars
    BY <1>2 DEF Next, In, ListNext
  <2>7. [BoardNext]_boardVars
    BY <1>2 DEF Next, In, BoardNext
  <2>8. [VotesNext]_voteVars
    BY <1>2 DEF Next, In, VotesNext
  <2>9. [RewardsNext]_rewardVars
    BY <1>2 DEF Next, In, RewardsNext
  <2>10. [GateNext]_gateVars
    BY <1>2 DEF Next, In, GateNext
  <2> QED
    BY <2>1, <2>2, <2>3, <2>4, <2>5, <2>6, <2>7, <2>8, <2>9, <2>10
<1> QED
  BY <1>1, <1>2

(* So each part behaves as it does alone.                                  *)
LEMMA PartsAreParts ==
  PartsSpec =>
    /\ CallSpec /\ QueueSpec /\ LimiterSpec /\ JobSpec /\ MigrateSpec
    /\ ListSpec /\ BoardSpec /\ VotesSpec /\ RewardsSpec /\ GateSpec
<1>1. Init => /\ CallInit /\ QueueInit /\ LimiterInit /\ JobInit /\ MigrateInit
              /\ ListInit /\ BoardInit /\ VotesInit /\ RewardsInit /\ GateInit
  BY DEF Init
<1> QED
  BY <1>1, StepOfPart, PTL
  DEF PartsSpec, CallSpec, QueueSpec, LimiterSpec, JobSpec, MigrateSpec, ListSpec, BoardSpec,
      VotesSpec, RewardsSpec, GateSpec

(* The part that runs keeps its types, for every value of the constants    *)
(* (the ten parts of MCParts, from the clients to idempotency.rs).         *)
THEOREM PartsTypeCorrect == PartsSpec => []PartsTypeOK
<1> DEFINE Chosen == part \in {"call", "queue", "limiter", "jobs", "migrate", "list", "board",
                               "votes", "rewards", "gate"}
<1>1. Init => Chosen
  BY DEF Init
<1>2. [Next]_vars => part' = part
  BY DEF Next, In, vars
<1>3. Chosen /\ [Next]_vars => Chosen'
  BY <1>2
<1>4. /\ Chosen /\ CallTypeOK /\ QueueTypeOK /\ LimiterTypeOK /\ JobTypeOK /\ MigrateTypeOK
      /\ ListTypeOK /\ BoardTypeOK /\ VotesTypeOK /\ RewardsTypeOK /\ GateTypeOK
      => PartsTypeOK
  BY DEF PartsTypeOK
<1> HIDE DEF Chosen
<1> QED
  BY <1>1, <1>3, <1>4, PartsAreParts, CallTypes, QueueTypes, ServicesTypes, ListTypes,
     BoardTypes, VotesTypes, RewardsTypeCorrect, PTL DEF PartsSpec

(* What is proved of the parts one by one holds of all of them together,   *)
(* in the specification that the run checks.                               *)
THEOREM PartsCorrect ==
  PartsSpec =>
    /\ [](/\ SentOnceByOneTab /\ GoneMeansSentOrCleared /\ OvershootBounded
          /\ NeitherLostNorPiledUp /\ RecordedIsApplied /\ DoublingFails
          /\ OptimismExplained /\ ApprovalsVerified /\ PassedByVotes /\ SpendingKnown
          /\ EarningsCounted /\ AnsweredOnce)
    /\ CallKeepsPromise /\ LateLandingBounded /\ ChargesArePaid
BY PartsAreParts, SentOnce, NoChangeIsLost, OvershootIsBounded, QueueKeepsJobs, RecordedHasTables,
   DoublingNoticed, ListHonest, HistoryHonest, TallyKept, SpendingStaysKnown, EarningsStayCounted,
   AnsweredIsKept, PromiseKept, TimedOutSettlesSoon, ChargesStayPaid, PTL

=============================================================================
