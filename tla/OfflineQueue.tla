---------------------------- MODULE OfflineQueue ----------------------------
(***************************************************************************)
(* The application's queue of changes made offline: an IndexedDB store that *)
(* every open tab shares, and a sync manager in each tab that sends what   *)
(* is pending, one change after another.  Tabs are closed and reopened at  *)
(* any point, and the user may clear the store meanwhile.                  *)
(***************************************************************************)
EXTENDS Naturals, FiniteSets

CONSTANTS
  Tab,        \* the tabs of one browser profile
  Changes,    \* how many changes are made (their ids ascend with the time)
  Handled     \* those for whose key a handler is registered

Change == 1 .. Changes

ASSUME ChangesAssumption == Changes \in Nat /\ Handled \subseteq Change

VARIABLES
  isOnline,   \* useOnlineStatus, in each tab
  store,      \* the status of each stored change
  step,       \* where each tab is in syncPendingMutations
  pending,    \* what performSync read and has still to send
  mutation,   \* the change it is sending
  queued,     \* the changes ever put into the store
  calls,      \* how often a change was sent
  succeeded,  \* the changes for which a call returned
  cleared,    \* those in the store when the user cleared it
  contested   \* those two tabs held at the same time

tabVars   == <<isOnline, step, pending, mutation>>
queueVars == <<tabVars, store, queued, calls, succeeded, cleared, contested>>

Status == {"pending", "syncing", "failed", "success"}
Stored == DOMAIN store

Steps == {"closed", "idle", "next", "read", "mark", "call", "returned", "markSent",
          "delete", "threw", "markFailed", "over"}

QueueInit ==
  /\ isOnline = [t \in Tab |-> FALSE]
  /\ store = <<>>
  /\ step = [t \in Tab |-> "closed"]
  /\ pending = [t \in Tab |-> {}]
  /\ mutation = [t \in Tab |-> 0]
  /\ queued = {} /\ calls = [m \in Change |-> 0]
  /\ succeeded = {} /\ cleared = {} /\ contested = {}

-----------------------------------------------------------------------------
(* A tab is opened; it is closed, or crashes, at any step.                 *)
Open(t) ==
  /\ step[t] = "closed"
  /\ step' = [step EXCEPT ![t] = "idle"]
  /\ UNCHANGED <<isOnline, store, pending, mutation, queued, calls, succeeded, cleared, contested>>

Close(t) ==
  /\ step[t] # "closed"
  /\ step' = [step EXCEPT ![t] = "closed"]
  /\ pending' = [pending EXCEPT ![t] = {}]
  /\ isOnline' = [isOnline EXCEPT ![t] = FALSE]
  /\ UNCHANGED <<store, mutation, queued, calls, succeeded, cleared, contested>>

(* handleOnline and handleOffline *)
Notice(t) ==
  /\ step[t] # "closed"
  /\ isOnline' = [isOnline EXCEPT ![t] = ~@]
  /\ UNCHANGED <<step, store, pending, mutation, queued, calls, succeeded, cleared, contested>>

(* queueMutation, from useOfflineMutation when the hook is offline.        *)
Queue(t) ==
  /\ step[t] # "closed" /\ ~isOnline[t]
  /\ \E m \in Change \ queued :
       /\ \A k \in Change \ queued : m <= k
       /\ store' = [k \in Stored \cup {m} |-> IF k = m THEN "pending" ELSE store[k]]
       /\ queued' = queued \cup {m}
  /\ UNCHANGED <<tabVars, calls, succeeded, cleared, contested>>

(* clearAllData *)
ClearAllData(t) ==
  /\ step[t] # "closed" /\ Stored # {}
  /\ cleared' = cleared \cup Stored
  /\ store' = <<>>
  /\ UNCHANGED <<tabVars, queued, calls, succeeded, contested>>

-----------------------------------------------------------------------------
(* getPendingMutations: isSyncing keeps a tab to one run at a time.        *)
PerformSync(t) ==
  LET found == {m \in Stored : store[m] = "pending"}
  IN /\ step[t] = "idle" /\ isOnline[t] /\ found # {}
     /\ step' = [step EXCEPT ![t] = "next"]
     /\ pending' = [pending EXCEPT ![t] = found]
     /\ contested' = contested \cup
          {m \in found : \E u \in Tab \ {t} : m \in pending[u]}
     /\ UNCHANGED <<isOnline, mutation, store, queued, calls, succeeded, cleared>>

(* The loop goes on with the next change, whatever became of this one.     *)
Continue(t, m) ==
  /\ pending' = [pending EXCEPT ![t] = @ \ {m}]
  /\ step' = [step EXCEPT ![t] = IF pending[t] = {m} THEN "idle" ELSE "next"]

(* syncSingleMutation: without a handler the change stays as it is.        *)
FindHandler(t) ==
  /\ step[t] = "next"
  /\ \E m \in pending[t] :
       /\ \A k \in pending[t] : m <= k
       /\ IF m \in Handled
          THEN /\ mutation' = [mutation EXCEPT ![t] = m]
               /\ step' = [step EXCEPT ![t] = "read"]
               /\ UNCHANGED pending
          ELSE Continue(t, m) /\ UNCHANGED mutation
  /\ UNCHANGED <<isOnline, store, queued, calls, succeeded, cleared, contested>>

(* updateMutationStatus reads in one transaction and writes in another: a  *)
(* change that is not there is not written, one that goes in between is    *)
(* written back.                                                           *)
ReadChange(t, from, found, missing) ==
  /\ step[t] = from
  /\ step' = [step EXCEPT ![t] = IF mutation[t] \in Stored THEN found ELSE missing]
  /\ UNCHANGED <<isOnline, pending, mutation, store, queued, calls, succeeded, cleared, contested>>

Read(t) == \/ ReadChange(t, "read", "mark", "call")
           \/ ReadChange(t, "returned", "markSent", "delete")
           \/ ReadChange(t, "threw", "markFailed", "over")

(* Mutant of WriteChange: the status is written back as it was read.       *)
WriteChangeBack(t, from, status, to) ==
  /\ step[t] = from
  /\ store' = [k \in Stored \cup {mutation[t]} |->
                 IF k = mutation[t] THEN "pending" ELSE store[k]]
  /\ step' = [step EXCEPT ![t] = to]
  /\ UNCHANGED <<isOnline, pending, mutation, queued, calls, succeeded, cleared, contested>>

WriteChange(t, from, status, to) ==
  /\ step[t] = from
  /\ store' = [k \in Stored \cup {mutation[t]} |->
                 IF k = mutation[t] THEN status ELSE store[k]]
  /\ step' = [step EXCEPT ![t] = to]
  /\ UNCHANGED <<isOnline, pending, mutation, queued, calls, succeeded, cleared, contested>>

MarkSyncing(t) == WriteChange(t, "mark", "syncing", "call")
MarkSuccess(t) == WriteChange(t, "markSent", "success", "delete")
MarkFailed(t)  == WriteChange(t, "markFailed", "failed", "over")

(* Mutant of Callback: the promise of the handler is not awaited.          *)
CallbackUnawaited(t) ==
  /\ step[t] = "call"
  /\ calls' = [calls EXCEPT ![mutation[t]] = @ + 1]
  /\ step' = [step EXCEPT ![t] = "returned"]
  /\ \/ succeeded' = succeeded \cup {mutation[t]}
     \/ UNCHANGED succeeded
  /\ UNCHANGED <<isOnline, pending, mutation, store, queued, cleared, contested>>

(* The handler sends the change; it returns or throws.                     *)
Callback(t) ==
  /\ step[t] = "call"
  /\ calls' = [calls EXCEPT ![mutation[t]] = @ + 1]
  /\ \/ /\ step' = [step EXCEPT ![t] = "returned"]
        /\ succeeded' = succeeded \cup {mutation[t]}
     \/ /\ step' = [step EXCEPT ![t] = "threw"]
        /\ UNCHANGED succeeded
  /\ UNCHANGED <<isOnline, pending, mutation, store, queued, cleared, contested>>

DeleteMutation(t) ==
  /\ step[t] = "delete"
  /\ store' = [k \in Stored \ {mutation[t]} |-> store[k]]
  /\ step' = [step EXCEPT ![t] = "over"]
  /\ UNCHANGED <<isOnline, pending, mutation, queued, calls, succeeded, cleared, contested>>

(* A request to the store fails: after the call that counts as a failure   *)
(* of the change, otherwise the loop goes on with the next.                *)
StorageFails(t) ==
  /\ \/ /\ step[t] \in {"returned", "markSent", "delete"}
        /\ step' = [step EXCEPT ![t] = "threw"]
     \/ /\ step[t] \in {"read", "mark", "threw", "markFailed"}
        /\ step' = [step EXCEPT ![t] = "over"]
  /\ UNCHANGED <<isOnline, pending, mutation, store, queued, calls, succeeded, cleared, contested>>

NextChange(t) ==
  /\ step[t] = "over"
  /\ Continue(t, mutation[t])
  /\ UNCHANGED <<isOnline, mutation, store, queued, calls, succeeded, cleared, contested>>

QueueNext ==
  \E t \in Tab :
    \/ Open(t) \/ Close(t) \/ Notice(t) \/ Queue(t) \/ ClearAllData(t)
    \/ PerformSync(t) \/ FindHandler(t) \/ Read(t) \/ MarkSyncing(t) \/ MarkSuccess(t)
    \/ MarkFailed(t) \/ Callback(t) \/ DeleteMutation(t) \/ StorageFails(t) \/ NextChange(t)

QueueSpec == QueueInit /\ [][QueueNext]_queueVars

-----------------------------------------------------------------------------
QueueTypeOK ==
  /\ isOnline \in [Tab -> BOOLEAN]
  /\ Stored \subseteq Change /\ store \in [Stored -> Status]
  /\ step \in [Tab -> Steps]
  /\ pending \in [Tab -> SUBSET Change]
  /\ mutation \in [Tab -> 0 .. Changes]
  /\ \A t \in Tab : step[t] \in Steps \ {"closed", "idle", "next"} => mutation[t] \in pending[t]
  /\ queued \subseteq Change /\ calls \in [Change -> Nat]
  /\ succeeded \subseteq Change /\ cleared \subseteq Change /\ contested \subseteq Change

(* Whatever crashes, fails, is cleared or reopened, the sync managers send *)
(* a change twice only if two tabs had it in their lists at the same time: *)
(* there is no lock between tabs, but a run of its own never repeats one.  *)
SentOnceByOneTab == \A m \in Change : calls[m] > 1 => m \in contested

(* A change the user made offline leaves the store only by having been     *)
(* sent or by being cleared; no crash and no other tab loses it.           *)
GoneMeansSentOrCleared == queued \subseteq Stored \cup succeeded \cup cleared

=============================================================================
