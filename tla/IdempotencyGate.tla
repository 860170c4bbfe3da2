-------------------------- MODULE IdempotencyGate --------------------------
(***************************************************************************)
(* The backend's idempotency middleware: a write with a key looks for a    *)
(* stored response, and if there is none runs the handler and stores what  *)
(* it answers.  Between the two nothing is stored, the handler awaits, and *)
(* the client may hang up; every worker of the server has a store of its   *)
(* own, which does not outlive the process.                                *)
(***************************************************************************)
CONSTANTS
  Req,      \* the write requests with a key, each sent once
  KeyOf,    \* their Idempotency-Key
  Server    \* the workers: main.rs makes the middleware anew in each

ASSUME ServerAssumption == Server # {}

VARIABLES
  gate,     \* where each request is
  server,   \* the worker it reached
  kept,     \* the store of each worker: the requests whose response it holds
  old,      \* those past the 24 hours
  ran,      \* the requests whose handler took effect
  given,    \* the request whose response each was given
  owed,     \* those of its key that were answered when it came, and not lost
  lost      \* the answers that aged or went with the process

gateVars == <<gate, server, kept, old, ran, given, owed, lost>>

SameKey(r) == {q \in Req : KeyOf[q] = KeyOf[r]}

GateInit ==
  /\ gate = [r \in Req |-> "idle"]
  /\ server = [r \in Req |-> CHOOSE w \in Server : TRUE]
  /\ kept = [w \in Server |-> {}]
  /\ old = {} /\ ran = {} /\ lost = {}
  /\ given = [r \in Req |-> {}] /\ owed = [r \in Req |-> {}]

-----------------------------------------------------------------------------
(* call, up to its await: stale entries go, a hit is replayed.             *)
Intercept(r, w) ==
  LET left == kept[w] \ old
      hit  == left \cap SameKey(r)
  IN /\ gate[r] = "idle"
     /\ server' = [server EXCEPT ![r] = w]
     /\ kept' = [kept EXCEPT ![w] = left]
     /\ gate' = [gate EXCEPT ![r] = IF hit = {} THEN "running" ELSE "replayed"]
     /\ given' = [given EXCEPT ![r] = hit]
     /\ owed' = [owed EXCEPT ![r] = {q \in SameKey(r) \ lost :
                                       gate[q] = "created" /\ server[q] = w}]
     /\ UNCHANGED <<old, ran, lost>>

(* The handler does its work, at some point of its run.                    *)
Handle(r) ==
  /\ gate[r] = "running" /\ r \notin ran
  /\ ran' = ran \cup {r}
  /\ UNCHANGED <<gate, server, kept, old, given, owed, lost>>

(* Mutant of Created: the responses of client errors are not stored.       *)
CreatedUnlessRefused(r) ==
  /\ gate[r] = "running"
  /\ gate' = [gate EXCEPT ![r] = "created"]
  /\ given' = [given EXCEPT ![r] = {r}]
  /\ kept' = IF r \in ran
             THEN [kept EXCEPT ![server[r]] = (@ \ SameKey(r)) \cup {r}] ELSE kept
  /\ UNCHANGED <<server, old, ran, owed, lost>>

(* It answers, with a success or a client error, which takes the place of  *)
(* what another request with the key has stored meanwhile.                 *)
Created(r) ==
  /\ gate[r] = "running"
  /\ gate' = [gate EXCEPT ![r] = "created"]
  /\ given' = [given EXCEPT ![r] = {r}]
  /\ kept' = [kept EXCEPT ![server[r]] = (@ \ SameKey(r)) \cup {r}]
  /\ UNCHANGED <<server, old, ran, owed, lost>>

(* It ends with a server error, which is not stored; or the client hangs   *)
(* up and the rest of the call is dropped.                                 *)
Unstored(r) ==
  /\ gate[r] = "running"
  /\ \E end \in {"errored", "dropped"} : gate' = [gate EXCEPT ![r] = end]
  /\ UNCHANGED <<server, kept, old, ran, given, owed, lost>>

-----------------------------------------------------------------------------
(* An entry passes its time to live; those it replaced are older.          *)
Age(r) ==
  /\ r \in kept[server[r]] \ old
  /\ old' = old \cup {r}
  /\ lost' = lost \cup {q \in SameKey(r) : gate[q] = "created" /\ server[q] = server[r]}
  /\ UNCHANGED <<gate, server, kept, ran, given, owed>>

Reboot ==
  /\ kept' = [w \in Server |-> {}]
  /\ gate' = [r \in Req |-> IF gate[r] = "running" THEN "dropped" ELSE gate[r]]
  /\ lost' = lost \cup {r \in Req : gate[r] = "created"}
  /\ UNCHANGED <<server, old, ran, given, owed>>

GateNext ==
  \/ \E r \in Req, w \in Server : Intercept(r, w)
  \/ \E r \in Req : Handle(r) \/ Created(r) \/ Unstored(r) \/ Age(r)
  \/ Reboot

GateSpec == GateInit /\ [][GateNext]_gateVars

-----------------------------------------------------------------------------
GateTypeOK ==
  /\ gate \in [Req -> {"idle", "running", "created", "replayed", "errored", "dropped"}]
  /\ server \in [Req -> Server]
  /\ kept \in [Server -> SUBSET Req]
  /\ old \subseteq Req /\ ran \subseteq Req /\ lost \subseteq Req
  /\ given \in [Req -> SUBSET Req] /\ owed \in [Req -> SUBSET Req]

(* Whatever runs side by side, fails, is hung up or overwritten: once a    *)
(* request was answered, its worker runs no handler for a later one with   *)
(* its key until the answer has aged or the process restarted, and what is *)
(* replayed was answered to a request with that key.  This is what is left *)
(* of "at most once": concurrent requests, those of other workers and      *)
(* those whose client hung up do run again.                                *)
AnsweredOnce ==
  \A r \in Req :
    /\ owed[r] # {} => gate[r] = "replayed" /\ r \notin ran
    /\ \A q \in given[r] : gate[q] = "created" /\ KeyOf[q] = KeyOf[r]

=============================================================================
