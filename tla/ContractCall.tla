---------------------------- MODULE ContractCall ----------------------------
(***************************************************************************)
(* A signed call of the contract from a client: build a transaction on the *)
(* account's sequence number, simulate it, let the wallet sign, submit and *)
(* poll.  The SDK polls until a deadline, the application twenty times.    *)
(* The ledger is external: it applies what was submitted in any order, as  *)
(* long as the sequence number fits and the time bound has not passed, and *)
(* the close times it compares with the bound may lag behind the clock.    *)
(***************************************************************************)
EXTENDS ContractInterface, Naturals, FiniteSets

CONSTANTS
  Call,            \* the calls made, each once
  Request,         \* the client, the method and the signer of a call
  Account,         \* the signing accounts
  TxTimeout,       \* setTimeout(30)
  PollTimeout,     \* pollTimeoutMs
  PollInterval,    \* pollIntervalMs, and the 1500 ms of the application
  AppPolls,        \* the 20 polls of the application
  CloseLag,        \* how far a close time may be behind the clock
  Slack, LastBuild, LastSend, MaxClock   \* bounds of the instance

ASSUME RequestAssumption ==
  Request \in [Call -> [client : {"sdk", "app"}, method : STRING, signer : Account]]
ASSUME TimeAssumption ==
  /\ {TxTimeout, CloseLag, Slack, LastBuild, LastSend, MaxClock} \subseteq Nat
  /\ {PollTimeout, PollInterval, AppPolls} \subseteq Nat \ {0}
(* The defaults: a client polls at least as long as a transaction is valid. *)
ASSUME PatienceAssumption ==
  /\ PollTimeout >= TxTimeout
  /\ AppPolls * PollInterval >= TxTimeout

VARIABLES
  stage,      \* where each call is
  tx,         \* the transaction it built
  since,      \* when it was submitted
  slept,      \* when it last began to wait
  polls,      \* the application's polls so far
  verdict,    \* how invoke gaveUp
  gaveUp,     \* when it timed out
  handed,     \* the calls whose transaction may be on its way
  now,        \* the clock
  sequence,   \* the ledger's sequence number of each account
  pool,       \* the transactions the network holds
  landed,     \* those it applied
  failed      \* those that failed when it applied them

clientVars == <<stage, tx, since, slept, polls, verdict, gaveUp, handed>>
ledgerVars == <<now, sequence, pool, landed, failed>>
callVars   == <<clientVars, ledgerVars>>

(* The ways invoke throws before anything is known to be on its way, or    *)
(* once it has failed, and those after which it may still take effect.     *)
(* The application throws a ContractError for a timeout too; its message   *)
(* alone tells it from a failure, and is what TimeoutError stands for.     *)
Refusal == {"BuildError", "ContractError", "SigningError", "TransactionError"}
Doubt   == {"NetworkError", "TimeoutError"}

-----------------------------------------------------------------------------
(* The deprecated names are wrappers around wrappers.                      *)
Method(c) ==
  IF Request[c].client = "app" /\ Request[c].method \in DOMAIN AppAliases
  THEN AppAliases[Request[c].method] ELSE Request[c].method

Transaction ==
  [method : {Method(c) : c \in Call}, signer : Account, seq : Nat, maxTime : Nat]

CanFit(c) ==
  Method(c) \in IF Request[c].client = "sdk" THEN SdkFitting ELSE AppFitting

(* invoke returns or throws.                                               *)
End(c, v) ==
  /\ stage' = [stage EXCEPT ![c] = "done"]
  /\ verdict' = [verdict EXCEPT ![c] = v]
  /\ gaveUp' = IF v = "TimeoutError" THEN [gaveUp EXCEPT ![c] = now] ELSE gaveUp

CallInit ==
  /\ stage = [c \in Call |-> "idle"]
  /\ tx = [c \in Call |-> [method |-> Method(c), signer |-> Request[c].signer,
                         seq |-> 0, maxTime |-> 0]]
  /\ since = [c \in Call |-> 0] /\ slept = [c \in Call |-> 0]
  /\ polls = [c \in Call |-> 0]
  /\ verdict = [c \in Call |-> "none"] /\ gaveUp = [c \in Call |-> 0]
  /\ handed = {}
  /\ now = 0
  /\ sequence = [a \in Account |-> 0]
  /\ pool = {} /\ landed = {} /\ failed = {}

-----------------------------------------------------------------------------
(* getAccount, and the transaction on the sequence number it returns.      *)
Build(c) ==
  /\ stage[c] = "idle" /\ now <= LastBuild
  /\ \/ /\ stage' = [stage EXCEPT ![c] = "simulate"]
        /\ tx' = [tx EXCEPT ![c] = [@ EXCEPT !.seq = sequence[Request[c].signer] + 1,
                                             !.maxTime = now + TxTimeout]]
        /\ UNCHANGED <<verdict, gaveUp>>
     \/ End(c, "BuildError") /\ UNCHANGED tx
  /\ UNCHANGED <<since, slept, polls, handed, ledgerVars>>

(* The function may refuse a call that fits; one that does not fit fails   *)
(* when its arguments are converted.                                       *)
Simulate(c) ==
  /\ stage[c] = "simulate"
  /\ \/ /\ CanFit(c)
        /\ stage' = [stage EXCEPT ![c] = "sign"]
        /\ UNCHANGED <<verdict, gaveUp>>
     \/ End(c, "ContractError")
  /\ UNCHANGED <<tx, since, slept, polls, handed, ledgerVars>>

(* The user takes any time, and may decline; there may be no strategy.     *)
Sign(c) ==
  /\ stage[c] = "sign"
  /\ \/ stage' = [stage EXCEPT ![c] = "send"] /\ UNCHANGED <<verdict, gaveUp>>
     \/ End(c, "SigningError")
  /\ UNCHANGED <<tx, since, slept, polls, handed, ledgerVars>>

(* The node takes a transaction with the next sequence number of its       *)
(* account, also one it holds already (DUPLICATE).                         *)
Take(c) ==
  /\ tx[c].seq = sequence[tx[c].signer] + 1
  /\ pool' = pool \cup {tx[c]}
  /\ UNCHANGED <<now, sequence, landed, failed>>

(* Mutant of PollsOn: the application's loop starts at 1.                  *)
PollsOnce(c, start, n) ==
  IF Request[c].client = "sdk" THEN now < start + PollTimeout ELSE n + 1 < AppPolls

(* The condition of the polling loop: a deadline in the SDK, a count in    *)
(* the application.                                                        *)
PollsOn(c, start, n) ==
  IF Request[c].client = "sdk" THEN now < start + PollTimeout ELSE n < AppPolls

(* Mutant of PollOrGiveUp: the timeout is reported like a failure.         *)
PollOrFail(c, start, n) ==
  IF PollsOn(c, start, n)
  THEN /\ stage' = [stage EXCEPT ![c] = "poll"]
       /\ slept' = [slept EXCEPT ![c] = now]
       /\ UNCHANGED <<verdict, gaveUp>>
  ELSE End(c, "TransactionError") /\ UNCHANGED slept

(* Another: the deadline is computed anew in every round.                  *)
PollOrGoOn(c, start, n) ==
  IF PollsOn(c, now, n)
  THEN /\ stage' = [stage EXCEPT ![c] = "poll"]
       /\ slept' = [slept EXCEPT ![c] = now]
       /\ UNCHANGED <<verdict, gaveUp>>
  ELSE End(c, "TimeoutError") /\ UNCHANGED slept

PollOrGiveUp(c, start, n) ==
  IF PollsOn(c, start, n)
  THEN /\ stage' = [stage EXCEPT ![c] = "poll"]
       /\ slept' = [slept EXCEPT ![c] = now]
       /\ UNCHANGED <<verdict, gaveUp>>
  ELSE End(c, "TimeoutError") /\ UNCHANGED slept

(* PENDING and DUPLICATE; or TRY_AGAIN_LATER, which is polled as well      *)
(* though nothing sends it again.                                          *)
Send(c) ==
  /\ stage[c] = "send" /\ now <= LastSend
  /\ since' = [since EXCEPT ![c] = now]
  /\ PollOrGiveUp(c, now, 0)
  /\ handed' = handed \cup {c}
  /\ Take(c) \/ UNCHANGED ledgerVars
  /\ UNCHANGED <<tx, polls>>

(* status ERROR *)
SendRefused(c) ==
  /\ stage[c] = "send"
  /\ End(c, "TransactionError")
  /\ UNCHANGED <<tx, since, slept, polls, handed, ledgerVars>>

(* The request to submit, or the reply, is lost: sendTransaction throws.   *)
SendLost(c) ==
  /\ stage[c] = "send" /\ now <= LastSend
  /\ End(c, "NetworkError")
  /\ \/ Take(c) /\ handed' = handed \cup {c}
     \/ UNCHANGED <<handed, ledgerVars>>
  /\ UNCHANGED <<tx, since, slept, polls>>

(* getTransaction after the wait; NOT_FOUND also when the node lags.       *)
Poll(c) ==
  /\ stage[c] = "poll" /\ now >= slept[c] + PollInterval
  /\ \/ tx[c] \in landed /\ End(c, "value") /\ UNCHANGED <<slept, polls>>
     \/ tx[c] \in failed /\ End(c, "TransactionError") /\ UNCHANGED <<slept, polls>>
     \/ End(c, "NetworkError") /\ UNCHANGED <<slept, polls>>
     \/ /\ PollOrGiveUp(c, since[c], polls[c] + 1)
        /\ polls' = IF Request[c].client = "sdk" THEN polls
                    ELSE [polls EXCEPT ![c] = @ + 1]
  /\ UNCHANGED <<tx, since, handed, ledgerVars>>

-----------------------------------------------------------------------------
(* The ledger closes over a transaction of the pool.                       *)
CloseLedger(t) ==
  /\ t \in pool /\ t.seq = sequence[t.signer] + 1
  /\ now <= t.maxTime + CloseLag
  /\ sequence' = [sequence EXCEPT ![t.signer] = @ + 1]
  /\ pool' = pool \ {t}
  /\ \/ landed' = landed \cup {t} /\ UNCHANGED failed
     \/ failed' = failed \cup {t} /\ UNCHANGED landed
  /\ UNCHANGED <<clientVars, now>>

(* It is evicted, or it can no longer be applied.                          *)
Drop(t) ==
  /\ t \in pool
  /\ pool' = pool \ {t}
  /\ UNCHANGED <<clientVars, now, sequence, landed, failed>>

(* A poll that is due is late by at most Slack.                            *)
Tick ==
  /\ now < MaxClock
  /\ \A c \in Call : stage[c] = "poll" => now < slept[c] + PollInterval + Slack
  /\ now' = now + 1
  /\ UNCHANGED <<clientVars, sequence, pool, landed, failed>>

CallNext ==
  \/ \E c \in Call : Build(c) \/ Simulate(c) \/ Sign(c) \/ Send(c)
                       \/ SendRefused(c) \/ SendLost(c) \/ Poll(c)
  \/ \E t \in pool : CloseLedger(t) \/ Drop(t)
  \/ Tick

CallSpec == CallInit /\ [][CallNext]_callVars

-----------------------------------------------------------------------------
Stages   == {"idle", "simulate", "sign", "send", "poll", "done"}
Verdicts == {"none", "value"} \cup Refusal \cup Doubt

CallTypeOK ==
  /\ stage \in [Call -> Stages]
  /\ tx \in [Call -> Transaction]
  /\ since \in [Call -> Nat] /\ slept \in [Call -> Nat] /\ polls \in [Call -> Nat]
  /\ verdict \in [Call -> Verdicts]
  /\ gaveUp \in [Call -> Nat]
  /\ handed \subseteq Call
  /\ now \in Nat
  /\ sequence \in [Account -> Nat]
  /\ pool \subseteq Transaction /\ landed \subseteq Transaction /\ failed \subseteq Transaction

(* The promise read off the code's state: what became of the transaction a *)
(* call handed over, and what invoke told its caller.                      *)
EffectOf(c) ==
  IF c \in handed /\ tx[c] \in landed THEN "landed"
  ELSE IF c \in handed /\ tx[c] \in failed THEN "void" ELSE "none"

AnswerOf(c) ==
  IF verdict[c] \in Refusal THEN "error"
  ELSE IF verdict[c] \in Doubt THEN "unknown" ELSE verdict[c]

Abstract == INSTANCE CallPromise WITH
  Caller   <- Call,
  Callable <- {c \in Call : CanFit(c)},
  effect   <- [c \in Call |-> EffectOf(c)],
  answer   <- [c \in Call |-> AnswerOf(c)]

(* invoke of both clients keeps the promise: whatever is lost, refused,    *)
(* resubmitted or shared between two calls, a value means the call took    *)
(* effect, an error that it never will, and a call that does not fit the   *)
(* contract ends in an error.                                              *)
CallKeepsPromise == Abstract!Promise

(* The clients wait for as long as a transaction is valid, so that a call  *)
(* that timed out takes effect, if it still does, within the lag of the    *)
(* ledger's close times: a caller who waits that long may retry.           *)
LateLandingBounded ==
  [][\A c \in Call :
       verdict[c] = "TimeoutError" /\ c \in handed /\ tx[c] \in landed' \ landed
         => now <= gaveUp[c] + CloseLag]_callVars

(* While the clock goes on, the polling of every call comes to an end:     *)
(* each is sent once, so in the end nothing polls.                         *)
PollingEnds == []<>(\A c \in Call : stage[c] # "poll")

CallFairness == (\A c \in Call : WF_callVars(Poll(c))) /\ WF_callVars(Tick)

=============================================================================
