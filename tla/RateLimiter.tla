---------------------------- MODULE RateLimiter ----------------------------
(***************************************************************************)
(* The indexer's sliding-window rate limiter for one identifier and        *)
(* endpoint.  The window is a sorted set in Redis that all requests share; *)
(* trimming it, counting it, adding to it and renewing its time to live    *)
(* are four calls, each of which may fail, and other requests, a reset and *)
(* the expiry of the key come between them.                                *)
(***************************************************************************)
EXTENDS Naturals, FiniteSets

CONSTANTS
  Requests,      \* how many requests are made (numbered in their order)
  MaxRequests, WindowMs, Ttl,   \* the tier's limit; the key lives Ttl seconds
  Concurrency,   \* how many requests may be under way at once
  LimiterEnd     \* bound of the clock

ASSUME LimiterAssumption ==
  /\ Requests \in Nat
  /\ {MaxRequests, WindowMs, Ttl, Concurrency} \subseteq Nat \ {0}
  /\ LimiterEnd \in Nat

Asker == 1 .. Requests

VARIABLES
  limiterNow,    \* Date.now()
  phase,         \* where each request is in checkLimit
  asked,         \* its own reading of the clock
  rejected,      \* those whose promise was rejected
  window,        \* the entries of the sorted set, scored with asked
  expires,       \* when the key expires (0: no such key, or no time to live)
  resetting,     \* reset has seen the key and will delete it
  forgotten      \* entries that went before they left the window

limiterVars == <<limiterNow, phase, asked, rejected, window, expires,
                 resetting, forgotten>>

Calling == {"trim", "count", "add", "renew"}

UnderWay == {r \in Asker : phase[r] \in Calling}

LimiterInit ==
  /\ limiterNow = WindowMs
  /\ phase = [r \in Asker |-> "idle"] /\ asked = [r \in Asker |-> 0]
  /\ rejected = {}
  /\ window = {} /\ expires = 0
  /\ resetting = FALSE /\ forgotten = {}

-----------------------------------------------------------------------------
(* checkLimit up to its first call; getRateLimitHeaders asks in the same   *)
(* way, and so takes a place as well.  The lists and the tiers may change  *)
(* at any time, so a request finds the identifier on either list, or not.  *)
CheckLimit(r) ==
  /\ phase[r] = "idle" /\ \A q \in 1 .. r - 1 : phase[q] # "idle"
  /\ Cardinality(UnderWay) < Concurrency
  /\ \/ /\ phase' = [phase EXCEPT ![r] = "trim"]
        /\ asked' = [asked EXCEPT ![r] = limiterNow]
     \/ /\ \E answer \in {"denied", "unlimited"} : phase' = [phase EXCEPT ![r] = answer]
        /\ UNCHANGED asked
  /\ UNCHANGED <<limiterNow, rejected, window, expires, resetting, forgotten>>

(* The sorted set becomes S; an empty one has no key.                      *)
SetWindow(S) ==
  /\ window' = S
  /\ expires' = IF S = {} THEN 0 ELSE expires

Stale(r) == {q \in window : asked[q] + WindowMs <= asked[r]}

(* A call that fails rejects the promise, and the callback goes on: a call *)
(* whose reply was lost may have been carried out.                         *)
Answered(r) == UNCHANGED rejected
Erred(r)    == rejected' = rejected \cup {r}

Trim(r) ==
  /\ phase[r] = "trim"
  /\ phase' = [phase EXCEPT ![r] = "count"]
  /\ \/ SetWindow(window \ Stale(r)) /\ (Answered(r) \/ Erred(r))
     \/ UNCHANGED <<window, expires>> /\ Erred(r)
  /\ UNCHANGED <<limiterNow, asked, resetting, forgotten>>

(* Mutant of Room: the last place is given away twice.                     *)
RoomForOneMore(n) == n <= MaxRequests

Room(n) == n < MaxRequests

(* After a failed count, the count is taken to be zero.                    *)
Count(r) ==
  /\ phase[r] = "count"
  /\ \/ /\ phase' = [phase EXCEPT ![r] =
                       IF Room(Cardinality(window)) THEN "add" ELSE "denied"]
        /\ Answered(r)
     \/ phase' = [phase EXCEPT ![r] = "add"] /\ Erred(r)
  /\ UNCHANGED <<limiterNow, asked, window, expires, resetting, forgotten>>

Add(r) ==
  /\ phase[r] = "add"
  /\ phase' = [phase EXCEPT ![r] = "renew"]
  /\ \/ SetWindow(window \cup {r}) /\ (Answered(r) \/ Erred(r))
     \/ UNCHANGED <<window, expires>> /\ Erred(r)
  /\ UNCHANGED <<limiterNow, asked, resetting, forgotten>>

(* expire does nothing when the key has gone meanwhile.                    *)
Renew(r) ==
  /\ phase[r] = "renew"
  /\ phase' = [phase EXCEPT ![r] = "allowed"]
  /\ \/ /\ expires' = IF window = {} THEN 0 ELSE limiterNow + Ttl
        /\ Answered(r) \/ Erred(r)
     \/ UNCHANGED expires /\ Erred(r)
  /\ UNCHANGED <<limiterNow, asked, window, resetting, forgotten>>

-----------------------------------------------------------------------------
(* The key goes, with the entries added since it was looked at.            *)
Forget ==
  /\ window' = {} /\ expires' = 0
  /\ forgotten' = forgotten \cup window

ResetKeys ==
  /\ ~resetting /\ window # {}
  /\ resetting' = TRUE
  /\ UNCHANGED <<limiterNow, phase, asked, rejected, window, expires, forgotten>>

ResetDel ==
  /\ resetting
  /\ resetting' = FALSE
  /\ Forget
  /\ UNCHANGED <<limiterNow, phase, asked, rejected>>

LimiterTick ==
  /\ limiterNow < LimiterEnd
  /\ limiterNow' = limiterNow + 1
  /\ IF expires # 0 /\ expires <= limiterNow + 1
     THEN Forget ELSE UNCHANGED <<window, expires, forgotten>>
  /\ UNCHANGED <<phase, asked, rejected, resetting>>

LimiterNext ==
  \/ \E r \in Asker : CheckLimit(r) \/ Trim(r) \/ Count(r) \/ Add(r) \/ Renew(r)
  \/ ResetKeys \/ ResetDel \/ LimiterTick

LimiterSpec == LimiterInit /\ [][LimiterNext]_limiterVars

-----------------------------------------------------------------------------
LimiterTypeOK ==
  /\ limiterNow \in Nat
  /\ phase \in [Asker -> Calling \cup {"idle", "denied", "unlimited", "allowed"}]
  /\ asked \in [Asker -> Nat]
  /\ rejected \subseteq Asker /\ window \subseteq Asker /\ forgotten \subseteq Asker
  /\ expires \in Nat /\ resetting \in BOOLEAN

(* The requests of the last window that checkLimit let through and counted *)
Recent == {r \in Asker : phase[r] = "allowed" /\ r \notin rejected
                         /\ asked[r] + WindowMs > limiterNow}

(* However the calls of concurrent requests interleave and fail, a window  *)
(* holds at most the limit and one for every other request under way; the  *)
(* only way past that is an entry deleted by a reset or with its key.      *)
OvershootBounded ==
  Cardinality(Recent \ forgotten) <= MaxRequests + Concurrency - 1

=============================================================================
