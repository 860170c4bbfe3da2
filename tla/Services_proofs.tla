--------------------------- MODULE Services_proofs ---------------------------
(***************************************************************************)
(* Proofs about the services beside the indexer's loop, for any requests,  *)
(* jobs, processes and bounds: what the rate limiter may let through, what *)
(* the job queue keeps, what the table of migrations says, and how often   *)
(* the backend's idempotency middleware lets a handler run.                *)
(***************************************************************************)
EXTENDS RateLimiter, JobQueue, Migrations, IdempotencyGate, FiniteSetTheorems, TLAPS

-----------------------------------------------------------------------------
(* The rate limiter                                                        *)

(* The requests that have a place, or are about to take one                *)
Holders == {r \in Asker \ rejected : r \in window \/ phase[r] = "add"}

(* The concurrency bounds the requests under way, and with the limit those *)
(* that hold a place; a granted request of the last window has its entry,  *)
(* since nothing trims what is younger than the clock.                     *)
LimiterInv ==
  /\ LimiterTypeOK
  /\ \A r \in Asker : asked[r] <= limiterNow
  /\ Cardinality(UnderWay) <= Concurrency
  /\ Cardinality(Holders) <= MaxRequests + Concurrency - 1
  /\ \A r \in Asker \ rejected :
       phase[r] \in {"renew", "allowed"} /\ asked[r] + WindowMs > limiterNow
         => r \in window \cup forgotten

(* What the assumption says of each constant.                              *)
LEMMA LimiterNumbers ==
  /\ Requests \in Nat /\ LimiterEnd \in Nat
  /\ MaxRequests \in Nat \ {0} /\ WindowMs \in Nat \ {0}
  /\ Ttl \in Nat \ {0} /\ Concurrency \in Nat \ {0}
BY LimiterAssumption DEF LimiterAssumption

(* Sets of requests are finite, and a part has no more members.            *)
LEMMA AskersFinite ==
  ASSUME NEW S \in SUBSET Asker, NEW R \in SUBSET S
  PROVE  /\ IsFiniteSet(S) /\ Cardinality(S) \in Nat
         /\ IsFiniteSet(R) /\ Cardinality(R) \in Nat /\ Cardinality(R) <= Cardinality(S)
<1>1. IsFiniteSet(Asker)
  BY FS_Interval, LimiterNumbers DEF Asker
<1>2. IsFiniteSet(S)
  BY <1>1, FS_Subset
<1> QED
  BY <1>2, FS_Subset, FS_CardinalityType

(* A request that begins finds one place free among those under way.       *)
LEMMA BeginsWithinBound ==
  ASSUME LimiterInv, NEW r \in Asker, CheckLimit(r)
  PROVE  Cardinality(UnderWay') <= Concurrency
<1>1. UnderWay \in SUBSET Asker /\ UnderWay' \subseteq UnderWay \cup {r}
  BY DEF UnderWay, CheckLimit, LimiterInv, LimiterTypeOK, Calling
<1>2. IsFiniteSet(UnderWay) /\ Cardinality(UnderWay) \in Nat
  BY <1>1, AskersFinite
<1>3. /\ Cardinality(UnderWay \cup {r}) \in Nat
      /\ Cardinality(UnderWay \cup {r}) <= Cardinality(UnderWay) + 1
  <2>1. IsFiniteSet(UnderWay \cup {r})
    BY <1>2, FS_AddElement
  <2>2. Cardinality(UnderWay \cup {r}) = IF r \in UnderWay THEN Cardinality(UnderWay)
                                         ELSE Cardinality(UnderWay) + 1
    BY <1>2, FS_AddElement
  <2> QED
    BY <1>2, <2>1, <2>2, FS_CardinalityType
<1>4. UnderWay \cup {r} \in SUBSET Asker /\ UnderWay' \in SUBSET (UnderWay \cup {r})
  BY <1>1
<1>5. Cardinality(UnderWay') \in Nat /\ Cardinality(UnderWay') <= Cardinality(UnderWay \cup {r})
  BY <1>4, AskersFinite
<1>6. Cardinality(UnderWay) < Concurrency
  BY DEF CheckLimit
<1> QED
  BY <1>2, <1>3, <1>5, <1>6, LimiterNumbers

(* A count that finds room: the window is below the limit, and no more     *)
(* requests than the concurrency add to it after their counts.             *)
LEMMA RoomWithinBound ==
  ASSUME LimiterInv, NEW r \in Asker, phase[r] = "count",
         Room(Cardinality(window)),
         phase' = [phase EXCEPT ![r] = "add"], UNCHANGED <<window, rejected>>
  PROVE  Cardinality(Holders') <= MaxRequests + Concurrency - 1
<1> DEFINE adders == {q \in UnderWay : q = r \/ phase[q] = "add"}
<1>1. /\ window \in SUBSET Asker /\ UnderWay \in SUBSET Asker
      /\ adders \in SUBSET UnderWay /\ window \cup adders \in SUBSET Asker
  BY DEF LimiterInv, LimiterTypeOK, UnderWay
<1>2. Holders' \in SUBSET (window \cup adders)
  BY DEF Holders, UnderWay, Calling, LimiterInv, LimiterTypeOK
<1>3. /\ IsFiniteSet(window) /\ Cardinality(window) \in Nat
      /\ IsFiniteSet(adders) /\ Cardinality(adders) \in Nat
      /\ Cardinality(adders) <= Cardinality(UnderWay) /\ Cardinality(UnderWay) \in Nat
  BY <1>1, AskersFinite
<1>4. /\ Cardinality(Holders') \in Nat /\ Cardinality(window \cup adders) \in Nat
      /\ Cardinality(Holders') <= Cardinality(window \cup adders)
  BY <1>1, <1>2, AskersFinite
<1>5. IsFiniteSet(window \cap adders) /\ Cardinality(window \cap adders) \in Nat
  BY <1>3, FS_Subset, FS_CardinalityType
<1>6. Cardinality(window \cup adders)
        = Cardinality(window) + Cardinality(adders) - Cardinality(window \cap adders)
  BY <1>3, FS_Union
<1>7. Cardinality(window) < MaxRequests /\ Cardinality(UnderWay) <= Concurrency
  BY DEF Room, LimiterInv
<1> QED
  BY <1>3, <1>4, <1>5, <1>6, <1>7, LimiterNumbers

(* When nobody else takes a place the bounds stay.                         *)
LEMMA FewerWithinBound ==
  ASSUME LimiterInv,
         UnderWay' \subseteq UnderWay, Holders' \subseteq Holders
  PROVE  /\ Cardinality(UnderWay') <= Concurrency
         /\ Cardinality(Holders') <= MaxRequests + Concurrency - 1
<1>1. UnderWay \in SUBSET Asker /\ Holders \in SUBSET Asker
  BY DEF UnderWay, Holders
<1>2. /\ Cardinality(UnderWay') \in Nat /\ Cardinality(UnderWay) \in Nat
      /\ Cardinality(UnderWay') <= Cardinality(UnderWay)
      /\ Cardinality(Holders') \in Nat /\ Cardinality(Holders) \in Nat
      /\ Cardinality(Holders') <= Cardinality(Holders)
  BY <1>1, AskersFinite
<1> QED
  BY <1>2, LimiterNumbers DEF LimiterInv

LEMMA LimiterTypeStep ==
  ASSUME LimiterTypeOK, LimiterNext
  PROVE  LimiterTypeOK'
<1> USE LimiterNumbers DEF LimiterTypeOK, Calling
<1>1. ASSUME NEW r \in Asker, CheckLimit(r)
      PROVE  LimiterTypeOK'
  BY <1>1 DEF CheckLimit
<1>2. ASSUME NEW r \in Asker, Trim(r)
      PROVE  LimiterTypeOK'
  BY <1>2 DEF Trim, SetWindow, Stale, Answered, Erred
<1>3. ASSUME NEW r \in Asker, Count(r)
      PROVE  LimiterTypeOK'
  BY <1>3 DEF Count, Answered, Erred
<1>4. ASSUME NEW r \in Asker, Add(r)
      PROVE  LimiterTypeOK'
  BY <1>4 DEF Add, SetWindow, Answered, Erred
<1>5. ASSUME NEW r \in Asker, Renew(r)
      PROVE  LimiterTypeOK'
  BY <1>5 DEF Renew, Answered, Erred
<1>6. CASE ResetKeys
  BY <1>6 DEF ResetKeys
<1>7. CASE ResetDel
  BY <1>7 DEF ResetDel, Forget
<1>8. CASE LimiterTick
  BY <1>8 DEF LimiterTick, Forget
<1> QED
  BY <1>1, <1>2, <1>3, <1>4, <1>5, <1>6, <1>7, <1>8 DEF LimiterNext

LEMMA LimiterStep ==
  ASSUME LimiterInv, LimiterNext
  PROVE  LimiterInv'
<1> USE LimiterNumbers
<1>1. LimiterTypeOK'
  BY LimiterTypeStep DEF LimiterInv
<1>2. ASSUME NEW r \in Asker, CheckLimit(r)
      PROVE  LimiterInv'
  <2>1. Holders' = Holders
    BY <1>2 DEF CheckLimit, Holders, LimiterInv, LimiterTypeOK
  <2> QED
    BY <1>1, <1>2, <2>1, BeginsWithinBound
    DEF LimiterInv, LimiterTypeOK, CheckLimit
<1>3. ASSUME NEW r \in Asker, Trim(r)
      PROVE  LimiterInv'
  <2>1. UnderWay' \subseteq UnderWay /\ Holders' \subseteq Holders
    BY <1>3 DEF Trim, SetWindow, Answered, Erred, UnderWay, Holders, Calling,
                LimiterInv, LimiterTypeOK
  <2>2. \A q \in Stale(r) : asked[q] + WindowMs <= limiterNow
    BY <1>3 DEF Stale, LimiterInv, LimiterTypeOK
  <2> QED
    BY <1>1, <1>3, <2>1, <2>2, FewerWithinBound
    DEF LimiterInv, LimiterTypeOK, Trim, SetWindow, Answered, Erred
<1>4. ASSUME NEW r \in Asker, Count(r)
      PROVE  LimiterInv'
  <2>1. UnderWay' \subseteq UnderWay
    BY <1>4 DEF Count, UnderWay, Calling, LimiterInv, LimiterTypeOK
  <2>2. Cardinality(UnderWay') <= Concurrency
    <3>1. UnderWay \in SUBSET Asker
      BY DEF UnderWay
    <3> QED
      BY <2>1, <3>1, AskersFinite DEF LimiterInv
  <2>3. Cardinality(Holders') <= MaxRequests + Concurrency - 1
    <3>1. CASE Answered(r) /\ phase' = [phase EXCEPT ![r] = "add"]
                 /\ Room(Cardinality(window))
      BY <1>4, <3>1, RoomWithinBound DEF Count, Answered
    <3>2. CASE ~(Answered(r) /\ phase' = [phase EXCEPT ![r] = "add"]
                 /\ Room(Cardinality(window)))
      <4>1. Holders' \subseteq Holders
        BY <1>4, <3>2 DEF Count, Erred, Answered, Holders, LimiterInv, LimiterTypeOK
      <4> QED
        BY <2>1, <4>1, FewerWithinBound
    <3> QED
      BY <3>1, <3>2
  <2> QED
    BY <1>1, <1>4, <2>2, <2>3
    DEF LimiterInv, LimiterTypeOK, Count, Answered, Erred
<1>5. ASSUME NEW r \in Asker, Add(r)
      PROVE  LimiterInv'
  <2>1. UnderWay' \subseteq UnderWay /\ Holders' \subseteq Holders
    BY <1>5 DEF Add, SetWindow, Answered, Erred, UnderWay, Holders, Calling,
                LimiterInv, LimiterTypeOK
  <2> QED
    BY <1>1, <1>5, <2>1, FewerWithinBound
    DEF LimiterInv, LimiterTypeOK, Add, SetWindow, Answered, Erred
<1>6. ASSUME NEW r \in Asker, Renew(r)
      PROVE  LimiterInv'
  <2>1. UnderWay' \subseteq UnderWay /\ Holders' \subseteq Holders
    BY <1>6 DEF Renew, Answered, Erred, UnderWay, Holders, Calling,
                LimiterInv, LimiterTypeOK
  <2> QED
    BY <1>1, <1>6, <2>1, FewerWithinBound
    DEF LimiterInv, LimiterTypeOK, Renew, Answered, Erred
<1>7. CASE ResetKeys \/ ResetDel \/ LimiterTick
  <2>1. UnderWay' \subseteq UnderWay /\ Holders' \subseteq Holders
    BY <1>7 DEF ResetKeys, ResetDel, LimiterTick, Forget, UnderWay, Holders
  <2> QED
    BY <1>1, <1>7, <2>1, FewerWithinBound
    DEF LimiterInv, LimiterTypeOK, ResetKeys, ResetDel, LimiterTick, Forget
<1> QED
  BY <1>2, <1>3, <1>4, <1>5, <1>6, <1>7 DEF LimiterNext

(* The invariant holds in every reachable state.                           *)
LEMMA LimiterCorrect == LimiterSpec => []LimiterInv
<1>1. LimiterInit => LimiterInv
  <2> SUFFICES ASSUME LimiterInit PROVE LimiterInv
    OBVIOUS
  <2>1. UnderWay = {} /\ Holders = {}
    BY DEF LimiterInit, UnderWay, Holders, Calling
  <2>2. Cardinality({}) = 0
    BY FS_EmptySet
  <2>3. LimiterTypeOK
    BY LimiterNumbers DEF LimiterInit, LimiterTypeOK
  <2> QED
    BY <2>1, <2>2, <2>3, LimiterNumbers DEF LimiterInit, LimiterInv
<1>2. LimiterInv /\ [LimiterNext]_limiterVars => LimiterInv'
  <2> SUFFICES ASSUME LimiterInv, [LimiterNext]_limiterVars PROVE LimiterInv'
    OBVIOUS
  <2>1. CASE LimiterNext
    BY <2>1, LimiterStep
  <2>2. CASE UNCHANGED limiterVars
    BY <2>2 DEF limiterVars, LimiterInv, LimiterTypeOK, UnderWay, Holders
  <2> QED
    BY <2>1, <2>2
<1> QED
  BY <1>1, <1>2, PTL DEF LimiterSpec

(* A window lets through at most the limit and one for every other request *)
(* under way, however the calls of checkLimit interleave and fail.         *)
THEOREM OvershootIsBounded == LimiterSpec => []OvershootBounded
<1>1. LimiterInv => OvershootBounded
  <2> SUFFICES ASSUME LimiterInv PROVE OvershootBounded
    OBVIOUS
  <2>1. Holders \in SUBSET Asker /\ Recent \ forgotten \in SUBSET Holders
    BY DEF Holders, Recent, LimiterInv
  <2>2. /\ Cardinality(Holders) \in Nat /\ Cardinality(Recent \ forgotten) \in Nat
        /\ Cardinality(Recent \ forgotten) <= Cardinality(Holders)
    BY <2>1, AskersFinite
  <2> QED
    BY <2>2, LimiterNumbers DEF LimiterInv, OvershootBounded
<1> QED
  BY <1>1, LimiterCorrect, PTL

-----------------------------------------------------------------------------
(* The job queue                                                           *)

(* A worker has one copy, of a run of its own, and knows how it ended      *)
(* before it writes anything.                                              *)
CopiesInv ==
  \A w \in Worker : \A c \in current[w] :
    /\ c.run # 0 /\ \A d \in current[w] : c = d
    /\ doing[w] = "retry" => c.status = "pending"
    /\ doing[w] \in {"remove", "save"} => c.status # "processing"

(* The entries enqueue made are those of the jobs enqueued.                *)
FirstEntries ==
  /\ \A e \in entries : e.run = 0 => e.job \in enqueued
  /\ \A j \in enqueued : \E e \in entries : e.job = j /\ e.run = 0

(* Those a run made match its copy until it has removed them.              *)
RetryEntries ==
  \A e \in entries : e.run # 0 =>
    \/ e.run \in interrupted
    \/ \E w \in Worker : /\ doing[w] = "remove"
                        /\ \E c \in current[w] : c.status = "pending" /\ e = Text(c, e.score)

JobInv == JobTypeOK /\ CopiesInv /\ FirstEntries /\ RetryEntries

LEMMA TextIsEntry ==
  ASSUME NEW c \in Copy, NEW s \in Nat
  PROVE  Text(c, s) \in Entry /\ Text(c, s).run = c.run
BY DEF Text, Copy, Entry

LEMMA EnqueueKeeps ==
  ASSUME JobInv, NEW j \in Job, Enqueue(j) \/ RecordEnqueued(j)
  PROVE  JobInv'
<1>1. CASE Enqueue(j)
  <2> PICK s \in Score :
        entries' = entries \cup {[job |-> j, attempts |-> 0, run |-> 0, score |-> s]}
    BY <1>1 DEF Enqueue
  <2>1. [job |-> j, attempts |-> 0, run |-> 0, score |-> s] \in Entry
    BY JobAssumption DEF Entry, JobAssumption
  <2>2. JobTypeOK'
    BY <1>1, <2>1 DEF JobInv, JobTypeOK, Enqueue
  <2>3. CopiesInv' /\ RetryEntries'
    BY <1>1 DEF JobInv, CopiesInv, RetryEntries, Enqueue
  <2>4. /\ [job |-> j, attempts |-> 0, run |-> 0, score |-> s] \in entries'
        /\ entries \subseteq entries' /\ enqueued' = enqueued \cup {j}
    BY <1>1 DEF Enqueue
  <2>5. \A e \in entries' : e.run = 0 => e.job \in enqueued'
    BY <2>4 DEF JobInv, FirstEntries
  <2>6. \A k \in enqueued' : \E e \in entries' : e.job = k /\ e.run = 0
    <3> SUFFICES ASSUME NEW k \in enqueued' PROVE \E e \in entries' : e.job = k /\ e.run = 0
      OBVIOUS
    <3>1. CASE k = j
      BY <2>4, <3>1
    <3>2. CASE k \in enqueued
      BY <2>4, <3>2 DEF JobInv, FirstEntries
    <3> QED
      BY <2>4, <3>1, <3>2
  <2> QED
    BY <2>2, <2>3, <2>5, <2>6 DEF JobInv, FirstEntries
<1>2. CASE RecordEnqueued(j)
  BY <1>2 DEF RecordEnqueued, JobInv, JobTypeOK, CopiesInv, FirstEntries, RetryEntries, States
<1> QED
  BY <1>1, <1>2

LEMMA ProcessKeeps ==
  ASSUME JobInv, NEW w \in Worker, ProcessQueue(w)
  PROVE  JobInv'
<1> PICK e \in entries :
      current' = [current EXCEPT ![w] =
        {[job |-> e.job, attempts |-> e.attempts + 1, run |-> runs + 1,
          score |-> e.score, status |-> "processing"]}]
  BY DEF ProcessQueue
<1>1. [job |-> e.job, attempts |-> e.attempts + 1, run |-> runs + 1,
       score |-> e.score, status |-> "processing"] \in Copy
  BY DEF JobInv, JobTypeOK, Entry, Copy
<1>2. JobTypeOK'
  BY <1>1 DEF JobInv, JobTypeOK, ProcessQueue
<1>3. CopiesInv' /\ FirstEntries' /\ RetryEntries'
  BY DEF JobInv, JobTypeOK, CopiesInv, FirstEntries, RetryEntries, ProcessQueue
<1> QED
  BY <1>2, <1>3 DEF JobInv

LEMMA ExecuteJobKeeps ==
  ASSUME JobInv, NEW w \in Worker, ExecuteJob(w)
  PROVE  JobInv'
<1> PICK c \in current[w], status \in {"completed", "pending", "failed"} :
      /\ current' = [current EXCEPT ![w] = {[c EXCEPT !.status = status]}]
      /\ doing' = [doing EXCEPT ![w] = IF status = "pending" THEN "retry" ELSE "remove"]
  BY DEF ExecuteJob
<1>1. c \in Copy /\ c.run # 0
  BY DEF JobInv, JobTypeOK, CopiesInv
<1>2. /\ [c EXCEPT !.status = status] \in Copy
      /\ [c EXCEPT !.status = status].run = c.run
      /\ [c EXCEPT !.status = status].status = status
  BY <1>1 DEF Copy
<1>3. JobTypeOK'
  BY <1>2 DEF JobInv, JobTypeOK, ExecuteJob
<1>4. CopiesInv' /\ FirstEntries'
  <2> DEFINE d == [c EXCEPT !.status = status]
  <2>1. d.run # 0 /\ d.status = status
    BY <1>1, <1>2
  <2> HIDE DEF d
  <2>2. current' = [current EXCEPT ![w] = {d}]
    BY DEF d
  <2>3. doing' = [doing EXCEPT ![w] = IF status = "pending" THEN "retry" ELSE "remove"]
    OBVIOUS
  <2>4. CopiesInv'
    BY <2>1, <2>2, <2>3 DEF JobInv, JobTypeOK, CopiesInv
  <2> QED
    BY <2>4 DEF JobInv, FirstEntries, ExecuteJob
<1>5. RetryEntries'
  BY DEF JobInv, JobTypeOK, RetryEntries, ExecuteJob
<1> QED
  BY <1>3, <1>4, <1>5 DEF JobInv

(* A call that fails, and a crash, make the run one that was interrupted.  *)
LEMMA FailedKeeps ==
  ASSUME JobInv, NEW w \in Worker, NEW to \in {"idle", "remove", "save"},
         doing[w] \in {"retry", "remove"} \/ to # "remove",
         to # "save" \/ doing[w] = "remove",
         Failed(w, to)
  PROVE  JobInv'
<1>1. JobTypeOK'
  <2>1. \A c \in current[w] : c.run \in Nat
    BY DEF JobInv, JobTypeOK, Copy
  <2> QED
    BY <2>1 DEF JobInv, JobTypeOK, Failed, Carried
<1>2. CopiesInv' /\ FirstEntries'
  BY DEF JobInv, JobTypeOK, CopiesInv, FirstEntries, Failed, Carried
<1>3. RetryEntries'
  <2> SUFFICES ASSUME NEW e \in entries, e.run # 0, e.run \notin interrupted'
               PROVE  \E u \in Worker :
                        /\ doing'[u] = "remove"
                        /\ \E c \in current'[u] : c.status = "pending" /\ e = Text(c, e.score)
    BY DEF RetryEntries, Failed
  <2>1. PICK u \in Worker :
          /\ doing[u] = "remove"
          /\ \E c \in current[u] : c.status = "pending" /\ e = Text(c, e.score)
    BY DEF JobInv, RetryEntries, Failed
  <2>2. PICK c \in current[u] : c.status = "pending" /\ e = Text(c, e.score)
    BY <2>1
  <2>3. c.run = e.run
    BY <2>2 DEF Text
  <2>4. u # w
    BY <2>2, <2>3 DEF Failed
  <2> QED
    BY <2>1, <2>2, <2>4 DEF Failed, Carried, JobInv, JobTypeOK
<1> QED
  BY <1>1, <1>2, <1>3 DEF JobInv

LEMMA RetryKeeps ==
  ASSUME JobInv, NEW w \in Worker, Retry(w)
  PROVE  JobInv'
<1>1. CASE Failed(w, "remove")
  BY <1>1, FailedKeeps DEF Retry
<1>2. CASE ~Failed(w, "remove")
  <2> PICK c \in current[w], s \in Score : entries' = entries \cup {Text(c, s)}
    BY <1>2 DEF Retry
  <2>1. /\ doing[w] = "retry" /\ Carried(w, "remove")
        /\ UNCHANGED <<record, interrupted>>
    BY <1>2 DEF Retry
  <2>2. c \in Copy /\ s \in Nat /\ c.status = "pending" /\ c.run # 0
    BY <2>1, JobAssumption DEF JobInv, JobTypeOK, CopiesInv, JobAssumption
  <2>3. Text(c, s) \in Entry /\ Text(c, s).run = c.run /\ Text(c, s) = Text(c, Text(c, s).score)
    BY <2>2, TextIsEntry DEF Text
  <2>4. JobTypeOK'
    BY <2>1, <2>3 DEF JobInv, JobTypeOK, Carried
  <2>5. CopiesInv'
    BY <2>1 DEF JobInv, JobTypeOK, CopiesInv, Carried
  <2>6. FirstEntries'
    BY <2>1, <2>2, <2>3 DEF JobInv, FirstEntries, Carried
  <2>7. RetryEntries'
    BY <2>1, <2>2, <2>3 DEF JobInv, JobTypeOK, RetryEntries, Carried
  <2> QED
    BY <2>4, <2>5, <2>6, <2>7 DEF JobInv
<1> QED
  BY <1>1, <1>2

LEMMA RemoveKeeps ==
  ASSUME JobInv, NEW w \in Worker, Remove(w)
  PROVE  JobInv'
<1>1. CASE Failed(w, "save")
  BY <1>1, FailedKeeps DEF Remove
<1>2. CASE ~Failed(w, "save")
  <2> PICK c \in current[w] : entries' = entries \ Matching(c)
    BY <1>2 DEF Remove
  <2>1. /\ doing[w] = "remove" /\ Carried(w, "save")
        /\ UNCHANGED <<record, interrupted>>
    BY <1>2 DEF Remove
  <2>2. c \in Copy /\ c.run # 0 /\ \A d \in current[w] : d = c
    BY DEF JobInv, JobTypeOK, CopiesInv
  <2>3. \A e \in Matching(c) : e.run = c.run
    BY DEF Matching, Text
  <2>4. JobTypeOK'
    BY <2>1 DEF JobInv, JobTypeOK, Carried
  <2>5. CopiesInv'
    BY <2>1 DEF JobInv, JobTypeOK, CopiesInv, Carried
  <2>6. FirstEntries'
    BY <2>1, <2>2, <2>3 DEF JobInv, FirstEntries, Carried
  <2>7. RetryEntries'
    BY <2>1, <2>2 DEF JobInv, JobTypeOK, RetryEntries, Carried, Matching
  <2> QED
    BY <2>4, <2>5, <2>6, <2>7 DEF JobInv
<1> QED
  BY <1>1, <1>2

LEMMA SaveKeeps ==
  ASSUME JobInv, NEW w \in Worker, Save(w) \/ Crash(w)
  PROVE  JobInv'
<1>1. CASE Failed(w, "idle")
  BY <1>1, FailedKeeps
<1>2. CASE ~Failed(w, "idle")
  <2> PICK c \in current[w] : record' = [record EXCEPT ![c.job] = c.status]
    BY <1>2 DEF Save, Crash
  <2>1. /\ doing[w] = "save" /\ Carried(w, "idle")
        /\ UNCHANGED <<entries, interrupted>>
    BY <1>2 DEF Save, Crash
  <2>2. c \in Copy /\ c.status # "processing"
    BY <2>1 DEF JobInv, JobTypeOK, CopiesInv
  <2>3. c.job \in Job /\ c.status \in States
    BY <2>2 DEF Copy, States
  <2>4. JobTypeOK'
    BY <2>1, <2>3 DEF JobInv, JobTypeOK, Carried
  <2>5. CopiesInv' /\ FirstEntries' /\ RetryEntries'
    BY <2>1 DEF JobInv, JobTypeOK, CopiesInv, FirstEntries, RetryEntries, Carried
  <2> QED
    BY <2>4, <2>5 DEF JobInv
<1> QED
  BY <1>1, <1>2

(* The invariant holds in every reachable state.                           *)
LEMMA JobsCorrect == JobSpec => []JobInv
<1>1. JobInit => JobInv
  BY DEF JobInit, JobInv, JobTypeOK, CopiesInv, FirstEntries, RetryEntries, States
<1>2. JobInv /\ [JobNext]_jobVars => JobInv'
  <2> SUFFICES ASSUME JobInv, [JobNext]_jobVars PROVE JobInv'
    OBVIOUS
  <2>1. CASE JobNext
    BY <2>1, EnqueueKeeps, ProcessKeeps, ExecuteJobKeeps, RetryKeeps, RemoveKeeps, SaveKeeps
    DEF JobNext
  <2>2. CASE UNCHANGED jobVars
    BY <2>2 DEF jobVars, JobInv, JobTypeOK, CopiesInv, FirstEntries, RetryEntries
  <2> QED
    BY <2>1, <2>2
<1> QED
  BY <1>1, <1>2, PTL DEF JobSpec

(* No job leaves the sorted set, and an entry of a retry stays there only  *)
(* if its run was interrupted (enqueue, executeJob, updateJobStatus).      *)
THEOREM QueueKeepsJobs == JobSpec => []NeitherLostNorPiledUp
<1>1. JobInv => NeitherLostNorPiledUp
  <2> SUFFICES ASSUME JobInv PROVE NeitherLostNorPiledUp
    OBVIOUS
  <2>1. {e.job : e \in {f \in entries : f.run = 0}} = enqueued
    BY DEF JobInv, FirstEntries
  <2>2. \A e \in entries, w \in Worker : \A c \in current[w] : e = Text(c, e.score) => c.run = e.run
    BY DEF Text
  <2> QED
    BY <2>1, <2>2 DEF JobInv, RetryEntries, NeitherLostNorPiledUp
<1> QED
  BY <1>1, JobsCorrect, PTL

-----------------------------------------------------------------------------
(* The migrations                                                          *)

Passed(p) == IF place[p] \in {"select", "execute", "insert", "migrated"}
             THEN 1 .. file[p] - 1 ELSE {}

(* Tables that exist are recorded, about to be, or known to be left over.  *)
Noted ==
  /\ doubled \subseteq tables
  /\ \A m \in tables : m \in recorded \cup broken \/ AtRow(m) # {}
  /\ DoublingFails

(* A process is at one of the files, and has executed what it will record. *)
MigrateInv ==
  /\ MigrateTypeOK
  /\ \A p \in Process : place[p] \in {"execute", "insert", "undo", "delete"} => file[p] \in Migration
  /\ \A p \in Process : place[p] = "insert" => file[p] \in tables \cup undone
  /\ recorded \subseteq tables \cup undone
  /\ \A p \in Process : Passed(p) \subseteq tables \cup undone

(* Who else is at the row of a migration stays there.                      *)
LEMMA RowsOfOthers ==
  ASSUME NEW p \in Process, NEW m,
         \A q \in Process \ {p} : place'[q] = place[q] /\ file'[q] = file[q]
  PROVE  AtRow(m)' \ {p} = AtRow(m) \ {p}
BY DEF AtRow

LEMMA NotedStep ==
  ASSUME MigrateInv, Noted, NEW p \in Process, MigrateStep(p)
  PROVE  Noted'
<1> USE DEF At, Go
<1>1. /\ place \in [Process -> Queries \cup {"down", "migrated"}]
      /\ file \in [Process -> 1 .. Files + 1]
  BY DEF MigrateInv, MigrateTypeOK
<1>2. \A q \in Process \ {p} : place'[q] = place[q] /\ file'[q] = file[q]
  BY <1>1 DEF MigrateStep, Begin, LookUp, Execute, Insert, Last, Undo, Delete, Fail
<1>3. \A m : AtRow(m)' \ {p} = AtRow(m) \ {p}
  BY <1>2, RowsOfOthers
<1>4. ASSUME UNCHANGED <<tables, records>>, place[p] # "insert", place'[p] # "insert"
      PROVE  Noted'
  <2>1. \A m : AtRow(m)' = AtRow(m)
    BY <1>3, <1>4 DEF AtRow
  <2> QED BY <1>4, <2>1 DEF Noted, DoublingFails, records
<1>5. CASE Begin(p) \/ LookUp(p) \/ Last(p)
  <2>1. place[p] # "insert" /\ place'[p] # "insert" /\ UNCHANGED <<tables, records>>
    BY <1>1, <1>5 DEF Begin, LookUp, Last
  <2> QED BY <1>4, <2>1
<1>6. CASE Execute(p)
  <2>1. /\ tables' = tables \cup {file[p]} /\ doubled' = doubled \cup ({file[p]} \cap tables)
        /\ recorded' = recorded /\ broken' = broken
        /\ place[p] # "insert" /\ place'[p] = "insert" /\ file'[p] = file[p]
    BY <1>1, <1>6 DEF Execute
  <2>2. /\ \A m : m # file[p] => AtRow(m)' = AtRow(m)
        /\ AtRow(file[p])' = AtRow(file[p]) \cup {p} /\ p \notin AtRow(file[p])
    BY <1>3, <2>1 DEF AtRow
  <2> QED BY <2>1, <2>2 DEF Noted, DoublingFails
<1>7. CASE Insert(p)
  <2>0. PICK f : f = file[p]
    OBVIOUS
  <2>1. /\ tables' = tables /\ doubled' = doubled /\ broken' = broken
        /\ recorded' = recorded \cup {f} /\ f \notin recorded
        /\ place[p] = "insert" /\ place'[p] # "insert"
    BY <1>1, <1>7, <2>0 DEF Insert
  <2>2. \A m : p \notin AtRow(m)' /\ (p \in AtRow(m) => m = f)
    BY <2>0, <2>1 DEF AtRow
  <2>3. \A m : m # f => AtRow(m)' = AtRow(m)
    BY <1>3, <2>2
  <2>4. AtRow(f)' = AtRow(f) \ {p}
    BY <1>3, <2>2
  <2> QED BY <2>1, <2>3, <2>4 DEF Noted, DoublingFails
<1>8. CASE Undo(p)
  <2>1. /\ tables' = tables \ {file[p]} /\ doubled' = doubled \ {file[p]}
        /\ broken' = broken \ {file[p]} /\ recorded' = recorded
        /\ place[p] # "insert" /\ place'[p] # "insert"
    BY <1>1, <1>8 DEF Undo
  <2>2. \A m : AtRow(m)' = AtRow(m)
    BY <1>3, <2>1 DEF AtRow
  <2> QED BY <2>1, <2>2 DEF Noted, DoublingFails
<1>9. CASE Delete(p)
  <2>1. /\ tables' = tables /\ doubled' = doubled /\ recorded' = recorded \ {file[p]}
        /\ broken' = broken \cup ({file[p]} \cap tables)
        /\ place[p] # "insert" /\ place'[p] # "insert"
    BY <1>1, <1>9 DEF Delete
  <2>2. \A m : AtRow(m)' = AtRow(m)
    BY <1>3, <2>1 DEF AtRow
  <2> QED BY <2>1, <2>2 DEF Noted, DoublingFails
<1>10. CASE Fail(p)
  <2>1. /\ tables' = tables /\ doubled' = doubled /\ recorded' = recorded
        /\ broken' = broken \cup (IF place[p] = "insert" THEN {file[p]} ELSE {})
        /\ place'[p] # "insert"
    BY <1>1, <1>10 DEF Fail
  <2>2. \A m : m # file[p] \/ place[p] # "insert" => AtRow(m)' = AtRow(m)
    BY <1>3, <2>1 DEF AtRow
  <2> QED BY <2>1, <2>2 DEF Noted, DoublingFails
<1> QED BY <1>5, <1>6, <1>7, <1>8, <1>9, <1>10 DEF MigrateStep

LEMMA UpKeeps ==
  ASSUME MigrateInv, NEW p \in Process,
         Begin(p) \/ LookUp(p) \/ Execute(p) \/ Insert(p)
  PROVE  MigrateInv'
<1> USE FilesAssumption DEF FilesAssumption, Migration, Queries, At, Go, records
<1>1. MigrateTypeOK'
  <2>1. CASE Begin(p)
    BY <2>1 DEF MigrateInv, MigrateTypeOK, Begin
  <2>2. CASE LookUp(p)
    BY <2>2 DEF MigrateInv, MigrateTypeOK, LookUp
  <2>3. CASE Execute(p)
    BY <2>3 DEF MigrateInv, MigrateTypeOK, Execute
  <2>4. CASE Insert(p)
    <3>1. file[p] \in 1 .. Files
      BY <2>4 DEF Insert, MigrateInv
    <3>2. file[p] + 1 \in 1 .. Files + 1
      BY <3>1
    <3>3. /\ file' \in [Process -> 1 .. Files + 1]
          /\ place' \in [Process -> Queries \cup {"down", "migrated"}]
      BY <2>4, <3>2 DEF Insert, MigrateInv, MigrateTypeOK
    <3>4. /\ tables' \subseteq Migration /\ recorded' \subseteq Migration
          /\ undone' \subseteq Migration /\ doubled' \subseteq Migration
          /\ broken' \subseteq Migration
      BY <2>4, <3>1 DEF Insert, MigrateInv, MigrateTypeOK
    <3> QED
      BY <3>3, <3>4 DEF MigrateTypeOK
  <2> QED
    BY <2>1, <2>2, <2>3, <2>4
<1>2. /\ tables \cup undone \subseteq tables' \cup undone'
      /\ \A q \in Process \ {p} : place'[q] = place[q] /\ file'[q] = file[q]
  BY DEF MigrateInv, MigrateTypeOK, Begin, LookUp, Execute, Insert
<1>3. /\ place'[p] \in {"execute", "insert", "undo", "delete"} => file'[p] \in Migration
      /\ place'[p] = "insert" => file'[p] \in tables' \cup undone'
      /\ recorded' \subseteq tables' \cup undone'
  <2>1. CASE Begin(p)
    BY <2>1 DEF MigrateInv, MigrateTypeOK, Begin
  <2>2. CASE LookUp(p)
    BY <2>2 DEF MigrateInv, MigrateTypeOK, LookUp
  <2>3. CASE Execute(p)
    BY <1>2, <2>3 DEF MigrateInv, MigrateTypeOK, Execute
  <2>4. CASE Insert(p)
    BY <2>4 DEF MigrateInv, MigrateTypeOK, Insert
  <2> QED
    BY <2>1, <2>2, <2>3, <2>4
<1>4. Passed(p)' \subseteq tables' \cup undone'
  <2>1. CASE Begin(p)
    BY <2>1 DEF Begin, Passed, MigrateInv, MigrateTypeOK
  <2>2. CASE LookUp(p)
    BY <2>2 DEF LookUp, Passed, MigrateInv, MigrateTypeOK
  <2>3. CASE Execute(p)
    BY <1>2, <2>3 DEF Execute, Passed, MigrateInv, MigrateTypeOK
  <2>4. CASE Insert(p)
    BY <2>4 DEF Insert, Passed, MigrateInv, MigrateTypeOK
  <2> QED
    BY <2>1, <2>2, <2>3, <2>4
<1>5. \A q \in Process \ {p} : Passed(q)' = Passed(q)
  BY <1>2 DEF Passed
<1> QED
  BY <1>1, <1>2, <1>3, <1>4, <1>5 DEF MigrateInv

LEMMA DownKeeps ==
  ASSUME MigrateInv, NEW p \in Process,
         Last(p) \/ Undo(p) \/ Delete(p) \/ Fail(p)
  PROVE  MigrateInv'
<1> USE FilesAssumption DEF FilesAssumption, Migration, Queries, At, Go, records
<1>1. MigrateTypeOK'
  <2>1. CASE Last(p)
    BY <2>1 DEF MigrateInv, MigrateTypeOK, Last
  <2>2. CASE Undo(p) \/ Delete(p)
    BY <2>2 DEF MigrateInv, MigrateTypeOK, Undo, Delete
  <2>3. CASE Fail(p)
    BY <2>3 DEF MigrateInv, MigrateTypeOK, Fail
  <2> QED
    BY <2>1, <2>2, <2>3
<1>2. /\ tables \cup undone \subseteq tables' \cup undone'
      /\ \A q \in Process \ {p} : place'[q] = place[q] /\ file'[q] = file[q]
  BY DEF MigrateInv, MigrateTypeOK, Last, Undo, Delete, Fail
<1>3. /\ place'[p] \in {"down", "undo", "delete"}
      /\ place'[p] # "down" => file'[p] \in Migration
      /\ recorded' \subseteq recorded
  BY DEF MigrateInv, MigrateTypeOK, Last, Undo, Delete, Fail
<1>4. Passed(p)' = {} /\ \A q \in Process \ {p} : Passed(q)' = Passed(q)
  BY <1>2, <1>3 DEF Passed
<1> QED
  BY <1>1, <1>2, <1>3, <1>4 DEF MigrateInv

(* The invariant holds in every reachable state.                           *)
LEMMA MigrateCorrect == MigrateSpec => [](MigrateInv /\ Noted)
<1>1. MigrateInit => MigrateInv /\ Noted
  BY FilesAssumption
  DEF MigrateInit, MigrateInv, MigrateTypeOK, Passed, Noted, DoublingFails, FilesAssumption,
      Migration, Queries
<1>2. MigrateInv /\ Noted /\ [MigrateNext]_migrateVars => MigrateInv' /\ Noted'
  <2> SUFFICES ASSUME MigrateInv, Noted, [MigrateNext]_migrateVars PROVE MigrateInv' /\ Noted'
    OBVIOUS
  <2>1. CASE MigrateNext
    BY <2>1, UpKeeps, DownKeeps, NotedStep DEF MigrateNext, MigrateStep
  <2>2. CASE UNCHANGED migrateVars
    BY <2>2 DEF migrateVars, records, MigrateInv, MigrateTypeOK, Passed, Noted, DoublingFails,
                AtRow
  <2> QED
    BY <2>1, <2>2
<1> QED
  BY <1>1, <1>2, PTL DEF MigrateSpec

(* What is recorded, and what a process went past, has its tables unless a *)
(* down took them away (migrateUp, migrateDown).                           *)
THEOREM RecordedHasTables == MigrateSpec => []RecordedIsApplied
<1>1. MigrateInv => RecordedIsApplied
  BY DEF MigrateInv, RecordedIsApplied, Passed
<1> QED
  BY <1>1, MigrateCorrect, PTL

(* A migration executed on top of its own tables costs a process its start *)
(* (migrateUp: the primary key of migrations refuses the second row).      *)
THEOREM DoublingNoticed == MigrateSpec => []DoublingFails
<1>1. Noted => DoublingFails
  BY DEF Noted
<1> QED
  BY <1>1, MigrateCorrect, PTL

-----------------------------------------------------------------------------
(* The backend's idempotency middleware                                    *)

(* An answer that is not lost is in its worker's store, itself or replaced *)
(* by a later one with its key, and what is stored was answered there.     *)
GateInv ==
  /\ GateTypeOK
  /\ \A r \in Req : gate[r] = "idle" => owed[r] = {} /\ given[r] = {} /\ r \notin ran
  /\ \A r \in Req : gate[r] = "running" => owed[r] = {} /\ given[r] = {}
  /\ \A w \in Server : \A q \in kept[w] : gate[q] = "created" /\ server[q] = w
  /\ \A q \in old : gate[q] = "created"
  /\ \A r \in Req \ lost : gate[r] = "created" =>
       \E q \in kept[server[r]] : KeyOf[q] = KeyOf[r] /\ q \notin old
  /\ AnsweredOnce

LEMMA GateInitial == GateInit => GateInv
<1> SUFFICES ASSUME GateInit
             PROVE  GateInv
  OBVIOUS
<1>1. (CHOOSE w \in Server : TRUE) \in Server
  BY ServerAssumption
<1> QED
  BY <1>1 DEF GateInit, GateInv, GateTypeOK, AnsweredOnce

LEMMA GateStep == GateInv /\ [GateNext]_gateVars => GateInv'
<1> SUFFICES ASSUME GateInv, [GateNext]_gateVars
             PROVE  GateInv'
  OBVIOUS
<1> USE DEF GateInv, GateTypeOK, AnsweredOnce, SameKey
<1>1. ASSUME NEW r \in Req, NEW w \in Server, Intercept(r, w)
      PROVE  GateInv'
  <2> DEFINE hit == (kept[w] \ old) \cap SameKey(r)
             due == {q \in SameKey(r) \ lost : gate[q] = "created" /\ server[q] = w}
  <2>1. due # {} => hit # {}
    OBVIOUS
  <2>2. /\ gate[r] = "idle" /\ kept' = [kept EXCEPT ![w] = kept[w] \ old]
        /\ gate' = [gate EXCEPT ![r] = IF hit = {} THEN "running" ELSE "replayed"]
        /\ given' = [given EXCEPT ![r] = hit] /\ owed' = [owed EXCEPT ![r] = due]
        /\ server' = [server EXCEPT ![r] = w] /\ UNCHANGED <<old, ran, lost>>
    BY <1>1 DEF Intercept
  <2>3. GateTypeOK'
    BY <2>2
  <2>4. \A q \in Req : gate'[q] = "created" =>
          q # r /\ gate[q] = "created" /\ server'[q] = server[q]
    BY <2>2
  <2>5. \A q \in Req : gate[q] = "created" => gate'[q] = "created" /\ server'[q] = server[q]
    BY <2>2
  <2>6. \A v \in Server : \A q \in kept'[v] : gate'[q] = "created" /\ server'[q] = v
    BY <2>2, <2>5
  <2>7. \A q \in Req \ lost' : gate'[q] = "created" =>
          \E p \in kept'[server'[q]] : KeyOf[p] = KeyOf[q] /\ p \notin old'
    BY <2>2, <2>4
  <2>8. \A q \in Req : gate'[q] = "idle" => owed'[q] = {} /\ given'[q] = {} /\ q \notin ran'
    BY <2>2
  <2>9. \A q \in Req : gate'[q] = "running" => owed'[q] = {} /\ given'[q] = {}
    BY <2>1, <2>2
  <2>10. \A q \in old' : gate'[q] = "created"
    BY <2>2, <2>5
  <2>11. AnsweredOnce'
    BY <2>1, <2>2, <2>5
  <2> QED
    BY <2>3, <2>6, <2>7, <2>8, <2>9, <2>10, <2>11
<1>2. ASSUME NEW r \in Req, Handle(r)
      PROVE  GateInv'
  BY <1>2 DEF Handle
<1>3. ASSUME NEW r \in Req, Created(r)
      PROVE  GateInv'
  <2>1. /\ gate[r] = "running" /\ gate' = [gate EXCEPT ![r] = "created"]
        /\ given' = [given EXCEPT ![r] = {r}]
        /\ kept' = [kept EXCEPT ![server[r]] = (kept[server[r]] \ SameKey(r)) \cup {r}]
        /\ UNCHANGED <<server, old, ran, owed, lost>>
    BY <1>3 DEF Created
  <2>2. GateTypeOK'
    BY <2>1
  <2>3. \A w \in Server : \A q \in kept'[w] : gate'[q] = "created" /\ server'[q] = w
    BY <2>1
  <2>4. r \in kept'[server'[r]] /\ r \notin old'
    BY <2>1
  <2>5. \A q \in Req \ lost' : gate'[q] = "created" =>
          \E p \in kept'[server'[q]] : KeyOf[p] = KeyOf[q] /\ p \notin old'
    <3> SUFFICES ASSUME NEW q \in Req \ lost, gate'[q] = "created"
                 PROVE  \E p \in kept'[server'[q]] : KeyOf[p] = KeyOf[q] /\ p \notin old'
      BY <2>1
    <3>1. CASE server[q] = server[r] /\ KeyOf[q] = KeyOf[r]
      BY <2>1, <2>4, <3>1
    <3>2. CASE server[q] # server[r] \/ KeyOf[q] # KeyOf[r]
      <4>1. q # r /\ gate[q] = "created"
        BY <2>1, <3>2
      <4>2. PICK p \in kept[server[q]] : KeyOf[p] = KeyOf[q] /\ p \notin old
        BY <4>1
      <4>3. p \in kept'[server[q]]
        BY <2>1, <3>2, <4>2
      <4> QED
        BY <2>1, <4>2, <4>3
    <3> QED
      BY <3>1, <3>2
  <2>6. AnsweredOnce'
    BY <2>1
  <2> QED
    BY <2>1, <2>2, <2>3, <2>5, <2>6
<1>4. ASSUME NEW r \in Req, Unstored(r)
      PROVE  GateInv'
  BY <1>4 DEF Unstored
<1>5. ASSUME NEW r \in Req, Age(r)
      PROVE  GateInv'
  BY <1>5 DEF Age
<1>6. CASE Reboot
  BY <1>6 DEF Reboot
<1>7. CASE UNCHANGED gateVars
  BY <1>7 DEF gateVars
<1> QED
  BY <1>1, <1>2, <1>3, <1>4, <1>5, <1>6, <1>7 DEF GateNext

(* The invariant holds in every reachable state.                           *)
LEMMA GateCorrect == GateSpec => []GateInv
BY GateInitial, GateStep, PTL DEF GateSpec

(* Property AnsweredOnce of the gate's behaviours (idempotency.rs): after  *)
(* an answer no request with its key runs its handler at that worker until *)
(* the answer is lost, for any requests, keys and workers.                 *)
THEOREM AnsweredIsKept == GateSpec => []AnsweredOnce
<1>1. GateInv => AnsweredOnce
  BY DEF GateInv
<1> QED
  BY <1>1, GateCorrect, PTL

=============================================================================
