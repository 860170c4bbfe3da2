------------------------------ MODULE JobQueue ------------------------------
(***************************************************************************)
(* The indexer's job queue for one job type: a sorted set in Redis that    *)
(* several processes read, a hash with the last known state of each job,   *)
(* and processes that crash, or whose calls fail, at any point.  A run     *)
(* works on its own copy of the job; updateJobStatus removes the text that *)
(* copy has after the run, which is the entry the run added for a retry if *)
(* it added one, and never the entry it read.                              *)
(***************************************************************************)
EXTENDS Naturals, FiniteSets

CONSTANTS
  Job,           \* the jobs enqueued, each once
  Worker,        \* the processes that call process()
  MaxAttempts,   \* maxAttempts
  Delay,         \* what a retry adds to the score for each attempt, 5000
  Score,         \* bound: what priority and time add up to
  MaxRuns        \* bound: how many runs are started

ASSUME JobAssumption ==
  /\ {MaxAttempts, Delay} \subseteq Nat \ {0}
  /\ MaxRuns \in Nat /\ Score \subseteq Nat

VARIABLES
  entries,       \* the sorted set
  record,        \* the state of each job in the hash
  enqueued,      \* the jobs put into the queue
  unrecorded,    \* those whose enqueue has still to write the hash
  doing,         \* where each worker is
  current,       \* the copy of the job it works on
  runs,          \* how many runs were started
  interrupted    \* those whose worker crashed, or one of whose calls failed

jobVars == <<entries, record, enqueued, unrecorded, doing, current, runs, interrupted>>

(* An entry is the text of a job; the run that wrote it (0: enqueue) tells *)
(* its times apart from those of the others.                               *)
Entry == [job : Job, attempts : Nat, run : Nat, score : Nat]
Copy  == [job : Job, attempts : Nat, run : Nat, score : Nat,
          status : {"processing", "pending", "completed", "failed"}]

States == {"absent", "pending", "completed", "failed"}

JobInit ==
  /\ entries = {}
  /\ record = [j \in Job |-> "absent"]
  /\ enqueued = {} /\ unrecorded = {}
  /\ doing = [w \in Worker |-> "idle"]
  /\ current = [w \in Worker |-> {}]
  /\ runs = 0 /\ interrupted = {}

-----------------------------------------------------------------------------
(* enqueue adds to the queue, and then to the hash, if it gets that far.   *)
Enqueue(j) ==
  /\ j \notin enqueued
  /\ \E s \in Score :
       entries' = entries \cup {[job |-> j, attempts |-> 0, run |-> 0, score |-> s]}
  /\ enqueued' = enqueued \cup {j} /\ unrecorded' = unrecorded \cup {j}
  /\ UNCHANGED <<record, doing, current, runs, interrupted>>

RecordEnqueued(j) ==
  /\ j \in unrecorded
  /\ unrecorded' = unrecorded \ {j}
  /\ record' = [record EXCEPT ![j] = "pending"]
  /\ UNCHANGED <<entries, enqueued, doing, current, runs, interrupted>>

-----------------------------------------------------------------------------
(* process and processQueue: an entry of the lowest score, which stays in  *)
(* the queue; a worker has one run at a time.                              *)
ProcessQueue(w) ==
  /\ doing[w] = "idle" /\ runs < MaxRuns
  /\ \E e \in entries :
       /\ \A f \in entries : e.score <= f.score
       /\ current' = [current EXCEPT ![w] =
            {[job |-> e.job, attempts |-> e.attempts + 1, run |-> runs + 1,
              score |-> e.score, status |-> "processing"]}]
  /\ runs' = runs + 1
  /\ doing' = [doing EXCEPT ![w] = "running"]
  /\ UNCHANGED <<entries, record, enqueued, unrecorded, interrupted>>

(* The processor resolves, or rejects for the last time or not.            *)
ExecuteJob(w) ==
  /\ doing[w] = "running"
  /\ \E c \in current[w], ok \in BOOLEAN :
       LET status == IF ok THEN "completed"
                     ELSE IF c.attempts < MaxAttempts THEN "pending" ELSE "failed"
       IN /\ current' = [current EXCEPT ![w] = {[c EXCEPT !.status = status]}]
          /\ doing' = [doing EXCEPT ![w] = IF status = "pending" THEN "retry" ELSE "remove"]
  /\ UNCHANGED <<entries, record, enqueued, unrecorded, runs, interrupted>>

Text(c, s) == [job |-> c.job, attempts |-> c.attempts, run |-> c.run, score |-> s]

(* A call to Redis is carried out, or it fails and nobody looks.           *)
Carried(w, to) ==
  /\ doing' = [doing EXCEPT ![w] = to]
  /\ UNCHANGED <<enqueued, unrecorded, current, runs>>

Failed(w, to) ==
  /\ Carried(w, to)
  /\ interrupted' = interrupted \cup {c.run : c \in current[w]}
  /\ UNCHANGED <<entries, record>>

(* The retry is due later than the entry that was read.                    *)
Retry(w) ==
  /\ doing[w] = "retry"
  /\ \/ /\ \E c \in current[w], s \in Score :
             /\ s >= c.score + Delay * c.attempts
             /\ entries' = entries \cup {Text(c, s)}
        /\ Carried(w, "remove")
        /\ UNCHANGED <<record, interrupted>>
     \/ Failed(w, "remove")

(* Mutant of Matching: what is removed is found by the id of the job.      *)
MatchingJob(c) == {e \in entries : e.job = c.job}

(* updateJobStatus: the members that match the changed copy                *)
Matching(c) == {e \in entries : c.status = "pending" /\ Text(c, e.score) = e}

Remove(w) ==
  /\ doing[w] = "remove"
  /\ \/ /\ \E c \in current[w] : entries' = entries \ Matching(c)
        /\ Carried(w, "save")
        /\ UNCHANGED <<record, interrupted>>
     \/ Failed(w, "save")

Save(w) ==
  /\ doing[w] = "save"
  /\ \/ /\ \E c \in current[w] : record' = [record EXCEPT ![c.job] = c.status]
        /\ Carried(w, "idle")
        /\ UNCHANGED <<entries, interrupted>>
     \/ Failed(w, "idle")

(* The process goes down; the next one starts with nothing in hand.        *)
Crash(w) ==
  /\ doing[w] # "idle"
  /\ Failed(w, "idle")

JobNext ==
  \/ \E j \in Job : Enqueue(j) \/ RecordEnqueued(j)
  \/ \E w \in Worker : ProcessQueue(w) \/ ExecuteJob(w) \/ Retry(w) \/ Remove(w)
                         \/ Save(w) \/ Crash(w)

JobSpec == JobInit /\ [][JobNext]_jobVars

-----------------------------------------------------------------------------
JobTypeOK ==
  /\ entries \subseteq Entry /\ record \in [Job -> States]
  /\ enqueued \subseteq Job /\ unrecorded \subseteq enqueued
  /\ doing \in [Worker -> {"idle", "running", "retry", "remove", "save"}]
  /\ current \in [Worker -> SUBSET Copy]
  /\ runs \in Nat /\ interrupted \subseteq Nat

(* Whatever crashes, fails or runs side by side, no job leaves the queue   *)
(* (an ended one neither: its entry never matches what is removed), and    *)
(* what a run adds to it stays only if the run was interrupted.            *)
NeitherLostNorPiledUp ==
  /\ {e.job : e \in {f \in entries : f.run = 0}} = enqueued
  /\ \A e \in entries : e.run # 0 =>
       \/ e.run \in interrupted
       \/ \E w \in Worker : doing[w] = "remove" /\ \E c \in current[w] : c.run = e.run

=============================================================================
