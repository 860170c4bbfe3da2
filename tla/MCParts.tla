------------------------------ MODULE MCParts ------------------------------
(***************************************************************************)
(* The contract's rewards and the parts of the system around the contract  *)
(* and the indexer's loop, in one instance.  They share no state: the one  *)
(* chosen at the start runs, the others stay as they began, and the states *)
(* add up.                                                                 *)
(***************************************************************************)
EXTENDS ContractCall, OfflineQueue, RateLimiter, JobQueue, Migrations, WasteList,
        VerificationDashboard, CommunityVotes, Incentives, IdempotencyGate

VARIABLE part

vars == <<part, callVars, queueVars, limiterVars, jobVars, migrateVars, listVars,
          boardVars, voteVars, rewardVars, gateVars>>

Init == /\ part \in {"call", "queue", "limiter", "jobs", "migrate", "list", "board", "votes",
                    "rewards", "gate"}
        /\ CallInit /\ QueueInit /\ LimiterInit /\ JobInit
        /\ MigrateInit /\ ListInit /\ BoardInit /\ VotesInit /\ RewardsInit
        /\ GateInit

(* A step of part p, which the other parts do not notice                   *)
In(p, Step) ==
  /\ part = p
  /\ Step
  /\ UNCHANGED part
  /\ p # "call"    => UNCHANGED callVars
  /\ p # "queue"   => UNCHANGED queueVars
  /\ p # "limiter" => UNCHANGED limiterVars
  /\ p # "jobs"    => UNCHANGED jobVars
  /\ p # "migrate" => UNCHANGED migrateVars
  /\ p # "list"    => UNCHANGED listVars
  /\ p # "board"   => UNCHANGED boardVars
  /\ p # "votes"   => UNCHANGED voteVars
  /\ p # "rewards" => UNCHANGED rewardVars
  /\ p # "gate"    => UNCHANGED gateVars

(* Their next-state relations, action by action                            *)
Next ==
  \/ \E c \in Call :
       \/ In("call", Build(c)) \/ In("call", Simulate(c)) \/ In("call", Sign(c))
       \/ In("call", Send(c)) \/ In("call", SendRefused(c)) \/ In("call", SendLost(c))
       \/ In("call", Poll(c))
  \/ \E t \in pool : In("call", CloseLedger(t)) \/ In("call", Drop(t))
  \/ In("call", Tick)
  \/ \E t \in Tab :
       \/ In("queue", Open(t)) \/ In("queue", Close(t)) \/ In("queue", Notice(t))
       \/ In("queue", Queue(t)) \/ In("queue", ClearAllData(t))
       \/ In("queue", PerformSync(t)) \/ In("queue", FindHandler(t)) \/ In("queue", Read(t))
       \/ In("queue", MarkSyncing(t)) \/ In("queue", MarkSuccess(t))
       \/ In("queue", MarkFailed(t)) \/ In("queue", Callback(t))
       \/ In("queue", DeleteMutation(t)) \/ In("queue", StorageFails(t))
       \/ In("queue", NextChange(t))
  \/ \E r \in Asker :
       \/ In("limiter", CheckLimit(r)) \/ In("limiter", Trim(r)) \/ In("limiter", Count(r))
       \/ In("limiter", Add(r)) \/ In("limiter", Renew(r))
  \/ In("limiter", ResetKeys) \/ In("limiter", ResetDel) \/ In("limiter", LimiterTick)
  \/ \E j \in Job : In("jobs", Enqueue(j)) \/ In("jobs", RecordEnqueued(j))
  \/ \E w \in Worker :
       \/ In("jobs", ProcessQueue(w)) \/ In("jobs", ExecuteJob(w)) \/ In("jobs", Retry(w))
       \/ In("jobs", Remove(w)) \/ In("jobs", Save(w)) \/ In("jobs", Crash(w))
  \/ \E p \in Process :
       \/ In("migrate", Begin(p)) \/ In("migrate", LookUp(p)) \/ In("migrate", Execute(p))
       \/ In("migrate", Insert(p)) \/ In("migrate", Last(p)) \/ In("migrate", Undo(p))
       \/ In("migrate", Delete(p)) \/ In("migrate", Fail(p))
  \/ \E t \in Task :
       \/ In("list", Reload(t)) \/ In("list", Loaded(t)) \/ In("list", LoadFails(t))
       \/ In("list", Start(t)) \/ In("list", CallFor(t))
  \/ \E w \in Waste : In("list", ConfirmedElsewhere(w))
  \/ In("board", Fetched) \/ In("board", Refetch) \/ In("board", Select)
  \/ In("board", BulkAction)
  \/ \E m \in Row :
       \/ In("board", Verify(m)) \/ In("board", VerifyReturns(m)) \/ In("board", Throws(m))
       \/ In("board", VerifiedElsewhere(m))
  \/ \E b \in Browser, p \in Proposal :
       \/ In("votes", CreateProposal(b, p)) \/ In("votes", VetoProposal(b, p))
       \/ In("votes", FinalizeProposal(b, p))
       \/ \E v \in Voter, c \in VoteChoice : In("votes", CastVote(b, p, v, c))
  \/ \E b \in Browser : In("votes", SaveProposals(b))
  \/ \E p \in Proposal : In("votes", VotingEnds(p))
  \/ In("rewards", MaterialRewardStep)
  \/ \E v \in Address, m \in DOMAIN material : In("rewards", VerifyMaterial(v, m))
  \/ \E a \in Address, l \in Lots, p \in Points, b \in Budgets :
       In("rewards", CreateIncentive(a, l.type, p, b))
  \/ \E i \in DOMAIN incentive :
       \/ In("rewards", DeactivateIncentive(i))
       \/ \E active \in BOOLEAN : In("rewards", UpdateStatus(i, active))
       \/ \E p \in Points, b \in Budgets : In("rewards", UpdateIncentive(i, p, b))
       \/ \E m \in DOMAIN material, a \in Address : In("rewards", ClaimReward(i, m, a))
       \/ \E m \in DOMAIN material, s \in Seasons, c \in Contaminations :
            In("rewards", DistributeRewards(i, m, s, c))
  \/ \E s \in Splits : In("rewards", SetPercentages(s))
  \/ \E a \in Address, x \in Gifts :
       \/ In("rewards", RewardTokens(a, x)) \/ In("rewards", DonateToCharity(a, x))
       \/ In("rewards", CompleteChallenge(a, x))
  \/ \E r \in Req :
       \/ (\E w \in Server : In("gate", Intercept(r, w))) \/ In("gate", Handle(r)) \/ In("gate", Created(r))
       \/ In("gate", Unstored(r)) \/ In("gate", Age(r))
  \/ In("gate", Reboot)

(* The fairness of the calls, for the behaviours in which they run         *)
PartsSpec ==
  /\ Init /\ [][Next]_vars
  /\ \A c \in Call : WF_vars(In("call", Poll(c)))
  /\ WF_vars(In("call", Tick))

R(client, method) == [client |-> client, method |-> method, signer |-> "s"]

MCRequest == [c1 |-> R("sdk", "confirm_waste_details"),
              c2 |-> R("app", "confirm_waste_details"),
              c3 |-> R("app", "recycleWaste")]

D(kind, items) == [kind |-> kind, items |-> items]

MCAsked == [reload  |-> D("load", {}),
            confirm |-> D("confirm", {"w1"}),
            several |-> D("batchConfirm", {"w1", "w2"}),
            move    |-> D("transfer", {"w2"})]

MCRoleOf == [rec |-> "Recycler", col |-> "Collector", man |-> "Manufacturer"]
MCLots == {[type |-> "Paper", grams |-> 2500]}
MCTokensPerKg == [Paper |-> 2]
MCBoost == [rec |-> 10000, col |-> 15000, man |-> 12500]
MCSplits == {[collector |-> 25, owner |-> 50]}

MCKeyOf == [q1 |-> "k", q2 |-> "k", q3 |-> "k"]

MCWeight == [v1 |-> 1, v2 |-> 2]

(* The types of the part that runs                                         *)
PartsTypeOK ==
  CASE part = "call"    -> CallTypeOK
    [] part = "queue"   -> QueueTypeOK
    [] part = "limiter" -> LimiterTypeOK
    [] part = "jobs"    -> JobTypeOK
    [] part = "migrate" -> MigrateTypeOK
    [] part = "list"    -> ListTypeOK
    [] part = "board"   -> BoardTypeOK
    [] part = "votes"   -> VotesTypeOK
    [] part = "rewards" -> RewardsTypeOK
    [] part = "gate"    -> GateTypeOK

=============================================================================
