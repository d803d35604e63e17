------------------------------- MODULE Bounty -------------------------------
(***************************************************************************)
(* The bounty board of one character (store/bounty.go) with what moves it: *)
(* finished dungeon runs, gathering settlements, submitted equipment,      *)
(* refreshes and payment orders.  Every store call locks the character and *)
(* is one step; a refresh first reads the board in another transaction     *)
(* (Service.RefreshBounty) and a paid order is fulfilled later by the      *)
(* deposit scan, without the character's lock.                             *)
(***************************************************************************)
EXTENDS Integers, Sequences, FiniteSets, Functions

CONSTANTS Refreshers,        \* refresh requests that may be in flight at once
          BountySlots,       \* 1 is open, 2 costs gold, the others AEB
          Required,          \* required quantity of a normal task
          FinishedRuns,      \* dungeon run -> verified kills
          BountyGold,        \* the character's gold at the start
          MaxBountyOrders, MaxTasks, MaxSettled

\* insertBountyTask refuses a plan that requires nothing; kills are counts.
ASSUME BountyAssumption ==
  /\ BountySlots \in SUBSET Nat /\ IsFiniteSet(BountySlots) /\ 1 \in BountySlots
  /\ Required \in Nat \ {0} /\ BountyGold \in Nat
  /\ IsFiniteSet(DOMAIN FinishedRuns) /\ \A x \in DOMAIN FinishedRuns : FinishedRuns[x] \in Nat

VARIABLES task,              \* slot -> its ACTIVE or COMPLETED row
          tasksMade,         \* bounty_tasks rows inserted
          bountySlots,       \* unlocked slots
          bountyGold, badges,
          freeReady,         \* free_refresh_available_at has passed
          nodeReady,         \* the gathering node is off cooldown
          settled,           \* gathering settlements since it last was
          submissions,       \* bounty_combat_submissions
          bountyOrders,      \* payment orders for slots and premium refreshes
          refresher,         \* refreshes between reading and writing
          rareMade,          \* rare tasks inserted
          refused,           \* claims of a COMPLETED task that were refused
          claims             \* rewards paid

bvars == <<task, tasksMade, bountySlots, bountyGold, badges, freeReady, nodeReady,
           settled, submissions, bountyOrders, refresher, rareMade, refused, claims>>

NoTask == [id |-> 0, type |-> "none", progress |-> 0, required |-> 0, status |-> "none"]
NormalTypes == {"gather", "combat"}
RareType == "submit_equipment"
NotRefreshing == [mode |-> "none", plans |-> <<>>]

\* BountyTaskPlan for a slot: the seeded choice is any template of the
\* difficulty.
Plan(type) == [type |-> type, required |-> IF type = RareType THEN 1 ELSE Required]
NormalPlans(slots) == {[s \in slots |-> Plan(f[s])] : f \in [slots -> NormalTypes]}

BountyInit ==
  /\ task = [s \in BountySlots |-> NoTask] /\ tasksMade = 0
  /\ bountySlots = {1} /\ bountyGold = BountyGold /\ badges = 1
  /\ freeReady = TRUE /\ nodeReady = TRUE /\ settled = 0
  /\ submissions = {} /\ bountyOrders = <<>>
  /\ refresher = [r \in Refreshers |-> NotRefreshing]
  /\ rareMade = 0 /\ refused = {} /\ claims = 0

-----------------------------------------------------------------------------
\* insertBountyTask for every slot of a plan, numbered from the slot's order.
Insert(t, plans) ==
  [s \in BountySlots |->
     IF s \notin DOMAIN plans THEN t[s]
     ELSE [id |-> tasksMade + s, type |-> plans[s].type, progress |-> 0,
           required |-> plans[s].required, status |-> "ACTIVE"]]
RareIn(plans) == Cardinality({s \in DOMAIN plans : plans[s].type = RareType})
Inserted(plans) ==
  /\ tasksMade + Cardinality(BountySlots) <= MaxTasks
  /\ tasksMade' = tasksMade + Cardinality(BountySlots)
  /\ rareMade' = rareMade + RareIn(plans)
  /\ task' = Insert(task, plans)

\* ensureBountyTasks: a normal task for every unlocked slot without one.
EnsureBountyTasks(slots) ==
  \E plans \in NormalPlans({s \in slots : task[s] = NoTask}) : Inserted(plans)

FaultReplaceBountyTasks(plans) ==
  /\ plans # <<>>
  /\ \A s \in DOMAIN plans : task[s].type \in NormalTypes
  /\ Inserted(plans)

\* replaceBountyTasks: every slot of the plan must still hold an ACTIVE normal
\* task, or the whole transaction fails.
ReplaceBountyTasks(plans) ==
  /\ plans # <<>>
  /\ \A s \in DOMAIN plans : task[s].status = "ACTIVE" /\ task[s].type \in NormalTypes
  /\ Inserted(plans)

\* advanceBountyTasks: every ACTIVE task of the kind, up to its requirement.
Advance(type, quantity) ==
  [s \in BountySlots |->
     IF task[s].status = "ACTIVE" /\ task[s].type = type
     THEN LET reached == task[s].progress + quantity
          IN  [task[s] EXCEPT
                 !.progress = IF reached < task[s].required THEN reached ELSE task[s].required,
                 !.status = IF reached >= task[s].required THEN "COMPLETED" ELSE "ACTIVE"]
     ELSE task[s]]

-----------------------------------------------------------------------------
BountyBoard ==
  /\ \E s \in bountySlots : task[s] = NoTask
  /\ EnsureBountyTasks(bountySlots)
  /\ UNCHANGED <<bountySlots, bountyGold, badges, freeReady, nodeReady, settled,
                 submissions, bountyOrders, refresher, refused, claims>>

UnlockBountyGoldSlot ==
  /\ 2 \in BountySlots \ bountySlots /\ bountyGold > 0
  /\ bountyGold' = bountyGold - 1
  /\ bountySlots' = bountySlots \cup {2}
  /\ EnsureBountyTasks(bountySlots \cup {2})
  /\ UNCHANGED <<badges, freeReady, nodeReady, settled, submissions, bountyOrders,
                 refresher, refused, claims>>

Order(o) ==
  /\ Len(bountyOrders) < MaxBountyOrders
  /\ bountyOrders' = Append(bountyOrders, o)

\* CreateBountyPayment for a slot: refused when the slot is owned; an order
\* that is already open is not looked at.
CreateBountySlotPayment(s) ==
  /\ s \in BountySlots \ bountySlots /\ s >= 3
  /\ Order([slot |-> s, plans |-> <<>>, status |-> "OPEN"])
  /\ UNCHANGED <<task, tasksMade, bountySlots, bountyGold, badges, freeReady, nodeReady,
                 settled, submissions, refresher, rareMade, refused, claims>>

Replaceable == {s \in bountySlots : task[s].status = "ACTIVE" /\ task[s].type \in NormalTypes}

\* The premium plan: the lowest replaceable slot becomes the rare task.
Premium(plans) ==
  LET first == CHOOSE s \in DOMAIN plans : \A t \in DOMAIN plans : s <= t
  IN  [plans EXCEPT ![first] = Plan(RareType)]

\* Service.RefreshBounty reads the board and plans a task for each slot that
\* can be replaced now.
RefreshPlan(r, mode) ==
  /\ refresher[r] = NotRefreshing /\ Replaceable # {}
  /\ \A s \in bountySlots : task[s] # NoTask
  /\ \E plans \in NormalPlans(Replaceable) :
       refresher' = [refresher EXCEPT ![r] = [mode |-> mode,
                       plans |-> IF mode = "premium" THEN Premium(plans) ELSE plans]]
  /\ UNCHANGED <<task, tasksMade, bountySlots, bountyGold, badges, freeReady, nodeReady,
                 settled, submissions, bountyOrders, rareMade, refused, claims>>

\* RefreshBounty: the cooldown starts, or gold is paid, only with the tasks
\* replaced in the same transaction.
RefreshBounty(r) ==
  /\ \/ /\ refresher[r].mode = "free" /\ freeReady /\ freeReady' = FALSE
        /\ UNCHANGED bountyGold
     \/ /\ refresher[r].mode = "gold" /\ bountyGold > 0 /\ bountyGold' = bountyGold - 1
        /\ UNCHANGED freeReady
  /\ ReplaceBountyTasks(refresher[r].plans)
  /\ refresher' = [refresher EXCEPT ![r] = NotRefreshing]
  /\ UNCHANGED <<bountySlots, badges, nodeReady, settled, submissions, bountyOrders,
                 refused, claims>>

CreatePremiumPayment(r) ==
  /\ refresher[r].mode = "premium"
  /\ Order([slot |-> 0, plans |-> refresher[r].plans, status |-> "OPEN"])
  /\ refresher' = [refresher EXCEPT ![r] = NotRefreshing]
  /\ UNCHANGED <<task, tasksMade, bountySlots, bountyGold, badges, freeReady, nodeReady,
                 settled, submissions, rareMade, refused, claims>>

\* The store's transaction fails.
RefreshFails(r) ==
  /\ refresher[r] # NotRefreshing
  /\ refresher' = [refresher EXCEPT ![r] = NotRefreshing]
  /\ UNCHANGED <<task, tasksMade, bountySlots, bountyGold, badges, freeReady, nodeReady,
                 settled, submissions, bountyOrders, rareMade, refused, claims>>

\* fulfillBountyPaymentTx of a paid order.  A slot bought twice is unlocked
\* once; a premium refresh whose tasks have moved on cannot be fulfilled.
FulfilBounty(o) ==
  /\ bountyOrders[o].status = "OPEN"
  /\ \/ /\ bountyOrders[o].slot > 0
        /\ bountySlots' = bountySlots \cup {bountyOrders[o].slot}
        /\ UNCHANGED <<task, tasksMade, rareMade>>
     \/ /\ bountyOrders[o].slot = 0 /\ ReplaceBountyTasks(bountyOrders[o].plans)
        /\ UNCHANGED bountySlots
  /\ bountyOrders' = [bountyOrders EXCEPT ![o].status = "FULFILLED"]
  /\ UNCHANGED <<bountyGold, badges, freeReady, nodeReady, settled, submissions,
                 refresher, refused, claims>>

-----------------------------------------------------------------------------
\* SubmitBountyEquipment: a suitable piece of the bag is consumed (Custody)
\* and the task completed.
SubmitBountyEquipment(s) ==
  /\ task[s].status = "ACTIVE" /\ task[s].type = RareType
  /\ task' = [task EXCEPT ![s].progress = task[s].required, ![s].status = "COMPLETED"]
  /\ UNCHANGED <<tasksMade, bountySlots, bountyGold, badges, freeReady, nodeReady, settled,
                 submissions, bountyOrders, refresher, rareMade, refused, claims>>

\* ProgressBountyCombat: the kills stored with the finished run; the primary
\* key of bounty_combat_submissions refuses the run a second time.
ProgressBountyCombat(x) ==
  /\ FinishedRuns[x] > 0 /\ x \notin submissions
  /\ submissions' = submissions \cup {x}
  /\ task' = Advance("combat", FinishedRuns[x])
  /\ UNCHANGED <<tasksMade, bountySlots, bountyGold, badges, freeReady, nodeReady, settled,
                 bountyOrders, refresher, rareMade, refused, claims>>

\* runActivitySettlement of a gathering node: ensureGatheringNodeReady under
\* the character's lock, the rewards (Custody), the bounties, the settlement.
GatheringSettle ==
  /\ settled < MaxSettled /\ nodeReady
  /\ nodeReady' = FALSE /\ settled' = settled + 1
  /\ task' = Advance("gather", 1)
  /\ UNCHANGED <<tasksMade, bountySlots, bountyGold, badges, freeReady, submissions,
                 bountyOrders, refresher, rareMade, refused, claims>>

\* lockBountyTask: an error unless the row is ACTIVE.
LockBountyTask(s) == task[s].status = "ACTIVE"

\* ClaimBounty asks lockBountyTask for the row and then for COMPLETED: no row
\* passes both, so every claim of a completed task is refused.
ClaimBounty(s) ==
  /\ task[s] # NoTask
  /\ IF LockBountyTask(s) /\ task[s].status = "COMPLETED"
     THEN /\ task' = [task EXCEPT ![s] = NoTask]
          /\ badges' = badges + 1 /\ claims' = claims + 1
          /\ UNCHANGED refused
     ELSE /\ refused' = IF task[s].status = "COMPLETED" THEN refused \cup {task[s].id} ELSE refused
          /\ UNCHANGED <<task, badges, claims>>
  /\ UNCHANGED <<tasksMade, bountySlots, bountyGold, freeReady, nodeReady, settled,
                 submissions, bountyOrders, refresher, rareMade>>

\* DrawBountyBadge: the badge is consumed and one reward of its pool given:
\* gold here, items in Custody, locked AEB in AebLedger.
DrawBountyBadge(reward) ==
  /\ badges > 0 /\ badges' = badges - 1
  /\ bountyGold' = IF reward = "gold" THEN bountyGold + 1 ELSE bountyGold
  /\ UNCHANGED <<task, tasksMade, bountySlots, freeReady, nodeReady, settled, submissions,
                 bountyOrders, refresher, rareMade, refused, claims>>

CooldownsEnd ==
  /\ ~freeReady \/ ~nodeReady
  /\ freeReady' = TRUE /\ nodeReady' = TRUE /\ settled' = 0
  /\ UNCHANGED <<task, tasksMade, bountySlots, bountyGold, badges, submissions,
                 bountyOrders, refresher, rareMade, refused, claims>>

BountyNext ==
  \/ BountyBoard \/ UnlockBountyGoldSlot \/ GatheringSettle \/ CooldownsEnd
  \/ \E s \in BountySlots : CreateBountySlotPayment(s) \/ SubmitBountyEquipment(s) \/ ClaimBounty(s)
  \/ \E r \in Refreshers :
       \/ RefreshBounty(r) \/ CreatePremiumPayment(r) \/ RefreshFails(r)
       \/ \E mode \in {"free", "gold", "premium"} : RefreshPlan(r, mode)
  \/ \E o \in DOMAIN bountyOrders : FulfilBounty(o)
  \/ \E x \in DOMAIN FinishedRuns : ProgressBountyCombat(x)
  \/ \E reward \in {"gold", "item", "locked_aeb"} : DrawBountyBadge(reward)

BountySpec == BountyInit /\ [][BountyNext]_bvars

-----------------------------------------------------------------------------
\* A row never passes its requirement and is COMPLETED exactly when it has
\* reached it (advanceBountyTasks, completeBountyTask); only unlocked slots
\* hold a task.
BountyTypeOK ==
  /\ bountyGold >= 0 /\ bountySlots \subseteq BountySlots
  /\ \A s \in BountySlots : task[s] # NoTask =>
       /\ s \in bountySlots
       /\ task[s].progress <= task[s].required
       /\ (task[s].status = "COMPLETED") = (task[s].progress = task[s].required)

\* ProgressBountyCombat: the kills of a run count once, however often they are
\* reported: no task is ahead of the kills of the distinct runs.
KillsCountOnce ==
  \A s \in BountySlots : task[s].type = "combat" =>
    task[s].progress <= SumFunctionOnSet(FinishedRuns, submissions)

\* ensureGatheringNodeReady: a node is settled once between two cooldowns.
NodeSettledOnce == settled <= 1

\* A premium refresh yields exactly one rare task, whenever it is paid for.
OneRareForEachPremium ==
  rareMade = Cardinality({o \in DOMAIN bountyOrders :
                            bountyOrders[o].slot = 0 /\ bountyOrders[o].status = "FULFILLED"})

\* A COMPLETED task is never replaced, not by a refresh planned nor by one
\* paid for while it was still ACTIVE (replaceBountyTasks).
CompletedKept ==
  [][\A s \in BountySlots : task[s].status = "COMPLETED" =>
       task'[s] = task[s] \/ claims' = claims + 1]_bvars

\* ClaimBounty pays a completed task.
CompletedIsClaimable == refused = {}

\* Progress is counted once and what a player has completed is kept.
BountyKept ==
  /\ [](BountyTypeOK /\ KillsCountOnce /\ NodeSettledOnce /\ OneRareForEachPremium)
  /\ CompletedKept
=============================================================================
