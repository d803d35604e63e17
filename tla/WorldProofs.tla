---------------------------- MODULE WorldProofs -----------------------------
(***************************************************************************)
(* Proofs about the parts of the game's world that race with themselves:   *)
(* boss events, the limits of the market, characters and dungeon runs, the *)
(* shop and the bounty board.                                              *)
(***************************************************************************)
EXTENDS BossEvents, MarketLimits, DungeonRuns, Shop, Bounty, Sums

-----------------------------------------------------------------------------
(* Boss events: the rows. *)
EventRow == [status : {"OPEN", "SETTLING", "SETTLED"}, clock : {"early", "active", "end", "over"}]
ContributionRow == [contribution : 0 .. MaxContribution, reward : {"{}", "paid"}, planned : Nat]
SettlePlan == [event : Nat, planned : Nat]

BossShape ==
    /\ events \in Seq(EventRow) /\ Len(events) <= MaxEvents
    /\ contributions \in [EventIds -> [Fighters -> ContributionRow]]
    /\ opener \in [Openers -> BOOLEAN]
    /\ settler \in [Fighters -> SettlePlan]
    /\ bossPaid \in [EventIds -> [Fighters -> Nat]]

(* Nobody is rewarded before the event is over. *)
Over(e) == e \in DOMAIN events /\ ~(events[e].status = "OPEN" /\ events[e].clock \in {"early", "active"})

(* Rewards: paid once, for an event that is over, from no more than was    *)
(* contributed.                                                            *)
RewardInv ==
    \A e \in EventIds, a \in Fighters :
        /\ bossPaid[e][a] = IF contributions[e][a].reward = "paid" THEN 1 ELSE 0
        /\ contributions[e][a].planned <= contributions[e][a].contribution
        /\ contributions[e][a].reward = "paid" => Over(e)

(* A plan under way is of an event that exists, and of no more than its    *)
(* account has contributed.                                                *)
PlanInv ==
    \A a \in Fighters : settler[a] # NoPlan =>
        /\ settler[a].event \in DOMAIN events
        /\ settler[a].planned <= contributions[settler[a].event][a].contribution

BossIInv == BossShape /\ RewardInv /\ PlanInv /\ OpenEventsBounded

LEMMA BossInitIInv == BossInit => BossIInv
<1>. SUFFICES ASSUME BossInit PROVE BossIInv
    OBVIOUS
<1>1. BossShape
  <2>1. NoRow \in ContributionRow /\ NoPlan \in SettlePlan
      BY BossAssumption DEF NoRow, ContributionRow, NoPlan, SettlePlan
  <2>. QED
      BY <2>1, BossAssumption DEF BossInit, BossShape
<1>2. RewardInv
  <2>1. NoRow.reward # "paid" /\ NoRow.planned <= NoRow.contribution
      BY DEF NoRow
  <2>2. \A e \in EventIds, a \in Fighters : contributions[e][a] = NoRow /\ bossPaid[e][a] = 0
      BY DEF BossInit
  <2>. QED
      BY <2>1, <2>2, Zenon DEF RewardInv
<1>3. PlanInv
    BY DEF BossInit, PlanInv
<1>4. OpenEventsBounded
  <2>1. {e \in DOMAIN events : events[e].status = "OPEN"} = {} /\ {o \in Openers : opener[o]} = {}
      BY DEF BossInit
  <2>2. Cardinality({}) = 0
      BY FS_EmptySet
  <2>3. Cardinality(Openers) \in Nat
      BY BossAssumption, FS_CardinalityType
  <2>4. 0 + 0 <= Cardinality(Openers)
      BY <2>3
  <2>. QED
      BY <2>1, <2>2, <2>4, Zenon DEF OpenEventsBounded
<1>. QED
    BY <1>1, <1>2, <1>3, <1>4 DEF BossIInv

(* The events still open and the requests about to open one. *)
OpenIn(es) == {e \in DOMAIN es : es[e].status = "OPEN"}
Counting(os) == {o \in Openers : os[o]}

LEMMA OpenSetsFinite ==
    ASSUME NEW es \in Seq(EventRow), NEW os
    PROVE  /\ IsFiniteSet(OpenIn(es)) /\ Cardinality(OpenIn(es)) \in Nat
           /\ IsFiniteSet(Counting(os)) /\ Cardinality(Counting(os)) \in Nat
           /\ Cardinality(Counting(os)) <= Cardinality(Openers) /\ Cardinality(Openers) \in Nat
<1>1. Len(es) \in Nat /\ DOMAIN es = 1 .. Len(es)
    OBVIOUS
<1>2. IsFiniteSet(DOMAIN es)
    BY <1>1, FS_Interval
<1>3. IsFiniteSet(OpenIn(es))
    BY <1>2, FS_Subset DEF OpenIn
<1>4. IsFiniteSet(Counting(os)) /\ Cardinality(Counting(os)) <= Cardinality(Openers)
    BY BossAssumption, FS_Subset DEF Counting
<1>. QED
    BY <1>3, <1>4, BossAssumption, FS_CardinalityType

LEMMA OpenEventsNow ==
    /\ OpenEventsBounded <=> Cardinality(OpenIn(events)) + Cardinality(Counting(opener)) <= Cardinality(Openers)
    /\ OpenEventsBounded' <=> Cardinality(OpenIn(events')) + Cardinality(Counting(opener')) <= Cardinality(Openers)
BY DEF OpenEventsBounded, OpenIn, Counting

(* A step of one event's row: it opens nothing and brings nothing back     *)
(* before its end.                                                         *)
LEMMA EventStep ==
    ASSUME BossIInv, NEW e \in DOMAIN events, NEW row \in EventRow, events' = [events EXCEPT ![e] = row],
           row.status = "OPEN" => events[e].status = "OPEN",
           row.status = "OPEN" /\ row.clock \in {"early", "active"} =>
              events[e].status = "OPEN" /\ events[e].clock \in {"early", "active"},
           UNCHANGED <<contributions, opener, settler, bossPaid>>
    PROVE  BossIInv'
<1>1. /\ events' \in Seq(EventRow) /\ Len(events') = Len(events) /\ DOMAIN events' = DOMAIN events
      /\ events'[e] = row /\ \A d \in DOMAIN events : d # e => events'[d] = events[d]
    BY DEF BossIInv, BossShape
<1>2. BossShape'
    BY <1>1 DEF BossIInv, BossShape
<1>3. \A d : Over(d) => Over(d)'
    BY <1>1 DEF Over
<1>4. RewardInv'
    BY <1>3 DEF BossIInv, RewardInv
<1>5. PlanInv'
    BY <1>1 DEF BossIInv, PlanInv
<1>6. OpenIn(events') \subseteq OpenIn(events)
    BY <1>1 DEF OpenIn
<1>7. events \in Seq(EventRow)
    BY DEF BossIInv, BossShape
<1>8. Cardinality(OpenIn(events')) <= Cardinality(OpenIn(events))
    BY <1>6, <1>7, OpenSetsFinite, FS_Subset
<1>9. Counting(opener') = Counting(opener) /\ Cardinality(Counting(opener)) \in Nat /\ Cardinality(Openers) \in Nat
    BY <1>7, OpenSetsFinite
<1>10. Cardinality(OpenIn(events')) \in Nat /\ Cardinality(OpenIn(events)) \in Nat
    BY <1>1, <1>7, OpenSetsFinite
<1>11. OpenEventsBounded'
    BY <1>8, <1>9, <1>10, OpenEventsNow DEF BossIInv
<1>. QED
    BY <1>2, <1>4, <1>5, <1>11 DEF BossIInv

LEMMA BossOpenCountStep ==
    ASSUME BossIInv, NEW o \in Openers, BossOpenCount(o)
    PROVE  BossIInv'
<1>1. /\ opener' = [opener EXCEPT ![o] = TRUE] /\ UNCHANGED <<events, contributions, settler, bossPaid>>
      /\ OpenIn(events) = {}
    BY DEF BossOpenCount, OpenIn
<1>2. BossShape' /\ RewardInv' /\ PlanInv'
    BY <1>1 DEF BossIInv, BossShape, RewardInv, PlanInv, Over
<1>3. Cardinality(OpenIn(events')) = 0
    BY <1>1, FS_EmptySet
<1>4. events \in Seq(EventRow)
    BY DEF BossIInv, BossShape
<1>5. OpenEventsBounded'
    BY <1>3, <1>4, OpenSetsFinite, OpenEventsNow
<1>. QED
    BY <1>2, <1>5 DEF BossIInv

LEMMA BossOpenInsertStep ==
    ASSUME BossIInv, NEW o \in Openers, NEW clock \in {"early", "active"}, BossOpenInsert(o, clock)
    PROVE  BossIInv'
<1>. DEFINE row == [status |-> "OPEN", clock |-> clock]
            n == Len(events) + 1
<1>1. /\ opener[o] /\ Len(events) < MaxEvents /\ events' = Append(events, row)
      /\ opener' = [opener EXCEPT ![o] = FALSE] /\ UNCHANGED <<contributions, settler, bossPaid>>
    BY DEF BossOpenInsert
<1>2. row \in EventRow /\ row.status = "OPEN"
    BY DEF EventRow
<1>3. events \in Seq(EventRow) /\ Len(events) \in Nat /\ opener \in [Openers -> BOOLEAN]
    BY DEF BossIInv, BossShape
<1>. HIDE DEF row
<1>4. /\ events' \in Seq(EventRow) /\ Len(events') = n /\ DOMAIN events' = DOMAIN events \cup {n}
      /\ events'[n] = row /\ n \notin DOMAIN events /\ \A d \in DOMAIN events : events'[d] = events[d]
    BY <1>1, <1>2, <1>3
<1>5. BossShape'
    BY <1>1, <1>3, <1>4, BossAssumption DEF BossIInv, BossShape
<1>6. \A d : Over(d) => Over(d)'
    BY <1>4 DEF Over
<1>7. RewardInv'
    BY <1>1, <1>6 DEF BossIInv, RewardInv
<1>8. PlanInv'
    BY <1>1, <1>4 DEF BossIInv, PlanInv
<1>9. OpenIn(events') = OpenIn(events) \cup {n} /\ n \notin OpenIn(events)
    BY <1>2, <1>4 DEF OpenIn
<1>10. Counting(opener') = Counting(opener) \ {o} /\ o \in Counting(opener)
    BY <1>1, <1>3 DEF Counting
<1>. HIDE DEF n
<1>11. Cardinality(OpenIn(events')) = Cardinality(OpenIn(events)) + 1
    BY <1>3, <1>9, OpenSetsFinite, FS_AddElement
<1>12. Cardinality(Counting(opener')) = Cardinality(Counting(opener)) - 1
    BY <1>3, <1>10, OpenSetsFinite, FS_RemoveElement
<1>13. OpenEventsBounded'
    BY <1>3, <1>11, <1>12, OpenSetsFinite, OpenEventsNow DEF BossIInv
<1>. QED
    BY <1>5, <1>7, <1>8, <1>13 DEF BossIInv

LEMMA BossEventSteps ==
    ASSUME BossIInv, NEW e \in DOMAIN events, BossTick(e) \/ BossCloseEvent(e) \/ BossMarkSettled(e)
    PROVE  BossIInv'
<1>1. events \in Seq(EventRow) /\ events[e] \in EventRow
    BY DEF BossIInv, BossShape
<1>2. CASE BossTick(e)
  <2>1. PICK c \in DOMAIN Clock : Clock[c] = events[e].clock /\ events' = [events EXCEPT ![e].clock = Clock[c + 1]]
      BY <1>2 DEF BossTick
  <2>2. /\ c \in 1 .. 4 /\ events[e].clock # "over"
        /\ Clock[1] = "early" /\ Clock[2] = "active" /\ Clock[3] = "end" /\ Clock[4] = "over"
      BY <1>2, <2>1 DEF BossTick, Clock
  <2>3. /\ Clock[c + 1] \in {"early", "active", "end", "over"}
        /\ Clock[c + 1] \in {"early", "active"} => events[e].clock = "early"
      BY <2>1, <2>2
  <2>. DEFINE row == [events[e] EXCEPT !.clock = Clock[c + 1]]
  <2>4. row \in EventRow /\ row.status = events[e].status /\ row.clock = Clock[c + 1]
      BY <1>1, <2>3 DEF EventRow
  <2>5. events' = [events EXCEPT ![e] = row] /\ UNCHANGED <<contributions, opener, settler, bossPaid>>
      BY <1>2, <2>1 DEF BossTick
  <2>. HIDE DEF row
  <2>. QED
      BY <2>3, <2>4, <2>5, EventStep
<1>3. CASE BossCloseEvent(e)
  <2>. DEFINE row == [status |-> "SETTLING", clock |-> "over"]
  <2>1. row \in EventRow /\ row.status = "SETTLING"
      BY DEF EventRow
  <2>2. events' = [events EXCEPT ![e] = row] /\ UNCHANGED <<contributions, opener, settler, bossPaid>>
      BY <1>3 DEF BossCloseEvent
  <2>. HIDE DEF row
  <2>. QED
      BY <2>1, <2>2, EventStep
<1>4. CASE BossMarkSettled(e)
  <2>. DEFINE row == [events[e] EXCEPT !.status = "SETTLED"]
  <2>1. row \in EventRow /\ row.status = "SETTLED"
      BY <1>1 DEF EventRow
  <2>2. events' = [events EXCEPT ![e] = row] /\ UNCHANGED <<contributions, opener, settler, bossPaid>>
      BY <1>4 DEF BossMarkSettled
  <2>. HIDE DEF row
  <2>. QED
      BY <2>1, <2>2, EventStep
<1>. QED
    BY <1>2, <1>3, <1>4

(* One row of boss_contributions is written. *)
LEMMA PutRow ==
    ASSUME NEW V, NEW f \in [EventIds -> [Fighters -> V]], NEW e \in EventIds, NEW a \in Fighters, NEW row \in V,
           NEW g, g = [f EXCEPT ![e][a] = row]
    PROVE  /\ g \in [EventIds -> [Fighters -> V]] /\ g[e][a] = row
           /\ \A d \in EventIds, b \in Fighters : d # e \/ b # a => g[d][b] = f[d][b]
           /\ \A d \in EventIds : d # e => g[d] = f[d]
OBVIOUS

LEMMA ContributionFacts ==
    ASSUME NEW r \in ContributionRow
    PROVE  r.contribution \in 0 .. MaxContribution /\ r.contribution \in Nat /\ r.planned \in Nat
<1>1. r.contribution \in 0 .. MaxContribution /\ r.planned \in Nat
    BY DEF ContributionRow
<1>. QED
    BY <1>1, BossAssumption

LEMMA EventsAreIds ==
    ASSUME BossIInv
    PROVE  DOMAIN events \subseteq EventIds
<1>1. Len(events) \in Nat /\ DOMAIN events = 1 .. Len(events) /\ Len(events) <= MaxEvents
    BY DEF BossIInv, BossShape
<1>. QED
    BY <1>1, BossAssumption DEF EventIds

LEMMA BossContributeStep ==
    ASSUME BossIInv, NEW e \in DOMAIN events, NEW a \in Fighters, NEW n \in Blows, BossContribute(e, a, n)
    PROVE  BossIInv'
<1>. DEFINE old == contributions[e][a]
            row == [old EXCEPT !.contribution = @ + n]
<1>1. e \in EventIds /\ n \in Nat
    BY EventsAreIds, BossAssumption
<1>2. contributions \in [EventIds -> [Fighters -> ContributionRow]] /\ old \in ContributionRow
    BY <1>1 DEF BossIInv, BossShape
<1>3. /\ contributions' = [contributions EXCEPT ![e][a] = row] /\ old.contribution + n <= MaxContribution
      /\ UNCHANGED <<events, opener, settler, bossPaid>>
    BY DEF BossContribute
<1>. HIDE DEF old
<1>4. old.contribution \in 0 .. MaxContribution /\ old.planned \in Nat
    BY <1>2 DEF ContributionRow
<1>5. /\ row \in ContributionRow /\ row.reward = old.reward /\ row.planned = old.planned
      /\ row.contribution = old.contribution + n
  <2>1. old.contribution + n \in 0 .. MaxContribution
      BY <1>1, <1>3, <1>4, BossAssumption
  <2>. QED
      BY <1>2, <2>1 DEF ContributionRow
<1>. HIDE DEF row
<1>6. /\ contributions' \in [EventIds -> [Fighters -> ContributionRow]] /\ contributions'[e][a] = row
      /\ \A d \in EventIds, b \in Fighters : d # e \/ b # a => contributions'[d][b] = contributions[d][b]
    BY <1>1, <1>2, <1>3, <1>5, PutRow
<1>7. BossShape'
    BY <1>3, <1>6 DEF BossIInv, BossShape
<1>8. \A d \in EventIds, b \in Fighters :
        /\ contributions'[d][b].reward = contributions[d][b].reward
        /\ contributions'[d][b].planned = contributions[d][b].planned
        /\ contributions'[d][b].contribution >= contributions[d][b].contribution
        /\ contributions'[d][b].contribution \in Nat /\ contributions[d][b].contribution \in Nat
        /\ contributions[d][b].planned \in Nat
  <2>. SUFFICES ASSUME NEW d \in EventIds, NEW b \in Fighters
                PROVE  /\ contributions'[d][b].reward = contributions[d][b].reward
                       /\ contributions'[d][b].planned = contributions[d][b].planned
                       /\ contributions'[d][b].contribution >= contributions[d][b].contribution
                       /\ contributions'[d][b].contribution \in Nat /\ contributions[d][b].contribution \in Nat
                       /\ contributions[d][b].planned \in Nat
      OBVIOUS
  <2>1. contributions[d][b] \in ContributionRow /\ contributions'[d][b] \in ContributionRow
      BY <1>2, <1>6
  <2>2. contributions[d][b].contribution \in Nat /\ contributions'[d][b].contribution \in Nat /\ contributions[d][b].planned \in Nat
      BY <2>1, ContributionFacts
  <2>3. CASE d # e \/ b # a
      BY <1>6, <2>2, <2>3
  <2>4. CASE d = e /\ b = a
      BY <1>1, <1>4, <1>5, <1>6, <2>2, <2>4 DEF old
  <2>. QED
      BY <2>3, <2>4
<1>9. \A d : Over(d)' <=> Over(d)
    BY <1>3 DEF Over
<1>10. RewardInv'
    BY <1>3, <1>8, <1>9 DEF BossIInv, RewardInv
<1>11. PlanInv'
  <2>. SUFFICES ASSUME NEW b \in Fighters, settler[b] # NoPlan
                PROVE  /\ settler[b].event \in DOMAIN events
                       /\ settler[b].planned <= contributions'[settler[b].event][b].contribution
      BY <1>3 DEF PlanInv
  <2>1. /\ settler[b].event \in DOMAIN events
        /\ settler[b].planned <= contributions[settler[b].event][b].contribution
      BY DEF BossIInv, PlanInv
  <2>2. settler[b].event \in EventIds /\ settler[b].planned \in Nat
      BY <2>1, EventsAreIds DEF BossIInv, BossShape, SettlePlan
  <2>. QED
      BY <1>8, <2>1, <2>2
<1>12. OpenEventsBounded'
    BY <1>3, OpenEventsNow DEF BossIInv
<1>. QED
    BY <1>7, <1>10, <1>11, <1>12 DEF BossIInv

LEMMA BossPlanSteps ==
    ASSUME BossIInv, NEW a \in Fighters,
           BossSettleRefused(a) \/ \E e \in DOMAIN events : BossPlan(e, a)
    PROVE  BossIInv'
<1>1. PICK y : /\ settler' = [settler EXCEPT ![a] = y] /\ y \in SettlePlan
               /\ y # NoPlan => y.event \in DOMAIN events /\ y.planned <= contributions[y.event][a].contribution
  <2>1. CASE BossSettleRefused(a)
    <3>1. NoPlan \in SettlePlan
        BY DEF NoPlan, SettlePlan
    <3>. QED
        BY <2>1, <3>1 DEF BossSettleRefused
  <2>2. ASSUME NEW e \in DOMAIN events, BossPlan(e, a)
        PROVE  \E y : /\ settler' = [settler EXCEPT ![a] = y] /\ y \in SettlePlan
                      /\ y # NoPlan => y.event \in DOMAIN events /\ y.planned <= contributions[y.event][a].contribution
    <3>. DEFINE y == [event |-> e, planned |-> contributions[e][a].contribution]
    <3>1. e \in EventIds /\ e \in Nat
        BY EventsAreIds, BossAssumption DEF EventIds
    <3>2. contributions[e][a] \in ContributionRow
        BY <3>1 DEF BossIInv, BossShape
    <3>3. contributions[e][a].contribution \in Nat
        BY <3>2, ContributionFacts
    <3>4. y \in SettlePlan /\ y.event = e /\ y.planned = contributions[e][a].contribution
        BY <3>1, <3>3 DEF SettlePlan
    <3>5. settler' = [settler EXCEPT ![a] = y]
        BY <2>2 DEF BossPlan
    <3>6. y.planned <= contributions[y.event][a].contribution
        BY <3>3, <3>4
    <3>. HIDE DEF y
    <3>. QED
        BY <3>4, <3>5, <3>6
  <2>. QED
      BY <2>1, <2>2
<1>2. UNCHANGED <<events, contributions, opener, bossPaid>>
    BY DEF BossSettleRefused, BossPlan
<1>3. BossShape' /\ OpenEventsBounded' /\ RewardInv'
    BY <1>1, <1>2 DEF BossIInv, BossShape, OpenEventsBounded, RewardInv, Over
<1>4. PlanInv'
    BY <1>1, <1>2 DEF BossIInv, BossShape, PlanInv
<1>. QED
    BY <1>3, <1>4 DEF BossIInv

(* The settlement, with the row it leaves: a reward stored, the plan it    *)
(* was made from, and the contribution as it was.                          *)
LEMMA BossSettleStep ==
    ASSUME BossIInv, NEW a \in Fighters, BossSettle(a)
    PROVE  BossIInv'
<1>. DEFINE e == settler[a].event
            plan == settler[a].planned
            old == contributions[e][a]
            row == [[old EXCEPT !.reward = "paid"] EXCEPT !.planned = plan]
<1>1. /\ settler[a] # NoPlan /\ ReadyForSettlement(e) /\ old.reward = "{}"
      /\ UNCHANGED <<events, opener>> /\ settler' = [settler EXCEPT ![a] = NoPlan]
      /\ bossPaid' = [bossPaid EXCEPT ![e][a] = @ + 1]
    BY DEF BossSettle, PayBossReward, BossRewardClaimed
<1>2. e \in DOMAIN events /\ plan <= old.contribution /\ e \in EventIds
    BY <1>1, EventsAreIds DEF BossIInv, PlanInv
<1>3. /\ contributions \in [EventIds -> [Fighters -> ContributionRow]] /\ old \in ContributionRow
      /\ bossPaid \in [EventIds -> [Fighters -> Nat]] /\ plan \in Nat
    BY <1>2 DEF BossIInv, BossShape, SettlePlan
<1>4. contributions' = [contributions EXCEPT ![e][a].reward = "paid", ![e][a].planned = plan]
    BY DEF BossSettle, PayBossReward
<1>. HIDE DEF plan
<1>. HIDE DEF e
<1>5. contributions' = [contributions EXCEPT ![e][a] = row]
  <2>. DEFINE r1 == [old EXCEPT !.reward = "paid"]
              c1 == [contributions EXCEPT ![e][a] = r1]
  <2>1. r1 \in ContributionRow
      BY <1>3 DEF ContributionRow
  <2>2. contributions' = [[contributions EXCEPT ![e][a].reward = "paid"] EXCEPT ![e][a].planned = plan]
      BY <1>4
  <2>3. contributions' = [c1 EXCEPT ![e][a].planned = plan]
      BY <2>2
  <2>. HIDE DEF r1
  <2>4. c1 \in [EventIds -> [Fighters -> ContributionRow]] /\ c1[e][a] = r1
      BY <1>2, <1>3, <2>1
  <2>5. [c1 EXCEPT ![e][a].planned = plan] = [c1 EXCEPT ![e][a] = [r1 EXCEPT !.planned = plan]]
      BY <2>4
  <2>. QED
      BY <1>2, <1>3, <2>3, <2>5 DEF r1
<1>6. /\ row \in ContributionRow /\ row.reward = "paid" /\ row.planned = plan
      /\ row.contribution = old.contribution
    BY <1>3 DEF ContributionRow
<1>. HIDE DEF row
<1>7. /\ contributions' \in [EventIds -> [Fighters -> ContributionRow]] /\ contributions'[e][a] = row
      /\ \A d \in EventIds, b \in Fighters : d # e \/ b # a => contributions'[d][b] = contributions[d][b]
    BY <1>2, <1>3, <1>5, <1>6, PutRow
<1>. DEFINE count == bossPaid[e][a] + 1
<1>8. bossPaid' = [bossPaid EXCEPT ![e][a] = count]
    BY DEF BossSettle, PayBossReward, e
<1>9. count = 1
  <2>1. bossPaid[e][a] = IF contributions[e][a].reward = "paid" THEN 1 ELSE 0
      BY <1>2 DEF BossIInv, RewardInv
  <2>2. contributions[e][a].reward = "{}"
      BY <1>1
  <2>3. bossPaid[e][a] = 0
      BY <2>1, <2>2
  <2>. QED
      BY <2>3
<1>. HIDE DEF count
<1>10. /\ bossPaid' \in [EventIds -> [Fighters -> Nat]] /\ bossPaid'[e][a] = 1
       /\ \A d \in EventIds, b \in Fighters : d # e \/ b # a => bossPaid'[d][b] = bossPaid[d][b]
    BY <1>2, <1>3, <1>8, <1>9, PutRow
<1>11. BossShape'
  <2>1. NoPlan \in SettlePlan
      BY DEF NoPlan, SettlePlan
  <2>. QED
      BY <1>1, <1>7, <1>10, <2>1 DEF BossIInv, BossShape
<1>12. \A d : Over(d)' <=> Over(d)
    BY <1>1 DEF Over
<1>13. Over(e)
    BY <1>1, <1>2 DEF Over, ReadyForSettlement
<1>14. RewardInv'
  <2>. SUFFICES ASSUME NEW d \in EventIds, NEW b \in Fighters
                PROVE  /\ bossPaid'[d][b] = IF contributions'[d][b].reward = "paid" THEN 1 ELSE 0
                       /\ contributions'[d][b].planned <= contributions'[d][b].contribution
                       /\ contributions'[d][b].reward = "paid" => Over(d)'
      BY DEF RewardInv
  <2>1. CASE d # e \/ b # a
      BY <1>7, <1>10, <1>12, <2>1 DEF BossIInv, RewardInv
  <2>2. CASE d = e /\ b = a
      BY <1>2, <1>6, <1>7, <1>10, <1>12, <1>13, <2>2
  <2>. QED
      BY <2>1, <2>2
<1>15. PlanInv'
  <2>. SUFFICES ASSUME NEW b \in Fighters, settler'[b] # NoPlan
                PROVE  /\ settler'[b].event \in DOMAIN events
                       /\ settler'[b].planned <= contributions'[settler'[b].event][b].contribution
      BY <1>1 DEF PlanInv
  <2>1. b # a /\ settler'[b] = settler[b]
      BY <1>1 DEF BossIInv, BossShape
  <2>2. /\ settler[b].event \in DOMAIN events
        /\ settler[b].planned <= contributions[settler[b].event][b].contribution
      BY <2>1 DEF BossIInv, PlanInv
  <2>3. settler[b].event \in EventIds
      BY <2>2, EventsAreIds
  <2>. QED
      BY <1>7, <2>1, <2>2, <2>3
<1>16. OpenEventsBounded'
    BY <1>1, OpenEventsNow DEF BossIInv
<1>. QED
    BY <1>11, <1>14, <1>15, <1>16 DEF BossIInv

LEMMA BossNextIInv == BossIInv /\ [BossNext]_bossVars => BossIInv'
<1>1. BossIInv /\ UNCHANGED bossVars => BossIInv'
    BY DEF BossIInv, BossShape, RewardInv, PlanInv, OpenEventsBounded, Over, bossVars
<1>. QED
    BY <1>1, BossOpenCountStep, BossOpenInsertStep, BossEventSteps, BossContributeStep, BossPlanSteps,
       BossSettleStep DEF BossNext

(* After SETTLED nothing about an event changes. *)
LEMMA SettledStays ==
    ASSUME BossIInv, [BossNext]_bossVars, NEW e \in DOMAIN events, events[e].status = "SETTLED"
    PROVE  events'[e].status = "SETTLED" /\ contributions'[e] = contributions[e]
<1>1. /\ events \in Seq(EventRow) /\ e \in EventIds
      /\ contributions \in [EventIds -> [Fighters -> ContributionRow]]
    BY EventsAreIds DEF BossIInv, BossShape
<1>2. ASSUME \/ UNCHANGED bossVars
             \/ \E o \in Openers : BossOpenCount(o)
             \/ \E a \in Fighters : BossSettleRefused(a) \/ \E d \in DOMAIN events : BossPlan(d, a)
      PROVE  UNCHANGED <<events, contributions>>
    BY <1>2 DEF bossVars, BossOpenCount, BossSettleRefused, BossPlan
<1>3. ASSUME NEW o \in Openers, NEW c \in {"early", "active"}, BossOpenInsert(o, c)
      PROVE  events'[e] = events[e] /\ UNCHANGED contributions
    BY <1>1, <1>3 DEF BossOpenInsert
<1>4. ASSUME NEW d \in DOMAIN events, BossTick(d) \/ BossCloseEvent(d) \/ BossMarkSettled(d)
      PROVE  events'[e].status = "SETTLED" /\ UNCHANGED contributions
  <2>1. CASE d = e
    <3>1. events[e] \in EventRow
        BY <1>1
    <3>2. BossTick(e)
        BY <1>4, <2>1 DEF BossCloseEvent, BossMarkSettled
    <3>3. PICK x : events' = [events EXCEPT ![e].clock = x]
        BY <3>2 DEF BossTick
    <3>4. events'[e] = [events[e] EXCEPT !.clock = x]
        BY <1>1, <3>3
    <3>. QED
        BY <3>1, <3>2, <3>4 DEF BossTick, EventRow
  <2>2. CASE d # e
    <3>1. PICK y : events' = [events EXCEPT ![d] = y]
        BY <1>4 DEF BossTick, BossCloseEvent, BossMarkSettled
    <3>. QED
        BY <1>1, <1>4, <2>2, <3>1 DEF BossTick, BossCloseEvent, BossMarkSettled
  <2>. QED
      BY <2>1, <2>2
<1>5. ASSUME NEW d \in DOMAIN events, NEW a \in Fighters, NEW n \in Blows, BossContribute(d, a, n)
      PROVE  UNCHANGED events /\ contributions'[e] = contributions[e]
  <2>1. d # e /\ UNCHANGED events
      BY <1>5 DEF BossContribute
  <2>2. PICK y : contributions' = [contributions EXCEPT ![d] = y]
      BY <1>5 DEF BossContribute
  <2>. QED
      BY <1>1, <2>1, <2>2
<1>6. ASSUME NEW a \in Fighters, BossSettle(a)
      PROVE  UNCHANGED events /\ contributions'[e] = contributions[e]
  <2>. DEFINE d == settler[a].event
  <2>1. d # e /\ UNCHANGED events
      BY <1>6 DEF BossSettle, PayBossReward, ReadyForSettlement
  <2>2. contributions' = [contributions EXCEPT ![d][a].reward = "paid", ![d][a].planned = settler[a].planned]
      BY <1>6 DEF BossSettle, PayBossReward
  <2>. HIDE DEF d
  <2>. QED
      BY <1>1, <2>1, <2>2
<1>. QED
    BY <1>2, <1>3, <1>4, <1>5, <1>6 DEF BossNext

(* An event pays each fighter once, from no more than was contributed and  *)
(* only when it is over; overlapping requests open it no more often than   *)
(* there are requests; and after SETTLED nothing about it changes.         *)
THEOREM BossAlwaysSettlesOnce == BossSpec => BossSettlesOnce
<1>1. BossIInv => BossTypeOK /\ BossPaidOnce /\ PaidAtMostContributed /\ OpenEventsBounded
  <2>. SUFFICES ASSUME BossIInv PROVE BossTypeOK /\ BossPaidOnce /\ PaidAtMostContributed
      BY DEF BossIInv
  <2>1. BossPaidOnce /\ PaidAtMostContributed
      BY DEF BossIInv, RewardInv, BossPaidOnce, PaidAtMostContributed
  <2>2. \A e \in DOMAIN events : events[e].status \in {"OPEN", "SETTLING", "SETTLED"}
    <3>1. \A e \in DOMAIN events : events[e] \in EventRow
        BY DEF BossIInv, BossShape
    <3>. QED
        BY <3>1 DEF EventRow
  <2>3. \A e \in EventIds, a \in Fighters : contributions[e][a].contribution \in 0 .. MaxContribution
    <3>1. \A e \in EventIds, a \in Fighters : contributions[e][a] \in ContributionRow
        BY DEF BossIInv, BossShape
    <3>. QED
        BY <3>1 DEF ContributionRow
  <2>. QED
      BY <2>1, <2>2, <2>3 DEF BossIInv, RewardInv, Over, BossTypeOK
<1>2. BossIInv /\ [BossNext]_bossVars =>
        [\A e \in DOMAIN events : events[e].status = "SETTLED" =>
            events'[e].status = "SETTLED" /\ contributions'[e] = contributions[e]]_bossVars
    BY SettledStays
<1>. QED
    BY <1>1, <1>2, BossInitIInv, BossNextIInv, PTL DEF BossSpec, BossSettlesOnce, SettledIsFinal

-----------------------------------------------------------------------------
(* The market's limits: every configured maximum is at least one. *)
LEMMA RulesPositive ==
    /\ BaseListingSlots \in Nat \ {0} /\ MaterialExpandSlots \in Nat \ {0} /\ WalletExpandSlots \in Nat \ {0}
    /\ MaterialExpandMaxTimes \in Nat \ {0} /\ WalletExpandMaxTimes \in Nat \ {0}
    /\ MaxListingsCreatedPerDay \in Nat \ {0} /\ MaxCancelsPerDay \in Nat \ {0}
    /\ MaxPurchasesPerDay \in Nat \ {0}
<1>1. /\ Rules.baseListingSlots \in Int /\ Rules.materialExpandSlots \in Int /\ Rules.walletExpandSlots \in Int
      /\ Rules.materialExpandMaxTimes \in Int /\ Rules.walletExpandMaxTimes \in Int
      /\ Rules.maxListingsCreatedPerDay \in Int /\ Rules.maxCancelsPerDay \in Int
      /\ Rules.maxPurchasesPerDay \in Int
    BY LimitsAssumption
<1>. QED
    BY <1>1 DEF WithDefault, BaseListingSlots, MaterialExpandSlots, WalletExpandSlots, MaterialExpandMaxTimes,
       WalletExpandMaxTimes, MaxListingsCreatedPerDay, MaxCancelsPerDay, MaxPurchasesPerDay

(* Calls of one operation in flight. *)
Running(c, op) == {r \in Calls : c[r].op = op}

CallRow == [op : {"none", "list", "cancel", "buy", "material", "wallet"}, pc : {"none", "counted", "slots"},
            trader : Traders \cup {NoTrader}]

(* A call other than a cancellation holds the row of its character, which  *)
(* no two calls hold; at most one listing holds the slots row.             *)
LocksHeld(c) ==
    /\ c \in [Calls -> CallRow]
    /\ \A r \in Calls : /\ c[r].op \in {"list", "buy", "material", "wallet"} => c[r].trader \in Traders
                        /\ c[r].pc = "slots" => c[r].op = "list"
    /\ \A r, s \in Calls : /\ c[r].trader = c[s].trader /\ c[r].trader # NoTrader => r = s
                           /\ c[r].pc = "slots" /\ c[s].pc = "slots" => r = s

LEMMA RunningBounded ==
    ASSUME NEW c, LocksHeld(c), NEW op
    PROVE  /\ IsFiniteSet(Running(c, op)) /\ Cardinality(Running(c, op)) \in Nat
           /\ Cardinality(Running(c, op)) <= Cardinality(Calls) /\ Cardinality(Calls) \in Nat
           /\ op \in {"list", "buy"} => Cardinality(Running(c, op)) <= Cardinality(Traders)
           /\ Cardinality(Traders) \in Nat
<1>1. IsFiniteSet(Running(c, op)) /\ Cardinality(Running(c, op)) <= Cardinality(Calls)
    BY LimitsAssumption, FS_Subset DEF Running
<1>2. Cardinality(Running(c, op)) \in Nat /\ Cardinality(Calls) \in Nat /\ Cardinality(Traders) \in Nat
    BY <1>1, LimitsAssumption, FS_CardinalityType
<1>3. ASSUME op \in {"list", "buy"} PROVE Cardinality(Running(c, op)) <= Cardinality(Traders)
  <2>. DEFINE R == Running(c, op)
              f == [r \in R |-> c[r].trader]
  <2>1. \A r \in R : r \in Calls /\ c[r].trader \in Traders /\ c[r].trader # NoTrader
      BY <1>3, LimitsAssumption DEF Running, LocksHeld, NoTrader
  <2>2. \A r, s \in R : c[r].trader = c[s].trader => r = s
      BY <2>1 DEF LocksHeld
  <2>. HIDE DEF R
  <2>3. f \in Injection(R, Traders)
      BY <2>1, <2>2 DEF Injection, IsInjective
  <2>. HIDE DEF f
  <2>4. Cardinality(R) <= Cardinality(Traders)
      BY <2>3, LimitsAssumption, FS_Injection
  <2>. QED
      BY <2>4 DEF R
<1>. QED
    BY <1>1, <1>2, <1>3

(* A call begins, moves on or ends. *)
Count(c, op) == Cardinality(Running(c, op))

Goes(c, d, r, y) == d[r] = y /\ \A s \in Calls : s # r => d[s] = c[s]

LEMMA CallGoes ==
    ASSUME NEW c, LocksHeld(c), NEW r \in Calls, NEW y, NEW d, Goes(c, d, r, y), NEW op
    PROVE  /\ c[r].op = op /\ y.op = op => Count(d, op) = Count(c, op)
           /\ c[r].op # op /\ y.op # op => Count(d, op) = Count(c, op)
           /\ c[r].op # op /\ y.op = op => Count(d, op) = Count(c, op) + 1
           /\ c[r].op = op /\ y.op # op => Count(d, op) = Count(c, op) - 1
<1>2. /\ c[r].op = op /\ y.op = op => Running(d, op) = Running(c, op)
      /\ c[r].op # op /\ y.op # op => Running(d, op) = Running(c, op)
      /\ c[r].op # op /\ y.op = op => Running(d, op) = Running(c, op) \cup {r} /\ r \notin Running(c, op)
      /\ c[r].op = op /\ y.op # op => Running(d, op) = Running(c, op) \ {r} /\ r \in Running(c, op)
    BY DEF Running, Goes
<1>3. IsFiniteSet(Running(c, op))
    BY RunningBounded
<1>4. r \notin Running(c, op) => Cardinality(Running(c, op) \cup {r}) = Cardinality(Running(c, op)) + 1
    BY <1>3, FS_AddElement
<1>5. r \in Running(c, op) => Cardinality(Running(c, op) \ {r}) = Cardinality(Running(c, op)) - 1
    BY <1>3, FS_RemoveElement
<1>6. c[r].op # op /\ y.op = op => Cardinality(Running(d, op)) = Cardinality(Running(c, op)) + 1
    BY <1>2, <1>4
<1>7. c[r].op = op /\ y.op # op => Cardinality(Running(d, op)) = Cardinality(Running(c, op)) - 1
    BY <1>2, <1>5
<1>. QED
    BY <1>2, <1>6, <1>7, Zenon DEF Count

(* Slots only ever grow. *)
LEMMA CapacityGrows ==
    ASSUME NEW x \in [material : Nat, wallet : Nat]
    PROVE  /\ SlotCapacity(x) \in Nat
           /\ \A y \in [material : Nat, wallet : Nat] :
                \/ y.material = x.material + 1 /\ y.wallet = x.wallet
                \/ y.material = x.material /\ y.wallet = x.wallet + 1
                => SlotCapacity(x) <= SlotCapacity(y)
<1>. DEFINE B == BaseListingSlots
            M == MaterialExpandSlots
            W == WalletExpandSlots
<1>1. B \in Nat /\ M \in Nat /\ W \in Nat
    BY RulesPositive
<1>. HIDE DEF B, M, W
<1>2. \A n \in Nat : n * M \in Nat /\ n * W \in Nat /\ (n + 1) * M = n * M + M /\ (n + 1) * W = n * W + W
    BY <1>1
<1>3. \A y : SlotCapacity(y) = B + y.material * M + y.wallet * W
    BY DEF SlotCapacity, B, M, W
<1>4. SlotCapacity(x) \in Nat
    BY <1>1, <1>2, <1>3
<1>5. ASSUME NEW y \in [material : Nat, wallet : Nat],
             y.material = x.material + 1 /\ y.wallet = x.wallet
      PROVE  SlotCapacity(x) <= SlotCapacity(y)
    BY <1>1, <1>2, <1>3, <1>5
<1>6. ASSUME NEW y \in [material : Nat, wallet : Nat],
             y.material = x.material /\ y.wallet = x.wallet + 1
      PROVE  SlotCapacity(x) <= SlotCapacity(y)
    BY <1>1, <1>2, <1>3, <1>6
<1>. QED
    BY <1>4, <1>5, <1>6

LimitsShape ==
    /\ listed \in Nat /\ burst \in Nat /\ openOrders \in {0, 1}
    /\ today \in [created : Nat, cancelled : Nat, bought : Nat]
    /\ expands \in [material : Nat, wallet : Nat]

(* What is listed or was cancelled today was created today, and an open    *)
(* order has its expand reserved.                                          *)
BooksInv ==
    /\ listed + today.cancelled <= today.created /\ today.created <= DayBound /\ today.bought <= DayBound
    /\ expands.material <= MaterialExpandMaxTimes /\ expands.wallet + openOrders <= WalletExpandMaxTimes

(* A call under way has read a count below the limit: what was done and    *)
(* what is under way stay within the limit and the calls that can be under *)
(* way together.                                                           *)
OverrunInv ==
    /\ today.created + Count(call, "list") <= MaxListingsCreatedPerDay - 1 + Cardinality(Traders)
    /\ today.bought + Count(call, "buy") <= MaxPurchasesPerDay - 1 + Cardinality(Traders)
    /\ today.cancelled + Count(call, "cancel") <= MaxCancelsPerDay - 1 + Cardinality(Calls)
    /\ Rules.purchaseCooldownSeconds # 0 => burst + Count(call, "buy") <= Cardinality(Traders)

(* The holder of the slots row has seen a free slot. *)
SlotInv ==
    /\ listed <= SlotCapacity(expands)
    /\ \A r \in Calls : call[r].pc = "slots" => listed < SlotCapacity(expands)

(* A trade under way that no restriction has overtaken is not restricted.  *)
RestrictionInv ==
    /\ ~evaded
    /\ \A r \in Calls : r \notin warned =>
          /\ call[r].op = "list" => NotRestricted("SELL")
          /\ call[r].op = "buy" => NotRestricted("BUY")

LimitsIInv == LocksHeld(call) /\ LimitsShape /\ BooksInv /\ OverrunInv /\ SlotInv /\ RestrictionInv

LEMMA LimitsInitIInv == LimitsInit => LimitsIInv
<1>. SUFFICES ASSUME LimitsInit PROVE LimitsIInv
    OBVIOUS
<1>1. LocksHeld(call)
    BY DEF LimitsInit, LocksHeld, CallRow, NoCall
<1>2. LimitsShape /\ BooksInv
  <2>1. /\ listed = 0 /\ burst = 0 /\ openOrders = 0 /\ today.created = 0 /\ today.cancelled = 0 /\ today.bought = 0
        /\ expands.material = 0 /\ expands.wallet = 0
      BY DEF LimitsInit
  <2>2. LimitsShape
      BY DEF LimitsInit, LimitsShape
  <2>3. MaterialExpandMaxTimes \in Nat /\ WalletExpandMaxTimes \in Nat /\ DayBound \in Nat
      BY LimitsAssumption, RulesPositive
  <2>. QED
      BY <2>1, <2>2, <2>3 DEF BooksInv
<1>3. Count(call, "list") = 0 /\ Count(call, "buy") = 0 /\ Count(call, "cancel") = 0
  <2>1. \A op \in {"list", "buy", "cancel"} : Running(call, op) = {}
      BY DEF LimitsInit, Running, NoCall
  <2>. QED
      BY <2>1, FS_EmptySet DEF Count
<1>4. Cardinality(Traders) \in Nat /\ Cardinality(Calls) \in Nat
    BY LimitsAssumption, FS_CardinalityType
<1>5. OverrunInv
    BY <1>3, <1>4, RulesPositive DEF LimitsInit, OverrunInv
<1>6. SlotInv
  <2>1. SlotCapacity(expands) \in Nat
      BY <1>2, CapacityGrows DEF LimitsShape
  <2>2. \A r \in Calls : call[r].pc = "none"
      BY DEF LimitsInit, NoCall
  <2>. QED
      BY <2>1, <2>2 DEF LimitsInit, SlotInv
<1>7. RestrictionInv
    BY DEF LimitsInit, RestrictionInv, NoCall
<1>. QED
    BY <1>1, <1>2, <1>5, <1>6, <1>7 DEF LimitsIInv

(* Locks are taken by a call that finds its character free, and released   *)
(* at its end.                                                             *)
LEMMA LocksBegin ==
    ASSUME LocksHeld(call), NEW r \in Calls, NEW y \in CallRow, y.pc # "slots", y.op # "cancel" => y.trader \in Traders,
           \A s \in Calls : s # r /\ y.trader # NoTrader => call[s].trader # y.trader
    PROVE  LocksHeld([call EXCEPT ![r] = y])
<1>. DEFINE d == [call EXCEPT ![r] = y]
<1>1. d \in [Calls -> CallRow] /\ d[r] = y /\ \A s \in Calls : s # r => d[s] = call[s]
    BY DEF LocksHeld
<1>. HIDE DEF d
<1>2. \A s \in Calls : /\ d[s].op \in {"list", "buy", "material", "wallet"} => d[s].trader \in Traders
                       /\ d[s].pc = "slots" => d[s].op = "list"
    BY <1>1 DEF LocksHeld
<1>3. ASSUME NEW s \in Calls, NEW t \in Calls, d[s].trader = d[t].trader, d[s].trader # NoTrader PROVE s = t
    BY <1>1, <1>3 DEF LocksHeld
<1>4. ASSUME NEW s \in Calls, NEW t \in Calls, d[s].pc = "slots", d[t].pc = "slots" PROVE s = t
    BY <1>1, <1>4 DEF LocksHeld
<1>5. LocksHeld(d)
    BY <1>1, <1>2, <1>3, <1>4 DEF LocksHeld
<1>. QED
    BY <1>5 DEF d

LEMMA NoCallFacts ==
    NoCall \in CallRow /\ NoCall.op = "none" /\ NoCall.pc = "none" /\ NoCall.trader = NoTrader
BY DEF NoCall, CallRow

LEMMA LocksEnd ==
    ASSUME LocksHeld(call), NEW r \in Calls
    PROVE  LocksHeld([call EXCEPT ![r] = NoCall])
<1>. DEFINE d == [call EXCEPT ![r] = NoCall]
<1>1. d \in [Calls -> CallRow] /\ d[r] = NoCall /\ \A s \in Calls : s # r => d[s] = call[s]
    BY NoCallFacts DEF LocksHeld
<1>. HIDE DEF d
<1>2. LocksHeld(d)
    BY <1>1, NoCallFacts DEF LocksHeld
<1>. QED
    BY <1>2 DEF d

(* A call that begins writes nothing but itself. *)
LEMMA BeginStep ==
    ASSUME LimitsIInv, NEW r \in Calls, NEW y \in CallRow, call[r] = NoCall, call' = [call EXCEPT ![r] = y],
           y.pc # "slots", y.op # "cancel" => y.trader \in Traders,
           \A s \in Calls : s # r /\ y.trader # NoTrader => call[s].trader # y.trader,
           y.op = "list" => NotRestricted("SELL") /\ today.created < MaxListingsCreatedPerDay,
           y.op = "buy" => /\ NotRestricted("BUY") /\ today.bought < MaxPurchasesPerDay
                           /\ Rules.purchaseCooldownSeconds # 0 => burst = 0,
           y.op = "cancel" => today.cancelled < MaxCancelsPerDay,
           UNCHANGED <<listed, today, burst, expands, openOrders, restrictions, warned, evaded>>
    PROVE  LimitsIInv'
<1>1. LocksHeld(call) /\ LocksHeld(call')
    BY LocksBegin DEF LimitsIInv
<1>2. call[r].op = "none" /\ call[r].pc = "none" /\ call'[r] = y /\ \A s \in Calls : s # r => call'[s] = call[s]
    BY <1>1, NoCallFacts DEF LocksHeld
<1>3. LimitsShape' /\ BooksInv'
    BY DEF LimitsIInv, LimitsShape, BooksInv
<1>4. SlotInv' /\ RestrictionInv'
    BY <1>2 DEF LimitsIInv, SlotInv, RestrictionInv, NotRestricted
<1>5. \A op \in {"list", "buy", "cancel"} :
        Count(call', op) = Count(call, op) + (IF y.op = op THEN 1 ELSE 0)
  <2>. SUFFICES ASSUME NEW op \in {"list", "buy", "cancel"}
                PROVE  Count(call', op) = Count(call, op) + (IF y.op = op THEN 1 ELSE 0)
      OBVIOUS
  <2>1. call[r].op # op /\ Count(call, op) \in Nat
      BY <1>1, <1>2, RunningBounded DEF Count
  <2>2. /\ y.op # op => Count(call', op) = Count(call, op)
        /\ y.op = op => Count(call', op) = Count(call, op) + 1
    <3>1. Goes(call, call', r, y)
        BY <1>2 DEF Goes
    <3>. QED
        BY <1>1, <2>1, <3>1, CallGoes
  <2>. QED
      BY <2>1, <2>2
<1>6. /\ Count(call', "list") \in Nat /\ Count(call', "list") <= Cardinality(Traders)
      /\ Count(call', "buy") \in Nat /\ Count(call', "buy") <= Cardinality(Traders)
      /\ Count(call', "cancel") \in Nat /\ Count(call', "cancel") <= Cardinality(Calls)
      /\ Count(call, "list") \in Nat /\ Count(call, "buy") \in Nat /\ Count(call, "cancel") \in Nat
      /\ Cardinality(Traders) \in Nat /\ Cardinality(Calls) \in Nat
    BY <1>1, RunningBounded DEF Count
<1>7. today.created \in Nat /\ today.cancelled \in Nat /\ today.bought \in Nat /\ burst \in Nat
    BY DEF LimitsIInv, LimitsShape
<1>8. today.created + Count(call', "list") <= MaxListingsCreatedPerDay - 1 + Cardinality(Traders)
  <2>1. CASE y.op = "list"
      BY <1>6, <1>7, <2>1, RulesPositive
  <2>2. CASE y.op # "list"
      BY <1>5, <1>6, <1>7, <2>2, RulesPositive DEF LimitsIInv, OverrunInv
  <2>. QED
      BY <2>1, <2>2
<1>9. /\ today.bought + Count(call', "buy") <= MaxPurchasesPerDay - 1 + Cardinality(Traders)
      /\ Rules.purchaseCooldownSeconds # 0 => burst + Count(call', "buy") <= Cardinality(Traders)
  <2>1. CASE y.op = "buy"
      BY <1>6, <1>7, <2>1, RulesPositive
  <2>2. CASE y.op # "buy"
      BY <1>5, <1>6, <1>7, <2>2, RulesPositive DEF LimitsIInv, OverrunInv
  <2>. QED
      BY <2>1, <2>2
<1>10. today.cancelled + Count(call', "cancel") <= MaxCancelsPerDay - 1 + Cardinality(Calls)
  <2>1. CASE y.op = "cancel"
      BY <1>6, <1>7, <2>1, RulesPositive
  <2>2. CASE y.op # "cancel"
      BY <1>5, <1>6, <1>7, <2>2, RulesPositive DEF LimitsIInv, OverrunInv
  <2>. QED
      BY <2>1, <2>2
<1>11. OverrunInv'
    BY <1>8, <1>9, <1>10 DEF OverrunInv
<1>. QED
    BY <1>1, <1>3, <1>4, <1>11 DEF LimitsIInv

(* What the counts are after a call has ended, and that they are numbers.  *)
CountsAfterEnd(r) ==
    \A op \in {"list", "buy", "cancel"} :
        /\ Count(call, op) \in Nat /\ Count(call', op) \in Nat
        /\ call[r].op = op => Count(call', op) = Count(call, op) - 1
        /\ call[r].op # op => Count(call', op) = Count(call, op)

LEMMA EndFacts ==
    ASSUME LimitsIInv, NEW r \in Calls, EndCall(r)
    PROVE  /\ LocksHeld(call') /\ CountsAfterEnd(r)
           /\ call'[r] = NoCall /\ warned' = warned \ {r}
           /\ \A s \in Calls : s # r => call'[s] = call[s]
           /\ Cardinality(Traders) \in Nat /\ Cardinality(Calls) \in Nat
<1>1. call' = [call EXCEPT ![r] = NoCall] /\ warned' = warned \ {r} /\ LocksHeld(call)
    BY DEF EndCall, LimitsIInv
<1>2. LocksHeld(call')
    BY <1>1, LocksEnd
<1>3. call'[r] = NoCall /\ \A s \in Calls : s # r => call'[s] = call[s]
    BY <1>1 DEF LocksHeld
<1>4. Goes(call, call', r, NoCall)
    BY <1>3 DEF Goes
<1>5. ASSUME NEW op \in {"list", "buy", "cancel"}
      PROVE  /\ Count(call, op) \in Nat /\ Count(call', op) \in Nat
             /\ call[r].op = op => Count(call', op) = Count(call, op) - 1
             /\ call[r].op # op => Count(call', op) = Count(call, op)
  <2>1. NoCall.op # op
      BY NoCallFacts
  <2>2. /\ call[r].op = op => Count(call', op) = Count(call, op) - 1
        /\ call[r].op # op => Count(call', op) = Count(call, op)
      BY <1>1, <1>4, <2>1, CallGoes
  <2>. QED
      BY <1>1, <1>2, <2>2, RunningBounded DEF Count
<1>6. Cardinality(Traders) \in Nat /\ Cardinality(Calls) \in Nat
    BY LimitsAssumption, FS_CardinalityType
<1>. QED
    BY <1>1, <1>2, <1>3, <1>5, <1>6 DEF CountsAfterEnd

(* The end of a call that did not trade against a restriction, after it    *)
(* has counted itself where it belongs.                                    *)
LEMMA EndStep ==
    ASSUME LimitsIInv, NEW r \in Calls, EndCall(r), LimitsShape', BooksInv', SlotInv',
           restrictions' = restrictions,
           evaded' = FALSE,
           \/ today' = today /\ burst' = burst
           \/ /\ call[r].op = "list" /\ burst' = burst
              /\ today'.created = today.created + 1 /\ today'.cancelled = today.cancelled /\ today'.bought = today.bought
           \/ /\ call[r].op = "cancel" /\ burst' = burst
              /\ today'.created = today.created /\ today'.cancelled = today.cancelled + 1 /\ today'.bought = today.bought
           \/ /\ call[r].op = "buy" /\ burst' = burst + 1
              /\ today'.created = today.created /\ today'.cancelled = today.cancelled /\ today'.bought = today.bought + 1
    PROVE  LimitsIInv'
<1>1. /\ LocksHeld(call') /\ CountsAfterEnd(r)
      /\ call'[r] = NoCall /\ warned' = warned \ {r}
      /\ \A s \in Calls : s # r => call'[s] = call[s]
      /\ Cardinality(Traders) \in Nat /\ Cardinality(Calls) \in Nat
    BY EndFacts
<1>2. RestrictionInv'
    BY <1>1, NoCallFacts DEF LimitsIInv, RestrictionInv, NotRestricted
<1>3. /\ Count(call, "list") \in Nat /\ Count(call', "list") \in Nat
      /\ Count(call', "list") = Count(call, "list") - (IF call[r].op = "list" THEN 1 ELSE 0)
    BY <1>1 DEF CountsAfterEnd
<1>4. /\ Count(call, "buy") \in Nat /\ Count(call', "buy") \in Nat
      /\ Count(call', "buy") = Count(call, "buy") - (IF call[r].op = "buy" THEN 1 ELSE 0)
    BY <1>1 DEF CountsAfterEnd
<1>5. /\ Count(call, "cancel") \in Nat /\ Count(call', "cancel") \in Nat
      /\ Count(call', "cancel") = Count(call, "cancel") - (IF call[r].op = "cancel" THEN 1 ELSE 0)
    BY <1>1 DEF CountsAfterEnd
<1>6. today.created \in Nat /\ today.cancelled \in Nat /\ today.bought \in Nat /\ burst \in Nat
    BY DEF LimitsIInv, LimitsShape
<1>7. /\ today'.created <= today.created + (IF call[r].op = "list" THEN 1 ELSE 0)
      /\ today'.bought <= today.bought + (IF call[r].op = "buy" THEN 1 ELSE 0)
      /\ today'.cancelled <= today.cancelled + (IF call[r].op = "cancel" THEN 1 ELSE 0)
      /\ burst' <= burst + (IF call[r].op = "buy" THEN 1 ELSE 0)
      /\ today'.created \in Nat /\ today'.cancelled \in Nat /\ today'.bought \in Nat /\ burst' \in Nat
    BY <1>6
<1>8. today'.created + Count(call', "list") <= MaxListingsCreatedPerDay - 1 + Cardinality(Traders)
    BY <1>1, <1>3, <1>6, <1>7, RulesPositive DEF LimitsIInv, OverrunInv
<1>9. today'.bought + Count(call', "buy") <= MaxPurchasesPerDay - 1 + Cardinality(Traders)
    BY <1>1, <1>4, <1>6, <1>7, RulesPositive DEF LimitsIInv, OverrunInv
<1>10. today'.cancelled + Count(call', "cancel") <= MaxCancelsPerDay - 1 + Cardinality(Calls)
    BY <1>1, <1>5, <1>6, <1>7, RulesPositive DEF LimitsIInv, OverrunInv
<1>11. Rules.purchaseCooldownSeconds # 0 => burst' + Count(call', "buy") <= Cardinality(Traders)
    BY <1>1, <1>4, <1>6, <1>7, RulesPositive DEF LimitsIInv, OverrunInv
<1>12. OverrunInv'
    BY <1>8, <1>9, <1>10, <1>11 DEF OverrunInv
<1>. QED
    BY <1>1, <1>2, <1>12 DEF LimitsIInv

LEMMA LimitsBeginSteps ==
    ASSUME LimitsIInv, NEW r \in Calls,
           \/ CancelBegin(r)
           \/ \E t \in Traders : \/ ListBegin(r, t) \/ BuyBegin(r, t)
                                 \/ \E op \in {"material", "wallet"} : ExpandBegin(r, t, op)
    PROVE  LimitsIInv'
<1>. DEFINE Row(op, t) == [op |-> op, pc |-> "counted", trader |-> t]
<1>1. \A op \in {"list", "cancel", "buy", "material", "wallet"}, t \in Traders \cup {NoTrader} :
         Row(op, t) \in CallRow /\ Row(op, t).pc # "slots" /\ Row(op, t).op = op /\ Row(op, t).trader = t
    BY DEF CallRow
<1>2. ASSUME CancelBegin(r) PROVE LimitsIInv'
  <2>. DEFINE y == Row("cancel", NoTrader)
  <2>1. /\ call[r] = NoCall /\ call' = [call EXCEPT ![r] = y] /\ today.cancelled < MaxCancelsPerDay
        /\ UNCHANGED <<listed, today, burst, expands, openOrders, restrictions, warned, evaded>>
      BY <1>2 DEF CancelBegin, Starts, Enter
  <2>2. y \in CallRow /\ y.pc # "slots" /\ y.op = "cancel" /\ y.trader = NoTrader
      BY <1>1
  <2>. HIDE DEF y
  <2>. QED
      BY <2>1, <2>2, BeginStep
<1>3. ASSUME NEW t \in Traders, NEW op \in {"list", "buy", "material", "wallet"},
             call[r] = NoCall, call' = [call EXCEPT ![r] = Row(op, t)], CharacterFree(t),
             op = "list" => NotRestricted("SELL") /\ today.created < MaxListingsCreatedPerDay,
             op = "buy" => /\ NotRestricted("BUY") /\ today.bought < MaxPurchasesPerDay
                           /\ Rules.purchaseCooldownSeconds # 0 => burst = 0,
             UNCHANGED <<listed, today, burst, expands, openOrders, restrictions, warned, evaded>>
      PROVE  LimitsIInv'
  <2>. DEFINE y == Row(op, t)
  <2>1. y \in CallRow /\ y.pc # "slots" /\ y.op = op /\ y.trader = t
      BY <1>1
  <2>2. call' = [call EXCEPT ![r] = y] /\ \A s \in Calls : call[s].trader # t
      BY <1>3 DEF CharacterFree
  <2>. HIDE DEF y
  <2>. QED
      BY <1>3, <2>1, <2>2, BeginStep
<1>4. ASSUME NEW t \in Traders, ListBegin(r, t) PROVE LimitsIInv'
    BY <1>3, <1>4 DEF ListBegin, Starts, Enter
<1>5. ASSUME NEW t \in Traders, BuyBegin(r, t) PROVE LimitsIInv'
    BY <1>3, <1>5 DEF BuyBegin, Starts, Enter
<1>6. ASSUME NEW t \in Traders, NEW op \in {"material", "wallet"}, ExpandBegin(r, t, op) PROVE LimitsIInv'
    BY <1>3, <1>6 DEF ExpandBegin, Starts, Enter
<1>. QED
    BY <1>2, <1>4, <1>5, <1>6

(* A listing takes the slots row, which nobody holds, and has seen a slot. *)
LEMMA TakeSlotStep ==
    ASSUME LimitsIInv, NEW r \in Calls, ListTakeSlot(r)
    PROVE  LimitsIInv'
<1>. DEFINE y == [op |-> "list", pc |-> "slots", trader |-> call[r].trader]
<1>1. /\ call[r].op = "list" /\ \A s \in Calls : call[s].pc # "slots"
      /\ listed < SlotCapacity(expands) /\ call' = [call EXCEPT ![r] = y]
      /\ UNCHANGED <<listed, today, burst, expands, openOrders, restrictions, warned, evaded>>
    BY DEF ListTakeSlot, At, SlotsHeld, Enter
<1>2. LocksHeld(call) /\ call[r] \in CallRow
    BY DEF LimitsIInv, LocksHeld
<1>3. y \in CallRow /\ y.op = "list" /\ y.trader = call[r].trader /\ y.pc = "slots"
    BY <1>2 DEF CallRow
<1>. HIDE DEF y
<1>4. call' \in [Calls -> CallRow] /\ call'[r] = y /\ \A s \in Calls : s # r => call'[s] = call[s]
    BY <1>1, <1>2, <1>3 DEF LocksHeld
<1>5. \A s \in Calls : call'[s].op = call[s].op /\ call'[s].trader = call[s].trader
    BY <1>1, <1>3, <1>4
<1>6. \A s \in Calls : call'[s].pc = "slots" => s = r
    BY <1>1, <1>4
<1>7. LocksHeld(call')
    BY <1>1, <1>2, <1>4, <1>5, <1>6 DEF LocksHeld
<1>8. \A op : Running(call', op) = Running(call, op)
    BY <1>5 DEF Running
<1>9. OverrunInv'
    BY <1>1, <1>8 DEF LimitsIInv, OverrunInv, Count
<1>10. LimitsShape' /\ BooksInv' /\ SlotInv' /\ RestrictionInv'
    BY <1>1, <1>5 DEF LimitsIInv, LimitsShape, BooksInv, SlotInv, RestrictionInv, NotRestricted
<1>. QED
    BY <1>7, <1>9, <1>10 DEF LimitsIInv

(* Today's numbers after one of them has grown. *)
LEMMA TodayFacts ==
    ASSUME LimitsShape
    PROVE  /\ today.created \in Nat /\ today.cancelled \in Nat /\ today.bought \in Nat
           /\ LET t == [today EXCEPT !.created = @ + 1]
              IN  t \in [created : Nat, cancelled : Nat, bought : Nat] /\ t.created = today.created + 1
                  /\ t.cancelled = today.cancelled /\ t.bought = today.bought
           /\ LET t == [today EXCEPT !.cancelled = @ + 1]
              IN  t \in [created : Nat, cancelled : Nat, bought : Nat] /\ t.created = today.created
                  /\ t.cancelled = today.cancelled + 1 /\ t.bought = today.bought
           /\ LET t == [today EXCEPT !.bought = @ + 1]
              IN  t \in [created : Nat, cancelled : Nat, bought : Nat] /\ t.created = today.created
                  /\ t.cancelled = today.cancelled /\ t.bought = today.bought + 1
BY DEF LimitsShape

LEMMA ListCommitStep ==
    ASSUME LimitsIInv, NEW r \in Calls, ListCommit(r)
    PROVE  LimitsIInv'
<1>1. /\ call[r].op = "list" /\ call[r].pc = "slots" /\ today.created < DayBound /\ listed' = listed + 1
      /\ today' = [today EXCEPT !.created = @ + 1] /\ Traded(r, "SELL") /\ EndCall(r)
      /\ UNCHANGED <<burst, expands, openOrders, restrictions>>
    BY DEF ListCommit, At
<1>2. LocksHeld(call) /\ LimitsShape /\ BooksInv /\ SlotInv /\ RestrictionInv
    BY DEF LimitsIInv
<1>3. /\ today' \in [created : Nat, cancelled : Nat, bought : Nat] /\ today'.created = today.created + 1
      /\ today'.cancelled = today.cancelled /\ today'.bought = today.bought
      /\ today.created \in Nat /\ today.cancelled \in Nat /\ today.bought \in Nat
    BY <1>1, <1>2, TodayFacts
<1>4. LimitsShape'
    BY <1>1, <1>2, <1>3 DEF LimitsShape
<1>5. BooksInv'
  <2>1. listed \in Nat /\ DayBound \in Nat
      BY <1>2, LimitsAssumption DEF LimitsShape
  <2>. QED
      BY <1>1, <1>2, <1>3, <2>1 DEF BooksInv
<1>6. SlotInv'
  <2>1. /\ listed \in Nat /\ SlotCapacity(expands) \in Nat /\ listed < SlotCapacity(expands)
        /\ SlotCapacity(expands)' = SlotCapacity(expands)
      BY <1>1, <1>2, CapacityGrows DEF LimitsShape, SlotInv, SlotCapacity
  <2>2. \A s \in Calls : call'[s].pc # "slots"
      BY <1>1, <1>2, EndFacts, NoCallFacts DEF LocksHeld
  <2>. QED
      BY <1>1, <2>1, <2>2 DEF SlotInv
<1>7. evaded' = FALSE
    BY <1>1, <1>2 DEF Traded, RestrictionInv
<1>. QED
    BY <1>1, <1>3, <1>4, <1>5, <1>6, <1>7, EndStep

LEMMA CancelCommitStep ==
    ASSUME LimitsIInv, NEW r \in Calls, CancelCommit(r)
    PROVE  LimitsIInv'
<1>1. /\ call[r].op = "cancel" /\ listed > 0 /\ listed' = listed - 1
      /\ today' = [today EXCEPT !.cancelled = @ + 1] /\ EndCall(r)
      /\ UNCHANGED <<burst, expands, openOrders, restrictions, evaded>>
    BY DEF CancelCommit, At
<1>2. LocksHeld(call) /\ LimitsShape /\ BooksInv /\ SlotInv /\ RestrictionInv
    BY DEF LimitsIInv
<1>3. /\ today' \in [created : Nat, cancelled : Nat, bought : Nat] /\ today'.created = today.created
      /\ today'.cancelled = today.cancelled + 1 /\ today'.bought = today.bought
      /\ today.created \in Nat /\ today.cancelled \in Nat /\ today.bought \in Nat
    BY <1>1, <1>2, TodayFacts
<1>4. listed \in Nat /\ listed' \in Nat
    BY <1>1, <1>2 DEF LimitsShape
<1>5. LimitsShape'
    BY <1>1, <1>2, <1>3, <1>4 DEF LimitsShape
<1>6. BooksInv'
    BY <1>1, <1>2, <1>3, <1>4 DEF BooksInv
<1>7. SlotInv'
  <2>1. SlotCapacity(expands) \in Nat /\ SlotCapacity(expands)' = SlotCapacity(expands)
      BY <1>1, <1>2, CapacityGrows DEF LimitsShape, SlotCapacity
  <2>2. \A s \in Calls : call'[s].pc = "slots" => call[s].pc = "slots"
      BY <1>1, EndFacts, NoCallFacts
  <2>. QED
      BY <1>1, <1>2, <1>4, <2>1, <2>2 DEF SlotInv
<1>8. evaded' = FALSE
    BY <1>1, <1>2 DEF RestrictionInv
<1>. QED
    BY <1>1, <1>3, <1>5, <1>6, <1>7, <1>8, EndStep

LEMMA BuyCommitStep ==
    ASSUME LimitsIInv, NEW r \in Calls, BuyCommit(r)
    PROVE  LimitsIInv'
<1>1. /\ call[r].op = "buy" /\ today.bought < DayBound /\ burst' = burst + 1
      /\ today' = [today EXCEPT !.bought = @ + 1] /\ Traded(r, "BUY") /\ EndCall(r)
      /\ UNCHANGED <<listed, expands, openOrders, restrictions>>
    BY DEF BuyCommit, At
<1>2. LocksHeld(call) /\ LimitsShape /\ BooksInv /\ SlotInv /\ RestrictionInv
    BY DEF LimitsIInv
<1>3. /\ today' \in [created : Nat, cancelled : Nat, bought : Nat] /\ today'.created = today.created
      /\ today'.cancelled = today.cancelled /\ today'.bought = today.bought + 1
      /\ today.created \in Nat /\ today.cancelled \in Nat /\ today.bought \in Nat
    BY <1>1, <1>2, TodayFacts
<1>4. LimitsShape'
    BY <1>1, <1>2, <1>3 DEF LimitsShape
<1>5. BooksInv'
  <2>1. DayBound \in Nat
      BY LimitsAssumption
  <2>. QED
      BY <1>1, <1>2, <1>3, <2>1 DEF BooksInv
<1>6. SlotInv'
  <2>1. SlotCapacity(expands)' = SlotCapacity(expands)
      BY <1>1 DEF SlotCapacity
  <2>2. \A s \in Calls : call'[s].pc = "slots" => call[s].pc = "slots"
      BY <1>1, EndFacts, NoCallFacts
  <2>. QED
      BY <1>1, <1>2, <2>1, <2>2 DEF SlotInv
<1>7. evaded' = FALSE
    BY <1>1, <1>2 DEF Traded, RestrictionInv
<1>. QED
    BY <1>1, <1>3, <1>4, <1>5, <1>6, <1>7, EndStep

(* The slots grow by an expand, the reservation becomes one. *)
LEMMA ExpandFacts ==
    ASSUME LimitsShape
    PROVE  /\ LET x == [expands EXCEPT !.material = @ + 1]
              IN  /\ x \in [material : Nat, wallet : Nat] /\ x.material = expands.material + 1
                  /\ x.wallet = expands.wallet /\ SlotCapacity(expands) <= SlotCapacity(x) /\ SlotCapacity(x) \in Nat
           /\ LET x == [expands EXCEPT !.wallet = @ + 1]
              IN  /\ x \in [material : Nat, wallet : Nat] /\ x.wallet = expands.wallet + 1
                  /\ x.material = expands.material /\ SlotCapacity(expands) <= SlotCapacity(x) /\ SlotCapacity(x) \in Nat
           /\ SlotCapacity(expands) \in Nat /\ expands.material \in Nat /\ expands.wallet \in Nat
<1>. DEFINE x == [expands EXCEPT !.material = @ + 1]
            y == [expands EXCEPT !.wallet = @ + 1]
<1>1. expands \in [material : Nat, wallet : Nat] /\ expands.material \in Nat /\ expands.wallet \in Nat
    BY DEF LimitsShape
<1>2. x \in [material : Nat, wallet : Nat] /\ x.material = expands.material + 1 /\ x.wallet = expands.wallet
    BY <1>1
<1>3. y \in [material : Nat, wallet : Nat] /\ y.material = expands.material /\ y.wallet = expands.wallet + 1
    BY <1>1
<1>. HIDE DEF x, y
<1>4. SlotCapacity(expands) <= SlotCapacity(x) /\ SlotCapacity(x) \in Nat
    BY <1>1, <1>2, CapacityGrows
<1>5. SlotCapacity(expands) <= SlotCapacity(y) /\ SlotCapacity(y) \in Nat
    BY <1>1, <1>3, CapacityGrows
<1>6. SlotCapacity(expands) \in Nat
    BY <1>1, CapacityGrows
<1>. QED
    BY <1>1, <1>2, <1>3, <1>4, <1>5, <1>6 DEF x, y

LEMMA ExpandMaterialStep ==
    ASSUME LimitsIInv, NEW r \in Calls, MarketplaceExpandMaterialSlots(r)
    PROVE  LimitsIInv'
<1>1. /\ expands.material < MaterialExpandMaxTimes /\ EndCall(r)
      /\ expands' = [expands EXCEPT !.material = @ + 1]
      /\ UNCHANGED <<listed, today, burst, openOrders, restrictions, evaded>>
    BY DEF MarketplaceExpandMaterialSlots
<1>2. LocksHeld(call) /\ LimitsShape /\ BooksInv /\ SlotInv /\ RestrictionInv
    BY DEF LimitsIInv
<1>3. /\ expands' \in [material : Nat, wallet : Nat] /\ expands'.material = expands.material + 1
      /\ expands'.wallet = expands.wallet
      /\ SlotCapacity(expands) <= SlotCapacity(expands') /\ SlotCapacity(expands') \in Nat
      /\ SlotCapacity(expands) \in Nat /\ expands.material \in Nat
    BY <1>1, <1>2, ExpandFacts
<1>4. LimitsShape'
    BY <1>1, <1>2, <1>3 DEF LimitsShape
<1>5. BooksInv'
    BY <1>1, <1>2, <1>3, RulesPositive DEF BooksInv
<1>6. SlotInv'
  <2>1. SlotCapacity(expands)' = SlotCapacity(expands') /\ listed \in Nat
      BY <1>2 DEF SlotCapacity, LimitsShape
  <2>2. \A s \in Calls : call'[s].pc = "slots" => call[s].pc = "slots"
      BY <1>1, EndFacts, NoCallFacts
  <2>. QED
      BY <1>1, <1>2, <1>3, <2>1, <2>2 DEF SlotInv
<1>7. evaded' = FALSE
    BY <1>1, <1>2 DEF RestrictionInv
<1>. QED
    BY <1>1, <1>4, <1>5, <1>6, <1>7, EndStep

LEMMA QuietEndSteps ==
    ASSUME LimitsIInv, NEW r \in Calls, MarketplaceExpandWalletSlots(r) \/ Refuse(r)
    PROVE  LimitsIInv'
<1>1. EndCall(r) /\ UNCHANGED <<listed, today, burst, expands, restrictions, evaded>>
    BY DEF MarketplaceExpandWalletSlots, Refuse
<1>2. LocksHeld(call) /\ LimitsShape /\ BooksInv /\ SlotInv /\ RestrictionInv
    BY DEF LimitsIInv
<1>3. /\ openOrders' \in {0, 1}
      /\ openOrders' # openOrders => openOrders = 0 /\ openOrders' = 1 /\ expands.wallet < WalletExpandMaxTimes
    BY <1>2 DEF MarketplaceExpandWalletSlots, Refuse, LimitsShape
<1>4. LimitsShape'
    BY <1>1, <1>2, <1>3 DEF LimitsShape
<1>5. BooksInv'
  <2>1. expands.wallet \in Nat /\ WalletExpandMaxTimes \in Nat
      BY <1>2, RulesPositive DEF LimitsShape
  <2>. QED
      BY <1>1, <1>2, <1>3, <2>1 DEF BooksInv
<1>6. SlotInv'
  <2>1. SlotCapacity(expands)' = SlotCapacity(expands)
      BY <1>1 DEF SlotCapacity
  <2>2. \A s \in Calls : call'[s].pc = "slots" => call[s].pc = "slots"
      BY <1>1, EndFacts, NoCallFacts
  <2>. QED
      BY <1>1, <1>2, <2>1, <2>2 DEF SlotInv
<1>7. evaded' = FALSE
    BY <1>1, <1>2 DEF RestrictionInv
<1>. QED
    BY <1>1, <1>4, <1>5, <1>6, <1>7, EndStep

(* Steps that leave the calls alone: a sale, a fulfilment, the end of the  *)
(* cooldown and what administrators do.                                    *)
LEMMA LimitsOtherSteps ==
    ASSUME LimitsIInv,
           \/ Sold \/ FulfilWalletExpand \/ CooldownEnds \/ UNCHANGED mvars
           \/ \E granted \in BOOLEAN : SetTradingLicense(granted)
    PROVE  LimitsIInv'
<1>1. LocksHeld(call) /\ LimitsShape /\ BooksInv /\ OverrunInv /\ SlotInv /\ RestrictionInv
    BY DEF LimitsIInv
<1>2. /\ call' = call /\ today' = today /\ UNCHANGED <<restrictions, warned, evaded>>
      /\ burst' = burst \/ burst' = 0
      /\ listed' = listed \/ (listed > 0 /\ listed' = listed - 1)
      /\ \/ expands' = expands /\ openOrders' = openOrders
         \/ /\ openOrders > 0 /\ openOrders' = openOrders - 1 /\ expands' = [expands EXCEPT !.wallet = @ + 1]
    BY DEF Sold, FulfilWalletExpand, CooldownEnds, mvars, SetTradingLicense
<1>3. /\ listed \in Nat /\ burst \in Nat /\ openOrders \in {0, 1} /\ today.created \in Nat /\ today.cancelled \in Nat
      /\ expands \in [material : Nat, wallet : Nat] /\ expands.wallet \in Nat
      /\ listed' \in Nat /\ listed' <= listed /\ burst' \in Nat /\ burst' <= burst /\ openOrders' \in {0, 1}
    BY <1>1, <1>2 DEF LimitsShape
<1>4. /\ expands' \in [material : Nat, wallet : Nat] /\ expands'.material = expands.material
      /\ expands'.wallet + openOrders' = expands.wallet + openOrders
      /\ SlotCapacity(expands) \in Nat /\ SlotCapacity(expands') \in Nat
      /\ SlotCapacity(expands) <= SlotCapacity(expands')
  <2>1. CASE expands' = expands /\ openOrders' = openOrders
      BY <1>1, <1>3, <2>1, ExpandFacts
  <2>2. CASE openOrders > 0 /\ openOrders' = openOrders - 1 /\ expands' = [expands EXCEPT !.wallet = @ + 1]
      BY <1>1, <1>3, <2>2, ExpandFacts
  <2>. QED
      BY <1>2, <2>1, <2>2
<1>5. LimitsShape'
    BY <1>1, <1>2, <1>3, <1>4 DEF LimitsShape
<1>6. BooksInv'
    BY <1>1, <1>2, <1>3, <1>4 DEF BooksInv
<1>7. OverrunInv'
  <2>1. Count(call, "buy") \in Nat /\ Cardinality(Traders) \in Nat
      BY <1>1, RunningBounded DEF Count
  <2>2. Count(call, "buy")' = Count(call, "buy") /\ Count(call, "list")' = Count(call, "list")
        /\ Count(call, "cancel")' = Count(call, "cancel")
      BY <1>2 DEF Count, Running
  <2>. QED
      BY <1>1, <1>2, <1>3, <2>1, <2>2 DEF OverrunInv
<1>8. SlotInv'
  <2>1. SlotCapacity(expands)' = SlotCapacity(expands')
      BY DEF SlotCapacity
  <2>. QED
      BY <1>1, <1>2, <1>3, <1>4, <2>1 DEF SlotInv
<1>9. RestrictionInv' /\ LocksHeld(call)'
    BY <1>1, <1>2 DEF RestrictionInv, NotRestricted, LocksHeld
<1>. QED
    BY <1>5, <1>6, <1>7, <1>8, <1>9 DEF LimitsIInv

LEMMA RestrictionSteps ==
    ASSUME LimitsIInv, NEW type, CreateMarketRestriction(type) \/ RevokeMarketRestriction(type)
    PROVE  LimitsIInv'
<1>1. LocksHeld(call) /\ LimitsShape /\ BooksInv /\ OverrunInv /\ SlotInv /\ RestrictionInv
    BY DEF LimitsIInv
<1>2. UNCHANGED <<listed, today, burst, expands, openOrders, call, evaded>>
    BY DEF CreateMarketRestriction, RevokeMarketRestriction
<1>3. LocksHeld(call)' /\ LimitsShape' /\ BooksInv'
    BY <1>1, <1>2 DEF LocksHeld, LimitsShape, BooksInv
<1>4. OverrunInv' /\ SlotInv'
    BY <1>1, <1>2 DEF OverrunInv, SlotInv, SlotCapacity, Count, Running
<1>5. RestrictionInv'
  <2>1. CASE CreateMarketRestriction(type)
    <3>1. \A r \in Calls : r \notin warned' => call[r].op = "none"
        BY <2>1, NoCallFacts DEF CreateMarketRestriction
    <3>. QED
        BY <1>1, <1>2, <3>1 DEF RestrictionInv
  <2>2. CASE RevokeMarketRestriction(type)
    <3>1. warned' = warned /\ restrictions' \subseteq restrictions
        BY <2>2 DEF RevokeMarketRestriction
    <3>2. \A action : NotRestricted(action) => NotRestricted(action)'
        BY <3>1 DEF NotRestricted
    <3>. QED
        BY <1>1, <1>2, <3>1, <3>2 DEF RestrictionInv
  <2>. QED
      BY <2>1, <2>2
<1>. QED
    BY <1>3, <1>4, <1>5 DEF LimitsIInv

LEMMA LimitsNextIInv == LimitsIInv /\ [LimitsNext]_mvars => LimitsIInv'
<1>. SUFFICES ASSUME LimitsIInv, [LimitsNext]_mvars PROVE LimitsIInv'
    OBVIOUS
<1>1. ASSUME NEW r \in Calls,
             \/ ListTakeSlot(r) \/ ListCommit(r) \/ CancelBegin(r) \/ CancelCommit(r) \/ BuyCommit(r)
             \/ MarketplaceExpandMaterialSlots(r) \/ MarketplaceExpandWalletSlots(r) \/ Refuse(r)
      PROVE  LimitsIInv'
    BY <1>1, TakeSlotStep, ListCommitStep, LimitsBeginSteps, CancelCommitStep, BuyCommitStep,
       ExpandMaterialStep, QuietEndSteps
<1>2. ASSUME NEW r \in Calls, NEW t \in Traders,
             \/ ListBegin(r, t) \/ BuyBegin(r, t) \/ \E op \in {"material", "wallet"} : ExpandBegin(r, t, op)
      PROVE  LimitsIInv'
    BY <1>2, LimitsBeginSteps
<1>3. ASSUME NEW type, CreateMarketRestriction(type) \/ RevokeMarketRestriction(type) PROVE LimitsIInv'
    BY <1>3, RestrictionSteps
<1>. QED
    BY <1>1, <1>2, <1>3, LimitsOtherSteps DEF LimitsNext

LEMMA LimitsIInvHold == LimitsIInv => LimitsHold
<1>. SUFFICES ASSUME LimitsIInv PROVE LimitsHold
    OBVIOUS
<1>1. LocksHeld(call) /\ LimitsShape /\ BooksInv /\ OverrunInv /\ SlotInv /\ RestrictionInv
    BY DEF LimitsIInv
<1>2. /\ today \in [created : Nat, cancelled : Nat, bought : Nat]
      /\ today.created \in Nat /\ today.cancelled \in Nat /\ today.bought \in Nat /\ listed \in Nat /\ burst \in Nat
      /\ expands.material \in Nat /\ expands.wallet \in Nat /\ openOrders \in {0, 1}
    BY <1>1 DEF LimitsShape
<1>3. /\ Cardinality(Traders) \in Nat /\ Cardinality(Calls) \in Nat /\ DayBound \in Nat
      /\ Count(call, "list") \in Nat /\ Count(call, "buy") \in Nat /\ Count(call, "cancel") \in Nat
    BY <1>1, RunningBounded, LimitsAssumption DEF Count
<1>4. OverrunBounded
    BY <1>1, <1>2, <1>3, RulesPositive DEF OverrunInv, OverrunBounded
<1>5. today \in [{"created", "cancelled", "bought"} -> 0 .. DayBound + Cardinality(Calls)]
  <2>. DEFINE B == 0 .. DayBound + Cardinality(Calls)
  <2>1. today.created \in B /\ today.cancelled \in B /\ today.bought \in B
      BY <1>1, <1>2, <1>3 DEF BooksInv
  <2>. HIDE DEF B
  <2>2. today \in [created : B, cancelled : B, bought : B]
      BY <1>2, <2>1
  <2>3. today \in [{"created", "cancelled", "bought"} -> B]
      BY <2>2
  <2>. QED
      BY <2>3 DEF B
<1>6. LimitsTypeOK
    BY <1>1, <1>2, <1>5, RulesPositive DEF BooksInv, LimitsTypeOK
<1>. QED
    BY <1>1, <1>4, <1>6 DEF LimitsHold, CapacityRespected, SlotInv, RestrictionInv, RestrictionStopsNewTrades

(* LimitsHold is an invariant of the market's limits: the slots hold       *)
(* exactly (assertListingSlotAvailable counts under the slots row), the    *)
(* daily limits and the cooldown up to the calls that can be in flight, a  *)
(* restriction for every call that begins later.                           *)
THEOREM LimitsAlwaysHold == LimitsSpec => []LimitsHold
<1>1. LimitsInit => LimitsIInv
    BY LimitsInitIInv
<1>2. LimitsIInv /\ [LimitsNext]_mvars => LimitsIInv'
    BY LimitsNextIInv
<1>3. LimitsIInv => LimitsHold
    BY LimitsIInvHold
<1>. QED
    BY <1>1, <1>2, <1>3, PTL DEF LimitsSpec

-----------------------------------------------------------------------------
(* Dungeon runs: the levels.  What the two recursive functions compute is  *)
(* proved with the least counterexample, a set of naturals.                *)
LEMMA LeastOf ==
    ASSUME NEW T \in SUBSET Nat, T # {}
    PROVE  Least(T) \in T /\ \A m \in T : Least(T) <= m
<1>1. \E i \in T : \A j \in T : i <= j
    BY LeastNumber
<1>. QED
    BY <1>1 DEF Least

Top == LevelRules.maxLevel

LEMMA NextLevelCosts ==
    /\ Top \in Nat \ {0}
    /\ \A n \in Nat \ {0} : ExpForNextLevel(n) \in Nat \ {0}
<1>. DEFINE b == LevelRules.base
            l == LevelRules.linear
            q == LevelRules.quadratic
<1>1. Top \in Nat \ {0} /\ b \in Nat /\ l \in Nat /\ q \in Nat /\ b + l + q > 0
    BY LevelAssumption DEF Top
<1>. HIDE DEF b, l, q
<1>2. ASSUME NEW n \in Nat \ {0} PROVE ExpForNextLevel(n) \in Nat \ {0}
  <2>1. l * n \in Nat /\ q * n \in Nat /\ (l > 0 => l * n > 0) /\ (q > 0 => q * n > 0)
      BY <1>1
  <2>2. ASSUME NEW x \in Nat PROVE x * n \in Nat /\ (x > 0 => x * n > 0)
      OBVIOUS
  <2>3. q * n * n \in Nat /\ (q > 0 => q * n * n > 0)
      BY <1>1, <2>1, <2>2
  <2>4. ExpForNextLevel(n) = b + l * n + q * n * n
      BY DEF ExpForNextLevel, b, l, q
  <2>. QED
      BY <1>1, <2>1, <2>3, <2>4
<1>. QED
    BY <1>1, <1>2

(* The thresholds. *)
UnfoldReach(f, n) == IF n <= 1 THEN 0 ELSE f[n - 1] + ExpForNextLevel(n - 1)
IsReach(f) == f = [n \in 0 .. Top |-> UnfoldReach(f, n)]

LEMMA ReachExists ==
    ASSUME NEW m \in Nat
    PROVE  \E g \in [0 .. m -> Nat] : \A n \in 0 .. m : g[n] = UnfoldReach(g, n)
<1>. DEFINE Ok(k) == \E g \in [0 .. k -> Nat] : \A n \in 0 .. k : g[n] = UnfoldReach(g, n)
            Bad == {k \in Nat : ~Ok(k)}
<1>1. Ok(0)
  <2>. DEFINE g == [n \in 0 .. 0 |-> 0]
  <2>1. g \in [0 .. 0 -> Nat] /\ \A n \in 0 .. 0 : g[n] = UnfoldReach(g, n)
      BY DEF UnfoldReach
  <2>. QED
      BY <2>1
<1>2. ASSUME NEW k \in Nat, Ok(k) PROVE Ok(k + 1)
  <2>1. PICK g \in [0 .. k -> Nat] : \A n \in 0 .. k : g[n] = UnfoldReach(g, n)
      BY <1>2
  <2>. DEFINE h == [n \in 0 .. k + 1 |-> IF n <= k THEN g[n] ELSE UnfoldReach(g, n)]
  <2>2. ASSUME NEW n \in 0 .. k + 1 PROVE UnfoldReach(g, n) \in Nat
      BY NextLevelCosts DEF UnfoldReach
  <2>3. h \in [0 .. k + 1 -> Nat] /\ \A n \in 0 .. k : h[n] = g[n]
      BY <2>2
  <2>4. ASSUME NEW n \in 0 .. k + 1 PROVE h[n] = UnfoldReach(h, n)
    <3>1. h[n] = UnfoldReach(g, n)
        BY <2>1
    <3>. HIDE DEF h
    <3>. QED
        BY <2>3, <3>1 DEF UnfoldReach
  <2>. HIDE DEF h
  <2>. QED
      BY <2>3, <2>4
<1>. HIDE DEF Ok
<1>3. Bad = {}
  <2>. SUFFICES ASSUME Bad # {} PROVE FALSE
      OBVIOUS
  <2>1. Least(Bad) \in Bad /\ \A j \in Bad : Least(Bad) <= j
      BY LeastOf
  <2>2. PICK k \in Bad : \A j \in Bad : k <= j
      BY <2>1
  <2>3. k # 0 /\ k \in Nat
      BY <1>1
  <2>4. k - 1 \in Nat /\ k - 1 \notin Bad
      BY <2>2, <2>3
  <2>5. Ok(k - 1)
      BY <2>4
  <2>. QED
      BY <1>2, <2>3, <2>4, <2>5
<1>. QED
    BY <1>3 DEF Ok

LEMMA ReachEquation ==
    /\ DOMAIN ExpToReach = 0 .. Top
    /\ \A n \in 0 .. Top : ExpToReach[n] = UnfoldReach(ExpToReach, n)
<1>1. ExpToReach = CHOOSE f : IsReach(f)
    BY Zenon DEF ExpToReach, IsReach, UnfoldReach, Top
<1>2. PICK g \in [0 .. Top -> Nat] : \A n \in 0 .. Top : g[n] = UnfoldReach(g, n)
    BY NextLevelCosts, ReachExists
<1>3. IsReach(g)
    BY <1>2 DEF IsReach
<1>4. IsReach(ExpToReach)
    BY <1>1, <1>3, Zenon
<1>. QED
    BY <1>4 DEF IsReach

(* Thresholds are numbers, nothing for the first level, and every level    *)
(* asks for more than the one below it.                                    *)
LEMMA ReachGrows ==
    /\ ExpToReach[0] = 0 /\ ExpToReach[1] = 0
    /\ \A n \in 0 .. Top : ExpToReach[n] \in Nat
    /\ \A n \in 1 .. Top : n < Top => ExpToReach[n + 1] \in Nat /\ ExpToReach[n] < ExpToReach[n + 1]
<1>. DEFINE E == ExpToReach
            Bad == {n \in Nat : n <= Top /\ E[n] \notin Nat}
<1>1. \A n \in 0 .. Top : E[n] = IF n <= 1 THEN 0 ELSE E[n - 1] + ExpForNextLevel(n - 1)
    BY ReachEquation DEF UnfoldReach
<1>2. Top \in Nat \ {0}
    BY NextLevelCosts
<1>. HIDE DEF E
<1>3. Bad = {}
  <2>. SUFFICES ASSUME Bad # {} PROVE FALSE
      OBVIOUS
  <2>1. Least(Bad) \in Bad /\ \A j \in Bad : Least(Bad) <= j
      BY LeastOf
  <2>2. PICK k \in Bad : \A j \in Bad : k <= j
      BY <2>1
  <2>3. k \in Nat /\ k <= Top /\ E[k] \notin Nat
      BY <2>2
  <2>4. k > 1
      BY <1>1, <1>2, <2>3
  <2>5. k - 1 \in Nat /\ k - 1 \notin Bad /\ k - 1 <= Top /\ k - 1 # 0
      BY <1>2, <2>2, <2>3, <2>4
  <2>6. E[k - 1] \in Nat /\ ExpForNextLevel(k - 1) \in Nat
      BY <2>5, NextLevelCosts
  <2>7. E[k] = E[k - 1] + ExpForNextLevel(k - 1)
      BY <1>1, <2>3, <2>4
  <2>. QED
      BY <2>3, <2>6, <2>7
<1>4. \A n \in 0 .. Top : E[n] \in Nat
    BY <1>2, <1>3
<1>5. ASSUME NEW n \in 1 .. Top, n < Top PROVE E[n + 1] \in Nat /\ E[n] < E[n + 1]
  <2>1. n \in 0 .. Top /\ n + 1 \in 0 .. Top /\ n \in Nat \ {0}
      BY <1>2, <1>5
  <2>2. E[n] \in Nat /\ E[n + 1] \in Nat /\ ExpForNextLevel(n) \in Nat \ {0}
      BY <1>4, <2>1, NextLevelCosts
  <2>3. E[n + 1] = E[n + 1 - 1] + ExpForNextLevel(n + 1 - 1)
      BY <1>1, <2>1
  <2>4. n + 1 - 1 = n
      BY <2>1
  <2>. QED
      BY <2>2, <2>3, <2>4
<1>6. E[0] = 0 /\ E[1] = 0
    BY <1>1, <1>2
<1>. QED
    BY <1>4, <1>5, <1>6 DEF E

(* The climb from level n stops at the first level whose successor is out  *)
(* of reach.                                                               *)
StopsAt(k, exp) == k >= Top \/ ExpToReach[k + 1] <= 0 \/ exp < ExpToReach[k + 1]
UnfoldClimb(f, k, exp) == IF StopsAt(k, exp) THEN k ELSE f[k + 1]
IsClimb(f, exp) == f = [k \in 1 .. Top |-> UnfoldClimb(f, k, exp)]

LEMMA ClimbExists ==
    ASSUME NEW exp
    PROVE  \E f : IsClimb(f, exp)
<1>. DEFINE T(k) == {j \in k .. Top : StopsAt(j, exp)}
            f == [k \in 1 .. Top |-> Least(T(k))]
<1>1. Top \in Nat \ {0}
    BY NextLevelCosts
<1>2. ASSUME NEW k \in 1 .. Top PROVE Least(T(k)) = UnfoldClimb(f, k, exp)
  <2>1. T(k) \in SUBSET Nat /\ Top \in T(k)
      BY <1>1 DEF StopsAt
  <2>2. Least(T(k)) \in T(k) /\ \A m \in T(k) : Least(T(k)) <= m
      BY <2>1, LeastOf
  <2>3. CASE StopsAt(k, exp)
    <3>1. k \in T(k)
        BY <1>1, <2>3
    <3>2. Least(T(k)) \in k .. Top /\ Least(T(k)) <= k
        BY <2>2, <3>1
    <3>3. Least(T(k)) = k
        BY <3>2
    <3>. QED
        BY <2>3, <3>3 DEF UnfoldClimb
  <2>4. CASE ~StopsAt(k, exp)
    <3>1. k + 1 \in 1 .. Top
        BY <1>1, <2>4 DEF StopsAt
    <3>2. \A j \in k .. Top : StopsAt(j, exp) => j \in k + 1 .. Top
        BY <1>1, <2>4
    <3>3. T(k) = T(k + 1)
        BY <1>1, <3>2
    <3>. HIDE DEF T
    <3>4. f[k + 1] = Least(T(k + 1))
        BY <3>1
    <3>. QED
        BY <2>4, <3>3, <3>4 DEF UnfoldClimb
  <2>. QED
      BY <2>3, <2>4
<1>3. f = [k \in 1 .. Top |-> UnfoldClimb(f, k, exp)]
    BY <1>2
<1>. HIDE DEF f
<1>. QED
    BY <1>3 DEF IsClimb

TheClimb(exp) == CHOOSE f : IsClimb(f, exp)

LEMMA ClimbEquation ==
    ASSUME NEW exp
    PROVE  /\ \A n \in 1 .. Top : TheClimb(exp)[n] = UnfoldClimb(TheClimb(exp), n, exp)
           /\ \A n : LevelAfter(n, exp) = TheClimb(exp)[n]
<1>1. IsClimb(TheClimb(exp), exp)
  <2>1. PICK f : IsClimb(f, exp)
      BY ClimbExists
  <2>. QED
      BY <2>1, Zenon DEF TheClimb
<1>2. \A n : LevelAfter(n, exp) = TheClimb(exp)[n]
    BY Zenon DEF LevelAfter, Progress, TheClimb, IsClimb, UnfoldClimb, StopsAt, Top
<1>. HIDE DEF TheClimb
<1>3. \A n \in 1 .. Top : TheClimb(exp)[n] = UnfoldClimb(TheClimb(exp), n, exp)
    BY <1>1 DEF IsClimb
<1>. QED
    BY <1>2, <1>3

(* From a level that is reached, the climb ends at a level that is reached *)
(* and whose successor is not.                                             *)
LevelFits(n, exp) ==
    /\ n \in 1 .. Top
    /\ ExpToReach[n] <= exp
    /\ n < Top => exp < ExpToReach[n + 1]

LEMMA LevelAfterFits ==
    ASSUME NEW n \in 1 .. Top, NEW exp \in Nat, ExpToReach[n] <= exp
    PROVE  LevelFits(LevelAfter(n, exp), exp)
<1>. DEFINE C == TheClimb(exp)
            Good(k) == ExpToReach[k] <= exp => LevelFits(C[k], exp)
            Bad == {d \in Nat : \E k \in 1 .. Top : d = Top - k /\ ~Good(k)}
<1>1. Top \in Nat \ {0}
    BY NextLevelCosts
<1>2. \A k \in 1 .. Top : C[k] = IF StopsAt(k, exp) THEN k ELSE C[k + 1]
    BY ClimbEquation DEF UnfoldClimb
<1>. HIDE DEF C
<1>3. ASSUME NEW k \in 1 .. Top, k + 1 \in 1 .. Top => Good(k + 1) PROVE Good(k)
  <2>. SUFFICES ASSUME ExpToReach[k] <= exp PROVE LevelFits(C[k], exp)
      OBVIOUS
  <2>1. CASE StopsAt(k, exp)
    <3>1. C[k] = k
        BY <1>2, <2>1
    <3>2. k < Top => ExpToReach[k + 1] \in Nat /\ ExpToReach[k] \in Nat /\ ExpToReach[k] < ExpToReach[k + 1]
        BY <1>1, ReachGrows
    <3>3. k < Top => exp < ExpToReach[k + 1]
        BY <1>1, <2>1, <3>2 DEF StopsAt
    <3>. QED
        BY <3>1, <3>3 DEF LevelFits
  <2>2. CASE ~StopsAt(k, exp)
    <3>1. k + 1 \in 1 .. Top /\ k + 1 \in 0 .. Top
        BY <1>1, <2>2 DEF StopsAt
    <3>2. ExpToReach[k + 1] \in Nat
        BY <3>1, ReachGrows
    <3>3. ExpToReach[k + 1] <= exp
        BY <2>2, <3>2 DEF StopsAt
    <3>4. C[k] = C[k + 1]
        BY <1>2, <2>2
    <3>. QED
        BY <1>3, <3>1, <3>3, <3>4
  <2>. QED
      BY <2>1, <2>2
<1>. HIDE DEF Good
<1>4. Bad = {}
  <2>. SUFFICES ASSUME Bad # {} PROVE FALSE
      OBVIOUS
  <2>1. Least(Bad) \in Bad /\ \A j \in Bad : Least(Bad) <= j
      BY LeastOf
  <2>2. PICK d \in Bad : \A j \in Bad : d <= j
      BY <2>1
  <2>3. PICK k \in 1 .. Top : d = Top - k /\ ~Good(k)
      BY <2>2
  <2>4. ASSUME k + 1 \in 1 .. Top PROVE Good(k + 1)
    <3>1. Top - (k + 1) \in Nat /\ Top - (k + 1) < d
        BY <1>1, <2>3, <2>4
    <3>2. Top - (k + 1) \notin Bad
        BY <2>2, <3>1
    <3>. QED
        BY <2>4, <3>1, <3>2
  <2>. QED
      BY <1>3, <2>3, <2>4
<1>5. Top - n \in Nat
    BY <1>1
<1>6. Good(n)
    BY <1>4, <1>5
<1>. QED
    BY <1>6, ClimbEquation DEF Good, C

(* Only one level fits an amount of experience. *)
LEMMA OneLevelFits ==
    ASSUME NEW m, NEW n, NEW exp \in Nat, LevelFits(m, exp), LevelFits(n, exp)
    PROVE  m = n
<1>1. ASSUME NEW i, NEW j, LevelFits(i, exp), LevelFits(j, exp), i < j
      PROVE  FALSE
  <2>. DEFINE Bad == {k \in Nat : i < k /\ k <= Top /\ ExpToReach[k] < ExpToReach[i + 1]}
  <2>1. Top \in Nat \ {0} /\ i \in 1 .. Top /\ j \in 1 .. Top /\ i + 1 \in 1 .. Top
      BY <1>1, NextLevelCosts DEF LevelFits
  <2>2. \A k \in 1 .. Top : ExpToReach[k] \in Nat
      BY <2>1, ReachGrows
  <2>3. Bad = {}
    <3>. SUFFICES ASSUME Bad # {} PROVE FALSE
        OBVIOUS
    <3>1. Least(Bad) \in Bad /\ \A m_1 \in Bad : Least(Bad) <= m_1
        BY LeastOf
    <3>2. PICK k \in Bad : \A m_1 \in Bad : k <= m_1
        BY <3>1
    <3>3. k # i + 1 /\ k \in 1 .. Top /\ k > i
        BY <2>1, <2>2, <3>2
    <3>4. k - 1 \in 1 .. Top /\ k - 1 > i /\ k - 1 < Top /\ k - 1 \notin Bad /\ k - 1 + 1 = k
        BY <2>1, <3>2, <3>3
    <3>5. ExpToReach[k - 1] < ExpToReach[k]
        BY <3>4, ReachGrows
    <3>6. ~(ExpToReach[k - 1] < ExpToReach[i + 1])
        BY <3>4
    <3>7. ExpToReach[k] \in Nat /\ ExpToReach[k - 1] \in Nat /\ ExpToReach[i + 1] \in Nat
        BY <2>1, <2>2, <3>3, <3>4
    <3>. QED
        BY <3>2, <3>5, <3>6, <3>7
  <2>4. ~(ExpToReach[j] < ExpToReach[i + 1])
      BY <1>1, <2>1, <2>3
  <2>5. exp < ExpToReach[i + 1] /\ ExpToReach[j] <= exp
      BY <1>1, <2>1 DEF LevelFits
  <2>. QED
      BY <2>1, <2>2, <2>4, <2>5
<1>2. Top \in Nat /\ m \in 1 .. Top /\ n \in 1 .. Top
    BY NextLevelCosts DEF LevelFits
<1>3. ~(m < n) /\ ~(n < m)
    BY <1>1
<1>. QED
    BY <1>2, <1>3

-----------------------------------------------------------------------------
Origins == OriginServers \cup {""}

CharacterRow == [slot : Slots \cup {0}, state : {"NONE", "LIVE", "DELETED"}, gold : Nat,
                 exp : Nat, level : 1 .. Top, cleared : Floors \cup {<<0, 0>>}]
RunRow == [status : {"NONE", "STARTED", "FINISHED", "FAILED", "CANCELLED"},
           character : CharacterId \cup {0}, server : Origins,
           floor : Floors \cup {<<0, 0>>}]
ResumeRow == [status : {"NONE", "ACTIVE", "CONSUMED", "CANCELLED"},
              server : Origins, run : RunId \cup {0}]

DungeonShape ==
    /\ characters \in [CharacterId -> CharacterRow]
    /\ runs \in [RunId -> RunRow]
    /\ resumes \in [ResumeId -> ResumeRow]
    /\ client \in [Clients -> [op : {"waiting", "create", "resume"}, slot : Slots \cup {0},
                               run : RunId \cup {0}]]
    /\ paid \in [RunId -> Nat]
    /\ killed \in SUBSET ResumeId

(* A row that is not there is blank, and what refers to a row finds it. *)
RowsInv ==
    /\ \A c \in CharacterId : characters[c].state = "NONE" => characters[c] = NoCharacter
    /\ \A x \in RunId :
         IF runs[x].status = "NONE" THEN runs[x] = NoRun
         ELSE /\ runs[x].character \in CharacterId
              /\ characters[runs[x].character].state # "NONE"
    /\ \A k \in ResumeId :
         resumes[k].status # "NONE" =>
           /\ resumes[k].run \in RunId
           /\ runs[resumes[k].run].status # "NONE"
           /\ resumes[k].server = runs[resumes[k].run].server
    /\ \A p \in Clients :
         client[p].op = "resume" => client[p].run \in RunId /\ runs[client[p].run].status # "NONE"

OneRunInv ==
    \A x, y \in RunId :
      /\ runs[x].status = "STARTED" /\ runs[y].status = "STARTED"
      /\ runs[x].character = runs[y].character
      => x = y

RunsOf(c) == {x \in RunId : runs[x].character = c}

GoldInv ==
    \A c \in CharacterId :
      characters[c].state # "NONE" =>
        characters[c].gold + EnterCost * Cardinality(RunsOf(c)) = StartGold

LevelInv == \A c \in CharacterId : LevelFits(characters[c].level, characters[c].exp)

(* Chapters before floors. *)
NoFurther(f, g) == f[1] < g[1] \/ (f[1] = g[1] /\ f[2] <= g[2])
Won(c, x) == runs[x].character = c /\ runs[x].status = "FINISHED"

ClearedInv ==
    \A c \in CharacterId :
      /\ \/ characters[c].cleared = <<0, 0>>
         \/ \E x \in RunId : Won(c, x) /\ runs[x].floor = characters[c].cleared
      /\ \A x \in RunId : Won(c, x) => NoFurther(runs[x].floor, characters[c].cleared)

DungeonIInv ==
    /\ DungeonShape /\ RowsInv /\ SlotsDiffer /\ OneRunInv /\ GoldInv
    /\ RunPaysOnce /\ AbandonEndsTickets /\ LevelInv /\ ClearedInv

LEMMA DungeonIds ==
    /\ CharacterId \in SUBSET (Nat \ {0}) /\ RunId \in SUBSET (Nat \ {0})
    /\ ResumeId \in SUBSET (Nat \ {0})
    /\ IsFiniteSet(CharacterId) /\ IsFiniteSet(RunId)
<1>1. MaxCharacters \in Nat /\ MaxRuns \in Nat /\ MaxResumes \in Nat
    BY DungeonAssumption
<1>2. IsFiniteSet(1 .. MaxCharacters) /\ IsFiniteSet(1 .. MaxRuns)
    BY <1>1, FS_Interval
<1>. QED
    BY <1>1, <1>2 DEF CharacterId, RunId, ResumeId

LEMMA RunsOfFinite ==
    ASSUME NEW c
    PROVE  /\ IsFiniteSet(RunsOf(c)) /\ Cardinality(RunsOf(c)) \in Nat
           /\ RunsOf(c) \in SUBSET RunId
<1>1. RunsOf(c) \in SUBSET RunId
    BY DEF RunsOf
<1>2. IsFiniteSet(RunsOf(c))
    BY <1>1, DungeonIds, FS_Subset
<1>. QED
    BY <1>1, <1>2, FS_CardinalityType

LEMMA FirstLevelFits == LevelFits(1, 0)
BY NextLevelCosts, ReachGrows DEF LevelFits

LEMMA DungeonInitIInv == DungeonInit => DungeonIInv
<1>. SUFFICES ASSUME DungeonInit PROVE DungeonIInv
    OBVIOUS
<1>. USE DEF DungeonInit
<1>1. Top \in Nat \ {0}
    BY NextLevelCosts
<1>2. DungeonShape
  <2>1. NoCharacter \in CharacterRow
      BY <1>1 DEF CharacterRow, NoCharacter
  <2>2. NoRun \in RunRow /\ NoResume \in ResumeRow
      BY DEF RunRow, ResumeRow, NoRun, NoResume, Origins
  <2>3. Waiting \in [op : {"waiting", "create", "resume"}, slot : Slots \cup {0}, run : RunId \cup {0}]
      BY DEF Waiting
  <2>. QED
      BY <2>1, <2>2, <2>3 DEF DungeonShape
<1>3. RowsInv
    BY DEF RowsInv, NoCharacter, NoRun, NoResume, Waiting
<1>4. SlotsDiffer /\ OneRunInv /\ GoldInv
    BY DEF SlotsDiffer, LiveCharacters, OneRunInv, GoldInv, NoCharacter, NoRun
<1>5. RunPaysOnce /\ AbandonEndsTickets
    BY DEF RunPaysOnce, AbandonEndsTickets, NoRun
<1>6. LevelInv
    BY FirstLevelFits DEF LevelInv, NoCharacter
<1>7. ClearedInv
    BY DEF ClearedInv, Won, NoRun, NoCharacter
<1>. QED
    BY <1>2, <1>3, <1>4, <1>5, <1>6, <1>7 DEF DungeonIInv

(* Choosing a slot, and a resume's read, change only the handler.          *)
LEMMA HandlerSteps ==
    ASSUME DungeonIInv, NEW p \in Clients,
           CreateChooseSlot(p) \/ \E x \in RunId : ResumeRead(p, x)
    PROVE  DungeonIInv'
<1>1. UNCHANGED <<characters, runs, resumes, paid, killed>>
    BY DEF CreateChooseSlot, ResumeRead
<1>. DEFINE ClientRow == [op : {"waiting", "create", "resume"}, slot : Slots \cup {0},
                               run : RunId \cup {0}]
            Handles(y) == /\ client' = [client EXCEPT ![p] = y]
                          /\ y.op = "resume" => y.run \in RunId /\ runs[y.run].status # "NONE"
<1>2. client \in [Clients -> ClientRow]
    BY DEF DungeonIInv, DungeonShape
<1>3. PICK y \in ClientRow : Handles(y)
  <2>1. CASE CreateChooseSlot(p)
    <3>1. Slots \ UsedSlots \in SUBSET Nat /\ Slots \ UsedSlots # {}
        BY <2>1, DungeonAssumption DEF CreateChooseSlot
    <3>2. Least(Slots \ UsedSlots) \in Slots
        BY <3>1, LeastOf
    <3>. DEFINE y == [Waiting EXCEPT !.op = "create", !.slot = Least(Slots \ UsedSlots)]
    <3>3. y \in ClientRow /\ y.op = "create"
        BY <3>2 DEF Waiting
    <3>4. client' = [client EXCEPT ![p] = y]
        BY <2>1 DEF CreateChooseSlot
    <3>. QED
        BY <3>3, <3>4
  <2>2. ASSUME NEW x \in RunId, ResumeRead(p, x) PROVE \E y \in ClientRow : Handles(y)
    <3>. DEFINE y == [Waiting EXCEPT !.op = "resume", !.run = x]
    <3>1. y \in ClientRow /\ y.run = x /\ runs[x].status # "NONE"
        BY <2>2 DEF Waiting, ResumeRead
    <3>2. client' = [client EXCEPT ![p] = y]
        BY <2>2 DEF ResumeRead
    <3>. QED
        BY <3>1, <3>2
  <2>. QED
      BY <2>1, <2>2
<1>4. client' \in [Clients -> ClientRow]
    BY <1>2, <1>3
<1>5. \A q \in Clients : client'[q] = IF q = p THEN y ELSE client[q]
    BY <1>2, <1>3
<1>. HIDE DEF ClientRow
<1>6. DungeonShape'
    BY <1>1, <1>4 DEF DungeonIInv, DungeonShape, ClientRow
<1>7. RowsInv'
    BY <1>1, <1>3, <1>5 DEF DungeonIInv, RowsInv
<1>8. /\ SlotsDiffer' /\ OneRunInv' /\ GoldInv' /\ RunPaysOnce' /\ AbandonEndsTickets'
      /\ LevelInv' /\ ClearedInv'
    BY <1>1 DEF DungeonIInv, SlotsDiffer, LiveCharacters, OneRunInv, GoldInv, RunsOf, RunPaysOnce,
                AbandonEndsTickets, LevelInv, ClearedInv, Won
<1>. QED
    BY <1>6, <1>7, <1>8 DEF DungeonIInv

PutsRow(f, d, y) == [f EXCEPT ![d] = y]

(* A creation or a deletion replaces one row of characters. *)
LEMMA CharacterPut ==
    ASSUME DungeonIInv, NEW d \in CharacterId, NEW y \in CharacterRow,
           characters' = PutsRow(characters, d, y),
           UNCHANGED <<runs, resumes, paid, killed>>,
           client' \in [Clients -> [op : {"waiting", "create", "resume"}, slot : Slots \cup {0},
                                    run : RunId \cup {0}]],
           \A p \in Clients : client'[p] = client[p] \/ client'[p] = Waiting,
           y.state # "NONE",
           y.exp = characters[d].exp, y.level = characters[d].level,
           y.cleared = characters[d].cleared,
           y.gold = IF characters[d].state = "NONE" THEN StartGold ELSE characters[d].gold,
           y.state = "LIVE" => \A c \in LiveCharacters : characters[c].slot # y.slot
    PROVE  DungeonIInv'
<1>1. characters \in [CharacterId -> CharacterRow]
    BY DEF DungeonIInv, DungeonShape
<1>2. /\ characters' \in [CharacterId -> CharacterRow]
      /\ \A c \in CharacterId : characters'[c] = IF c = d THEN y ELSE characters[c]
    BY <1>1 DEF PutsRow
<1>3. DungeonShape'
    BY <1>2 DEF DungeonIInv, DungeonShape
<1>4. RowsInv'
  <2>1. \A c \in CharacterId : characters'[c].state = "NONE" => characters'[c] = NoCharacter
      BY <1>2 DEF DungeonIInv, RowsInv
  <2>2. \A x \in RunId :
          IF runs[x].status = "NONE" THEN runs[x] = NoRun
          ELSE runs[x].character \in CharacterId /\ characters'[runs[x].character].state # "NONE"
      BY <1>2 DEF DungeonIInv, RowsInv
  <2>3. \A p \in Clients :
          client'[p].op = "resume" => client'[p].run \in RunId /\ runs[client'[p].run].status # "NONE"
      BY DEF DungeonIInv, RowsInv, Waiting
  <2>. QED
      BY <2>1, <2>2, <2>3 DEF DungeonIInv, RowsInv
<1>5. SlotsDiffer'
  <2>1. \A c \in CharacterId : c # d => characters'[c] = characters[c]
      BY <1>2
  <2>2. characters'[d] = y
      BY <1>2
  <2>3. ASSUME NEW c \in LiveCharacters', NEW e \in LiveCharacters', c # e
        PROVE  characters'[c].slot # characters'[e].slot
    <3>1. (c # d => c \in LiveCharacters) /\ (e # d => e \in LiveCharacters)
          /\ c \in CharacterId /\ e \in CharacterId
        BY <2>1 DEF LiveCharacters
    <3>2. (c = d => y.state = "LIVE") /\ (e = d => y.state = "LIVE")
        BY <2>2 DEF LiveCharacters
    <3>. QED
        BY <2>1, <2>2, <2>3, <3>1, <3>2 DEF DungeonIInv, SlotsDiffer
  <2>. QED
      BY <2>3 DEF SlotsDiffer
<1>6. GoldInv'
  <2>1. \A c : RunsOf(c)' = RunsOf(c)
      BY DEF RunsOf
  <2>2. ASSUME NEW c \in CharacterId, characters'[c].state # "NONE"
        PROVE  characters'[c].gold + EnterCost * Cardinality(RunsOf(c)) = StartGold
    <3>1. CASE characters[c].state # "NONE"
        BY <1>2, <2>2, <3>1 DEF DungeonIInv, GoldInv
    <3>2. CASE characters[c].state = "NONE"
      <4>1. c = d
          BY <1>2, <2>2, <3>2
      <4>2. RunsOf(c) = {}
        <5>1. 0 \notin CharacterId
            BY DungeonIds
        <5>2. ASSUME NEW x \in RunId, runs[x].character = c PROVE FALSE
          <6>1. IF runs[x].status = "NONE" THEN runs[x] = NoRun
                ELSE characters[runs[x].character].state # "NONE"
              BY DEF DungeonIInv, RowsInv
          <6>2. runs[x] = NoRun
              BY <3>2, <5>2, <6>1
          <6>3. runs[x].character = 0
            <7>1. NoRun.character = 0
                BY DEF NoRun
            <7>. QED
                BY <6>2, <7>1
          <6>. QED
              BY <2>2, <5>1, <5>2, <6>3
        <5>. QED
            BY <5>2 DEF RunsOf
      <4>3. Cardinality(RunsOf(c)) = 0
          BY <4>2, FS_EmptySet
      <4>. QED
          BY <1>2, <3>2, <4>1, <4>3, LevelAssumption
    <3>. QED
        BY <3>1, <3>2
  <2>. QED
      BY <2>1, <2>2 DEF GoldInv
<1>7. OneRunInv' /\ RunPaysOnce' /\ AbandonEndsTickets'
    BY DEF DungeonIInv, OneRunInv, RunPaysOnce, AbandonEndsTickets
<1>8. LevelInv'
    BY <1>2 DEF DungeonIInv, LevelInv
<1>9. ClearedInv'
    BY <1>2 DEF DungeonIInv, ClearedInv, Won
<1>. QED
    BY <1>3, <1>4, <1>5, <1>6, <1>7, <1>8, <1>9 DEF DungeonIInv

LEMMA CreateInsertStep ==
    ASSUME DungeonIInv, NEW p \in Clients, CreateInsert(p)
    PROVE  DungeonIInv'
<1>1. /\ characters \in [CharacterId -> CharacterRow]
      /\ client \in [Clients -> [op : {"waiting", "create", "resume"}, slot : Slots \cup {0},
                                 run : RunId \cup {0}]]
    BY DEF DungeonIInv, DungeonShape
<1>2. /\ client' \in [Clients -> [op : {"waiting", "create", "resume"}, slot : Slots \cup {0},
                                  run : RunId \cup {0}]]
      /\ \A q \in Clients : client'[q] = client[q] \/ client'[q] = Waiting
    BY <1>1 DEF CreateInsert, Waiting
<1>3. UNCHANGED <<runs, resumes, paid, killed>>
    BY DEF CreateInsert
<1>4. CASE /\ client[p].slot \notin UsedSlots
           /\ Unused(characters, CharacterId, NoCharacter) # {}
           /\ characters' = [characters EXCEPT
                ![Least(Unused(characters, CharacterId, NoCharacter))] =
                  [NoCharacter EXCEPT !.slot = client[p].slot, !.state = "LIVE", !.gold = StartGold]]
  <2>. DEFINE d == Least(Unused(characters, CharacterId, NoCharacter))
              y == [NoCharacter EXCEPT !.slot = client[p].slot, !.state = "LIVE", !.gold = StartGold]
  <2>1. d \in CharacterId /\ characters[d] = NoCharacter
    <3>1. Unused(characters, CharacterId, NoCharacter) \in SUBSET Nat
        BY DungeonIds DEF Unused
    <3>2. d \in Unused(characters, CharacterId, NoCharacter)
        BY <1>4, <3>1, LeastOf
    <3>. QED
        BY <3>2 DEF Unused
  <2>2. /\ y \in CharacterRow /\ y.state = "LIVE" /\ y.slot = client[p].slot /\ y.gold = StartGold
        /\ y.exp = NoCharacter.exp /\ y.level = NoCharacter.level /\ y.cleared = NoCharacter.cleared
    <3>1. client[p].slot \in Slots \cup {0} /\ StartGold \in Nat /\ Top \in Nat \ {0}
        BY <1>1, LevelAssumption, NextLevelCosts
    <3>. QED
      <4>1. y \in [slot : {client[p].slot}, state : {"LIVE"}, gold : {StartGold}, exp : {0},
                  level : {1}, cleared : {<<0, 0>>}]
          BY DEF NoCharacter
      <4>. HIDE DEF y
      <4>2. y \in CharacterRow
          BY <3>1, <4>1 DEF CharacterRow
      <4>. QED
          BY <4>1, <4>2 DEF NoCharacter
  <2>3. characters' = PutsRow(characters, d, y)
      BY <1>4 DEF PutsRow
  <2>4. \A c \in LiveCharacters : characters[c].slot # y.slot
      BY <1>4, <2>2 DEF UsedSlots
  <2>5. NoCharacter.state = "NONE"
      BY DEF NoCharacter
  <2>. HIDE DEF d, y
  <2>. QED
      BY <1>2, <1>3, <2>1, <2>2, <2>3, <2>4, <2>5, CharacterPut
<1>5. CASE UNCHANGED characters
  <2>1. DungeonShape'
      BY <1>2, <1>3, <1>5 DEF DungeonIInv, DungeonShape
  <2>2. RowsInv'
    <3>1. \A q \in Clients :
            client'[q].op = "resume" => client'[q].run \in RunId /\ runs[client'[q].run].status # "NONE"
        BY <1>2 DEF DungeonIInv, RowsInv, Waiting
    <3>. QED
        BY <1>3, <1>5, <3>1 DEF DungeonIInv, RowsInv
  <2>3. /\ SlotsDiffer' /\ OneRunInv' /\ GoldInv' /\ RunPaysOnce' /\ AbandonEndsTickets'
        /\ LevelInv' /\ ClearedInv'
      BY <1>3, <1>5 DEF DungeonIInv, SlotsDiffer, LiveCharacters, OneRunInv, GoldInv, RunsOf,
                        RunPaysOnce, AbandonEndsTickets, LevelInv, ClearedInv, Won
  <2>. QED
      BY <2>1, <2>2, <2>3 DEF DungeonIInv
<1>. QED
    BY <1>4, <1>5 DEF CreateInsert

LEMMA DeleteCharacterStep ==
    ASSUME DungeonIInv, NEW d \in CharacterId, DeleteCharacter(d)
    PROVE  DungeonIInv'
<1>1. characters \in [CharacterId -> CharacterRow]
    BY DEF DungeonIInv, DungeonShape
<1>. DEFINE y == [characters[d] EXCEPT !.state = "DELETED"]
<1>2. characters[d].state # "NONE"
    BY DEF DeleteCharacter, LiveCharacters
<1>3. /\ y \in CharacterRow /\ y.state = "DELETED" /\ y.exp = characters[d].exp
      /\ y.level = characters[d].level /\ y.cleared = characters[d].cleared
      /\ y.gold = characters[d].gold
    BY <1>1 DEF CharacterRow
<1>4. characters' = PutsRow(characters, d, y)
    BY DEF DeleteCharacter, PutsRow
<1>5. UNCHANGED <<runs, resumes, paid, killed>> /\ client' = client
    BY DEF DeleteCharacter
<1>6. client \in [Clients -> [op : {"waiting", "create", "resume"}, slot : Slots \cup {0},
                              run : RunId \cup {0}]]
    BY DEF DungeonIInv, DungeonShape
<1>. HIDE DEF y
<1>. QED
    BY <1>2, <1>3, <1>4, <1>5, <1>6, CharacterPut

LEMMA OneMore == \A a, n \in Nat : a * (n + 1) = a * n + a /\ a * n \in Nat
OBVIOUS

LEMMA DungeonEnterStep ==
    ASSUME DungeonIInv, NEW d \in CharacterId, NEW server \in Origins,
           NEW floor \in Floors, DungeonEnter(d, server, floor)
    PROVE  DungeonIInv'
<1>1. characters \in [CharacterId -> CharacterRow] /\ runs \in [RunId -> RunRow]
    BY DEF DungeonIInv, DungeonShape
<1>. DEFINE z == [status |-> "STARTED", character |-> d, server |-> server, floor |-> floor]
            y == [characters[d] EXCEPT !.gold = @ - EnterCost]
<1>2. PICK x \in RunId : runs[x] = NoRun /\ runs' = PutsRow(runs, x, z)
    BY DEF DungeonEnter, Unused, PutsRow
<1>3. characters' = PutsRow(characters, d, y) /\ UNCHANGED <<resumes, client, paid, killed>>
    BY DEF DungeonEnter, PutsRow
<1>4. characters[d].state = "LIVE" /\ StartedRuns(d) = {}
    BY DEF DungeonEnter, LiveCharacters
<1>5. /\ z \in RunRow /\ z.status = "STARTED" /\ z.character = d
    BY DEF RunRow
<1>6. /\ y \in CharacterRow /\ y.gold = characters[d].gold - EnterCost /\ y.slot = characters[d].slot
      /\ y.state = "LIVE" /\ y.exp = characters[d].exp /\ y.level = characters[d].level
      /\ y.cleared = characters[d].cleared
  <2>1. characters[d].gold - EnterCost \in Nat /\ characters[d] \in CharacterRow
    <3>1. characters[d] \in CharacterRow /\ EnterCost \in Nat /\ characters[d].gold >= EnterCost
        BY <1>1, LevelAssumption DEF DungeonEnter
    <3>2. characters[d].gold \in Nat
        BY <3>1 DEF CharacterRow
    <3>. QED
        BY <3>1, <3>2
  <2>. QED
      BY <1>4, <2>1 DEF CharacterRow
<1>. HIDE DEF z, y
<1>7. /\ characters' \in [CharacterId -> CharacterRow] /\ characters'[d] = y
      /\ \A c \in CharacterId : c # d => characters'[c] = characters[c]
    BY <1>1, <1>3, <1>6 DEF PutsRow
<1>8. /\ runs' \in [RunId -> RunRow] /\ runs'[x] = z
      /\ \A w \in RunId : w # x => runs'[w] = runs[w]
    BY <1>1, <1>2, <1>5 DEF PutsRow
<1>9. runs[x].status = "NONE" /\ runs[x].character = 0 /\ 0 \notin CharacterId
  <2>1. NoRun.status = "NONE" /\ NoRun.character = 0
      BY DEF NoRun
  <2>. QED
      BY <1>2, <2>1, DungeonIds
<1>10. \A c \in CharacterId : /\ characters'[c].state = characters[c].state
                              /\ characters'[c].slot = characters[c].slot
                              /\ characters'[c].exp = characters[c].exp
                              /\ characters'[c].level = characters[c].level
                              /\ characters'[c].cleared = characters[c].cleared
    BY <1>4, <1>6, <1>7
<1>11. DungeonShape'
    BY <1>3, <1>7, <1>8 DEF DungeonIInv, DungeonShape
<1>12. RowsInv'
  <2>1. \A c \in CharacterId : characters'[c].state = "NONE" => characters'[c] = NoCharacter
      BY <1>6, <1>7 DEF DungeonIInv, RowsInv
  <2>2. ASSUME NEW w \in RunId
        PROVE  IF runs'[w].status = "NONE" THEN runs'[w] = NoRun
               ELSE /\ runs'[w].character \in CharacterId
                    /\ characters'[runs'[w].character].state # "NONE"
    <3>1. CASE w = x
        BY <1>5, <1>6, <1>7, <1>8, <3>1
    <3>2. CASE w # x
        BY <1>8, <1>10, <3>2 DEF DungeonIInv, RowsInv
    <3>. QED
        BY <3>1, <3>2
  <2>3. \A w \in RunId : runs[w].status # "NONE" => runs'[w] = runs[w]
      BY <1>8, <1>9
  <2>4. \A k \in ResumeId :
         resumes[k].status # "NONE" =>
           /\ resumes[k].run \in RunId
           /\ runs'[resumes[k].run].status # "NONE"
           /\ resumes[k].server = runs'[resumes[k].run].server
      BY <2>3 DEF DungeonIInv, RowsInv
  <2>5. \A p \in Clients :
         client[p].op = "resume" => client[p].run \in RunId /\ runs'[client[p].run].status # "NONE"
      BY <2>3 DEF DungeonIInv, RowsInv
  <2>. QED
      BY <1>3, <2>1, <2>2, <2>4, <2>5 DEF RowsInv
<1>13. SlotsDiffer'
  <2>1. LiveCharacters' = LiveCharacters /\ LiveCharacters \in SUBSET CharacterId
      BY <1>10 DEF LiveCharacters
  <2>. QED
      BY <1>10, <2>1 DEF DungeonIInv, SlotsDiffer
<1>14. OneRunInv'
  <2>1. \A w \in RunId : ~(runs[w].status = "STARTED" /\ runs[w].character = d)
      BY <1>4 DEF StartedRuns
  <2>2. ASSUME NEW v \in RunId, NEW w \in RunId,
               runs'[v].status = "STARTED", runs'[w].status = "STARTED",
               runs'[v].character = runs'[w].character
        PROVE  v = w
    <3>1. CASE v # x /\ w # x
        BY <1>8, <2>2, <3>1 DEF DungeonIInv, OneRunInv
    <3>2. CASE v = x \/ w = x
        BY <1>5, <1>8, <2>1, <2>2, <3>2
    <3>. QED
        BY <3>1, <3>2
  <2>. QED
      BY <2>2 DEF OneRunInv
<1>15. GoldInv'
  <2>1. ASSUME NEW c \in CharacterId
        PROVE  RunsOf(c)' = IF c = d THEN RunsOf(c) \cup {x} ELSE RunsOf(c)
    <3>1. \A w \in RunId : runs'[w].character = c <=> (runs[w].character = c \/ (w = x /\ c = d))
        BY <1>5, <1>8, <1>9, <2>1
    <3>. QED
        BY <3>1 DEF RunsOf
  <2>2. Cardinality(RunsOf(d)') = Cardinality(RunsOf(d)) + 1
    <3>1. x \notin RunsOf(d)
        BY <1>9 DEF RunsOf
    <3>. QED
        BY <2>1, <3>1, RunsOfFinite, FS_AddElement
  <2>3. ASSUME NEW c \in CharacterId, characters'[c].state # "NONE"
        PROVE  characters'[c].gold + EnterCost * Cardinality(RunsOf(c)') = StartGold
    <3>1. CASE c = d
      <4>1. characters[d].gold + EnterCost * Cardinality(RunsOf(d)) = StartGold
          BY <1>4 DEF DungeonIInv, GoldInv
      <4>2. /\ EnterCost \in Nat /\ Cardinality(RunsOf(d)) \in Nat /\ characters[d].gold \in Nat
            /\ characters'[d].gold = characters[d].gold - EnterCost
          BY <1>1, <1>6, <1>7, LevelAssumption, RunsOfFinite DEF CharacterRow
      <4>3. EnterCost * (Cardinality(RunsOf(d)) + 1) = EnterCost * Cardinality(RunsOf(d)) + EnterCost
            /\ EnterCost * Cardinality(RunsOf(d)) \in Nat
          BY <4>2, OneMore
      <4>4. EnterCost * Cardinality(RunsOf(c)') = EnterCost * Cardinality(RunsOf(d)) + EnterCost
          BY <2>2, <3>1, <4>3
      <4>5. StartGold \in Nat
          BY LevelAssumption
      <4>6. \A g, n, m, e, h \in Int : g + n = m /\ h = g - e => h + (n + e) = m
          OBVIOUS
      <4>7. characters'[d].gold + (EnterCost * Cardinality(RunsOf(d)) + EnterCost) = StartGold
          BY <4>1, <4>2, <4>3, <4>5, <4>6
      <4>. QED
          BY <3>1, <4>4, <4>7
    <3>2. CASE c # d
        BY <1>7, <2>1, <2>3, <3>2 DEF DungeonIInv, GoldInv
    <3>. QED
        BY <3>1, <3>2
  <2>. QED
      BY <2>3 DEF GoldInv
<1>16. RunPaysOnce'
  <2>1. ASSUME NEW w \in RunId PROVE paid'[w] = (IF runs'[w].status = "FINISHED" THEN 1 ELSE 0)
    <3>1. runs'[w].status = "FINISHED" <=> runs[w].status = "FINISHED"
        BY <1>5, <1>8, <1>9
    <3>. QED
        BY <1>3, <3>1 DEF DungeonIInv, RunPaysOnce
  <2>. QED
      BY <2>1 DEF RunPaysOnce
<1>17. AbandonEndsTickets'
    BY <1>3 DEF DungeonIInv, AbandonEndsTickets
<1>18. LevelInv'
    BY <1>10 DEF DungeonIInv, LevelInv
<1>19. ClearedInv'
  <2>1. ASSUME NEW c \in CharacterId, NEW w \in RunId
        PROVE  (Won(c, w)' <=> Won(c, w)) /\ (Won(c, w) => runs'[w].floor = runs[w].floor)
      BY <1>5, <1>8, <1>9 DEF Won
  <2>. QED
      BY <1>10, <2>1 DEF DungeonIInv, ClearedInv
<1>. QED
    BY <1>11, <1>12, <1>13, <1>14, <1>15, <1>16, <1>17, <1>18, <1>19 DEF DungeonIInv

(* The furthest of two floors is one of them, and no nearer than either.   *)
LEMMA ClearedFurthest ==
    ASSUME NEW old \in Nat \X Nat, NEW new \in Nat \X Nat
    PROVE  /\ Cleared(old, new) \in {old, new}
           /\ NoFurther(new, Cleared(old, new))
           /\ \A f \in Nat \X Nat : NoFurther(f, old) => NoFurther(f, Cleared(old, new))
BY DEF Cleared, NoFurther

LEMMA FloorsArePairs ==
    ASSUME NEW f \in Floors \cup {<<0, 0>>}
    PROVE  f \in Nat \X Nat
BY DungeonAssumption

LEMMA DungeonFinishStep ==
    ASSUME DungeonIInv, NEW x \in RunId, NEW server \in OriginServers, NEW floor \in Floors,
           NEW victory \in BOOLEAN, NEW exp \in RunExp,
           DungeonFinish(x, server, floor, victory, exp)
    PROVE  DungeonIInv'
<1>1. /\ characters \in [CharacterId -> CharacterRow] /\ runs \in [RunId -> RunRow]
      /\ paid \in [RunId -> Nat]
    BY DEF DungeonIInv, DungeonShape
<1>. DEFINE d == runs[x].character
            ended == IF victory THEN "FINISHED" ELSE "FAILED"
            z == [runs[x] EXCEPT !.status = ended]
            total == characters[d].exp + exp
            won == IF victory THEN Cleared(characters[d].cleared, floor) ELSE characters[d].cleared
            y == [characters[d] EXCEPT !.cleared = won, !.exp = total,
                                       !.level = LevelAfter(characters[d].level, total)]
<1>2. /\ d \in CharacterId /\ characters[d].state = "LIVE" /\ runs[x].status = "STARTED"
      /\ floor = runs[x].floor
    BY DEF DungeonFinish, LiveCharacters
<1>3. /\ runs' = PutsRow(runs, x, z)
      /\ paid' = [paid EXCEPT ![x] = IF victory THEN @ + 1 ELSE @]
      /\ UNCHANGED <<resumes, client, killed>>
    BY DEF DungeonFinish, PutsRow
<1>4. characters' = PutsRow(characters, d, y)
  <2>1. characters' = [characters EXCEPT
          ![d].cleared = IF victory THEN Cleared(@, floor) ELSE @,
          ![d].exp = @ + exp,
          ![d].level = LevelAfter(@, characters[d].exp + exp)]
      BY DEF DungeonFinish
  <2>2. characters[d] \in CharacterRow
      BY <1>1, <1>2
  <2>. QED
      BY <1>1, <1>2, <2>1, <2>2 DEF PutsRow, CharacterRow
<1>5. characters[d] \in CharacterRow /\ runs[x] \in RunRow /\ exp \in Nat
    BY <1>1, <1>2, DungeonAssumption
<1>6. total \in Nat /\ LevelFits(LevelAfter(characters[d].level, total), total)
  <2>1. /\ characters[d].exp \in Nat /\ characters[d].level \in 1 .. Top
        /\ ExpToReach[characters[d].level] \in Nat
        /\ ExpToReach[characters[d].level] <= characters[d].exp
    <3>1. characters[d].exp \in Nat /\ characters[d].level \in 1 .. Top
        BY <1>5 DEF CharacterRow
    <3>2. ExpToReach[characters[d].level] <= characters[d].exp
        BY <1>2 DEF DungeonIInv, LevelInv, LevelFits
    <3>. HIDE DEF d
    <3>3. characters[d].level \in 0 .. Top
        BY <3>1, NextLevelCosts
    <3>. QED
        BY <3>1, <3>2, <3>3, ReachGrows
  <2>2. total \in Nat /\ ExpToReach[characters[d].level] <= total
      BY <1>5, <2>1
  <2>. QED
      BY <2>1, <2>2, LevelAfterFits
<1>7. won \in Floors \cup {<<0, 0>>}
  <2>1. characters[d].cleared \in Floors \cup {<<0, 0>>}
      BY <1>5 DEF CharacterRow
  <2>2. Cleared(characters[d].cleared, floor) \in {characters[d].cleared, floor}
      BY DEF Cleared
  <2>. QED
      BY <2>1, <2>2
<1>8. /\ y \in CharacterRow /\ y.slot = characters[d].slot /\ y.state = "LIVE"
      /\ y.gold = characters[d].gold /\ y.exp = total /\ y.cleared = won
      /\ y.level = LevelAfter(characters[d].level, total)
  <2>1. LevelAfter(characters[d].level, total) \in 1 .. Top
      BY <1>6 DEF LevelFits
  <2>. HIDE DEF won, total, d
  <2>. QED
      BY <1>2, <1>5, <1>6, <1>7, <2>1 DEF CharacterRow
<1>9. /\ z \in RunRow /\ z.status = ended /\ z.character = d /\ z.server = runs[x].server
      /\ z.floor = runs[x].floor
    BY <1>5 DEF RunRow
<1>10. ended \in {"FINISHED", "FAILED"} /\ (ended = "FINISHED" <=> victory)
    OBVIOUS
<1>. HIDE DEF d, z, y, won, total, ended
<1>11. /\ characters' \in [CharacterId -> CharacterRow] /\ characters'[d] = y
       /\ \A c \in CharacterId : c # d => characters'[c] = characters[c]
    BY <1>1, <1>2, <1>4, <1>8 DEF PutsRow
<1>12. /\ runs' \in [RunId -> RunRow] /\ runs'[x] = z
       /\ \A w \in RunId : w # x => runs'[w] = runs[w]
    BY <1>1, <1>3, <1>9 DEF PutsRow
<1>13. /\ paid' \in [RunId -> Nat] /\ paid'[x] = (IF victory THEN paid[x] + 1 ELSE paid[x])
       /\ \A w \in RunId : w # x => paid'[w] = paid[w]
    BY <1>1, <1>3
<1>14. \A c \in CharacterId : /\ characters'[c].state = characters[c].state
                              /\ characters'[c].slot = characters[c].slot
                              /\ characters'[c].gold = characters[c].gold
    BY <1>2, <1>8, <1>11
<1>15. \A w \in RunId : /\ runs'[w].character = runs[w].character
                        /\ runs'[w].server = runs[w].server
                        /\ runs'[w].floor = runs[w].floor
                        /\ runs'[w].status = "NONE" <=> runs[w].status = "NONE"
                        /\ runs'[w].status = "STARTED" => runs[w].status = "STARTED"
    BY <1>2, <1>9, <1>10, <1>12 DEF d
<1>16. DungeonShape'
    BY <1>3, <1>11, <1>12, <1>13 DEF DungeonIInv, DungeonShape
<1>17. RowsInv'
  <2>1. \A c \in CharacterId : characters'[c].state = "NONE" => characters'[c] = NoCharacter
      BY <1>8, <1>11 DEF DungeonIInv, RowsInv
  <2>2. ASSUME NEW w \in RunId
        PROVE  IF runs'[w].status = "NONE" THEN runs'[w] = NoRun
               ELSE /\ runs'[w].character \in CharacterId
                    /\ characters'[runs'[w].character].state # "NONE"
    <3>1. CASE runs'[w].status = "NONE"
      <4>1. w # x /\ runs[w].status = "NONE"
          BY <1>2, <1>15, <3>1
      <4>. QED
          BY <1>12, <3>1, <4>1 DEF DungeonIInv, RowsInv
    <3>2. CASE runs'[w].status # "NONE"
        BY <1>14, <1>15, <3>2 DEF DungeonIInv, RowsInv
    <3>. QED
        BY <3>1, <3>2
  <2>3. \A k \in ResumeId :
         resumes[k].status # "NONE" =>
           /\ resumes[k].run \in RunId
           /\ runs'[resumes[k].run].status # "NONE"
           /\ resumes[k].server = runs'[resumes[k].run].server
      BY <1>15 DEF DungeonIInv, RowsInv
  <2>4. \A p \in Clients :
         client[p].op = "resume" => client[p].run \in RunId /\ runs'[client[p].run].status # "NONE"
      BY <1>15 DEF DungeonIInv, RowsInv
  <2>. QED
      BY <1>3, <2>1, <2>2, <2>3, <2>4 DEF RowsInv
<1>18. SlotsDiffer'
  <2>1. LiveCharacters' = LiveCharacters /\ LiveCharacters \in SUBSET CharacterId
      BY <1>14 DEF LiveCharacters
  <2>. QED
      BY <1>14, <2>1 DEF DungeonIInv, SlotsDiffer
<1>19. OneRunInv'
    BY <1>15 DEF DungeonIInv, OneRunInv
<1>20. GoldInv'
  <2>1. \A c : RunsOf(c)' = RunsOf(c)
      BY <1>15 DEF RunsOf
  <2>. QED
      BY <1>14, <2>1 DEF DungeonIInv, GoldInv
<1>21. RunPaysOnce'
  <2>1. ASSUME NEW w \in RunId PROVE paid'[w] = (IF runs'[w].status = "FINISHED" THEN 1 ELSE 0)
    <3>1. paid[w] = (IF runs[w].status = "FINISHED" THEN 1 ELSE 0)
        BY DEF DungeonIInv, RunPaysOnce
    <3>2. CASE w = x
        BY <1>2, <1>9, <1>10, <1>12, <1>13, <3>1, <3>2
    <3>3. CASE w # x
        BY <1>12, <1>13, <3>1, <3>3
    <3>. QED
        BY <3>2, <3>3
  <2>. QED
      BY <2>1 DEF RunPaysOnce
<1>22. AbandonEndsTickets'
    BY <1>3 DEF DungeonIInv, AbandonEndsTickets
<1>23. LevelInv'
    BY <1>6, <1>8, <1>11 DEF DungeonIInv, LevelInv
<1>24. ClearedInv'
  <2>1. ASSUME NEW c \in CharacterId, NEW w \in RunId
        PROVE  Won(c, w)' <=> (Won(c, w) \/ (w = x /\ c = d /\ victory))
      BY <1>2, <1>9, <1>10, <1>12 DEF Won, d
  <2>2. ASSUME NEW c \in CharacterId
        PROVE  /\ \/ characters'[c].cleared = <<0, 0>>
                  \/ \E w \in RunId : Won(c, w)' /\ runs'[w].floor = characters'[c].cleared
               /\ \A w \in RunId : Won(c, w)' => NoFurther(runs'[w].floor, characters'[c].cleared)
    <3>1. /\ \/ characters[c].cleared = <<0, 0>>
             \/ \E w \in RunId : Won(c, w) /\ runs[w].floor = characters[c].cleared
          /\ \A w \in RunId : Won(c, w) => NoFurther(runs[w].floor, characters[c].cleared)
        BY DEF DungeonIInv, ClearedInv
    <3>2. CASE ~(c = d /\ victory)
      <4>1. characters'[c].cleared = characters[c].cleared
          BY <1>8, <1>11, <3>2 DEF won
      <4>. QED
          BY <1>15, <2>1, <3>1, <3>2, <4>1
    <3>3. CASE c = d /\ victory
      <4>. DEFINE old == characters[c].cleared
      <4>1. characters'[c].cleared = Cleared(old, floor)
          BY <1>8, <1>11, <3>3 DEF won
      <4>2. old \in Nat \X Nat /\ floor \in Nat \X Nat
        <5>1. old \in Floors \cup {<<0, 0>>}
            BY <1>5, <3>3 DEF CharacterRow
        <5>. QED
            BY <5>1, FloorsArePairs
      <4>3. /\ Cleared(old, floor) \in {old, floor}
            /\ NoFurther(floor, Cleared(old, floor))
            /\ \A f \in Nat \X Nat : NoFurther(f, old) => NoFurther(f, Cleared(old, floor))
          BY <4>2, ClearedFurthest
      <4>4. \A w \in RunId : runs[w].floor \in Nat \X Nat
        <5>1. \A w \in RunId : runs[w].floor \in Floors \cup {<<0, 0>>}
            BY <1>1 DEF RunRow
        <5>. QED
            BY <5>1, FloorsArePairs
      <4>5. Won(c, x)' /\ runs'[x].floor = floor
          BY <1>2, <1>15, <2>1, <3>3
      <4>. HIDE DEF old
      <4>6. ASSUME NEW w \in RunId, Won(c, w)'
            PROVE  NoFurther(runs'[w].floor, Cleared(old, floor))
        <5>1. CASE w = x
            BY <4>3, <4>5, <5>1
        <5>2. CASE w # x
          <6>1. Won(c, w)
              BY <2>1, <4>6, <5>2
          <6>2. NoFurther(runs[w].floor, old)
              BY <3>1, <6>1 DEF old
          <6>. QED
              BY <1>15, <4>3, <4>4, <6>2
        <5>. QED
            BY <5>1, <5>2
      <4>7. \/ characters'[c].cleared = <<0, 0>>
            \/ \E w \in RunId : Won(c, w)' /\ runs'[w].floor = characters'[c].cleared
        <5>1. CASE Cleared(old, floor) = floor
            BY <4>1, <4>5, <5>1
        <5>2. CASE Cleared(old, floor) = old
            BY <1>15, <2>1, <3>1, <4>1, <5>2 DEF old
        <5>. QED
            BY <4>3, <5>1, <5>2
      <4>. QED
          BY <4>1, <4>6, <4>7
    <3>. QED
        BY <3>2, <3>3
  <2>. QED
      BY <2>2 DEF ClearedInv
<1>. QED
    BY <1>16, <1>17, <1>18, <1>19, <1>20, <1>21, <1>22, <1>23, <1>24 DEF DungeonIInv

(* Tickets: what they name stays, and an abandoned run's stay cancelled.   *)
LEMMA ResumeSaveTicketStep ==
    ASSUME DungeonIInv, NEW p \in Clients, ResumeSaveTicket(p)
    PROVE  DungeonIInv'
<1>1. /\ resumes \in [ResumeId -> ResumeRow] /\ runs \in [RunId -> RunRow]
      /\ client \in [Clients -> [op : {"waiting", "create", "resume"}, slot : Slots \cup {0},
                                 run : RunId \cup {0}]]
    BY DEF DungeonIInv, DungeonShape
<1>. DEFINE x == client[p].run
            y == [status |-> "ACTIVE", server |-> runs[x].server, run |-> x]
<1>2. /\ UNCHANGED <<characters, runs, paid, killed>>
      /\ x \in RunId /\ runs[x].status # "NONE"
    BY DEF ResumeSaveTicket, DungeonIInv, RowsInv
<1>3. PICK k \in ResumeId : resumes[k] = NoResume /\ resumes' = PutsRow(resumes, k, y)
    BY DEF ResumeSaveTicket, Unused, PutsRow
<1>4. /\ client' \in [Clients -> [op : {"waiting", "create", "resume"}, slot : Slots \cup {0},
                                  run : RunId \cup {0}]]
      /\ \A q \in Clients : client'[q] = client[q] \/ client'[q] = Waiting
    BY <1>1 DEF ResumeSaveTicket, Waiting
<1>5. y \in ResumeRow /\ y.status = "ACTIVE" /\ y.server = runs[x].server /\ y.run = x
    BY <1>1, <1>2 DEF ResumeRow, RunRow
<1>. HIDE DEF x, y
<1>6. /\ resumes' \in [ResumeId -> ResumeRow] /\ resumes'[k] = y
      /\ \A j \in ResumeId : j # k => resumes'[j] = resumes[j]
    BY <1>1, <1>3, <1>5 DEF PutsRow
<1>7. resumes[k].status = "NONE"
  <2>1. NoResume.status = "NONE"
      BY DEF NoResume
  <2>. QED
      BY <1>3, <2>1
<1>8. DungeonShape'
    BY <1>2, <1>4, <1>6 DEF DungeonIInv, DungeonShape
<1>9. RowsInv'
  <2>1. ASSUME NEW j \in ResumeId, resumes'[j].status # "NONE"
        PROVE  /\ resumes'[j].run \in RunId
               /\ runs[resumes'[j].run].status # "NONE"
               /\ resumes'[j].server = runs[resumes'[j].run].server
    <3>1. CASE j = k
        BY <1>2, <1>5, <1>6, <3>1
    <3>2. CASE j # k
        BY <1>6, <2>1, <3>2 DEF DungeonIInv, RowsInv
    <3>. QED
        BY <3>1, <3>2
  <2>2. \A q \in Clients :
         client'[q].op = "resume" => client'[q].run \in RunId /\ runs[client'[q].run].status # "NONE"
      BY <1>4 DEF DungeonIInv, RowsInv, Waiting
  <2>. QED
      BY <1>2, <2>1, <2>2 DEF DungeonIInv, RowsInv
<1>10. AbandonEndsTickets'
  <2>1. k \notin killed /\ killed \in SUBSET ResumeId
      BY <1>7 DEF DungeonIInv, DungeonShape, AbandonEndsTickets
  <2>. QED
      BY <1>2, <1>6, <2>1 DEF DungeonIInv, AbandonEndsTickets
<1>11. /\ SlotsDiffer' /\ OneRunInv' /\ GoldInv' /\ RunPaysOnce' /\ LevelInv' /\ ClearedInv'
    BY <1>2 DEF DungeonIInv, SlotsDiffer, LiveCharacters, OneRunInv, GoldInv, RunsOf, RunPaysOnce,
                LevelInv, ClearedInv, Won
<1>. QED
    BY <1>8, <1>9, <1>10, <1>11 DEF DungeonIInv

LEMMA ConsumeResumeStep ==
    ASSUME DungeonIInv, NEW k \in ResumeId, ConsumeResume(k)
    PROVE  DungeonIInv'
<1>1. resumes \in [ResumeId -> ResumeRow]
    BY DEF DungeonIInv, DungeonShape
<1>2. resumes[k].status = "ACTIVE" /\ UNCHANGED <<characters, runs, client, paid, killed>>
    BY DEF ConsumeResume
<1>. DEFINE y == [resumes[k] EXCEPT !.status = "CONSUMED"]
<1>3. resumes' = PutsRow(resumes, k, y)
    BY DEF ConsumeResume, PutsRow
<1>4. y \in ResumeRow /\ y.server = resumes[k].server /\ y.run = resumes[k].run
    BY <1>1 DEF ResumeRow
<1>. HIDE DEF y
<1>5. /\ resumes' \in [ResumeId -> ResumeRow] /\ resumes'[k] = y
      /\ \A j \in ResumeId : j # k => resumes'[j] = resumes[j]
    BY <1>1, <1>3, <1>4 DEF PutsRow
<1>6. DungeonShape'
    BY <1>2, <1>5 DEF DungeonIInv, DungeonShape
<1>7. RowsInv'
  <2>1. ASSUME NEW j \in ResumeId, resumes'[j].status # "NONE"
        PROVE  /\ resumes'[j].run \in RunId
               /\ runs[resumes'[j].run].status # "NONE"
               /\ resumes'[j].server = runs[resumes'[j].run].server
    <3>1. /\ resumes'[j].run = resumes[j].run /\ resumes'[j].server = resumes[j].server
          /\ resumes[j].status # "NONE"
        BY <1>2, <1>4, <1>5, <2>1
    <3>. QED
        BY <3>1 DEF DungeonIInv, RowsInv
  <2>. QED
      BY <1>2, <2>1 DEF DungeonIInv, RowsInv
<1>8. AbandonEndsTickets'
  <2>1. k \notin killed /\ killed \in SUBSET ResumeId
      BY <1>2 DEF DungeonIInv, DungeonShape, AbandonEndsTickets
  <2>. QED
      BY <1>2, <1>5, <2>1 DEF DungeonIInv, AbandonEndsTickets
<1>9. /\ SlotsDiffer' /\ OneRunInv' /\ GoldInv' /\ RunPaysOnce' /\ LevelInv' /\ ClearedInv'
    BY <1>2 DEF DungeonIInv, SlotsDiffer, LiveCharacters, OneRunInv, GoldInv, RunsOf, RunPaysOnce,
                LevelInv, ClearedInv, Won
<1>. QED
    BY <1>6, <1>7, <1>8, <1>9 DEF DungeonIInv

LEMMA CancelDungeonRunStep ==
    ASSUME DungeonIInv, NEW x \in RunId, CancelDungeonRun(x)
    PROVE  DungeonIInv'
<1>1. resumes \in [ResumeId -> ResumeRow] /\ runs \in [RunId -> RunRow]
    BY DEF DungeonIInv, DungeonShape
<1>. DEFINE z == [runs[x] EXCEPT !.status = "CANCELLED"]
            Ends(k) == resumes[k].status = "ACTIVE" /\ resumes[k].server = runs[x].server
<1>2. /\ runs[x].status \in {"STARTED", "CANCELLED"} /\ UNCHANGED <<characters, client, paid>>
      /\ killed' = killed \cup ActiveFor(x)
      /\ runs' = PutsRow(runs, x, z)
      /\ resumes' = [k \in ResumeId |->
           IF Ends(k) THEN [resumes[k] EXCEPT !.status = "CANCELLED"] ELSE resumes[k]]
    BY DEF CancelDungeonRun, PutsRow
<1>3. /\ z \in RunRow /\ z.status = "CANCELLED" /\ z.character = runs[x].character
      /\ z.server = runs[x].server /\ z.floor = runs[x].floor
    BY <1>1 DEF RunRow
<1>4. ASSUME NEW k \in ResumeId
      PROVE  /\ resumes'[k] \in ResumeRow
             /\ resumes'[k].server = resumes[k].server /\ resumes'[k].run = resumes[k].run
             /\ resumes'[k].status = (IF Ends(k) THEN "CANCELLED" ELSE resumes[k].status)
  <2>1. resumes[k] \in ResumeRow
      BY <1>1
  <2>2. resumes'[k] = IF Ends(k) THEN [resumes[k] EXCEPT !.status = "CANCELLED"] ELSE resumes[k]
      BY <1>2
  <2>. HIDE DEF Ends
  <2>. QED
      BY <2>1, <2>2 DEF ResumeRow
<1>5. resumes' \in [ResumeId -> ResumeRow]
    BY <1>2, <1>4
<1>. HIDE DEF z
<1>6. /\ runs' \in [RunId -> RunRow] /\ runs'[x] = z
      /\ \A w \in RunId : w # x => runs'[w] = runs[w]
    BY <1>1, <1>2, <1>3 DEF PutsRow
<1>7. \A w \in RunId : /\ runs'[w].character = runs[w].character
                       /\ runs'[w].server = runs[w].server
                       /\ runs'[w].floor = runs[w].floor
                       /\ runs'[w].status = "NONE" <=> runs[w].status = "NONE"
                       /\ runs'[w].status = "STARTED" => runs[w].status = "STARTED"
                       /\ runs'[w].status = "FINISHED" <=> runs[w].status = "FINISHED"
    BY <1>2, <1>3, <1>6
<1>8. DungeonShape'
  <2>1. killed' \in SUBSET ResumeId
      BY <1>2 DEF DungeonIInv, DungeonShape, ActiveFor
  <2>. QED
      BY <1>2, <1>5, <1>6, <2>1 DEF DungeonIInv, DungeonShape
<1>9. RowsInv'
  <2>1. ASSUME NEW w \in RunId
        PROVE  IF runs'[w].status = "NONE" THEN runs'[w] = NoRun
               ELSE /\ runs'[w].character \in CharacterId
                    /\ characters[runs'[w].character].state # "NONE"
    <3>1. CASE runs'[w].status = "NONE"
      <4>1. w # x /\ runs[w].status = "NONE"
          BY <1>2, <1>7, <3>1
      <4>. QED
          BY <1>6, <3>1, <4>1 DEF DungeonIInv, RowsInv
    <3>2. CASE runs'[w].status # "NONE"
        BY <1>7, <3>2 DEF DungeonIInv, RowsInv
    <3>. QED
        BY <3>1, <3>2
  <2>2. ASSUME NEW k \in ResumeId, resumes'[k].status # "NONE"
        PROVE  /\ resumes'[k].run \in RunId
               /\ runs'[resumes'[k].run].status # "NONE"
               /\ resumes'[k].server = runs'[resumes'[k].run].server
    <3>1. resumes[k].status # "NONE"
        BY <1>4, <2>2
    <3>2. /\ resumes[k].run \in RunId
          /\ runs[resumes[k].run].status # "NONE"
          /\ resumes[k].server = runs[resumes[k].run].server
        BY <3>1 DEF DungeonIInv, RowsInv
    <3>. QED
        BY <1>4, <1>7, <3>2
  <2>3. \A p \in Clients :
         client[p].op = "resume" => client[p].run \in RunId /\ runs'[client[p].run].status # "NONE"
      BY <1>7 DEF DungeonIInv, RowsInv
  <2>. QED
      BY <1>2, <2>1, <2>2, <2>3 DEF DungeonIInv, RowsInv
<1>10. AbandonEndsTickets'
  <2>1. ASSUME NEW k \in killed' PROVE resumes'[k].status = "CANCELLED"
    <3>1. CASE k \in killed
      <4>1. k \in ResumeId /\ resumes[k].status = "CANCELLED"
          BY <3>1 DEF DungeonIInv, DungeonShape, AbandonEndsTickets
      <4>. QED
          BY <1>4, <4>1
    <3>2. CASE k \in ActiveFor(x)
      <4>1. k \in ResumeId /\ resumes[k].status = "ACTIVE" /\ resumes[k].run = x
          BY <3>2 DEF ActiveFor
      <4>2. Ends(k)
          BY <4>1 DEF DungeonIInv, RowsInv
      <4>. QED
          BY <1>4, <4>1, <4>2
    <3>. QED
        BY <1>2, <3>1, <3>2
  <2>. QED
      BY <2>1 DEF AbandonEndsTickets
<1>11. SlotsDiffer' /\ LevelInv'
    BY <1>2 DEF DungeonIInv, SlotsDiffer, LiveCharacters, LevelInv
<1>12. OneRunInv'
    BY <1>7 DEF DungeonIInv, OneRunInv
<1>13. GoldInv'
  <2>1. \A c : RunsOf(c)' = RunsOf(c)
      BY <1>7 DEF RunsOf
  <2>. QED
      BY <1>2, <2>1 DEF DungeonIInv, GoldInv
<1>14. RunPaysOnce'
    BY <1>2, <1>7 DEF DungeonIInv, RunPaysOnce
<1>15. ClearedInv'
    BY <1>2, <1>7 DEF DungeonIInv, ClearedInv, Won
<1>. QED
    BY <1>8, <1>9, <1>10, <1>11, <1>12, <1>13, <1>14, <1>15 DEF DungeonIInv

LEMMA DungeonNextIInv == DungeonIInv /\ [DungeonNext]_dvars => DungeonIInv'
<1>1. ASSUME DungeonIInv, UNCHANGED dvars PROVE DungeonIInv'
    BY <1>1 DEF dvars, DungeonIInv, DungeonShape, RowsInv, SlotsDiffer, LiveCharacters, OneRunInv,
                GoldInv, RunsOf, RunPaysOnce, AbandonEndsTickets, LevelInv, ClearedInv, Won
<1>2. ASSUME DungeonIInv, DungeonNext PROVE DungeonIInv'
    BY <1>2, HandlerSteps, CreateInsertStep, ResumeSaveTicketStep, DeleteCharacterStep,
       DungeonEnterStep, DungeonFinishStep, CancelDungeonRunStep, ConsumeResumeStep, Zenon
       DEF DungeonNext, Origins
<1>. QED
    BY <1>1, <1>2

(* The inductive invariant says what the run checks. *)
LEMMA DungeonIInvSettles == DungeonIInv => RunsSettleOnce
<1>. SUFFICES ASSUME DungeonIInv PROVE RunsSettleOnce
    OBVIOUS
<1>1. OneStartedRun
  <2>1. ASSUME NEW c \in CharacterId PROVE Cardinality(StartedRuns(c)) <= 1
    <3>1. CASE StartedRuns(c) = {}
      <4>1. Cardinality(StartedRuns(c)) = 0
          BY <3>1, FS_EmptySet
      <4>. QED
          BY <4>1
    <3>2. CASE StartedRuns(c) # {}
      <4>1. PICK x \in StartedRuns(c) : TRUE
          BY <3>2
      <4>2. StartedRuns(c) = {x}
          BY <4>1 DEF StartedRuns, DungeonIInv, OneRunInv
      <4>3. Cardinality(StartedRuns(c)) = 1
          BY <4>2, FS_Singleton
      <4>. QED
          BY <4>3
    <3>. QED
        BY <3>1, <3>2
  <2>. QED
      BY <2>1 DEF OneStartedRun, DungeonIInv, GoldInv, RunsOf
<1>2. DungeonTypeOK
  <2>1. ASSUME NEW c \in CharacterId
        PROVE  /\ characters[c].state \in {"NONE", "LIVE", "DELETED"}
               /\ characters[c].level \in 1 .. LevelRules.maxLevel
               /\ characters[c].cleared \in Floors \cup {<<0, 0>>}
               /\ characters[c].gold \in Nat
      BY DEF DungeonIInv, DungeonShape, CharacterRow, Top
  <2>2. ASSUME NEW c \in CharacterId PROVE characters[c].gold \in 0 .. StartGold
    <3>1. CASE characters[c].state = "NONE"
      <4>1. characters[c].gold = 0
          BY <3>1 DEF DungeonIInv, RowsInv, NoCharacter
      <4>. QED
          BY <4>1, LevelAssumption
    <3>2. CASE characters[c].state # "NONE"
      <4>1. characters[c].gold + EnterCost * Cardinality(RunsOf(c)) = StartGold
          BY <3>2 DEF DungeonIInv, GoldInv
      <4>2. EnterCost * Cardinality(RunsOf(c)) \in Nat
          BY OneMore, LevelAssumption, RunsOfFinite
      <4>. QED
          BY <2>1, <4>1, <4>2, LevelAssumption
    <3>. QED
        BY <3>1, <3>2
  <2>3. \A x \in RunId :
          runs[x].status \in {"NONE", "STARTED", "FINISHED", "FAILED", "CANCELLED"}
      BY DEF DungeonIInv, DungeonShape, RunRow
  <2>. QED
      BY <2>1, <2>2, <2>3 DEF DungeonTypeOK
<1>. QED
    BY <1>1, <1>2 DEF RunsSettleOnce, DungeonIInv

LEMMA DungeonIInvFurthest == DungeonIInv => ProgressIsFurthest
<1>. SUFFICES ASSUME DungeonIInv PROVE ProgressIsFurthest
    OBVIOUS
<1>1. HighestClearedIsFurthest
    BY DEF DungeonIInv, ClearedInv, Won, NoFurther, HighestClearedIsFurthest
<1>2. LevelMatchesExp
  <2>1. ASSUME NEW c \in CharacterId
        PROVE  characters[c].level = CHOOSE n \in 1 .. Top :
                  /\ ExpToReach[n] <= characters[c].exp
                  /\ n < Top => characters[c].exp < ExpToReach[n + 1]
    <3>. DEFINE e == characters[c].exp
                n0 == characters[c].level
                P(n) == ExpToReach[n] <= e /\ (n < Top => e < ExpToReach[n + 1])
    <3>1. e \in Nat /\ LevelFits(n0, e)
        BY DEF DungeonIInv, LevelInv, DungeonShape, CharacterRow
    <3>. HIDE DEF e, n0
    <3>2. n0 \in 1 .. Top /\ P(n0)
        BY <3>1 DEF LevelFits
    <3>3. \A n \in 1 .. Top : P(n) => n = n0
      <4>1. ASSUME NEW n \in 1 .. Top, P(n) PROVE n = n0
        <5>1. LevelFits(n, e)
            BY <4>1 DEF LevelFits
        <5>. QED
            BY <3>1, <5>1, OneLevelFits
      <4>. QED
          BY <4>1
    <3>4. n0 = CHOOSE n \in 1 .. Top : P(n)
      <4>. HIDE DEF P
      <4>. QED
          BY <3>2, <3>3
    <3>. QED
        BY <3>4, Zenon DEF e, n0, P
  <2>. QED
      BY <2>1, Zenon DEF LevelMatchesExp, Top
<1>. QED
    BY <1>1, <1>2 DEF ProgressIsFurthest

(* Whatever creations, deletions, finishes, abandons and resumes are under *)
(* way together: slots differ, a character is in at most one run and has   *)
(* paid for each, a run's rewards are paid once and only for a victory,    *)
(* and no ticket waiting when its run was abandoned resumes it.            *)
THEOREM RunsAlwaysSettleOnce == DungeonSpec => []RunsSettleOnce
BY DungeonInitIInv, DungeonNextIInv, DungeonIInvSettles, PTL DEF DungeonSpec

(* The furthest floor stored is the furthest one won, and the level stored *)
(* is the only one its experience fits, for every set of level rules with  *)
(* a positive cost.                                                        *)
THEOREM ProgressAlwaysFurthest == DungeonSpec => []ProgressIsFurthest
BY DungeonInitIInv, DungeonNextIInv, DungeonIInvFurthest, PTL DEF DungeonSpec

-----------------------------------------------------------------------------
(* The bounty board: the rows. *)
TaskTypes == NormalTypes \cup {RareType}
TaskRow == [id : Nat, type : TaskTypes, progress : Nat, required : Nat \ {0},
            status : {"ACTIVE", "COMPLETED"}]
PlanRow == [type : TaskTypes, required : Nat \ {0}]
PlansOver(S) == UNION {[T -> PlanRow] : T \in SUBSET S}
BountyOrderRow == [slot : BountySlots \cup {0}, plans : PlansOver(BountySlots),
                   status : {"OPEN", "FULFILLED"}]
RefresherRow == [mode : {"none", "free", "gold", "premium"}, plans : PlansOver(BountySlots)]

BountyShape ==
    /\ task \in [BountySlots -> TaskRow \cup {NoTask}]
    /\ tasksMade \in Nat /\ rareMade \in Nat
    /\ bountySlots \in SUBSET BountySlots
    /\ bountyGold \in Nat
    /\ submissions \in SUBSET DOMAIN FinishedRuns
    /\ bountyOrders \in Seq(BountyOrderRow)
    /\ refresher \in [Refreshers -> RefresherRow]

(* A row belongs to an unlocked slot and is COMPLETED when its requirement *)
(* is reached.                                                             *)
TasksInv ==
    \A s \in BountySlots : task[s] # NoTask =>
      /\ s \in bountySlots
      /\ task[s].progress <= task[s].required
      /\ task[s].status = "COMPLETED" <=> task[s].progress = task[s].required

(* A plan has a rare task exactly when it is a premium refresh's: a        *)
(* request's in flight and an order's that is paid for later.              *)
PlansInv ==
    /\ \A r \in Refreshers :
         RareIn(refresher[r].plans) = IF refresher[r].mode = "premium" THEN 1 ELSE 0
    /\ \A o \in DOMAIN bountyOrders : bountyOrders[o].slot = 0 => RareIn(bountyOrders[o].plans) = 1

(* A node that is ready has not been settled since its cooldown.           *)
NodeInv == settled \in {0, 1} /\ nodeReady \in BOOLEAN /\ (nodeReady => settled = 0)

BountyIInv == /\ BountyShape /\ TasksInv /\ PlansInv /\ NodeInv
              /\ KillsCountOnce /\ OneRareForEachPremium

-----------------------------------------------------------------------------
(* What plans hold.                                                        *)
LEMMA NormalPlansFacts ==
    ASSUME NEW S \in SUBSET BountySlots, NEW plans \in NormalPlans(S)
    PROVE  /\ plans \in [S -> PlanRow]
           /\ \A s \in S : plans[s].type \in NormalTypes
           /\ RareIn(plans) = 0
<1>1. PICK f \in [S -> NormalTypes] : plans = [s \in S |-> Plan(f[s])]
    BY DEF NormalPlans
<1>2. ASSUME NEW s \in S PROVE plans[s] \in PlanRow /\ plans[s].type \in NormalTypes
    BY <1>1, BountyAssumption DEF Plan, PlanRow, TaskTypes, NormalTypes, RareType
<1>3. {s \in DOMAIN plans : plans[s].type = RareType} = {}
    BY <1>1, <1>2 DEF NormalTypes, RareType
<1>. QED
    BY <1>1, <1>2, <1>3, FS_EmptySet DEF RareIn

(* The premium plan turns exactly one task into the rare one.              *)
LEMMA PremiumFacts ==
    ASSUME NEW S \in SUBSET BountySlots, S # {}, NEW plans \in NormalPlans(S)
    PROVE  Premium(plans) \in [S -> PlanRow] /\ RareIn(Premium(plans)) = 1
<1>. DEFINE first == CHOOSE s \in DOMAIN plans : \A t \in DOMAIN plans : s <= t
            p == Premium(plans)
<1>1. /\ plans \in [S -> PlanRow]
      /\ \A s \in S : plans[s].type \in NormalTypes
    BY NormalPlansFacts
<1>2. first \in S
    BY <1>1, LeastNumber, BountyAssumption
<1>3. p = [plans EXCEPT ![first] = Plan(RareType)]
    BY DEF Premium
<1>. HIDE DEF first, p
<1>4. Plan(RareType) \in PlanRow /\ Plan(RareType).type = RareType
    BY DEF Plan, PlanRow, TaskTypes, NormalTypes, RareType
<1>5. p \in [S -> PlanRow]
    BY <1>1, <1>3, <1>4
<1>6. {s \in DOMAIN p : p[s].type = RareType} = {first}
    BY <1>1, <1>2, <1>3, <1>4, <1>5 DEF NormalTypes, RareType
<1>7. RareIn(p) = 1
    BY <1>6, FS_Singleton DEF RareIn
<1>. QED
    BY <1>5, <1>7 DEF p

LEMMA NoPlansFacts == << >> \in PlansOver(BountySlots) /\ RareIn(<< >>) = 0
<1>1. << >> \in [{} -> PlanRow]
    OBVIOUS
<1>2. {s \in DOMAIN << >> : << >>[s].type = RareType} = {}
    OBVIOUS
<1>. QED
    BY <1>1, <1>2, FS_EmptySet DEF PlansOver, RareIn

LEMMA PlansOverFacts ==
    ASSUME NEW S \in SUBSET BountySlots, NEW plans \in [S -> PlanRow]
    PROVE  plans \in PlansOver(BountySlots)
BY DEF PlansOver

LEMMA PlansRows ==
    ASSUME NEW plans \in PlansOver(BountySlots)
    PROVE  DOMAIN plans \in SUBSET BountySlots /\ plans \in [DOMAIN plans -> PlanRow]
BY DEF PlansOver

(* The tasks of an insertion start with nothing done.                      *)
LEMMA InsertedFacts ==
    ASSUME BountyShape, TasksInv, KillsCountOnce, NEW plans \in PlansOver(BountySlots),
           Inserted(plans), submissions' = submissions,
           bountySlots' \in SUBSET BountySlots, bountySlots \subseteq bountySlots',
           DOMAIN plans \subseteq bountySlots'
    PROVE  /\ task' \in [BountySlots -> TaskRow \cup {NoTask}]
           /\ tasksMade' \in Nat /\ rareMade' \in Int
           /\ rareMade' = rareMade + RareIn(plans)
           /\ TasksInv' /\ KillsCountOnce'
<1>0. DOMAIN plans \in SUBSET BountySlots /\ plans \in [DOMAIN plans -> PlanRow]
    BY PlansRows
<1>1. tasksMade' \in Nat /\ rareMade' = rareMade + RareIn(plans)
    BY BountyAssumption, FS_CardinalityType DEF Inserted, BountyShape
<1>2. RareIn(plans) \in Nat
  <2>1. IsFiniteSet({s \in DOMAIN plans : plans[s].type = RareType})
      BY <1>0, BountyAssumption, FS_Subset
  <2>. QED
      BY <2>1, FS_CardinalityType DEF RareIn
<1>3. ASSUME NEW s \in BountySlots, s \in DOMAIN plans
      PROVE  /\ task'[s] \in TaskRow /\ task'[s].progress = 0 /\ task'[s].status = "ACTIVE"
             /\ task'[s].required \in Nat \ {0}
  <2>1. plans[s].type \in TaskTypes /\ plans[s].required \in Nat \ {0} /\ tasksMade + s \in Nat
      BY <1>0, <1>3, BountyAssumption DEF PlanRow, BountyShape
  <2>2. task'[s] = [id |-> tasksMade + s, type |-> plans[s].type, progress |-> 0,
                    required |-> plans[s].required, status |-> "ACTIVE"]
      BY <1>3 DEF Inserted, Insert
  <2>. QED
      BY <2>1, <2>2 DEF TaskRow
<1>4. ASSUME NEW s \in BountySlots, s \notin DOMAIN plans PROVE task'[s] = task[s]
    BY <1>4 DEF Inserted, Insert
<1>5. task' \in [BountySlots -> TaskRow \cup {NoTask}]
  <2>1. task' = [s \in BountySlots |-> task'[s]]
      BY DEF Inserted, Insert
  <2>2. \A s \in BountySlots : task'[s] \in TaskRow \cup {NoTask}
      BY <1>3, <1>4 DEF BountyShape
  <2>. QED
      BY <2>1, <2>2
<1>6. TasksInv'
    BY <1>0, <1>3, <1>4 DEF TasksInv
<1>7. KillsCountOnce'
  <2>1. SumFunctionOnSet(FinishedRuns, submissions) \in Nat
      BY SumNat, BountyAssumption, FS_Subset DEF BountyShape
  <2>. QED
      BY <2>1, <1>3, <1>4 DEF KillsCountOnce
<1>. QED
    BY <1>1, <1>2, <1>5, <1>6, <1>7 DEF BountyShape

(* A task that advances stops at its requirement and is COMPLETED there.   *)
LEMMA AdvanceFacts ==
    ASSUME BountyShape, TasksInv, NEW type, NEW quantity \in Nat, task' = Advance(type, quantity),
           bountySlots' = bountySlots
    PROVE  /\ task' \in [BountySlots -> TaskRow \cup {NoTask}]
           /\ TasksInv'
           /\ \A s \in BountySlots :
                /\ task'[s].type = task[s].type
                /\ task[s] # NoTask => task'[s].progress <= task[s].progress + quantity
                /\ task'[s] # task[s] => task[s].status = "ACTIVE" /\ task[s].type = type
<1>1. ASSUME NEW s \in BountySlots, task[s].status = "ACTIVE", task[s].type = type
      PROVE  /\ task'[s] \in TaskRow /\ task[s] # NoTask /\ task'[s].type = task[s].type
             /\ task'[s].progress <= task[s].progress + quantity
             /\ s \in bountySlots /\ task'[s].progress <= task'[s].required
             /\ task'[s].status = "COMPLETED" <=> task'[s].progress = task'[s].required
  <2>. DEFINE reached == task[s].progress + quantity
              progress == IF reached < task[s].required THEN reached ELSE task[s].required
              status == IF reached >= task[s].required THEN "COMPLETED" ELSE "ACTIVE"
  <2>1. task[s] # NoTask
      BY <1>1 DEF NoTask
  <2>2. task[s] \in TaskRow /\ s \in bountySlots
      BY <2>1 DEF BountyShape, TasksInv
  <2>3. task[s].progress \in Nat /\ task[s].required \in Nat
      BY <2>2 DEF TaskRow
  <2>4. /\ progress \in Nat /\ progress <= task[s].progress + quantity
        /\ progress <= task[s].required /\ status \in {"ACTIVE", "COMPLETED"}
        /\ status = "COMPLETED" <=> progress = task[s].required
      BY <2>3
  <2>5. task'[s] = [task[s] EXCEPT !.progress = progress, !.status = status]
      BY <1>1 DEF Advance
  <2>. HIDE DEF progress, status, reached
  <2>. QED
      BY <2>1, <2>2, <2>4, <2>5 DEF TaskRow
<1>2. ASSUME NEW s \in BountySlots, ~(task[s].status = "ACTIVE" /\ task[s].type = type)
      PROVE  task'[s] = task[s]
    BY <1>2 DEF Advance
<1>3. task' \in [BountySlots -> TaskRow \cup {NoTask}]
  <2>1. task' = [s \in BountySlots |-> task'[s]]
      BY DEF Advance
  <2>2. \A s \in BountySlots : task'[s] \in TaskRow \cup {NoTask}
      BY <1>1, <1>2 DEF BountyShape
  <2>. QED
      BY <2>1, <2>2
<1>4. TasksInv'
    BY <1>1, <1>2 DEF TasksInv
<1>5. ASSUME NEW s \in BountySlots, task[s] # NoTask
      PROVE  task[s].progress <= task[s].progress + quantity
    BY <1>5 DEF BountyShape, TaskRow
<1>. QED
    BY <1>1, <1>2, <1>3, <1>4, <1>5

(* The premium orders that have been fulfilled. *)
Premiums == {o \in DOMAIN bountyOrders :
               bountyOrders[o].slot = 0 /\ bountyOrders[o].status = "FULFILLED"}

LEMMA OrderFacts ==
    ASSUME BountyShape, PlansInv, NEW row \in BountyOrderRow, Order(row), row.status = "OPEN",
           row.slot = 0 => RareIn(row.plans) = 1
    PROVE  /\ bountyOrders' \in Seq(BountyOrderRow)
           /\ \A o \in DOMAIN bountyOrders' :
                bountyOrders'[o].slot = 0 => RareIn(bountyOrders'[o].plans) = 1
           /\ Premiums' = Premiums
<1>1. /\ bountyOrders' \in Seq(BountyOrderRow)
      /\ DOMAIN bountyOrders' = DOMAIN bountyOrders \cup {Len(bountyOrders) + 1}
      /\ Len(bountyOrders) + 1 \notin DOMAIN bountyOrders
      /\ bountyOrders'[Len(bountyOrders) + 1] = row
      /\ \A o \in DOMAIN bountyOrders : bountyOrders'[o] = bountyOrders[o]
    BY DEF Order, BountyShape
<1>. QED
    BY <1>1 DEF PlansInv, Premiums

LEMMA PremiumsFinite == ASSUME BountyShape PROVE IsFiniteSet(Premiums)
<1>1. DOMAIN bountyOrders = 1 .. Len(bountyOrders) /\ 1 \in Int /\ Len(bountyOrders) \in Int
    BY DEF BountyShape
<1>2. IsFiniteSet(1 .. Len(bountyOrders))
    BY <1>1, FS_Interval
<1>3. Premiums \in SUBSET (1 .. Len(bountyOrders))
    BY <1>1 DEF Premiums
<1>. QED
    BY <1>2, <1>3, FS_Subset

-----------------------------------------------------------------------------
LEMMA BountyInitIInv == ASSUME BountyInit PROVE BountyIInv
<1>1. BountyShape
    BY NoPlansFacts, BountyAssumption DEF BountyInit, BountyShape, NotRefreshing, RefresherRow
<1>2. TasksInv /\ NodeInv
    BY DEF BountyInit, TasksInv, NodeInv
<1>3. PlansInv
    BY NoPlansFacts DEF BountyInit, PlansInv, NotRefreshing
<1>4. KillsCountOnce
    BY DEF BountyInit, KillsCountOnce, NoTask
<1>5. OneRareForEachPremium
  <2>1. {o \in DOMAIN bountyOrders :
           bountyOrders[o].slot = 0 /\ bountyOrders[o].status = "FULFILLED"} = {}
      BY DEF BountyInit
  <2>. QED
      BY <2>1, FS_EmptySet DEF OneRareForEachPremium, BountyInit
<1>. QED
    BY <1>1, <1>2, <1>3, <1>4, <1>5 DEF BountyIInv

(* A step keeps what is completed unless it pays for it. *)
KeptStep ==
    \A s \in BountySlots : task[s].status = "COMPLETED" => task'[s] = task[s] \/ claims' = claims + 1

LEMMA RareCount == OneRareForEachPremium <=> rareMade = Cardinality(Premiums)
BY DEF OneRareForEachPremium, Premiums

(* Steps that insert tasks for slots without one. *)
LEMMA EnsureStep ==
    ASSUME BountyIInv, NEW slots \in SUBSET BountySlots, EnsureBountyTasks(slots),
           bountySlots' = slots, bountySlots \subseteq slots, bountyGold' \in Nat,
           UNCHANGED <<nodeReady, settled, submissions, bountyOrders, refresher, claims>>
    PROVE  BountyIInv' /\ KeptStep
<1>. DEFINE S == {s \in slots : task[s] = NoTask}
<1>1. PICK plans \in NormalPlans(S) : Inserted(plans)
    BY DEF EnsureBountyTasks
<1>2. plans \in [S -> PlanRow] /\ RareIn(plans) = 0
    BY NormalPlansFacts
<1>3. plans \in PlansOver(BountySlots)
    BY <1>2, PlansOverFacts
<1>4. /\ task' \in [BountySlots -> TaskRow \cup {NoTask}]
      /\ tasksMade' \in Nat /\ rareMade' = rareMade + RareIn(plans) /\ rareMade' \in Int
      /\ TasksInv' /\ KillsCountOnce'
    BY <1>1, <1>2, <1>3, InsertedFacts DEF BountyIInv
<1>5. rareMade' = rareMade /\ rareMade \in Nat
    BY <1>2, <1>4 DEF BountyIInv, BountyShape
<1>6. BountyShape'
    BY <1>4, <1>5 DEF BountyIInv, BountyShape
<1>7. PlansInv' /\ NodeInv' /\ OneRareForEachPremium'
    BY <1>5 DEF BountyIInv, PlansInv, NodeInv, OneRareForEachPremium
<1>8. KeptStep
  <2>1. ASSUME NEW s \in BountySlots, task[s].status = "COMPLETED" PROVE task'[s] = task[s]
    <3>1. s \notin DOMAIN plans
        BY <1>2, <2>1 DEF NoTask
    <3>. QED
        BY <1>1, <3>1 DEF Inserted, Insert
  <2>. QED
      BY <2>1 DEF KeptStep
<1>. QED
    BY <1>4, <1>6, <1>7, <1>8 DEF BountyIInv

(* Replacing tasks, for the tables that do not depend on who replaces. *)
LEMMA ReplaceStep ==
    ASSUME BountyIInv, NEW plans \in PlansOver(BountySlots), ReplaceBountyTasks(plans),
           UNCHANGED <<bountySlots, submissions>>
    PROVE  /\ task' \in [BountySlots -> TaskRow \cup {NoTask}] /\ tasksMade' \in Nat
           /\ rareMade' = rareMade + RareIn(plans)
           /\ TasksInv' /\ KillsCountOnce' /\ KeptStep
<1>1. DOMAIN plans \in SUBSET BountySlots
    BY PlansRows
<1>2. ASSUME NEW s \in DOMAIN plans PROVE s \in bountySlots
  <2>1. task[s] # NoTask
      BY DEF ReplaceBountyTasks, NoTask
  <2>. QED
      BY <1>1, <2>1 DEF BountyIInv, TasksInv
<1>3. Inserted(plans)
    BY DEF ReplaceBountyTasks
<1>4. /\ task' \in [BountySlots -> TaskRow \cup {NoTask}] /\ tasksMade' \in Nat
      /\ rareMade' = rareMade + RareIn(plans)
      /\ TasksInv' /\ KillsCountOnce'
    BY <1>2, <1>3, InsertedFacts DEF BountyIInv, BountyShape
<1>5. ASSUME NEW s \in BountySlots, task[s].status = "COMPLETED" PROVE task'[s] = task[s]
  <2>1. s \notin DOMAIN plans
      BY <1>5 DEF ReplaceBountyTasks
  <2>. QED
      BY <1>3, <2>1 DEF Inserted, Insert
<1>. QED
    BY <1>4, <1>5 DEF KeptStep

LEMMA RefreshPlanStep ==
    ASSUME BountyIInv, NEW r \in Refreshers, NEW mode \in {"free", "gold", "premium"},
           RefreshPlan(r, mode)
    PROVE  BountyIInv' /\ KeptStep
<1>1. PICK plans \in NormalPlans(Replaceable) :
        refresher' = [refresher EXCEPT ![r] = [mode |-> mode,
                        plans |-> IF mode = "premium" THEN Premium(plans) ELSE plans]]
    BY DEF RefreshPlan
<1>. DEFINE made == IF mode = "premium" THEN Premium(plans) ELSE plans
            row == [mode |-> mode, plans |-> made]
<1>2. Replaceable \in SUBSET BountySlots /\ Replaceable # {}
    BY DEF RefreshPlan, Replaceable, BountyIInv, BountyShape
<1>3. made \in PlansOver(BountySlots) /\ RareIn(made) = IF mode = "premium" THEN 1 ELSE 0
    BY <1>2, NormalPlansFacts, PremiumFacts, PlansOverFacts
<1>. HIDE DEF made
<1>4. row \in RefresherRow /\ row.mode = mode /\ row.plans = made
    BY <1>3 DEF RefresherRow
<1>5. refresher' = [refresher EXCEPT ![r] = row]
    BY <1>1 DEF made
<1>. HIDE DEF row
<1>6. BountyShape'
    BY <1>4, <1>5 DEF RefreshPlan, BountyIInv, BountyShape
<1>7. PlansInv'
  <2>1. ASSUME NEW q \in Refreshers
        PROVE  RareIn(refresher'[q].plans) = IF refresher'[q].mode = "premium" THEN 1 ELSE 0
    <3>1. CASE q = r
        BY <1>3, <1>4, <1>5, <3>1 DEF BountyIInv, BountyShape
    <3>2. CASE q # r
        BY <1>5, <3>2 DEF BountyIInv, BountyShape, PlansInv
    <3>. QED
        BY <3>1, <3>2
  <2>. QED
      BY <2>1 DEF RefreshPlan, BountyIInv, PlansInv
<1>8. TasksInv' /\ NodeInv' /\ KillsCountOnce' /\ OneRareForEachPremium' /\ KeptStep
    BY DEF RefreshPlan, BountyIInv, TasksInv, NodeInv, KillsCountOnce, OneRareForEachPremium, KeptStep
<1>. QED
    BY <1>6, <1>7, <1>8 DEF BountyIInv

(* A request that ends leaves no plan behind. *)
LEMMA RefresherEnds ==
    ASSUME BountyIInv, NEW r \in Refreshers, refresher' = [refresher EXCEPT ![r] = NotRefreshing]
    PROVE  /\ refresher' \in [Refreshers -> RefresherRow]
           /\ \A q \in Refreshers :
                RareIn(refresher'[q].plans) = IF refresher'[q].mode = "premium" THEN 1 ELSE 0
<1>1. NotRefreshing \in RefresherRow
    BY NoPlansFacts DEF NotRefreshing, RefresherRow
<1>2. ASSUME NEW q \in Refreshers
      PROVE  RareIn(refresher'[q].plans) = IF refresher'[q].mode = "premium" THEN 1 ELSE 0
  <2>1. CASE q = r
    <3>1. refresher'[q] = NotRefreshing
        BY <2>1 DEF BountyIInv, BountyShape
    <3>. QED
        BY <3>1, NoPlansFacts DEF NotRefreshing
  <2>2. CASE q # r
      BY <2>2 DEF BountyIInv, BountyShape, PlansInv
  <2>. QED
      BY <2>1, <2>2
<1>. QED
    BY <1>1, <1>2 DEF BountyIInv, BountyShape

LEMMA RefreshBountyStep ==
    ASSUME BountyIInv, NEW r \in Refreshers, RefreshBounty(r)
    PROVE  BountyIInv' /\ KeptStep
<1>1. refresher[r] \in RefresherRow /\ refresher[r].plans \in PlansOver(BountySlots)
    BY DEF BountyIInv, BountyShape, RefresherRow
<1>2. /\ task' \in [BountySlots -> TaskRow \cup {NoTask}] /\ tasksMade' \in Nat
      /\ rareMade' = rareMade + RareIn(refresher[r].plans)
      /\ TasksInv' /\ KillsCountOnce' /\ KeptStep
    BY <1>1, ReplaceStep DEF RefreshBounty
<1>3. RareIn(refresher[r].plans) = 0
    BY DEF RefreshBounty, BountyIInv, PlansInv
<1>4. rareMade' = rareMade
    BY <1>2, <1>3 DEF BountyIInv, BountyShape
<1>5. bountyGold' \in Nat
    BY DEF RefreshBounty, BountyIInv, BountyShape
<1>6. BountyShape'
    BY <1>2, <1>4, <1>5, RefresherEnds DEF RefreshBounty, BountyIInv, BountyShape
<1>7. PlansInv' /\ NodeInv' /\ OneRareForEachPremium'
    BY <1>4, RefresherEnds DEF RefreshBounty, BountyIInv, PlansInv, NodeInv, OneRareForEachPremium
<1>. QED
    BY <1>2, <1>6, <1>7 DEF BountyIInv

LEMMA CreatePaymentStep ==
    ASSUME BountyIInv, NEW row \in BountyOrderRow, Order(row), row.status = "OPEN",
           row.slot = 0 => RareIn(row.plans) = 1,
           refresher' \in [Refreshers -> RefresherRow],
           \A q \in Refreshers :
             RareIn(refresher'[q].plans) = IF refresher'[q].mode = "premium" THEN 1 ELSE 0,
           UNCHANGED <<task, tasksMade, bountySlots, bountyGold, badges, freeReady, nodeReady,
                       settled, submissions, rareMade, refused, claims>>
    PROVE  BountyIInv' /\ KeptStep
<1>1. /\ bountyOrders' \in Seq(BountyOrderRow) /\ Premiums' = Premiums
      /\ \A o \in DOMAIN bountyOrders' :
           bountyOrders'[o].slot = 0 => RareIn(bountyOrders'[o].plans) = 1
    BY OrderFacts DEF BountyIInv
<1>2. BountyShape' /\ PlansInv'
    BY <1>1 DEF BountyIInv, BountyShape, PlansInv
<1>3. OneRareForEachPremium'
  <2>1. rareMade' = Cardinality(Premiums')
      BY <1>1, RareCount DEF BountyIInv
  <2>. QED
      BY <2>1 DEF OneRareForEachPremium, Premiums
<1>4. TasksInv' /\ NodeInv' /\ KillsCountOnce' /\ KeptStep
    BY DEF BountyIInv, TasksInv, NodeInv, KillsCountOnce, KeptStep
<1>. QED
    BY <1>2, <1>3, <1>4 DEF BountyIInv

LEMMA CreateSlotPaymentStep ==
    ASSUME BountyIInv, NEW s \in BountySlots, CreateBountySlotPayment(s)
    PROVE  BountyIInv' /\ KeptStep
<1>. DEFINE row == [slot |-> s, plans |-> << >>, status |-> "OPEN"]
<1>1. row \in BountyOrderRow /\ row.status = "OPEN" /\ row.slot # 0
    BY NoPlansFacts, BountyAssumption DEF BountyOrderRow, CreateBountySlotPayment
<1>2. Order(row)
    BY DEF CreateBountySlotPayment
<1>. HIDE DEF row
<1>3. /\ refresher' \in [Refreshers -> RefresherRow]
      /\ \A q \in Refreshers :
           RareIn(refresher'[q].plans) = IF refresher'[q].mode = "premium" THEN 1 ELSE 0
    BY DEF CreateBountySlotPayment, BountyIInv, BountyShape, PlansInv
<1>. QED
    BY <1>1, <1>2, <1>3, CreatePaymentStep DEF CreateBountySlotPayment

LEMMA CreatePremiumPaymentStep ==
    ASSUME BountyIInv, NEW r \in Refreshers, CreatePremiumPayment(r)
    PROVE  BountyIInv' /\ KeptStep
<1>. DEFINE row == [slot |-> 0, plans |-> refresher[r].plans, status |-> "OPEN"]
<1>1. refresher[r].plans \in PlansOver(BountySlots) /\ RareIn(refresher[r].plans) = 1
    BY DEF CreatePremiumPayment, BountyIInv, BountyShape, RefresherRow, PlansInv
<1>2. row \in BountyOrderRow /\ row.status = "OPEN" /\ RareIn(row.plans) = 1
    BY <1>1 DEF BountyOrderRow
<1>3. Order(row)
    BY DEF CreatePremiumPayment
<1>. HIDE DEF row
<1>. QED
    BY <1>2, <1>3, RefresherEnds, CreatePaymentStep DEF CreatePremiumPayment

LEMMA RefreshFailsStep ==
    ASSUME BountyIInv, NEW r \in Refreshers, RefreshFails(r)
    PROVE  BountyIInv' /\ KeptStep
<1>1. BountyShape' /\ PlansInv'
    BY RefresherEnds DEF RefreshFails, BountyIInv, BountyShape, PlansInv
<1>2. TasksInv' /\ NodeInv' /\ KillsCountOnce' /\ OneRareForEachPremium' /\ KeptStep
    BY DEF RefreshFails, BountyIInv, TasksInv, NodeInv, KillsCountOnce, OneRareForEachPremium, KeptStep
<1>. QED
    BY <1>1, <1>2 DEF BountyIInv

(* What fulfilling an order does to the orders. *)
LEMMA FulfilledRows ==
    ASSUME BountyIInv, NEW o \in DOMAIN bountyOrders, bountyOrders[o].status = "OPEN",
           bountyOrders' = [bountyOrders EXCEPT ![o].status = "FULFILLED"]
    PROVE  /\ bountyOrders' \in Seq(BountyOrderRow)
           /\ \A p \in DOMAIN bountyOrders' :
                bountyOrders'[p].slot = 0 => RareIn(bountyOrders'[p].plans) = 1
           /\ Premiums' = IF bountyOrders[o].slot = 0 THEN Premiums \cup {o} ELSE Premiums
           /\ o \notin Premiums
<1>. DEFINE row == [bountyOrders[o] EXCEPT !.status = "FULFILLED"]
<1>1. bountyOrders[o] \in BountyOrderRow
    BY DEF BountyIInv, BountyShape
<1>2. /\ row \in BountyOrderRow /\ row.status = "FULFILLED"
      /\ row.slot = bountyOrders[o].slot /\ row.plans = bountyOrders[o].plans
    BY <1>1 DEF BountyOrderRow
<1>3. bountyOrders' = [bountyOrders EXCEPT ![o] = row]
    OBVIOUS
<1>. HIDE DEF row
<1>4. /\ bountyOrders' \in Seq(BountyOrderRow) /\ DOMAIN bountyOrders' = DOMAIN bountyOrders
      /\ bountyOrders'[o] = row
      /\ \A p \in DOMAIN bountyOrders : p # o => bountyOrders'[p] = bountyOrders[p]
    BY <1>2, <1>3 DEF BountyIInv, BountyShape
<1>5. o \notin Premiums
    BY DEF Premiums
<1>6. \A p \in DOMAIN bountyOrders' :
        bountyOrders'[p].slot = 0 => RareIn(bountyOrders'[p].plans) = 1
    BY <1>2, <1>4 DEF BountyIInv, PlansInv
<1>7. Premiums' = IF bountyOrders[o].slot = 0 THEN Premiums \cup {o} ELSE Premiums
  <2>1. CASE bountyOrders[o].slot = 0
      BY <1>2, <1>4, <2>1 DEF Premiums
  <2>2. CASE bountyOrders[o].slot # 0
      BY <1>2, <1>4, <2>2 DEF Premiums
  <2>. QED
      BY <2>1, <2>2
<1>. QED
    BY <1>4, <1>5, <1>6, <1>7

LEMMA FulfilStep ==
    ASSUME BountyIInv, NEW o \in DOMAIN bountyOrders, FulfilBounty(o)
    PROVE  BountyIInv' /\ KeptStep
<1>1. bountyOrders[o] \in BountyOrderRow
    BY DEF BountyIInv, BountyShape
<1>2. /\ bountyOrders' \in Seq(BountyOrderRow)
      /\ \A p \in DOMAIN bountyOrders' :
           bountyOrders'[p].slot = 0 => RareIn(bountyOrders'[p].plans) = 1
      /\ Premiums' = IF bountyOrders[o].slot = 0 THEN Premiums \cup {o} ELSE Premiums
      /\ o \notin Premiums
    BY FulfilledRows DEF FulfilBounty
<1>3. CASE bountyOrders[o].slot > 0 /\ bountySlots' = bountySlots \cup {bountyOrders[o].slot}
           /\ UNCHANGED <<task, tasksMade, rareMade>>
  <2>1. bountyOrders[o].slot \in BountySlots /\ bountyOrders[o].slot # 0
      BY <1>1, <1>3, BountyAssumption DEF BountyOrderRow
  <2>2. BountyShape'
      BY <1>2, <1>3, <2>1 DEF FulfilBounty, BountyIInv, BountyShape
  <2>3. PlansInv' /\ TasksInv' /\ NodeInv' /\ KillsCountOnce' /\ KeptStep
      BY <1>2, <1>3 DEF FulfilBounty, BountyIInv, PlansInv, TasksInv, NodeInv, KillsCountOnce, KeptStep
  <2>4. rareMade' = Cardinality(Premiums')
      BY <1>2, <1>3, <2>1, RareCount DEF BountyIInv
  <2>. QED
      BY <2>2, <2>3, <2>4 DEF BountyIInv, OneRareForEachPremium, Premiums
<1>4. CASE bountyOrders[o].slot = 0 /\ ReplaceBountyTasks(bountyOrders[o].plans)
           /\ UNCHANGED bountySlots
  <2>1. bountyOrders[o].plans \in PlansOver(BountySlots) /\ RareIn(bountyOrders[o].plans) = 1
      BY <1>1, <1>4 DEF BountyOrderRow, BountyIInv, PlansInv
  <2>2. /\ task' \in [BountySlots -> TaskRow \cup {NoTask}] /\ tasksMade' \in Nat
        /\ rareMade' = rareMade + 1
        /\ TasksInv' /\ KillsCountOnce' /\ KeptStep
      BY <1>4, <2>1, ReplaceStep DEF FulfilBounty
  <2>3. BountyShape'
      BY <1>2, <1>4, <2>2 DEF FulfilBounty, BountyIInv, BountyShape
  <2>4. PlansInv' /\ NodeInv'
      BY <1>2 DEF FulfilBounty, BountyIInv, PlansInv, NodeInv
  <2>5. rareMade' = Cardinality(Premiums')
    <3>1. Cardinality(Premiums') = Cardinality(Premiums) + 1
        BY <1>2, <1>4, PremiumsFinite, FS_AddElement DEF BountyIInv
    <3>. QED
        BY <2>2, <3>1, RareCount DEF BountyIInv
  <2>. QED
      BY <2>2, <2>3, <2>4, <2>5 DEF BountyIInv, OneRareForEachPremium, Premiums
<1>. QED
    BY <1>3, <1>4 DEF FulfilBounty

LEMMA SubmitEquipmentStep ==
    ASSUME BountyIInv, NEW s \in BountySlots, SubmitBountyEquipment(s)
    PROVE  BountyIInv' /\ KeptStep
<1>. DEFINE row == [task[s] EXCEPT !.progress = task[s].required, !.status = "COMPLETED"]
<1>1. task[s] # NoTask
    BY DEF SubmitBountyEquipment, NoTask
<1>2. task[s] \in TaskRow /\ s \in bountySlots
    BY <1>1 DEF BountyIInv, BountyShape, TasksInv
<1>3. /\ row \in TaskRow /\ row.type = RareType /\ row.status = "COMPLETED"
      /\ row.progress = row.required /\ row.required \in Nat
    BY <1>2 DEF TaskRow, SubmitBountyEquipment
<1>4. task' = [task EXCEPT ![s] = row]
    BY DEF SubmitBountyEquipment
<1>. HIDE DEF row
<1>5. /\ task' \in [BountySlots -> TaskRow \cup {NoTask}] /\ task'[s] = row
      /\ \A t \in BountySlots : t # s => task'[t] = task[t]
    BY <1>3, <1>4 DEF BountyIInv, BountyShape
<1>6. BountyShape'
    BY <1>5 DEF SubmitBountyEquipment, BountyIInv, BountyShape
<1>7. TasksInv'
  <2>1. ASSUME NEW t \in BountySlots, task'[t] # NoTask
        PROVE  /\ t \in bountySlots' /\ task'[t].progress <= task'[t].required
               /\ task'[t].status = "COMPLETED" <=> task'[t].progress = task'[t].required
    <3>1. bountySlots' = bountySlots
        BY DEF SubmitBountyEquipment
    <3>2. CASE t = s
        BY <1>2, <1>3, <1>5, <3>1, <3>2
    <3>3. CASE t # s
        BY <1>5, <2>1, <3>1, <3>3 DEF BountyIInv, TasksInv
    <3>. QED
        BY <3>2, <3>3
  <2>. QED
      BY <2>1 DEF TasksInv
<1>10. KillsCountOnce'
  <2>1. submissions' = submissions /\ task'[s].type # "combat"
      BY <1>3, <1>5 DEF SubmitBountyEquipment, RareType
  <2>. QED
      BY <1>5, <2>1 DEF BountyIInv, KillsCountOnce
<1>8. PlansInv' /\ NodeInv' /\ OneRareForEachPremium'
    BY DEF SubmitBountyEquipment, BountyIInv, PlansInv, NodeInv, OneRareForEachPremium
<1>9. KeptStep
    BY <1>5 DEF SubmitBountyEquipment, KeptStep
<1>. QED
    BY <1>6, <1>7, <1>8, <1>9, <1>10 DEF BountyIInv

(* The kills of a run are added to the sum of the runs submitted when they *)
(* are added to the tasks.                                                 *)
LEMMA CombatStep ==
    ASSUME BountyIInv, NEW x \in DOMAIN FinishedRuns, ProgressBountyCombat(x)
    PROVE  BountyIInv' /\ KeptStep
<1>1. FinishedRuns[x] \in Nat
    BY BountyAssumption
<1>2. /\ task' \in [BountySlots -> TaskRow \cup {NoTask}]
      /\ TasksInv'
      /\ \A s \in BountySlots :
           /\ task'[s].type = task[s].type
           /\ task[s] # NoTask => task'[s].progress <= task[s].progress + FinishedRuns[x]
           /\ task'[s] # task[s] => task[s].status = "ACTIVE" /\ task[s].type = "combat"
    BY <1>1, AdvanceFacts DEF ProgressBountyCombat, BountyIInv
<1>3. BountyShape'
    BY <1>2 DEF ProgressBountyCombat, BountyIInv, BountyShape
<1>4. PlansInv' /\ NodeInv' /\ OneRareForEachPremium'
    BY DEF ProgressBountyCombat, BountyIInv, PlansInv, NodeInv, OneRareForEachPremium
<1>5. KillsCountOnce'
  <2>1. submissions' = submissions \cup {x} /\ x \notin submissions /\ submissions \in SUBSET DOMAIN FinishedRuns
      BY DEF ProgressBountyCombat, BountyIInv, BountyShape
  <2>2. IntOn(FinishedRuns, submissions')
      BY <2>1, BountyAssumption, FS_Subset DEF IntOn
  <2>3. submissions' \ {x} = submissions
      BY <2>1
  <2>4. SumFunctionOnSet(FinishedRuns, submissions')
          = FinishedRuns[x] + SumFunctionOnSet(FinishedRuns, submissions)
      BY <2>1, <2>2, <2>3, SumRemove
  <2>5. SumFunctionOnSet(FinishedRuns, submissions) \in Nat
      BY <2>1, SumNat, BountyAssumption, FS_Subset
  <2>6. ASSUME NEW s \in BountySlots, task'[s].type = "combat"
        PROVE  task'[s].progress <= SumFunctionOnSet(FinishedRuns, submissions')
    <3>1. task[s].type = "combat" /\ task[s] # NoTask
        BY <1>2, <2>6 DEF NoTask
    <3>2. task[s].progress <= SumFunctionOnSet(FinishedRuns, submissions)
        BY <3>1 DEF BountyIInv, KillsCountOnce
    <3>3. task'[s] # NoTask
        BY <2>6 DEF NoTask
    <3>4. task[s].progress \in Nat /\ task'[s].progress \in Nat
        BY <1>2, <3>1, <3>3 DEF BountyIInv, BountyShape, TaskRow
    <3>. QED
        BY <1>1, <1>2, <2>4, <2>5, <3>1, <3>2, <3>4
  <2>. QED
      BY <2>6 DEF KillsCountOnce
<1>6. KeptStep
    BY <1>2 DEF KeptStep
<1>. QED
    BY <1>2, <1>3, <1>4, <1>5, <1>6 DEF BountyIInv

LEMMA GatheringStep ==
    ASSUME BountyIInv, GatheringSettle
    PROVE  BountyIInv' /\ KeptStep
<1>1. /\ task' \in [BountySlots -> TaskRow \cup {NoTask}]
      /\ TasksInv'
      /\ \A s \in BountySlots :
           /\ task'[s].type = task[s].type
           /\ task'[s] # task[s] => task[s].status = "ACTIVE" /\ task[s].type = "gather"
    BY AdvanceFacts DEF GatheringSettle, BountyIInv
<1>2. BountyShape' /\ KillsCountOnce' /\ KeptStep
    BY <1>1 DEF GatheringSettle, BountyIInv, BountyShape, KillsCountOnce, KeptStep
<1>3. PlansInv' /\ OneRareForEachPremium'
    BY DEF GatheringSettle, BountyIInv, PlansInv, OneRareForEachPremium
<1>4. NodeInv'
  <2>1. settled = 0
      BY Zenon DEF GatheringSettle, BountyIInv, NodeInv
  <2>2. settled' = 1
      BY <2>1 DEF GatheringSettle
  <2>. QED
      BY <2>2, Zenon DEF GatheringSettle, NodeInv
<1>. QED
    BY <1>1, <1>2, <1>3, <1>4 DEF BountyIInv

(* No row is both ACTIVE and COMPLETED: a claim changes no table. *)
LEMMA ClaimStep ==
    ASSUME BountyIInv, NEW s \in BountySlots, ClaimBounty(s)
    PROVE  BountyIInv' /\ KeptStep
<1>1. ~(LockBountyTask(s) /\ task[s].status = "COMPLETED")
    BY DEF LockBountyTask
<1>2. UNCHANGED <<task, tasksMade, bountySlots, bountyGold, nodeReady, settled, submissions,
                  bountyOrders, refresher, rareMade>>
    BY <1>1 DEF ClaimBounty
<1>. QED
    BY <1>2 DEF BountyIInv, BountyShape, TasksInv, PlansInv, NodeInv, KillsCountOnce,
                OneRareForEachPremium, KeptStep

LEMMA QuietStep ==
    ASSUME BountyIInv, bountyGold' \in Nat, NodeInv',
           UNCHANGED <<task, tasksMade, bountySlots, submissions, bountyOrders, refresher, rareMade>>
    PROVE  BountyIInv' /\ KeptStep
BY DEF BountyIInv, BountyShape, TasksInv, PlansInv, KillsCountOnce, OneRareForEachPremium, KeptStep

LEMMA BountyNextIInv == BountyIInv /\ [BountyNext]_bvars => BountyIInv' /\ (KeptStep \/ UNCHANGED bvars)
<1>. SUFFICES ASSUME BountyIInv, [BountyNext]_bvars PROVE BountyIInv' /\ (KeptStep \/ UNCHANGED bvars)
    OBVIOUS
<1>1. CASE BountyBoard
    BY <1>1, EnsureStep DEF BountyBoard, BountyIInv, BountyShape
<1>2. CASE UnlockBountyGoldSlot
  <2>1. bountyGold' \in Nat /\ bountySlots \cup {2} \in SUBSET BountySlots
      BY <1>2 DEF UnlockBountyGoldSlot, BountyIInv, BountyShape
  <2>. QED
      BY <1>2, <2>1, EnsureStep DEF UnlockBountyGoldSlot
<1>3. CASE GatheringSettle
    BY <1>3, GatheringStep
<1>4. CASE CooldownsEnd
  <2>1. NodeInv' /\ bountyGold' \in Nat
      BY <1>4 DEF CooldownsEnd, NodeInv, BountyIInv, BountyShape
  <2>. QED
      BY <1>4, <2>1, QuietStep DEF CooldownsEnd
<1>5. ASSUME NEW s \in BountySlots,
             CreateBountySlotPayment(s) \/ SubmitBountyEquipment(s) \/ ClaimBounty(s)
      PROVE  BountyIInv' /\ KeptStep
    BY <1>5, CreateSlotPaymentStep, SubmitEquipmentStep, ClaimStep
<1>6. ASSUME NEW r \in Refreshers,
             \/ RefreshBounty(r) \/ CreatePremiumPayment(r) \/ RefreshFails(r)
             \/ \E mode \in {"free", "gold", "premium"} : RefreshPlan(r, mode)
      PROVE  BountyIInv' /\ KeptStep
    BY <1>6, RefreshBountyStep, CreatePremiumPaymentStep, RefreshFailsStep, RefreshPlanStep
<1>7. ASSUME NEW o \in DOMAIN bountyOrders, FulfilBounty(o) PROVE BountyIInv' /\ KeptStep
    BY <1>7, FulfilStep
<1>8. ASSUME NEW x \in DOMAIN FinishedRuns, ProgressBountyCombat(x) PROVE BountyIInv' /\ KeptStep
    BY <1>8, CombatStep
<1>9. ASSUME NEW reward \in {"gold", "item", "locked_aeb"}, DrawBountyBadge(reward)
      PROVE  BountyIInv' /\ KeptStep
  <2>1. bountyGold' \in Nat /\ NodeInv'
      BY <1>9 DEF DrawBountyBadge, BountyIInv, BountyShape, NodeInv
  <2>. QED
      BY <1>9, <2>1, QuietStep DEF DrawBountyBadge
<1>10. CASE UNCHANGED bvars
  <2>1. UNCHANGED <<task, tasksMade, bountySlots, bountyGold, nodeReady, settled, submissions,
                    bountyOrders, refresher, rareMade>>
      BY <1>10 DEF bvars
  <2>2. bountyGold' \in Nat /\ NodeInv'
      BY <2>1 DEF BountyIInv, BountyShape, NodeInv
  <2>. QED
      BY <2>1, <2>2, QuietStep
<1>. QED
    BY <1>1, <1>2, <1>3, <1>4, <1>5, <1>6, <1>7, <1>8, <1>9, <1>10 DEF BountyNext

LEMMA BountyIInvKept ==
    BountyIInv => BountyTypeOK /\ KillsCountOnce /\ NodeSettledOnce /\ OneRareForEachPremium
BY DEF BountyIInv, BountyShape, TasksInv, NodeInv, BountyTypeOK, NodeSettledOnce

(* BountyKept, for any slots, plans, orders, runs and requests in flight:  *)
(* kills and gathering settlements count once, a paid premium refresh      *)
(* makes exactly one rare task, and no refresh, paid for or not, replaces  *)
(* a task that was completed while it was under way.                       *)
THEOREM BountyAlwaysKept == BountySpec => BountyKept
<1>1. BountyIInv /\ [BountyNext]_bvars
        => [\A s \in BountySlots : task[s].status = "COMPLETED" =>
              task'[s] = task[s] \/ claims' = claims + 1]_bvars
    BY BountyNextIInv DEF KeptStep
<1>. QED
    BY <1>1, BountyInitIInv, BountyNextIInv, BountyIInvKept, PTL DEF BountySpec, BountyKept, CompletedKept

-----------------------------------------------------------------------------
(* The shop: the rows.  An offer copies an entry of the pool. *)
OfferRow == [entry : DOMAIN Pool, item : {Pool[i].item : i \in DOMAIN Pool},
             price : {Pool[i].price : i \in DOMAIN Pool}, token : {Pool[i].token : i \in DOMAIN Pool},
             purchased : BOOLEAN]
Offers == UNION {[T -> OfferRow] : T \in SUBSET MysterySlots}
Things == {Pool[i].item : i \in DOMAIN Pool} \cup Goods \cup {0}
Requests == {"none", "refill", "refresh", "offer", "regular", "sell"}
ShopOrderRow == [op : Requests, slot : MysterySlots \cup {0}, item : Things, day : {0, 1, 2},
                 status : {"OPEN", "FULFILLED"}]
BoardRow == [roll : 0 .. MaxRolls, level : Levels \cup {0}, offers : Offers]

(* What rolling promises of the offers for a level.                        *)
RolledFor(offers, n) ==
    \A s \in DOMAIN offers :
      /\ s <= n
      /\ (\E i \in DOMAIN Pool : Eligible(i, n) /\ Pool[i].weight > 0) => Eligible(offers[s].entry, n)

ShopShape ==
    /\ level \in Levels /\ boards \in 0 .. MaxRolls
    /\ board \in BoardRow /\ board.roll = boards
    /\ paidToday \in Nat /\ revenue \in Nat
    /\ businessDay \in {1, 2} /\ dailyPurchases \in [{1, 2} -> 0 .. DailyLimit]
    /\ bagItem \in Goods \cup {0} /\ bagMoves \in Nat
    /\ sold \in [(1 .. MaxRolls) \X MysterySlots -> Nat]
    /\ DOMAIN quote = Shoppers
    /\ shopOrders \in Seq(ShopOrderRow)
    /\ \A o \in DOMAIN shopOrders : shopOrders[o].op = "regular" => shopOrders[o].day \in {1, 2}

(* A board is delivered from only while it is up.                          *)
SoldInv ==
    /\ \A b \in 1 .. MaxRolls, s \in MysterySlots : b > boards => sold[<<b, s>>] = 0
    /\ boards = 0 => board.offers = << >>

(* A quote holds what its request read and has not gone wrong since: fresh *)
(* offers for the level read, a cost of the ladder, the price of the item  *)
(* in the slot as long as the slot has not moved.                          *)
QuoteRight(q, sofar, moves, item) ==
    /\ q.op \in Requests /\ q.slot \in MysterySlots \cup {0}
    /\ q.item \in Things /\ q.day \in {0, 1, 2}
    /\ q.op \in {"refill", "refresh"} =>
         /\ q.offers \in Offers /\ q.level \in Levels /\ RolledFor(q.offers, q.level)
         /\ \A s \in DOMAIN q.offers : q.offers[s].purchased = FALSE
    /\ q.op = "refresh" =>
         /\ q.price \in Nat
         /\ q.price >= NextMysteryRefreshTokenCost(0)
         /\ q.price <= RefreshCost.base + sofar * RefreshCost.step
    /\ q.op = "regular" => q.day \in {1, 2}
    /\ q.op = "sell" =>
         /\ q.seen \in Nat /\ q.seen <= moves
         /\ q.seen = moves => q.price = SellPrice[item]

QuoteInv == \A r \in Shoppers : QuoteRight(quote[r], paidToday, bagMoves, bagItem)

ShopIInv == /\ ShopShape /\ SoldInv /\ QuoteInv
            /\ OfferSoldOnce /\ OffersEligible /\ RefreshRevenue /\ SoldAtItsPrice

-----------------------------------------------------------------------------
(* The ladder of costs grows by the cost of one more refresh.              *)
Ladder(p) ==
    SumFunctionOnSet([n \in 0 .. p - 1 |-> RefreshCost.base + n * RefreshCost.step], 0 .. p - 1)

LEMMA CostTypes ==
    ASSUME NEW n \in Nat
    PROVE  RefreshCost.base + n * RefreshCost.step \in Nat
<1>. DEFINE step == RefreshCost.step
            base == RefreshCost.base
<1>1. step \in Nat /\ base \in Nat
    BY ShopAssumption
<1>. HIDE DEF step, base
<1>2. n * step \in Nat
    BY <1>1
<1>3. base + n * step \in Nat
    BY <1>1, <1>2
<1>. QED
    BY <1>3 DEF step, base

LEMMA LadderGrows ==
    ASSUME NEW p \in Nat
    PROVE  /\ Ladder(p) \in Nat
           /\ Ladder(p + 1) = Ladder(p) + (RefreshCost.base + p * RefreshCost.step)
<1>. DEFINE cost(n) == RefreshCost.base + n * RefreshCost.step
            f == [n \in 0 .. p - 1 |-> cost(n)]
            g == [n \in 0 .. p |-> cost(n)]
<1>1. \A n \in 0 .. p : cost(n) \in Nat
    BY CostTypes
<1>. HIDE DEF cost
<1>2. IsFiniteSet(0 .. p - 1) /\ IsFiniteSet(0 .. p)
    BY FS_Interval
<1>3. IntOn(f, 0 .. p - 1) /\ IntOn(g, 0 .. p)
    BY <1>1, <1>2 DEF IntOn
<1>4. SumFunctionOnSet(g, 0 .. p) = g[p] + SumFunctionOnSet(g, (0 .. p) \ {p})
    BY <1>3, SumRemove
<1>5. (0 .. p) \ {p} = 0 .. p - 1
    OBVIOUS
<1>6. SumFunctionOnSet(f, 0 .. p - 1) = SumFunctionOnSet(g, 0 .. p - 1)
    BY <1>3, SumSame
<1>7. SumFunctionOnSet(f, 0 .. p - 1) \in Nat
    BY <1>1, <1>2, SumNat
<1>8. (p + 1) - 1 = p
    OBVIOUS
<1>9. Ladder(p) = SumFunctionOnSet(f, 0 .. p - 1)
    BY DEF Ladder, cost
<1>10. Ladder(p + 1) = SumFunctionOnSet(g, 0 .. p)
    BY <1>8 DEF Ladder, cost
<1>11. g[p] = cost(p) /\ cost(p) \in Nat
    BY <1>1
<1>12. Ladder(p + 1) = Ladder(p) + cost(p)
  <2>1. Ladder(p + 1) = cost(p) + Ladder(p)
      BY <1>4, <1>5, <1>6, <1>9, <1>10, <1>11, Zenon
  <2>2. Ladder(p) \in Nat /\ cost(p) \in Nat
      BY <1>7, <1>9, <1>11, Zenon
  <2>. QED
      BY <2>1, <2>2
<1>. QED
    BY <1>7, <1>9, <1>12 DEF cost

(* A cost quoted now is between the base cost and the next rung.           *)
LEMMA NextCost ==
    ASSUME NEW p \in Nat
    PROVE  /\ NextMysteryRefreshTokenCost(p) \in Nat
           /\ NextMysteryRefreshTokenCost(p) >= NextMysteryRefreshTokenCost(0)
           /\ NextMysteryRefreshTokenCost(p) <= RefreshCost.base + p * RefreshCost.step
           /\ RefreshCost.base + (p + 1) * RefreshCost.step >= RefreshCost.base + p * RefreshCost.step
<1>. DEFINE step == RefreshCost.step
            base == RefreshCost.base
            max == RefreshCost.max
<1>1. step \in Nat /\ base \in Nat /\ max \in Nat
    BY ShopAssumption
<1>2. NextMysteryRefreshTokenCost(p) = IF max > 0 /\ base + p * step > max THEN max ELSE base + p * step
    BY DEF NextMysteryRefreshTokenCost
<1>3. NextMysteryRefreshTokenCost(0) = IF max > 0 /\ base + 0 * step > max THEN max ELSE base + 0 * step
    BY DEF NextMysteryRefreshTokenCost
<1>. HIDE DEF step, base, max
<1>4. p * step \in Nat /\ 0 * step = 0 /\ (p + 1) * step = p * step + step
    BY <1>1
<1>5. /\ NextMysteryRefreshTokenCost(p) \in Nat
      /\ NextMysteryRefreshTokenCost(p) >= NextMysteryRefreshTokenCost(0)
      /\ NextMysteryRefreshTokenCost(p) <= base + p * step
      /\ base + (p + 1) * step >= base + p * step
    BY <1>1, <1>2, <1>3, <1>4
<1>. QED
    BY <1>5 DEF step, base

-----------------------------------------------------------------------------
LEMMA Greatest ==
    ASSUME NEW m \in Nat, NEW T \in SUBSET (0 .. m), T # {}
    PROVE  \E n \in T : \A k \in T : k <= n
<1>. DEFINE R == {m - n : n \in T}
<1>0. PICK some \in T : TRUE
    OBVIOUS
<1>1. R \in SUBSET Nat /\ R # {}
  <2>1. \A n \in T : m - n \in Nat
      OBVIOUS
  <2>2. m - some \in R
      BY <1>0
  <2>. QED
      BY <2>1, <2>2
<1>2. PICK d \in R : \A e \in R : d <= e
    BY <1>1, LeastNumber
<1>3. PICK n \in T : d = m - n
    OBVIOUS
<1>4. ASSUME NEW k \in T PROVE k <= n
  <2>1. m - n <= m - k
      BY <1>2, <1>3
  <2>. QED
      BY <2>1
<1>. QED
    BY <1>4

LEMMA EntriesFinite == IsFiniteSet(1 .. Len(Pool))
<1>1. 1 \in Int /\ Len(Pool) \in Int
    BY ShopAssumption
<1>. QED
    BY <1>1, FS_Interval

(* The weighted choice: every roll below the total weight of a set of      *)
(* entries falls on one of them.  The entry is the last whose predecessors *)
(* weigh no more than the roll.                                            *)
LEMMA RollHits ==
    ASSUME NEW open \in SUBSET DOMAIN Pool, NEW roll \in Nat, roll < WeightOf(open)
    PROVE  \E i \in open : /\ WeightOf({j \in open : j < i}) <= roll
                           /\ roll < WeightOf({j \in open : j < i}) + Pool[i].weight
<1>. DEFINE w == [i \in DOMAIN Pool |-> Pool[i].weight]
            sum(S) == SumFunctionOnSet(w, S)
            below(i) == {j \in open : j < i}
            T == {i \in open : sum(below(i)) <= roll}
<1>0. WeightOf(open) = sum(open) /\ \A i : WeightOf({j \in open : j < i}) = sum(below(i))
    BY DEF WeightOf
<1>1. /\ open \in SUBSET (0 .. Len(Pool)) /\ Len(Pool) \in Nat /\ IsFiniteSet(open)
      /\ \A i \in open : w[i] = Pool[i].weight /\ w[i] \in Nat
  <2>1. IsFiniteSet(1 .. Len(Pool))
      BY EntriesFinite
  <2>. QED
      BY <2>1, ShopAssumption, FS_Subset
<1>. HIDE DEF w
<1>2. ASSUME NEW S \in SUBSET open PROVE IntOn(w, S) /\ sum(S) \in Nat
  <2>1. IsFiniteSet(S)
      BY <1>1, FS_Subset
  <2>. QED
      BY <1>1, <2>1, SumNat DEF IntOn
<1>3. ASSUME NEW i \in open
      PROVE  sum(below(i) \cup {i}) = sum(below(i)) + w[i]
  <2>1. below(i) \cup {i} \in SUBSET open /\ (below(i) \cup {i}) \ {i} = below(i)
      BY <1>1
  <2>2. sum(below(i) \cup {i}) = w[i] + sum(below(i))
      BY <1>2, <2>1, SumRemove
  <2>. QED
      BY <1>1, <1>2, <2>2
<1>4. open # {}
    BY <1>0, <1>2, SumEmpty
<1>5. T # {}
  <2>1. PICK i \in open : \A j \in open : i <= j
      BY <1>1, <1>4, LeastNumber
  <2>2. below(i) = {}
      BY <1>1, <2>1
  <2>. QED
      BY <2>2, SumEmpty
<1>6. PICK i \in T : \A k \in T : k <= i
    BY <1>1, <1>5, Greatest
<1>7. SUFFICES ASSUME sum(below(i)) + w[i] <= roll PROVE FALSE
  <2>1. ASSUME ~(sum(below(i)) + w[i] <= roll)
        PROVE  sum(below(i)) <= roll /\ roll < sum(below(i)) + Pool[i].weight
    <3>1. sum(below(i)) \in Nat /\ w[i] \in Nat /\ w[i] = Pool[i].weight
        BY <1>1, <1>2
    <3>. QED
        BY <1>6, <2>1, <3>1
  <2>. QED
      BY <1>0, <2>1
<1>. DEFINE up == {j \in open : j > i}
<1>. up \in SUBSET Nat
    BY <1>1
<1>8. CASE up = {}
  <2>1. below(i) \cup {i} = open
      BY <1>1, <1>8
  <2>. QED
      BY <1>0, <1>2, <1>3, <1>7, <2>1
<1>9. CASE up # {}
  <2>1. PICK k \in up : \A j \in up : k <= j
      BY <1>1, <1>9, LeastNumber
  <2>2. below(k) = below(i) \cup {i}
      BY <1>1, <2>1
  <2>3. k \in T
    <3>1. sum(below(k)) <= roll
        BY <1>3, <1>7, <2>2
    <3>. QED
        BY <2>1, <3>1
  <2>4. k > i /\ k \in Nat /\ i \in Nat
      BY <1>1, <2>1
  <2>. QED
      BY <1>6, <2>3, <2>4
<1>. QED
    BY <1>8, <1>9

(* What a roll puts on a board.                                            *)
LEMMA ChosenEntry ==
    ASSUME NEW n, NEW roll \in Nat
    PROVE  /\ ChooseMysteryPoolEntry(n, roll) \in DOMAIN Pool
           /\ roll < WeightOf({i \in DOMAIN Pool : Eligible(i, n)}) =>
                Eligible(ChooseMysteryPoolEntry(n, roll), n)
<1>. DEFINE open == {i \in DOMAIN Pool : Eligible(i, n)}
            hit == {i \in open : /\ WeightOf({j \in open : j < i}) <= roll
                                 /\ roll < WeightOf({j \in open : j < i}) + Pool[i].weight}
<1>1. ChooseMysteryPoolEntry(n, roll) = IF hit = {} THEN Len(Pool) ELSE CHOOSE i \in hit : TRUE
    BY DEF ChooseMysteryPoolEntry
<1>2. Len(Pool) \in DOMAIN Pool
    BY ShopAssumption
<1>3. open \in SUBSET DOMAIN Pool /\ \A i \in open : Eligible(i, n)
    OBVIOUS
<1>4. roll < WeightOf(open) => hit # {}
    BY <1>3, RollHits
<1>5. hit \in SUBSET open
    OBVIOUS
<1>. HIDE DEF open, hit
<1>6. hit # {} => ChooseMysteryPoolEntry(n, roll) \in hit
    BY <1>1
<1>7. ChooseMysteryPoolEntry(n, roll) \in DOMAIN Pool
    BY <1>1, <1>2, <1>3, <1>5, <1>6
<1>8. roll < WeightOf(open) => Eligible(ChooseMysteryPoolEntry(n, roll), n)
    BY <1>3, <1>4, <1>5, <1>6
<1>. QED
    BY <1>7, <1>8 DEF open

LEMMA OpenWeight ==
    ASSUME NEW n, NEW i \in DOMAIN Pool, Eligible(i, n), Pool[i].weight > 0
    PROVE  WeightOf({j \in DOMAIN Pool : Eligible(j, n)}) > 0
<1>. DEFINE open == {j \in DOMAIN Pool : Eligible(j, n)}
            w == [j \in DOMAIN Pool |-> Pool[j].weight]
<1>1. /\ IsFiniteSet(open) /\ IsFiniteSet(open \ {i})
      /\ \A j \in open : w[j] \in Nat
  <2>1. IsFiniteSet(1 .. Len(Pool))
      BY EntriesFinite
  <2>2. open \in SUBSET (1 .. Len(Pool)) /\ open \ {i} \in SUBSET (1 .. Len(Pool))
      BY ShopAssumption
  <2>. QED
      BY <2>1, <2>2, ShopAssumption, FS_Subset
<1>2. i \in open /\ w[i] > 0 /\ w[i] \in Nat
    BY ShopAssumption
<1>3. WeightOf(open) = SumFunctionOnSet(w, open)
    BY DEF WeightOf
<1>. HIDE DEF open, w
<1>4. IntOn(w, open)
    BY <1>1 DEF IntOn
<1>5. SumFunctionOnSet(w, open) = w[i] + SumFunctionOnSet(w, open \ {i})
    BY <1>2, <1>4, SumRemove
<1>6. SumFunctionOnSet(w, open \ {i}) \in Nat
    BY <1>1, SumNat
<1>7. WeightOf(open) > 0
    BY <1>2, <1>3, <1>5, <1>6
<1>. QED
    BY <1>7 DEF open

LEMMA WeightType ==
    ASSUME NEW n
    PROVE  WeightOf({j \in DOMAIN Pool : Eligible(j, n)}) \in Nat
<1>. DEFINE open == {j \in DOMAIN Pool : Eligible(j, n)}
            w == [j \in DOMAIN Pool |-> Pool[j].weight]
<1>1. IsFiniteSet(open) /\ \A j \in open : w[j] \in Nat
  <2>1. IsFiniteSet(1 .. Len(Pool))
      BY EntriesFinite
  <2>2. open \in SUBSET (1 .. Len(Pool))
      BY ShopAssumption
  <2>. QED
      BY <2>1, <2>2, ShopAssumption, FS_Subset
<1>2. WeightOf(open) = SumFunctionOnSet(w, open)
    BY DEF WeightOf
<1>. HIDE DEF w, open
<1>3. WeightOf(open) \in Nat
    BY <1>1, <1>2, SumNat
<1>. QED
    BY <1>3 DEF open

LEMMA CopiedOffer ==
    ASSUME NEW e \in DOMAIN Pool, NEW flag \in BOOLEAN, NEW row,
           row = [entry |-> e, item |-> Pool[e].item, price |-> Pool[e].price,
                  token |-> Pool[e].token, purchased |-> flag]
    PROVE  row \in OfferRow /\ row.entry = e /\ row.purchased = flag
BY DEF OfferRow

LEMMA RollsFacts ==
    ASSUME NEW n, NEW offers \in Rolls(n)
    PROVE  /\ offers \in Offers /\ RolledFor(offers, n)
           /\ \A s \in DOMAIN offers : offers[s].purchased = FALSE
<1>. DEFINE total == WeightOf({i \in DOMAIN Pool : Eligible(i, n)})
            unlocked == {s \in MysterySlots : s <= n}
            most == IF total <= 0 THEN 0 ELSE total - 1
            entry(roll) == ChooseMysteryPoolEntry(n, roll)
            one(roll) == [entry |-> entry(roll), item |-> Pool[entry(roll)].item,
                          price |-> Pool[entry(roll)].price, token |-> Pool[entry(roll)].token,
                          purchased |-> FALSE]
<1>1. PICK f \in [unlocked -> 0 .. most] : offers = [s \in unlocked |-> one(f[s])]
    BY DEF Rolls
<1>2. total \in Nat
    BY WeightType
<1>3. ASSUME NEW roll \in Nat
      PROVE  entry(roll) \in DOMAIN Pool /\ (roll < total => Eligible(entry(roll), n))
    BY ChosenEntry
<1>4. (\E i \in DOMAIN Pool : Eligible(i, n) /\ Pool[i].weight > 0) => total > 0
    BY OpenWeight
<1>. HIDE DEF total, entry
<1>5. ASSUME NEW s \in unlocked
      PROVE  /\ f[s] \in Nat /\ offers[s] = one(f[s])
             /\ total > 0 => f[s] < total
    BY <1>1, <1>2
<1>6. ASSUME NEW s \in unlocked
      PROVE  /\ offers[s] \in OfferRow /\ offers[s].entry = entry(f[s])
             /\ offers[s].purchased = FALSE
  <2>. DEFINE e == entry(f[s])
  <2>1. e \in DOMAIN Pool
      BY <1>3, <1>5
  <2>2. offers[s] = [entry |-> e, item |-> Pool[e].item, price |-> Pool[e].price,
                     token |-> Pool[e].token, purchased |-> FALSE]
      BY <1>5
  <2>. HIDE DEF e
  <2>. QED
      BY <2>1, <2>2, CopiedOffer, Zenon DEF e
<1>7. unlocked \in SUBSET MysterySlots /\ DOMAIN offers = unlocked
      /\ offers = [s \in unlocked |-> offers[s]] /\ \A s \in unlocked : s <= n
    BY <1>1
<1>. HIDE DEF unlocked, one
<1>8. offers \in Offers
  <2>1. offers \in [unlocked -> OfferRow]
      BY <1>6, <1>7
  <2>. QED
      BY <1>7, <2>1 DEF Offers
<1>9. RolledFor(offers, n)
  <2>1. ASSUME NEW s \in unlocked, \E i \in DOMAIN Pool : Eligible(i, n) /\ Pool[i].weight > 0
        PROVE  Eligible(offers[s].entry, n)
      BY <1>3, <1>4, <1>5, <1>6, <2>1
  <2>. QED
      BY <1>7, <2>1 DEF RolledFor
<1>. QED
    BY <1>6, <1>7, <1>8, <1>9

LEMMA NoOffers == << >> \in Offers /\ RolledFor(<< >>, 0)
<1>1. << >> \in [{} -> OfferRow] /\ DOMAIN << >> = {}
    OBVIOUS
<1>. QED
    BY <1>1 DEF Offers, RolledFor

-----------------------------------------------------------------------------
(* One offer is marked on the board that is up, and delivered.             *)
LEMMA MarkFacts ==
    ASSUME ShopIInv, NEW s, NEW item, MarkPurchased(s, item), boards' = boards
    PROVE  /\ board' \in BoardRow /\ board'.roll = boards
           /\ sold' \in [(1 .. MaxRolls) \X MysterySlots -> Nat]
           /\ SoldInv' /\ OfferSoldOnce' /\ OffersEligible'
<1>. DEFINE offers == board.offers
            row == [offers[s] EXCEPT !.purchased = TRUE]
            marked == [offers EXCEPT ![s] = row]
            key == <<board.roll, s>>
<1>1. board \in BoardRow /\ board.roll = boards /\ offers \in Offers
    BY DEF ShopIInv, ShopShape, BoardRow
<1>2. PICK T \in SUBSET MysterySlots : offers \in [T -> OfferRow]
    BY <1>1 DEF Offers
<1>3. s \in T /\ s \in DOMAIN offers /\ offers[s].purchased = FALSE
  <2>1. s \in DOMAIN offers /\ ~offers[s].purchased
      BY DEF MarkPurchased
  <2>2. s \in T /\ offers[s].purchased \in BOOLEAN
      BY <1>2, <2>1 DEF OfferRow
  <2>. QED
      BY <2>1, <2>2, Zenon
<1>4. row \in OfferRow /\ row.purchased = TRUE /\ row.entry = offers[s].entry
  <2>1. ASSUME NEW flag \in BOOLEAN, NEW new, new = [offers[s] EXCEPT !.purchased = flag]
        PROVE  new \in OfferRow /\ new.purchased = flag /\ new.entry = offers[s].entry
      BY <1>2, <1>3, <2>1 DEF OfferRow
  <2>. QED
      BY <2>1, Zenon
<1>. HIDE DEF row
<1>5. marked \in [T -> OfferRow] /\ marked[s] = row /\ \A t \in T : t # s => marked[t] = offers[t]
    BY <1>2, <1>3, <1>4
<1>6. board' = [board EXCEPT !.offers = marked]
    BY DEF MarkPurchased, row
<1>7. /\ board' \in BoardRow /\ board'.offers = marked
      /\ board'.roll = boards /\ board'.level = board.level
  <2>1. marked \in Offers
      BY <1>5 DEF Offers
  <2>. HIDE DEF marked
  <2>. QED
      BY <1>1, <1>6, <2>1 DEF BoardRow
<1>8. boards \in 1 .. MaxRolls
  <2>1. boards # 0
    <3>1. ASSUME offers = << >> PROVE FALSE
        BY <1>3, <3>1
    <3>. QED
        BY <3>1 DEF ShopIInv, SoldInv
  <2>. QED
      BY <2>1 DEF ShopIInv, ShopShape
<1>9. key \in (1 .. MaxRolls) \X MysterySlots /\ key = <<boards, s>>
    BY <1>1, <1>2, <1>3, <1>8
<1>10. sold[key] = 0
  <2>1. sold[key] \in Nat /\ sold[key] <= 1
      BY <1>1, <1>2, <1>3, <1>8, <1>9 DEF ShopIInv, ShopShape, OfferSoldOnce
  <2>2. offers[s].purchased = (sold[key] = 1)
      BY <1>3 DEF ShopIInv, OfferSoldOnce
  <2>3. sold[key] # 1
      BY <1>3, <2>2, Zenon
  <2>. QED
      BY <2>1, <2>3
<1>11. /\ sold' \in [(1 .. MaxRolls) \X MysterySlots -> Nat] /\ sold'[key] = 1
       /\ \A k \in (1 .. MaxRolls) \X MysterySlots : k # key => sold'[k] = sold[k]
  <2>1. sold' = [sold EXCEPT ![key] = sold[key] + 1]
      BY DEF MarkPurchased
  <2>. HIDE DEF key
  <2>. QED
      BY <1>9, <1>10, <2>1 DEF ShopIInv, ShopShape
<1>12. SoldInv'
  <2>1. ASSUME NEW b \in 1 .. MaxRolls, NEW t \in MysterySlots, b > boards
        PROVE  sold'[<<b, t>>] = 0
    <3>1. <<b, t>> # key /\ <<b, t>> \in (1 .. MaxRolls) \X MysterySlots
        BY <1>8, <1>9, <2>1
    <3>. QED
        BY <1>11, <2>1, <3>1 DEF ShopIInv, SoldInv
  <2>. QED
      BY <1>8, <2>1 DEF SoldInv
<1>13. OfferSoldOnce'
  <2>1. ASSUME NEW b \in 1 .. MaxRolls, NEW t \in MysterySlots PROVE sold'[<<b, t>>] <= 1
    <3>1. <<b, t>> \in (1 .. MaxRolls) \X MysterySlots
        OBVIOUS
    <3>2. CASE <<b, t>> = key
        BY <1>11, <3>2
    <3>3. CASE <<b, t>> # key
        BY <1>11, <3>1, <3>3 DEF ShopIInv, OfferSoldOnce
    <3>. QED
        BY <3>2, <3>3
  <2>2. ASSUME NEW t \in DOMAIN marked
        PROVE  marked[t].purchased = (sold'[<<boards, t>>] = 1)
    <3>1. t \in T /\ t \in MysterySlots
        BY <1>5
    <3>2. CASE t = s
      <4>1. marked[t].purchased = TRUE /\ sold'[<<boards, t>>] = 1
          BY <1>4, <1>5, <1>9, <1>11, <3>2
      <4>. QED
          BY <4>1, Zenon
    <3>3. CASE t # s
      <4>1. <<boards, t>> # key /\ <<boards, t>> \in (1 .. MaxRolls) \X MysterySlots
          BY <1>8, <1>9, <3>1, <3>3
      <4>2. sold'[<<boards, t>>] = sold[<<boards, t>>] /\ marked[t] = offers[t]
          BY <1>5, <1>11, <3>1, <3>3, <4>1
      <4>3. offers[t].purchased = (sold[<<boards, t>>] = 1)
          BY <1>1, <1>2, <3>1 DEF ShopIInv, OfferSoldOnce
      <4>. QED
          BY <4>2, <4>3, Zenon
    <3>. QED
        BY <3>2, <3>3
  <2>. HIDE DEF marked
  <2>. QED
      BY <1>7, <2>1, <2>2, Zenon DEF OfferSoldOnce
<1>14. OffersEligible'
  <2>1. DOMAIN marked = DOMAIN offers /\ \A t \in DOMAIN offers : marked[t].entry = offers[t].entry
      BY <1>2, <1>4, <1>5
  <2>2. RolledFor(offers, board.level)
      BY DEF ShopIInv, OffersEligible, RolledFor
  <2>3. RolledFor(marked, board.level)
      BY <2>1, <2>2 DEF RolledFor
  <2>. HIDE DEF marked
  <2>. QED
      BY <1>7, <2>3 DEF OffersEligible, RolledFor, Eligible
<1>. QED
    BY <1>7, <1>11, <1>12, <1>13, <1>14

-----------------------------------------------------------------------------
(* Quotes come and go. *)
LEMMA NoQuoteRight ==
    ASSUME NEW sofar, NEW moves, NEW item
    PROVE  QuoteRight(NoQuote, sofar, moves, item)
<1>1. NoQuote.op = "none" /\ NoQuote.slot = 0 /\ NoQuote.item = 0 /\ NoQuote.day = 0
    BY DEF NoQuote
<1>. QED
    BY <1>1 DEF QuoteRight, Requests, Things

(* A quote survives what others commit: costs only rise, and a slot that   *)
(* moves is not the slot that was seen.                                    *)
LEMMA QuoteSurvives ==
    ASSUME NEW q, NEW sofar \in Nat, NEW moves \in Nat, NEW item, NEW sofar2 \in {sofar, sofar + 1},
           NEW moves2, NEW item2, moves2 = moves + 1 \/ (moves2 = moves /\ item2 = item),
           QuoteRight(q, sofar, moves, item)
    PROVE  QuoteRight(q, sofar2, moves2, item2)
<1>1. ASSUME q.op = "refresh"
      PROVE  q.price <= RefreshCost.base + sofar2 * RefreshCost.step
  <2>1. q.price \in Nat /\ q.price <= RefreshCost.base + sofar * RefreshCost.step
      BY <1>1 DEF QuoteRight
  <2>2. RefreshCost.base + (sofar + 1) * RefreshCost.step >= RefreshCost.base + sofar * RefreshCost.step
      BY NextCost
  <2>3. RefreshCost.base + (sofar + 1) * RefreshCost.step \in Nat
        /\ RefreshCost.base + sofar * RefreshCost.step \in Nat
      BY CostTypes
  <2>4. CASE sofar2 = sofar
      BY <2>1, <2>4
  <2>5. CASE sofar2 = sofar + 1
    <3>. DEFINE one == RefreshCost.base + sofar * RefreshCost.step
                two == RefreshCost.base + (sofar + 1) * RefreshCost.step
    <3>1. one \in Nat /\ two \in Nat /\ two >= one /\ q.price <= one /\ q.price \in Nat
        BY <2>1, <2>2, <2>3
    <3>. HIDE DEF one, two
    <3>2. q.price <= two
        BY <3>1
    <3>. QED
        BY <2>5, <3>2 DEF two
  <2>. QED
      BY <2>4, <2>5
<1>2. ASSUME q.op = "sell"
      PROVE  /\ q.seen \in Nat /\ q.seen <= moves2
             /\ q.seen = moves2 => q.price = SellPrice[item2]
    BY <1>2 DEF QuoteRight
<1>. QED
    BY <1>1, <1>2 DEF QuoteRight

LEMMA QuoteStep ==
    ASSUME ShopIInv, NEW r \in Shoppers, NEW q, Quoted(r, q),
           QuoteRight(q, paidToday', bagMoves', bagItem'),
           paidToday' \in {paidToday, paidToday + 1},
           bagMoves' = bagMoves + 1 \/ (bagMoves' = bagMoves /\ bagItem' = bagItem)
    PROVE  QuoteInv' /\ DOMAIN quote' = Shoppers
<1>1. paidToday \in Nat /\ bagMoves \in Nat /\ DOMAIN quote = Shoppers
    BY DEF ShopIInv, ShopShape
<1>2. DOMAIN quote' = Shoppers /\ quote'[r] = q /\ \A p \in Shoppers : p # r => quote'[p] = quote[p]
    BY <1>1 DEF Quoted
<1>3. ASSUME NEW p \in Shoppers PROVE QuoteRight(quote'[p], paidToday', bagMoves', bagItem')
  <2>1. CASE p = r
      BY <1>2, <2>1
  <2>2. CASE p # r
    <3>1. QuoteRight(quote[p], paidToday, bagMoves, bagItem)
        BY DEF ShopIInv, QuoteInv
    <3>. QED
        BY <1>1, <1>2, <2>2, <3>1, QuoteSurvives
  <2>. QED
      BY <2>1, <2>2
<1>. QED
    BY <1>2, <1>3 DEF QuoteInv

(* A step that only gives or takes a quote. *)
LEMMA QuoteOnly ==
    ASSUME ShopIInv, NEW r \in Shoppers, NEW q, Quoted(r, q),
           QuoteRight(q, paidToday, bagMoves, bagItem),
           UNCHANGED <<level, board, boards, paidToday, revenue, businessDay,
                       dailyPurchases, shopOrders, bagItem, bagMoves, sold, sales>>
    PROVE  ShopIInv'
<1>1. QuoteInv' /\ DOMAIN quote' = Shoppers
    BY QuoteStep
<1>2. ShopShape'
    BY <1>1 DEF ShopIInv, ShopShape
<1>3. SoldInv' /\ OfferSoldOnce' /\ OffersEligible' /\ RefreshRevenue' /\ SoldAtItsPrice'
    BY DEF ShopIInv, SoldInv, OfferSoldOnce, OffersEligible, RefreshRevenue, SoldAtItsPrice
<1>. QED
    BY <1>1, <1>2, <1>3 DEF ShopIInv

LEMMA ShopInitIInv == ASSUME ShopInit PROVE ShopIInv
<1>1. board \in BoardRow /\ board.roll = 0 /\ board.offers = << >>
    BY NoOffers, ShopAssumption DEF ShopInit, NoBoard, BoardRow
<1>2. ShopShape
    BY <1>1, ShopAssumption DEF ShopInit, ShopShape
<1>3. SoldInv
    BY <1>1 DEF ShopInit, SoldInv
<1>4. QuoteInv
    BY NoQuoteRight DEF ShopInit, QuoteInv
<1>5. OfferSoldOnce
    BY <1>1 DEF ShopInit, OfferSoldOnce
<1>6. OffersEligible
    BY <1>1 DEF OffersEligible
<1>7. RefreshRevenue
  <2>1. Ladder(0) \in Nat
      BY LadderGrows
  <2>2. NextMysteryRefreshTokenCost(0) \in Nat
      BY NextCost
  <2>3. RefreshRevenue <=> revenue >= paidToday * NextMysteryRefreshTokenCost(0) /\ revenue <= Ladder(paidToday)
      BY DEF RefreshRevenue, Ladder
  <2>. QED
      BY <2>1, <2>2, <2>3 DEF ShopInit
<1>8. SoldAtItsPrice
    BY DEF ShopInit, SoldAtItsPrice
<1>. QED
    BY <1>2, <1>3, <1>4, <1>5, <1>6, <1>7, <1>8 DEF ShopIInv

-----------------------------------------------------------------------------
LEMMA RollQuoteStep ==
    ASSUME ShopIInv, NEW r \in Shoppers, BoardQuote(r) \/ RefreshQuote(r)
    PROVE  ShopIInv'
<1>0. level \in Levels /\ paidToday \in Nat
    BY DEF ShopIInv, ShopShape
<1>1. CASE BoardQuote(r)
  <2>1. PICK offers \in Rolls(level) :
          Quoted(r, [NoQuote EXCEPT !.op = "refill", !.offers = offers, !.level = level])
      BY <1>1 DEF BoardQuote
  <2>. DEFINE q == [NoQuote EXCEPT !.op = "refill", !.offers = offers, !.level = level]
  <2>2. /\ q.op = "refill" /\ q.slot = 0 /\ q.item = 0 /\ q.day = 0
        /\ q.offers = offers /\ q.level = level
      BY DEF NoQuote
  <2>. HIDE DEF q
  <2>3. QuoteRight(q, paidToday, bagMoves, bagItem)
      BY <1>0, <2>2, RollsFacts DEF QuoteRight, Requests, Things
  <2>4. Quoted(r, q)
      BY <2>1 DEF q
  <2>. QED
      BY <1>1, <2>3, <2>4, QuoteOnly DEF BoardQuote
<1>2. CASE RefreshQuote(r)
  <2>1. PICK offers \in Rolls(level) :
          Quoted(r, [NoQuote EXCEPT !.op = "refresh", !.offers = offers, !.level = level,
                                    !.price = NextMysteryRefreshTokenCost(paidToday)])
      BY <1>2 DEF RefreshQuote
  <2>. DEFINE cost == NextMysteryRefreshTokenCost(paidToday)
              q == [NoQuote EXCEPT !.op = "refresh", !.offers = offers, !.level = level,
                                   !.price = cost]
  <2>2. cost \in Nat /\ cost >= NextMysteryRefreshTokenCost(0)
        /\ cost <= RefreshCost.base + paidToday * RefreshCost.step
      BY <1>0, NextCost
  <2>3. Quoted(r, q)
      BY <2>1
  <2>. HIDE DEF cost
  <2>4. /\ q.op = "refresh" /\ q.slot = 0 /\ q.item = 0 /\ q.day = 0
        /\ q.offers = offers /\ q.level = level /\ q.price = cost
      BY DEF NoQuote
  <2>. HIDE DEF q
  <2>5. QuoteRight(q, paidToday, bagMoves, bagItem)
      BY <1>0, <2>2, <2>4, RollsFacts DEF QuoteRight, Requests, Things
  <2>. QED
      BY <1>2, <2>3, <2>5, QuoteOnly DEF RefreshQuote
<1>. QED
    BY <1>1, <1>2

LEMMA OfferQuoteStep ==
    ASSUME ShopIInv, NEW r \in Shoppers, NEW s \in MysterySlots, OfferQuote(r, s)
    PROVE  ShopIInv'
<1>. DEFINE offer == board.offers[s]
            q == [NoQuote EXCEPT !.op = "offer", !.slot = s, !.item = offer.item,
                                 !.price = offer.price, !.token = offer.token]
<1>1. Quoted(r, q)
    BY DEF OfferQuote
<1>2. offer.item \in Things
  <2>1. s \in DOMAIN board.offers /\ board.offers \in Offers
      BY DEF OfferQuote, ShopIInv, ShopShape, BoardRow
  <2>2. offer \in OfferRow
      BY <2>1 DEF Offers
  <2>. QED
      BY <2>2 DEF OfferRow, Things
<1>3. q.op = "offer" /\ q.slot = s /\ q.item = offer.item /\ q.day = 0
    BY DEF NoQuote
<1>. HIDE DEF q, offer
<1>4. QuoteRight(q, paidToday, bagMoves, bagItem)
    BY <1>2, <1>3 DEF QuoteRight, Requests
<1>. QED
    BY <1>1, <1>4, QuoteOnly DEF OfferQuote

LEMMA RegularQuoteStep ==
    ASSUME ShopIInv, NEW r \in Shoppers, NEW token \in BOOLEAN, RegularQuote(r, token)
    PROVE  ShopIInv'
<1>. DEFINE q == [NoQuote EXCEPT !.op = "regular", !.token = token, !.day = businessDay]
<1>1. Quoted(r, q)
    BY DEF RegularQuote
<1>2. q.op = "regular" /\ q.slot = 0 /\ q.item = 0 /\ q.day = businessDay
    BY DEF NoQuote
<1>. HIDE DEF q
<1>3. QuoteRight(q, paidToday, bagMoves, bagItem)
    BY <1>2 DEF QuoteRight, Requests, Things, ShopIInv, ShopShape
<1>. QED
    BY <1>1, <1>3, QuoteOnly DEF RegularQuote

LEMMA SellQuoteStep ==
    ASSUME ShopIInv, NEW r \in Shoppers, SellQuote(r)
    PROVE  ShopIInv'
<1>. DEFINE q == [NoQuote EXCEPT !.op = "sell", !.item = bagItem,
                                 !.price = SellPrice[bagItem], !.seen = bagMoves]
<1>1. Quoted(r, q)
    BY DEF SellQuote
<1>2. /\ q.op = "sell" /\ q.slot = 0 /\ q.item = bagItem /\ q.day = 0
      /\ q.price = SellPrice[bagItem] /\ q.seen = bagMoves
    BY DEF NoQuote
<1>. HIDE DEF q
<1>3. bagItem \in Things /\ bagMoves \in Nat
    BY DEF ShopIInv, ShopShape, Things
<1>4. QuoteRight(q, paidToday, bagMoves, bagItem)
    BY <1>2, <1>3 DEF QuoteRight, Requests
<1>. QED
    BY <1>1, <1>4, QuoteOnly DEF SellQuote

LEMMA DeclinedStep ==
    ASSUME ShopIInv, NEW r \in Shoppers, Declined(r)
    PROVE  ShopIInv'
BY NoQuoteRight, QuoteOnly DEF Declined, Answered

(* A board that comes up has sold nothing. *)
LEMMA NewBoardFacts ==
    ASSUME ShopIInv, NEW r \in Shoppers, Holding(r, "refill") \/ Holding(r, "refresh"), NewBoard(r),
           sold' = sold
    PROVE  /\ boards' \in 0 .. MaxRolls /\ board' \in BoardRow /\ board'.roll = boards'
           /\ SoldInv' /\ OfferSoldOnce' /\ OffersEligible'
<1>. DEFINE offers == quote[r].offers
            n == quote[r].level
<1>1. /\ offers \in Offers /\ n \in Levels /\ RolledFor(offers, n)
      /\ \A s \in DOMAIN offers : offers[s].purchased = FALSE
    BY DEF Holding, ShopIInv, QuoteInv, QuoteRight
<1>2. board' = [roll |-> boards + 1, level |-> n, offers |-> offers]
    BY DEF NewBoard
<1>3. boards' = boards + 1 /\ boards + 1 \in 1 .. MaxRolls /\ boards \in Nat
    BY ShopAssumption DEF NewBoard, ShopIInv, ShopShape
<1>. HIDE DEF offers, n
<1>4. /\ board' \in BoardRow /\ board'.roll = boards + 1 /\ board'.level = n
      /\ board'.offers = offers
    BY <1>1, <1>2, <1>3 DEF BoardRow
<1>5. \A s \in DOMAIN offers : s \in MysterySlots
    BY <1>1 DEF Offers
<1>6. SoldInv'
    BY <1>3 DEF ShopIInv, SoldInv
<1>7. OfferSoldOnce'
  <2>1. ASSUME NEW s \in DOMAIN offers PROVE offers[s].purchased = (sold[<<boards + 1, s>>] = 1)
    <3>1. sold[<<boards + 1, s>>] = 0
        BY <1>3, <1>5 DEF ShopIInv, SoldInv
    <3>2. sold[<<boards + 1, s>>] # 1 /\ offers[s].purchased = FALSE
        BY <1>1, <3>1
    <3>. QED
        BY <3>2, Zenon
  <2>2. \A b \in 1 .. MaxRolls, s \in MysterySlots : sold[<<b, s>>] <= 1
      BY DEF ShopIInv, OfferSoldOnce
  <2>. QED
      BY <1>4, <2>1, <2>2, Zenon DEF OfferSoldOnce
<1>8. OffersEligible'
    BY <1>1, <1>4 DEF OffersEligible, RolledFor, Eligible
<1>. QED
    BY <1>3, <1>4, <1>6, <1>7, <1>8

LEMMA RefillStep ==
    ASSUME ShopIInv, NEW r \in Shoppers, BoardRefill(r)
    PROVE  ShopIInv'
<1>1. /\ boards' \in 0 .. MaxRolls /\ board' \in BoardRow /\ board'.roll = boards'
      /\ SoldInv' /\ OfferSoldOnce' /\ OffersEligible'
    BY NewBoardFacts DEF BoardRefill
<1>2. QuoteInv' /\ DOMAIN quote' = Shoppers
    BY NoQuoteRight, QuoteStep DEF BoardRefill, Answered
<1>3. ShopShape'
    BY <1>1, <1>2 DEF BoardRefill, ShopIInv, ShopShape
<1>4. RefreshRevenue' /\ SoldAtItsPrice'
    BY DEF BoardRefill, ShopIInv, RefreshRevenue, SoldAtItsPrice
<1>. QED
    BY <1>1, <1>2, <1>3, <1>4 DEF ShopIInv

LEMMA RevenueIs ==
    RefreshRevenue <=> /\ revenue >= paidToday * NextMysteryRefreshTokenCost(0)
                       /\ revenue <= Ladder(paidToday)
BY DEF RefreshRevenue, Ladder

(* A refresh pays at least the base cost, and no more than the rung after  *)
(* the refreshes paid by then.                                             *)
LEMMA RefreshStep ==
    ASSUME ShopIInv, NEW r \in Shoppers, RefreshMysteryShop(r)
    PROVE  ShopIInv'
<1>. DEFINE price == quote[r].price
            rung == RefreshCost.base + paidToday * RefreshCost.step
            least == NextMysteryRefreshTokenCost(0)
<1>1. /\ boards' \in 0 .. MaxRolls /\ board' \in BoardRow /\ board'.roll = boards'
      /\ SoldInv' /\ OfferSoldOnce' /\ OffersEligible'
    BY NewBoardFacts DEF RefreshMysteryShop
<1>2. price \in Nat /\ price >= least /\ price <= rung
    BY DEF RefreshMysteryShop, Holding, ShopIInv, QuoteInv, QuoteRight
<1>3. paidToday \in Nat /\ revenue \in Nat
    BY DEF ShopIInv, ShopShape
<1>4. least \in Nat /\ rung \in Nat
    BY <1>3, NextCost, CostTypes
<1>5. Ladder(paidToday) \in Nat /\ Ladder(paidToday + 1) = Ladder(paidToday) + rung
    BY <1>3, LadderGrows
<1>6. revenue >= paidToday * least /\ revenue <= Ladder(paidToday)
    BY RevenueIs DEF ShopIInv
<1>7. /\ paidToday' = IF price > 0 THEN paidToday + 1 ELSE paidToday
      /\ revenue' = revenue + price
    BY DEF RefreshMysteryShop
<1>. HIDE DEF price, rung, least
<1>8. (paidToday + 1) * least = paidToday * least + least /\ paidToday * least \in Nat
    BY <1>3, <1>4
<1>9. /\ paidToday' \in {paidToday, paidToday + 1} /\ paidToday' \in Nat /\ revenue' \in Nat
      /\ revenue' >= paidToday' * least /\ revenue' <= Ladder(paidToday')
  <2>1. CASE price > 0
    <3>1. paidToday' = paidToday + 1
        BY <1>7, <2>1
    <3>2. revenue + price >= paidToday * least + least /\ revenue + price <= Ladder(paidToday) + rung
        BY <1>2, <1>3, <1>4, <1>5, <1>6, <1>8
    <3>. QED
        BY <1>2, <1>3, <1>5, <1>7, <1>8, <3>1, <3>2
  <2>2. CASE price = 0
      BY <1>3, <1>6, <1>7, <2>2
  <2>. QED
      BY <1>2, <2>1, <2>2
<1>10. RefreshRevenue'
    BY <1>9 DEF RefreshRevenue, Ladder, least
<1>11. QuoteInv' /\ DOMAIN quote' = Shoppers
    BY <1>9, NoQuoteRight, QuoteStep DEF RefreshMysteryShop, Answered
<1>12. ShopShape'
    BY <1>1, <1>9, <1>11 DEF RefreshMysteryShop, ShopIInv, ShopShape
<1>13. SoldAtItsPrice'
    BY DEF RefreshMysteryShop, ShopIInv, SoldAtItsPrice
<1>. QED
    BY <1>1, <1>10, <1>11, <1>12, <1>13 DEF ShopIInv

LEMMA DailyFacts ==
    ASSUME ShopIInv, NEW d \in {1, 2}, RecordDailyPurchase(d)
    PROVE  dailyPurchases' \in [{1, 2} -> 0 .. DailyLimit]
<1>1. dailyPurchases \in [{1, 2} -> 0 .. DailyLimit] /\ DailyLimit \in Nat
    BY ShopAssumption DEF ShopIInv, ShopShape
<1>2. dailyPurchases[d] + 1 \in 0 .. DailyLimit
    BY <1>1 DEF RecordDailyPurchase
<1>. QED
    BY <1>1, <1>2 DEF RecordDailyPurchase

(* A purchase that is recorded, by gold or by a paid order. *)
LEMMA PurchaseStep ==
    ASSUME ShopIInv, NEW s, NEW item, NEW d,
           \/ MarkPurchased(s, item) /\ UNCHANGED dailyPurchases
           \/ d \in {1, 2} /\ RecordDailyPurchase(d) /\ UNCHANGED <<board, sold>>,
           QuoteInv', DOMAIN quote' = Shoppers, shopOrders' \in Seq(ShopOrderRow),
           \A o \in DOMAIN shopOrders' : shopOrders'[o].op = "regular" => shopOrders'[o].day \in {1, 2},
           UNCHANGED <<level, boards, paidToday, revenue, businessDay, bagItem, bagMoves, sales>>
    PROVE  ShopIInv'
<1>1. /\ board' \in BoardRow /\ board'.roll = boards
      /\ sold' \in [(1 .. MaxRolls) \X MysterySlots -> Nat]
      /\ SoldInv' /\ OfferSoldOnce' /\ OffersEligible'
  <2>1. CASE MarkPurchased(s, item)
      BY <2>1, MarkFacts
  <2>2. CASE UNCHANGED <<board, sold>>
      BY <2>2 DEF ShopIInv, ShopShape, SoldInv, OfferSoldOnce, OffersEligible
  <2>. QED
      BY <2>1, <2>2
<1>2. dailyPurchases' \in [{1, 2} -> 0 .. DailyLimit]
    BY DailyFacts DEF ShopIInv, ShopShape
<1>3. ShopShape'
    BY <1>1, <1>2 DEF ShopIInv, ShopShape
<1>4. RefreshRevenue' /\ SoldAtItsPrice'
    BY DEF ShopIInv, RefreshRevenue, SoldAtItsPrice
<1>. QED
    BY <1>1, <1>3, <1>4 DEF ShopIInv

LEMMA BuyGoldStep ==
    ASSUME ShopIInv, NEW r \in Shoppers, ShopBuyGold(r)
    PROVE  ShopIInv'
<1>1. QuoteInv' /\ DOMAIN quote' = Shoppers
    BY NoQuoteRight, QuoteStep DEF ShopBuyGold, Answered
<1>2. \/ MarkPurchased(quote[r].slot, quote[r].item) /\ UNCHANGED dailyPurchases
      \/ /\ quote[r].day \in {1, 2} /\ RecordDailyPurchase(quote[r].day)
         /\ UNCHANGED <<board, sold>>
    BY DEF ShopBuyGold, Holding, ShopIInv, QuoteInv, QuoteRight
<1>3. /\ shopOrders' \in Seq(ShopOrderRow)
      /\ \A o \in DOMAIN shopOrders' : shopOrders'[o].op = "regular" => shopOrders'[o].day \in {1, 2}
    BY DEF ShopBuyGold, ShopIInv, ShopShape
<1>. QED
    BY <1>1, <1>2, <1>3, PurchaseStep DEF ShopBuyGold

LEMMA CreateBuyPaymentStep ==
    ASSUME ShopIInv, NEW r \in Shoppers, CreateShopBuyPayment(r)
    PROVE  ShopIInv'
<1>. DEFINE row == [op |-> quote[r].op, slot |-> quote[r].slot, item |-> quote[r].item,
                    day |-> quote[r].day, status |-> "OPEN"]
<1>1. row \in ShopOrderRow /\ (row.op = "regular" => row.day \in {1, 2})
    BY DEF ShopIInv, QuoteInv, QuoteRight, ShopOrderRow
<1>2. shopOrders' = Append(shopOrders, row)
    BY DEF CreateShopBuyPayment
<1>. HIDE DEF row
<1>3. /\ shopOrders' \in Seq(ShopOrderRow)
      /\ \A o \in DOMAIN shopOrders' : shopOrders'[o].op = "regular" => shopOrders'[o].day \in {1, 2}
    BY <1>1, <1>2 DEF ShopIInv, ShopShape
<1>4. QuoteInv' /\ DOMAIN quote' = Shoppers
    BY NoQuoteRight, QuoteStep DEF CreateShopBuyPayment, Answered
<1>5. ShopShape'
    BY <1>3, <1>4 DEF CreateShopBuyPayment, ShopIInv, ShopShape
<1>6. SoldInv' /\ OfferSoldOnce' /\ OffersEligible' /\ RefreshRevenue' /\ SoldAtItsPrice'
    BY DEF CreateShopBuyPayment, ShopIInv, SoldInv, OfferSoldOnce, OffersEligible, RefreshRevenue,
           SoldAtItsPrice
<1>. QED
    BY <1>4, <1>5, <1>6 DEF ShopIInv

LEMMA FulfilBuyStep ==
    ASSUME ShopIInv, NEW o \in DOMAIN shopOrders, FulfilShopBuy(o)
    PROVE  ShopIInv'
<1>. DEFINE row == [shopOrders[o] EXCEPT !.status = "FULFILLED"]
<1>1. /\ shopOrders[o] \in ShopOrderRow
      /\ shopOrders[o].op = "regular" => shopOrders[o].day \in {1, 2}
    BY DEF ShopIInv, ShopShape
<1>2. row \in ShopOrderRow /\ row.op = shopOrders[o].op /\ row.day = shopOrders[o].day
    BY <1>1 DEF ShopOrderRow
<1>3. shopOrders' = [shopOrders EXCEPT ![o] = row]
    BY DEF FulfilShopBuy
<1>. HIDE DEF row
<1>4. /\ shopOrders' \in Seq(ShopOrderRow)
      /\ \A p \in DOMAIN shopOrders' : shopOrders'[p].op = "regular" => shopOrders'[p].day \in {1, 2}
    BY <1>1, <1>2, <1>3 DEF ShopIInv, ShopShape
<1>5. QuoteInv' /\ DOMAIN quote' = Shoppers
    BY DEF FulfilShopBuy, ShopIInv, ShopShape, QuoteInv
<1>6. \/ MarkPurchased(shopOrders[o].slot, shopOrders[o].item) /\ UNCHANGED dailyPurchases
      \/ /\ shopOrders[o].day \in {1, 2} /\ RecordDailyPurchase(shopOrders[o].day)
         /\ UNCHANGED <<board, sold>>
    BY <1>1 DEF FulfilShopBuy
<1>. QED
    BY <1>4, <1>5, <1>6, PurchaseStep DEF FulfilShopBuy

(* What is sold for another price than its own was not seen in the slot.   *)
LEMMA SellStep ==
    ASSUME ShopIInv, NEW r \in Shoppers, ShopSell(r)
    PROVE  ShopIInv'
<1>. DEFINE stale == quote[r].seen # bagMoves
            x == [item |-> bagItem, credit |-> quote[r].price, stale |-> stale]
<1>1. bagMoves' = bagMoves + 1 /\ bagItem' = 0 /\ bagMoves \in Nat
    BY DEF ShopSell, ShopIInv, ShopShape
<1>2. QuoteInv' /\ DOMAIN quote' = Shoppers
    BY <1>1, NoQuoteRight, QuoteStep DEF ShopSell, Answered
<1>3. ShopShape'
    BY <1>1, <1>2 DEF ShopSell, ShopIInv, ShopShape
<1>4. SoldInv' /\ OfferSoldOnce' /\ OffersEligible' /\ RefreshRevenue'
    BY DEF ShopSell, ShopIInv, SoldInv, OfferSoldOnce, OffersEligible, RefreshRevenue
<1>5. ~stale => quote[r].price = SellPrice[bagItem]
    BY DEF ShopSell, Holding, ShopIInv, QuoteInv, QuoteRight
<1>6. sales' = sales \cup {x}
    BY DEF ShopSell
<1>7. x.item = bagItem /\ x.credit = quote[r].price /\ x.stale = stale
  <2>. HIDE DEF stale
  <2>. QED
      OBVIOUS
<1>. HIDE DEF stale, x
<1>8. x.credit # SellPrice[x.item] => x.stale
    BY <1>5, <1>7, Zenon
<1>9. SoldAtItsPrice'
    BY <1>6, <1>8, Zenon DEF ShopIInv, SoldAtItsPrice
<1>. QED
    BY <1>2, <1>3, <1>4, <1>9 DEF ShopIInv

LEMMA BagStep ==
    ASSUME ShopIInv, NEW i \in Goods, BagChanges(i)
    PROVE  ShopIInv'
<1>1. bagMoves' = bagMoves + 1 /\ bagMoves \in Nat /\ paidToday' = paidToday /\ paidToday \in Nat
      /\ quote' = quote
    BY DEF BagChanges, ShopIInv, ShopShape
<1>2. QuoteInv'
  <2>1. ASSUME NEW p \in Shoppers PROVE QuoteRight(quote[p], paidToday, bagMoves', bagItem')
    <3>1. QuoteRight(quote[p], paidToday, bagMoves, bagItem)
        BY DEF ShopIInv, QuoteInv
    <3>. QED
        BY <1>1, <3>1, QuoteSurvives
  <2>. QED
      BY <1>1, <2>1 DEF QuoteInv
<1>3. ShopShape'
    BY <1>1 DEF BagChanges, ShopIInv, ShopShape
<1>4. SoldInv' /\ OfferSoldOnce' /\ OffersEligible' /\ RefreshRevenue' /\ SoldAtItsPrice'
    BY DEF BagChanges, ShopIInv, SoldInv, OfferSoldOnce, OffersEligible, RefreshRevenue, SoldAtItsPrice
<1>. QED
    BY <1>2, <1>3, <1>4 DEF ShopIInv

(* The level and the day change nothing that is on the board. *)
LEMMA ClockStep ==
    ASSUME ShopIInv, level' \in Levels, businessDay' \in {1, 2},
           UNCHANGED <<board, boards, paidToday, revenue, dailyPurchases, shopOrders, bagItem,
                       bagMoves, quote, sold, sales>>
    PROVE  ShopIInv'
<1>1. ShopShape'
    BY DEF ShopIInv, ShopShape
<1>2. SoldInv' /\ QuoteInv' /\ OfferSoldOnce' /\ OffersEligible' /\ RefreshRevenue' /\ SoldAtItsPrice'
    BY DEF ShopIInv, SoldInv, QuoteInv, OfferSoldOnce, OffersEligible, RefreshRevenue, SoldAtItsPrice
<1>. QED
    BY <1>1, <1>2 DEF ShopIInv

LEMMA ShopNextIInv == ShopIInv /\ [ShopNext]_shvars => ShopIInv'
<1>. SUFFICES ASSUME ShopIInv, [ShopNext]_shvars PROVE ShopIInv'
    OBVIOUS
<1>1. ASSUME NEW r \in Shoppers,
             \/ BoardQuote(r) \/ BoardRefill(r) \/ RefreshQuote(r) \/ RefreshMysteryShop(r)
             \/ \E s \in MysterySlots : OfferQuote(r, s)
             \/ \E token \in BOOLEAN : RegularQuote(r, token)
             \/ ShopBuyGold(r) \/ CreateShopBuyPayment(r)
             \/ SellQuote(r) \/ ShopSell(r) \/ Declined(r)
      PROVE  ShopIInv'
    BY <1>1, RollQuoteStep, RefillStep, RefreshStep, OfferQuoteStep, RegularQuoteStep, BuyGoldStep,
       CreateBuyPaymentStep, SellQuoteStep, SellStep, DeclinedStep
<1>2. ASSUME NEW o \in DOMAIN shopOrders, FulfilShopBuy(o) PROVE ShopIInv'
    BY <1>2, FulfilBuyStep
<1>3. ASSUME NEW i \in Goods, BagChanges(i) PROVE ShopIInv'
    BY <1>3, BagStep
<1>4. CASE LevelUp
  <2>1. level' \in Levels /\ businessDay' \in {1, 2}
      BY <1>4 DEF LevelUp, ShopIInv, ShopShape
  <2>. QED
      BY <1>4, <2>1, ClockStep DEF LevelUp
<1>5. CASE NextDay
  <2>1. level' \in Levels /\ businessDay' \in {1, 2}
      BY <1>5 DEF NextDay, ShopIInv, ShopShape
  <2>. QED
      BY <1>5, <2>1, ClockStep DEF NextDay
<1>6. CASE UNCHANGED shvars
  <2>1. level' \in Levels /\ businessDay' \in {1, 2}
      BY <1>6 DEF shvars, ShopIInv, ShopShape
  <2>. QED
      BY <1>6, <2>1, ClockStep DEF shvars
<1>. QED
    BY <1>1, <1>2, <1>3, <1>4, <1>5, <1>6 DEF ShopNext

LEMMA ShopIInvRight == ShopIInv => OffersSoldRight
<1>. SUFFICES ASSUME ShopIInv PROVE OffersSoldRight
    OBVIOUS
<1>1. \A s \in DOMAIN board.offers : s \in MysterySlots
    BY DEF ShopIInv, ShopShape, BoardRow, Offers
<1>2. ShopTypeOK
    BY <1>1 DEF ShopIInv, ShopShape, ShopTypeOK
<1>. QED
    BY <1>2 DEF ShopIInv, OffersSoldRight

(* OffersSoldRight, for any pool, slots, costs, requests and orders in     *)
(* flight: every offer is open to the level it was rolled for, is sold     *)
(* once, refreshes pay at least the base cost and at most the ladder, and  *)
(* a sale at another price saw another item.                               *)
THEOREM OffersAlwaysSoldRight == ShopSpec => []OffersSoldRight
BY ShopInitIInv, ShopNextIInv, ShopIInvRight, PTL DEF ShopSpec
=============================================================================
