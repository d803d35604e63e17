----------------------------- MODULE BossEvents -----------------------------
(***************************************************************************)
(* Boss events (store/boss_events.go, postgres.go): an operator opens,     *)
(* closes and settles an event of one boss key, players contribute and     *)
(* collect their reward.  Steps that lock the event's row are atomic; two  *)
(* operations are not: BossOpenEvent counts before it inserts and locks    *)
(* nothing, and the service reads a contribution and plans the reward in   *)
(* a transaction of its own before the store settles.                      *)
(***************************************************************************)
EXTENDS Integers, Sequences, FiniteSets

CONSTANTS Openers,           \* open requests that may overlap
          Fighters,          \* accounts
          Blows,             \* contributions of one request
          MaxEvents, MaxContribution

ASSUME BossAssumption ==
  /\ MaxEvents \in Nat /\ MaxContribution \in Nat /\ Blows \subseteq Nat
  /\ IsFiniteSet(Openers)

VARIABLES events,            \* boss_events rows: status and place of the clock
          contributions,     \* boss_contributions rows, by event and account
          opener,            \* open requests that have counted no OPEN event
          settler,           \* settlements between planning and paying
          bossPaid           \* rewards applied, by event and account

bossVars == <<events, contributions, opener, settler, bossPaid>>

\* The clock is before starts_at, inside the window, at ends_at itself, where
\* both a contribution and a settlement pass their test, or later.
Clock == <<"early", "active", "end", "over">>
NoRow == [contribution |-> 0, reward |-> "{}", planned |-> 0]
NoPlan == [event |-> 0, planned |-> 0]
EventIds == 1 .. MaxEvents

BossInit ==
  /\ events = <<>>
  /\ contributions = [e \in EventIds |-> [a \in Fighters |-> NoRow]]
  /\ opener = [o \in Openers |-> FALSE]
  /\ settler = [a \in Fighters |-> NoPlan]
  /\ bossPaid = [e \in EventIds |-> [a \in Fighters |-> 0]]

-----------------------------------------------------------------------------
\* BossOpenEvent refuses a second OPEN event of the key ...
BossOpenCount(o) ==
  /\ ~opener[o] /\ \A e \in DOMAIN events : events[e].status # "OPEN"
  /\ opener' = [opener EXCEPT ![o] = TRUE]
  /\ UNCHANGED <<events, contributions, settler, bossPaid>>

\* ... and inserts its row in a later statement.
BossOpenInsert(o, clock) ==
  /\ opener[o] /\ Len(events) < MaxEvents
  /\ events' = Append(events, [status |-> "OPEN", clock |-> clock])
  /\ opener' = [opener EXCEPT ![o] = FALSE]
  /\ UNCHANGED <<contributions, settler, bossPaid>>

BossTick(e) ==
  /\ events[e].clock # "over"
  /\ \E c \in DOMAIN Clock : /\ Clock[c] = events[e].clock
                             /\ events' = [events EXCEPT ![e].clock = Clock[c + 1]]
  /\ UNCHANGED <<contributions, opener, settler, bossPaid>>

\* BossContribute: under the event's lock, added to the account's row.
BossContribute(e, a, n) ==
  /\ events[e].status = "OPEN" /\ events[e].clock \in {"active", "end"}
  /\ contributions[e][a].contribution + n <= MaxContribution
  /\ contributions' = [contributions EXCEPT ![e][a].contribution = @ + n]
  /\ UNCHANGED <<events, opener, settler, bossPaid>>

\* Service.BossSettle: BossContribution and the reward plan made from it.
BossPlan(e, a) ==
  /\ settler[a] = NoPlan
  /\ settler' = [settler EXCEPT ![a] = [event |-> e, planned |-> contributions[e][a].contribution]]
  /\ UNCHANGED <<events, contributions, opener, bossPaid>>

ReadyForSettlement(e) ==
  \/ events[e].status = "SETTLING"
  \/ events[e].status = "OPEN" /\ events[e].clock \in {"end", "over"}

PayBossReward(e, a) ==
  /\ contributions' = [contributions EXCEPT ![e][a].reward = "paid",
                                            ![e][a].planned = settler[a].planned]
  /\ bossPaid' = [bossPaid EXCEPT ![e][a] = @ + 1]
  /\ settler' = [settler EXCEPT ![a] = NoPlan]
  /\ UNCHANGED <<events, opener>>

FaultBossRewardClaimed(e, a) == contributions[e][a].planned > 0

\* bossRewardClaimed: a stored reward is never the empty object, not even for
\* an account that contributed nothing.
BossRewardClaimed(e, a) == contributions[e][a].reward # "{}"

\* PostgresStore.BossSettle: the planned reward is applied and stored with
\* the row.
BossSettle(a) ==
  LET e == settler[a].event
  IN  /\ settler[a] # NoPlan
      /\ ReadyForSettlement(e) /\ ~BossRewardClaimed(e, a)
      /\ PayBossReward(e, a)

BossSettleRefused(a) ==
  LET e == settler[a].event
  IN  /\ settler[a] # NoPlan
      /\ ~ReadyForSettlement(e) \/ BossRewardClaimed(e, a)
      /\ settler' = [settler EXCEPT ![a] = NoPlan]
      /\ UNCHANGED <<events, contributions, opener, bossPaid>>

\* BossCloseEvent: SETTLING, with ends_at brought forward to now.
BossCloseEvent(e) ==
  /\ events[e].status = "OPEN"
  /\ events' = [events EXCEPT ![e] = [status |-> "SETTLING", clock |-> "over"]]
  /\ UNCHANGED <<contributions, opener, settler, bossPaid>>

\* BossMarkSettled also ends an OPEN event, before anyone was paid.
BossMarkSettled(e) ==
  /\ events[e].status \in {"OPEN", "SETTLING"}
  /\ events' = [events EXCEPT ![e].status = "SETTLED"]
  /\ UNCHANGED <<contributions, opener, settler, bossPaid>>

BossNext ==
  \/ \E o \in Openers : BossOpenCount(o) \/ \E c \in {"early", "active"} : BossOpenInsert(o, c)
  \/ \E e \in DOMAIN events : BossTick(e) \/ BossCloseEvent(e) \/ BossMarkSettled(e)
  \/ \E e \in DOMAIN events, a \in Fighters :
       BossPlan(e, a) \/ \E n \in Blows : BossContribute(e, a, n)
  \/ \E a \in Fighters : BossSettle(a) \/ BossSettleRefused(a)

BossSpec == BossInit /\ [][BossNext]_bossVars

-----------------------------------------------------------------------------
\* A reward is stored only for an event that was over or closed when
\* BossSettle paid it.
BossTypeOK ==
  /\ \A e \in DOMAIN events : events[e].status \in {"OPEN", "SETTLING", "SETTLED"}
  /\ \A e \in EventIds, a \in Fighters :
       /\ contributions[e][a].contribution \in 0 .. MaxContribution
       /\ contributions[e][a].reward = "paid" =>
            e \in DOMAIN events /\ ~(events[e].status = "OPEN" /\ events[e].clock \in {"early", "active"})

\* BossSettle applies the rewards of an event to an account once, however many
\* settlements were planned.
BossPaidOnce == \A e \in EventIds, a \in Fighters : bossPaid[e][a] <= 1

\* The plan was made from a contribution read in another transaction; it may
\* be smaller than what the account has contributed, never larger.
PaidAtMostContributed ==
  \A e \in EventIds, a \in Fighters : contributions[e][a].planned <= contributions[e][a].contribution

\* BossOpenEvent's count and insert are not atomic: overlapping requests can
\* open the boss more than once, but never more often than there are requests
\* in flight, those that have counted and not yet inserted included.
OpenEventsBounded ==
  Cardinality({e \in DOMAIN events : events[e].status = "OPEN"})
    + Cardinality({o \in Openers : opener[o]}) <= Cardinality(Openers)

\* After SETTLED nothing about an event changes: no late contribution, no
\* reward and no way back to SETTLING.
SettledIsFinal ==
  [][\A e \in DOMAIN events : events[e].status = "SETTLED" =>
       events'[e].status = "SETTLED" /\ contributions'[e] = contributions[e]]_bossVars

\* An event pays each fighter once, from what was contributed, and then ends.
BossSettlesOnce ==
  /\ [](BossTypeOK /\ BossPaidOnce /\ PaidAtMostContributed /\ OpenEventsBounded)
  /\ SettledIsFinal
=============================================================================
