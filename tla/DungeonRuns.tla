----------------------------- MODULE DungeonRuns -----------------------------
(***************************************************************************)
(* The characters of one account and their dungeon runs: creation and      *)
(* deletion, entering, finishing and abandoning a run, and the tickets     *)
(* that resume it.                                                         *)
(*                                                                         *)
(* Sources: internal/platform/store/{postgres,player,store}.go,            *)
(* internal/account/sessions.go, internal/economy/service.go.              *)
(*                                                                         *)
(* A transaction that locks the rows it decides on is one step.  Creating  *)
(* a character and resuming a run are two: what they read is not locked    *)
(* against rows inserted, or a run ended, before their write.              *)
(***************************************************************************)
EXTENDS Naturals, FiniteSets

CONSTANTS MaxCharacters, MaxRuns, MaxResumes,   \* bounds on rows
          Slots,          \* character slots of an account
          Floors,         \* dungeon floors: <<chapter, floor>>
          OriginServers,  \* game servers a run may start on
          Clients,        \* handlers that may be under way together
          RunExp,         \* experience a finished run may bring
          LevelRules,     \* [maxLevel, base, linear, quadratic]
          EnterCost, StartGold

ASSUME LevelAssumption ==
  /\ LevelRules \in [maxLevel : Nat \ {0}, base : Nat, linear : Nat, quadratic : Nat]
  /\ LevelRules.base + LevelRules.linear + LevelRules.quadratic > 0
  /\ EnterCost \in Nat /\ StartGold \in Nat

ASSUME DungeonAssumption ==
  /\ MaxCharacters \in Nat /\ MaxRuns \in Nat /\ MaxResumes \in Nat
  /\ Slots \subseteq Nat /\ RunExp \subseteq Nat /\ Floors \subseteq Nat \X Nat

CharacterId == 1 .. MaxCharacters
RunId == 1 .. MaxRuns
ResumeId == 1 .. MaxResumes

VARIABLES
  characters,  \* characters: slot, is_deleted, gold, exp, level, highest cleared
  runs,        \* dungeon_runs
  resumes,     \* game_tickets saved by a resume: status, server, run
  client,      \* the handlers under way
  paid,        \* history: reward plans applied per run
  killed       \* history: tickets a committed abandon should have ended

dvars == <<characters, runs, resumes, client, paid, killed>>

NoCharacter == [slot |-> 0, state |-> "NONE", gold |-> 0, exp |-> 0, level |-> 1,
                cleared |-> <<0, 0>>]
NoRun == [status |-> "NONE", character |-> 0, server |-> "", floor |-> <<0, 0>>]
NoResume == [status |-> "NONE", server |-> "", run |-> 0]
Waiting == [op |-> "waiting", slot |-> 0, run |-> 0]

DungeonInit ==
  /\ characters = [c \in CharacterId |-> NoCharacter]
  /\ runs = [x \in RunId |-> NoRun]
  /\ resumes = [k \in ResumeId |-> NoResume]
  /\ client = [p \in Clients |-> Waiting]
  /\ paid = [x \in RunId |-> 0]
  /\ killed = {}

Least(S) == CHOOSE i \in S : \A j \in S : i <= j
LiveCharacters == {c \in CharacterId : characters[c].state = "LIVE"}
UsedSlots == {characters[c].slot : c \in LiveCharacters}
Unused(table, ids, blank) == {i \in ids : table[i] = blank}

-----------------------------------------------------------------------------
(* CreateCharacter: the lowest free slot among the rows that exist.  The   *)
(* rows are locked, but a row another creation inserts meanwhile is not.   *)
CreateChooseSlot(p) ==
  /\ client[p] = Waiting
  /\ Slots \ UsedSlots # {}
  /\ client' = [client EXCEPT ![p] =
        [Waiting EXCEPT !.op = "create", !.slot = Least(Slots \ UsedSlots)]]
  /\ UNCHANGED <<characters, runs, resumes, paid, killed>>

(* INSERT INTO characters, its wallet and its state: the unique index on   *)
(* (account_id, slot_index) of live characters refuses the second of two   *)
(* creations that chose the same slot.                                     *)
CreateInsert(p) ==
  /\ client[p].op = "create"
  /\ \/ /\ client[p].slot \notin UsedSlots
        /\ Unused(characters, CharacterId, NoCharacter) # {}
        /\ characters' = [characters EXCEPT
             ![Least(Unused(characters, CharacterId, NoCharacter))] =
               [NoCharacter EXCEPT !.slot = client[p].slot, !.state = "LIVE",
                                   !.gold = StartGold]]
     \/ /\ client[p].slot \in UsedSlots
        /\ UNCHANGED characters
  /\ client' = [client EXCEPT ![p] = Waiting]
  /\ UNCHANGED <<runs, resumes, paid, killed>>

(* DeleteCharacter marks the row; runs and tickets stay as they are.       *)
DeleteCharacter(c) ==
  /\ c \in LiveCharacters
  /\ characters' = [characters EXCEPT ![c].state = "DELETED"]
  /\ UNCHANGED <<runs, resumes, client, paid, killed>>

-----------------------------------------------------------------------------
StartedRuns(c) == {x \in RunId : runs[x].character = c /\ runs[x].status = "STARTED"}

(* DungeonEnter: the cost is taken and the run inserted in one             *)
(* transaction; uq_dungeon_runs_active_character rolls both back while     *)
(* another run of the character is STARTED.                                *)
DungeonEnter(c, server, floor) ==
  /\ c \in LiveCharacters
  /\ characters[c].gold >= EnterCost
  /\ StartedRuns(c) = {}
  /\ \E x \in Unused(runs, RunId, NoRun) :
       /\ \A y \in Unused(runs, RunId, NoRun) : x <= y
       /\ runs' = [runs EXCEPT ![x] =
            [status |-> "STARTED", character |-> c, server |-> server, floor |-> floor]]
  /\ characters' = [characters EXCEPT ![c].gold = @ - EnterCost]
  /\ UNCHANGED <<resumes, client, paid, killed>>

(* LevelProgressionRules: the experience level n asks for, from a sum over *)
(* the levels below it.                                                    *)
ExpForNextLevel(n) ==
  LevelRules.base + LevelRules.linear * n + LevelRules.quadratic * n * n

ExpToReach[n \in 0 .. LevelRules.maxLevel] ==
  IF n <= 1 THEN 0 ELSE ExpToReach[n - 1] + ExpForNextLevel(n - 1)

(* Progress: climbs from the current level while the next threshold is met.*)
Progress(n, exp) ==
  LET Climb[k \in 1 .. LevelRules.maxLevel] ==
        IF k >= LevelRules.maxLevel \/ ExpToReach[k + 1] <= 0 \/ exp < ExpToReach[k + 1]
          THEN k ELSE Climb[k + 1]
  IN  Climb[n]

(* applyCharacterExpProgress: the level stored with the new experience.    *)
LevelAfter(n, exp) == Progress(n, exp)

FaultCleared(old, new) ==
  LET chapter == IF old[1] < new[1] \/ (old[1] = new[1] /\ old[2] < new[2])
                   THEN new[1] ELSE old[1] IN
  <<chapter, IF chapter < new[1] \/ (chapter = new[1] /\ old[2] < new[2])
               THEN new[2] ELSE old[2]>>

(* The CASE expressions of one UPDATE all read the row as it was.          *)
Cleared(old, new) ==
  IF old[1] < new[1] \/ (old[1] = new[1] /\ old[2] < new[2]) THEN new ELSE old

FaultDungeonFinish(x, server, floor, victory, exp) ==
  LET c == runs[x].character IN
  /\ c \in LiveCharacters
  /\ runs[x].status \in {"STARTED", "FINISHED"}
  /\ runs[x].server # "" => server = runs[x].server
  /\ floor = runs[x].floor
  /\ runs' = [runs EXCEPT ![x].status = IF victory THEN "FINISHED" ELSE "FAILED"]
  /\ characters' = [characters EXCEPT
        ![c].cleared = IF victory THEN Cleared(@, floor) ELSE @,
        ![c].exp = @ + exp,
        ![c].level = LevelAfter(@, characters[c].exp + exp)]
  /\ paid' = [paid EXCEPT ![x] = IF victory THEN @ + 1 ELSE @]
  /\ UNCHANGED <<resumes, client, killed>>

(* DungeonFinish: character and run locked, the run STARTED, reported by   *)
(* the server it started on and for its floor.  Experience comes whatever  *)
(* the result, the reward plan only with a victory.                        *)
DungeonFinish(x, server, floor, victory, exp) ==
  LET c == runs[x].character IN
  /\ c \in LiveCharacters
  /\ runs[x].status = "STARTED"
  /\ runs[x].server # "" => server = runs[x].server
  /\ floor = runs[x].floor
  /\ runs' = [runs EXCEPT ![x].status = IF victory THEN "FINISHED" ELSE "FAILED"]
  /\ characters' = [characters EXCEPT
        ![c].cleared = IF victory THEN Cleared(@, floor) ELSE @,
        ![c].exp = @ + exp,
        ![c].level = LevelAfter(@, characters[c].exp + exp)]
  /\ paid' = [paid EXCEPT ![x] = IF victory THEN @ + 1 ELSE @]
  /\ UNCHANGED <<resumes, client, killed>>

-----------------------------------------------------------------------------
(* ResolveDungeonRecovery, resume: ActiveDungeonRun is read, then a ticket *)
(* without a character is saved for the run's server.                      *)
ResumeRead(p, x) ==
  /\ client[p] = Waiting
  /\ runs[x].status = "STARTED" /\ runs[x].server # ""
  /\ client' = [client EXCEPT ![p] = [Waiting EXCEPT !.op = "resume", !.run = x]]
  /\ UNCHANGED <<characters, runs, resumes, paid, killed>>

ResumeSaveTicket(p) ==
  /\ client[p].op = "resume"
  /\ \E k \in Unused(resumes, ResumeId, NoResume) :
       /\ \A j \in Unused(resumes, ResumeId, NoResume) : k <= j
       /\ resumes' = [resumes EXCEPT ![k] =
            [status |-> "ACTIVE", server |-> runs[client[p].run].server,
             run |-> client[p].run]]
  /\ client' = [client EXCEPT ![p] = Waiting]
  /\ UNCHANGED <<characters, runs, paid, killed>>

ActiveFor(x) == {k \in ResumeId : resumes[k].status = "ACTIVE" /\ resumes[k].run = x}

(* CancelDungeonRun: the run is locked; its status and every ACTIVE ticket *)
(* of the account for its server (tickets carry no character) change in    *)
(* one transaction.  Cancelling again cancels the tickets again.           *)
CancelDungeonRun(x) ==
  /\ runs[x].status \in {"STARTED", "CANCELLED"}
  /\ runs' = [runs EXCEPT ![x].status = "CANCELLED"]
  /\ resumes' = [k \in ResumeId |->
        IF resumes[k].status = "ACTIVE" /\ resumes[k].server = runs[x].server
          THEN [resumes[k] EXCEPT !.status = "CANCELLED"] ELSE resumes[k]]
  /\ killed' = killed \cup ActiveFor(x)
  /\ UNCHANGED <<characters, client, paid>>

(* A game server consumes the ticket.                                      *)
ConsumeResume(k) ==
  /\ resumes[k].status = "ACTIVE"
  /\ resumes' = [resumes EXCEPT ![k].status = "CONSUMED"]
  /\ UNCHANGED <<characters, runs, client, paid, killed>>

DungeonNext ==
  \/ \E p \in Clients : CreateChooseSlot(p) \/ CreateInsert(p) \/ ResumeSaveTicket(p)
  \/ \E c \in CharacterId : DeleteCharacter(c)
  \/ \E c \in CharacterId, server \in OriginServers \cup {""}, floor \in Floors :
       DungeonEnter(c, server, floor)
  \/ \E x \in RunId, server \in OriginServers, floor \in Floors,
        victory \in BOOLEAN, exp \in RunExp :
       DungeonFinish(x, server, floor, victory, exp)
  \/ \E p \in Clients, x \in RunId : ResumeRead(p, x)
  \/ \E x \in RunId : CancelDungeonRun(x)
  \/ \E k \in ResumeId : ConsumeResume(k)

DungeonSpec == DungeonInit /\ [][DungeonNext]_dvars

-----------------------------------------------------------------------------
(* Rows hold values of their columns; levels stay within the rules.        *)
DungeonTypeOK ==
  /\ \A c \in CharacterId :
       /\ characters[c].state \in {"NONE", "LIVE", "DELETED"}
       /\ characters[c].gold \in 0 .. StartGold
       /\ characters[c].level \in 1 .. LevelRules.maxLevel
       /\ characters[c].cleared \in Floors \cup {<<0, 0>>}
  /\ \A x \in RunId :
       runs[x].status \in {"NONE", "STARTED", "FINISHED", "FAILED", "CANCELLED"}

(* Two creations that read the same slots never share one: the live        *)
(* characters of the account have different slots.                         *)
SlotsDiffer ==
  \A c, d \in LiveCharacters : c # d => characters[c].slot # characters[d].slot

(* A character is in at most one run, and pays for each it enters.         *)
OneStartedRun ==
  \A c \in CharacterId :
    /\ Cardinality(StartedRuns(c)) <= 1
    /\ characters[c].state # "NONE" =>
         characters[c].gold + EnterCost * Cardinality({x \in RunId : runs[x].character = c})
           = StartGold

(* Whatever finishes, cancellations and reconnections race, a run's reward *)
(* plan is applied at most once, and never for a run that did not end in a *)
(* victory.                                                                *)
RunPaysOnce ==
  \A x \in RunId : paid[x] = (IF runs[x].status = "FINISHED" THEN 1 ELSE 0)

(* The progress a leaderboard ranks by is the furthest floor the character *)
(* has won, chapters before floors, in whatever order the wins came.       *)
HighestClearedIsFurthest ==
  \A c \in CharacterId :
    LET won == {runs[x].floor : x \in {y \in RunId : runs[y].character = c
                                                   /\ runs[y].status = "FINISHED"}}
    IN  /\ characters[c].cleared \in won \cup {<<0, 0>>}
        /\ \A f \in won : \/ f[1] < characters[c].cleared[1]
                          \/ f[1] = characters[c].cleared[1] /\ f[2] <= characters[c].cleared[2]

(* The stored level is the highest one whose total experience is reached,  *)
(* although each finish only climbs from the level it found.               *)
LevelMatchesExp ==
  \A c \in CharacterId :
    characters[c].level =
      CHOOSE n \in 1 .. LevelRules.maxLevel :
        /\ ExpToReach[n] <= characters[c].exp
        /\ n < LevelRules.maxLevel => characters[c].exp < ExpToReach[n + 1]

(* After a run is abandoned no ticket that was waiting to resume it lets   *)
(* the player back in.                                                     *)
AbandonEndsTickets ==
  \A k \in killed : resumes[k].status = "CANCELLED"

(* The life of a run: its slot, one at a time, paid once, and over when it *)
(* is abandoned.                                                           *)
RunsSettleOnce ==
  DungeonTypeOK /\ SlotsDiffer /\ OneStartedRun /\ RunPaysOnce /\ AbandonEndsTickets

(* What a character has gained is what its victories add up to. *)
ProgressIsFurthest == HighestClearedIsFurthest /\ LevelMatchesExp
=============================================================================
