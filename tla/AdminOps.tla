------------------------------- MODULE AdminOps -------------------------------
(***************************************************************************)
(* The super-administrator's operations (admin/ops*.go).  A write finds    *)
(* whether its opId was logged, performs its effect, writes an audit row   *)
(* and logs its answer: four separate commits, between which another       *)
(* request with the same opId may run and after each of which the process  *)
(* may stop.  Lottery draws and compensations are first frozen in a        *)
(* preview and paid when that preview is committed (store/admin_lottery.go,*)
(* store/admin_compensation.go).                                           *)
(***************************************************************************)
EXTENDS Integers, FiniteSets

CONSTANTS Operators,         \* super administrators
          Desks,             \* requests in flight
          LoggedOps,         \* opIds of logged operations
          Menus,             \* the sets of operations desks ask for, each explored by itself
          Previews,          \* preview ids
          CommitIds,         \* opIds of commits
          Targets,           \* characters, each of its own account
          MinLevel,          \* the level filter of a compensation
          MaxPerformed       \* bound on how often one opId is performed

ASSUME OpsAssumption ==
  /\ IsFiniteSet(Desks) /\ "none" \notin Operators /\ \A m \in Menus : "none" \notin m

VARIABLES menu,
          opsLog,            \* admin_operation_logs
          desk,              \* requests
          auditRows,         \* admin_audit_logs rows that carry the opId
          performed,         \* ghost: effects performed for the opId
          answers,           \* ghost: answers given for the opId
          server,            \* the game_servers row: endpoint and status
          seat,              \* the player's connection in online_sessions, 0 for none
          previews, previewTargets,
          people,            \* the targets: account status, level, whether deleted
          commitKeys,        \* idempotency keys of commits
          adminGrants,       \* rewards paid for a preview to a target
          refusedCommits     \* ghost: previews whose commit failed though nothing was amiss

opsVars == <<menu, opsLog, desk, auditRows, performed, answers, server, seat, previews,
             previewTargets, people, commitKeys, adminGrants, refusedCommits>>
logVars == <<opsLog, auditRows, answers>>
effectVars == <<performed, server, seat, previews, previewTargets>>
commitVars == <<commitKeys, adminGrants, refusedCommits>>

NoLog == [admin |-> "none", action |-> "none", answer |-> <<"none">>]
NoDesk == [step |-> "idle", op |-> "none", admin |-> "none", action |-> "none",
           read |-> <<"none">>, result |-> <<"none">>, replay |-> FALSE]
NoPreview == [kind |-> "none", admin |-> "none", status |-> "none", live |-> FALSE]

OpsInit ==
  /\ menu \in Menus
  /\ opsLog = [o \in LoggedOps |-> NoLog] /\ desk = [d \in Desks |-> NoDesk]
  /\ auditRows = [o \in LoggedOps |-> 0] /\ performed = [o \in LoggedOps |-> 0]
  /\ answers = [o \in LoggedOps |-> {}]
  /\ server = [endpoint |-> "old", status |-> "ONLINE"] /\ seat = 1
  /\ previews = [p \in Previews |-> NoPreview]
  /\ previewTargets = [p \in Previews |-> {}]
  /\ people \in [Targets -> [status : {"ACTIVE"}, level : {MinLevel - 1, MinLevel}, deleted : {FALSE}]]
  /\ commitKeys = [c \in CommitIds |-> "none"]
  /\ adminGrants = [p \in Previews |-> [t \in Targets |-> 0]] /\ refusedCommits = {}

Goes(d, step) == desk' = [desk EXCEPT ![d].step = step]
Leaves(d) == desk' = [desk EXCEPT ![d] = NoDesk]

-----------------------------------------------------------------------------
\* A request arrives; requireOperation has its opId and its reason.  The ghost
\* notes whether the opId was logged before it began.
AskOperation(d, o, a, action) ==
  /\ desk[d] = NoDesk
  /\ desk' = [desk EXCEPT ![d] = [NoDesk EXCEPT !.step = "asked", !.op = o, !.admin = a,
                                                !.action = action, !.replay = opsLog[o] # NoLog]]
  /\ UNCHANGED <<logVars, effectVars, people, commitVars>>

\* replayOperation: an opId that is logged is answered from the log, or refused
\* when another administrator or another action used it.
ReplayOperation(d) ==
  LET o == desk[d].op
      same == opsLog[o].admin = desk[d].admin /\ opsLog[o].action = desk[d].action
  IN  /\ desk[d].step = "asked"
      /\ IF opsLog[o] = NoLog THEN Goes(d, "new") ELSE Leaves(d)
      /\ answers' = IF opsLog[o] # NoLog /\ same
                    THEN [answers EXCEPT ![o] = @ \cup {opsLog[o].answer}] ELSE answers
      /\ UNCHANGED <<opsLog, auditRows, effectVars, people, commitVars>>

\* The handler's effect is committed and its result kept for the answer.
Performed(d, result) ==
  /\ performed[desk[d].op] < MaxPerformed
  /\ desk' = [desk EXCEPT ![d].step = "performed", ![d].result = result]
  /\ performed' = [performed EXCEPT ![desk[d].op] = @ + 1]

Doing(d, action, step) == desk[d].action = action /\ desk[d].step = step

\* upsertOpsServer writes the whole row it was sent.
UpsertOpsServer(d) ==
  /\ Doing(d, "upsert", "new")
  /\ server' = [endpoint |-> "new", status |-> "MAINTENANCE"]
  /\ Performed(d, <<"server", "new", "MAINTENANCE">>)
  /\ UNCHANGED <<logVars, seat, previews, previewTargets, people, commitVars>>

\* setOpsServerStatus reads the row ...
FindServer(d) ==
  /\ Doing(d, "set_status", "new")
  /\ desk' = [desk EXCEPT ![d].step = "found", ![d].read = <<server.endpoint>>]
  /\ UNCHANGED <<logVars, effectVars, people, commitVars>>

\* ... and writes back the whole of it, with the status it was sent.
SetOpsServerStatus(d) ==
  /\ Doing(d, "set_status", "found")
  /\ server' = [endpoint |-> desk[d].read[1], status |-> "DRAINING"]
  /\ Performed(d, <<"server", desk[d].read[1], "DRAINING">>)
  /\ UNCHANGED <<logVars, seat, previews, previewTargets, people, commitVars>>

\* kickOpsOnlinePlayer reads the player's connection, refusing who is offline ...
GetOnlineSession(d) ==
  /\ Doing(d, "kick", "new")
  /\ IF seat = 0 THEN Leaves(d)
     ELSE desk' = [desk EXCEPT ![d].step = "found", ![d].read = <<seat>>]
  /\ UNCHANGED <<logVars, effectVars, people, commitVars>>

\* ... and clears that connection only; one that changed meanwhile is refused.
KickOpsOnlinePlayer(d) ==
  /\ Doing(d, "kick", "found")
  /\ IF seat = desk[d].read[1]
     THEN seat' = 0 /\ Performed(d, <<"kicked", desk[d].read[1]>>)
     ELSE UNCHANGED <<seat, performed>> /\ Leaves(d)
  /\ UNCHANGED <<logVars, server, previews, previewTargets, people, commitVars>>

\* The player's game server connects the player again.
PlayerReconnects ==
  /\ seat < 2 /\ seat' = 2
  /\ UNCHANGED <<logVars, desk, performed, server, previews, previewTargets, people, commitVars>>

FreezePreview(d, p, kind, targets) ==
  /\ previews[p] = NoPreview
  /\ previews' = [previews EXCEPT ![p] = [kind |-> kind, admin |-> desk[d].admin,
                                          status |-> "PENDING", live |-> TRUE]]
  /\ previewTargets' = [previewTargets EXCEPT ![p] = targets]
  /\ Performed(d, <<"preview", p>>)

\* drawOpsLottery: a plan for one character that is not deleted.
CreateAdminLotteryPreview(d, p, t) ==
  /\ Doing(d, "lottery", "new") /\ ~people[t].deleted
  /\ FreezePreview(d, p, "LOTTERY", {t})
  /\ UNCHANGED <<logVars, server, seat, people, commitVars>>

\* compensationWhere: characters that exist, of active accounts, that pass the filter.
CompensationWhere ==
  {t \in Targets : ~people[t].deleted /\ people[t].status = "ACTIVE" /\ people[t].level >= MinLevel}

\* previewOpsCompensation: the targets are frozen as they stand; when there are
\* none the handler answers and logs, but keeps no preview.
CreateAdminCompensationPreview(d, p) ==
  /\ Doing(d, "compensation", "new")
  /\ IF CompensationWhere = {}
     THEN Performed(d, <<"empty">>) /\ UNCHANGED <<previews, previewTargets>>
     ELSE FreezePreview(d, p, "COMPENSATION", CompensationWhere)
  /\ UNCHANGED <<logVars, server, seat, people, commitVars>>

AuditTarget(d) ==
  /\ desk[d].step = "performed"
  /\ auditRows' = [auditRows EXCEPT ![desk[d].op] = @ + 1]
  /\ Goes(d, "audited")
  /\ UNCHANGED <<opsLog, answers, effectVars, people, commitVars>>

LogEntry(d) == [admin |-> desk[d].admin, action |-> desk[d].action, answer |-> desk[d].result]

FaultSaveAdminOperation(d) == [opsLog EXCEPT ![desk[d].op] = LogEntry(d)]

\* SaveAdminOperation: the first answer is kept, ON CONFLICT (op_id) DO NOTHING.
SaveAdminOperation(d) ==
  IF opsLog[desk[d].op] = NoLog THEN [opsLog EXCEPT ![desk[d].op] = LogEntry(d)] ELSE opsLog

\* completeOperation answers with the row that is in the log.
CompleteOperation(d) ==
  /\ desk[d].step = "audited"
  /\ opsLog' = SaveAdminOperation(d)
  /\ answers' = [answers EXCEPT ![desk[d].op] = @ \cup {opsLog'[desk[d].op].answer}]
  /\ Leaves(d)
  /\ UNCHANGED <<auditRows, effectVars, people, commitVars>>

\* The process stops, or a store call fails, anywhere in the request.
OperationLost(d) ==
  /\ desk[d] # NoDesk /\ Leaves(d)
  /\ UNCHANGED <<logVars, effectVars, people, commitVars>>

-----------------------------------------------------------------------------
PreviewExpires(p) ==
  /\ previews[p].live /\ previews' = [previews EXCEPT ![p].live = FALSE]
  /\ UNCHANGED <<logVars, desk, performed, server, seat, previewTargets, people, commitVars>>

\* SetAccountBan and DeleteCharacter may come between a preview and its commit.
BanOrDelete(t, status, deleted) ==
  /\ ~people[t].deleted
  /\ people' = [people EXCEPT ![t].status = status, ![t].deleted = deleted]
  /\ people' # people
  /\ UNCHANGED <<logVars, desk, effectVars, commitVars>>

\* What both commits ask of the preview's row, which they lock.
Committable(p, kind, a) ==
  previews[p].kind = kind /\ previews[p].admin = a /\ previews[p].status = "PENDING" /\ previews[p].live

\* pgx refuses a query on a connection that still has rows to be read.
ConnBusy(rowsOpen) == rowsOpen

\* applyAdminRewardsTx starts by locking the character, which must exist.
ApplyAdminRewards(t, rowsOpen) == ~ConnBusy(rowsOpen) /\ ~people[t].deleted

Pay(c, p) ==
  /\ commitKeys' = [commitKeys EXCEPT ![c] = p]
  /\ adminGrants' = [adminGrants EXCEPT ![p] = [t \in Targets |->
                       IF t \in previewTargets[p] THEN @[t] + 1 ELSE @[t]]]
  /\ previews' = [previews EXCEPT ![p].status = "COMMITTED"]
  /\ UNCHANGED refusedCommits

\* Nothing of a failed transaction stays; the ghost notes a failure that
\* neither the preview nor its targets explain.
Refused(p) ==
  /\ refusedCommits' = IF \A t \in previewTargets[p] : ~people[t].deleted
                       THEN refusedCommits \cup {p} ELSE refusedCommits
  /\ UNCHANGED <<commitKeys, adminGrants, previews>>

\* The preview's rows, payment, COMMITTED and idempotency key in one transaction.
CommitAdminLotteryPreview(c, p, a) ==
  /\ commitKeys[c] = "none" /\ Committable(p, "LOTTERY", a)
  /\ IF \A t \in previewTargets[p] : ApplyAdminRewards(t, FALSE) THEN Pay(c, p) ELSE Refused(p)
  /\ UNCHANGED <<logVars, desk, performed, server, seat, previewTargets, people>>

\* The same for a compensation, whose targets are paid while the rows that
\* list them are being read.
CommitAdminCompensation(c, p, a) ==
  /\ commitKeys[c] = "none" /\ Committable(p, "COMPENSATION", a)
  /\ IF \A t \in previewTargets[p] : ApplyAdminRewards(t, TRUE) THEN Pay(c, p) ELSE Refused(p)
  /\ UNCHANGED <<logVars, desk, performed, server, seat, previewTargets, people>>

DeskNext(d) ==
  \/ \E o \in LoggedOps, a \in Operators, action \in menu : AskOperation(d, o, a, action)
  \/ ReplayOperation(d) \/ UpsertOpsServer(d) \/ FindServer(d) \/ SetOpsServerStatus(d)
  \/ GetOnlineSession(d) \/ KickOpsOnlinePlayer(d)
  \/ \E p \in Previews : CreateAdminCompensationPreview(d, p)
                         \/ \E t \in Targets : CreateAdminLotteryPreview(d, p, t)
  \/ AuditTarget(d) \/ CompleteOperation(d) \/ OperationLost(d)

OpsSteps ==
  \/ \E d \in Desks : DeskNext(d)
  \/ "kick" \in menu /\ PlayerReconnects
  \/ \E p \in Previews : PreviewExpires(p)
  \/ menu \subseteq {"lottery", "compensation"} /\ \E t \in Targets : BanOrDelete(t, "BANNED", FALSE) \/ BanOrDelete(t, people[t].status, TRUE)
  \/ \E c \in CommitIds, p \in Previews, a \in Operators :
       CommitAdminLotteryPreview(c, p, a) \/ CommitAdminCompensation(c, p, a)

OpsNext == OpsSteps /\ UNCHANGED menu

OpsSpec == OpsInit /\ [][OpsNext]_opsVars

-----------------------------------------------------------------------------
\* Types; in particular what is in the log is a whole entry (SaveAdminOperation).
OpsTypeOK ==
  /\ \A o \in LoggedOps : (opsLog[o].admin = "none") = (opsLog[o].action = "none")
  /\ \A p \in Previews : previews[p].kind # "none" =>
       previews[p].status \in {"PENDING", "COMMITTED"} /\ previewTargets[p] # {}
  /\ server.status \in {"ONLINE", "MAINTENANCE", "DRAINING"} /\ seat \in 0..2
  /\ \A c \in CommitIds : commitKeys[c] \in Previews \cup {"none"}

\* Whoever asks with one opId is told the same, also when two requests with it
\* both ran (completeOperation answers the row that was logged first).
OneAnswer == \A o \in LoggedOps : Cardinality(answers[o]) <= 1

\* A request that begins after its opId was logged performs nothing
\* (replayOperation), whoever sends it.
ReplayPerformsNothing == \A d \in Desks : desk[d].replay => desk[d].step \in {"idle", "asked"}

\* An answered operation was performed and audited, and no audit row lacks an
\* effect (the order of effect, AuditTarget and completeOperation).
AnsweredIsAudited ==
  \A o \in LoggedOps : /\ auditRows[o] <= performed[o]
                   /\ answers[o] # {} => auditRows[o] > 0

\* A preview pays each of its frozen targets once, all or none, and nobody
\* else, however often and with whatever opIds it is committed.
PreviewPaidOnce ==
  \A p \in Previews, t \in Targets :
    adminGrants[p][t] = IF previews[p].status = "COMMITTED" /\ t \in previewTargets[p] THEN 1 ELSE 0

\* What the documentation says of a commit: a PENDING preview that has not
\* expired, committed by its author, is paid in full and set to COMMITTED.
PendingPreviewCommits == refusedCommits = {}

\* An opId has one answer, given for something performed and audited.
OperationsAnswerOnce ==
  OpsTypeOK /\ OneAnswer /\ ReplayPerformsNothing /\ AnsweredIsAudited /\ PreviewPaidOnce
=============================================================================
