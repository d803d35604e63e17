--------------------------- MODULE Announcements ---------------------------
(***************************************************************************)
(* Announcements (store/announcements.go): templates and notices written   *)
(* by administrators, rare rewards announced inside the transaction that   *)
(* delivers them, and a client that polls ListActiveAnnouncements with the *)
(* largest id it has received.  An id comes from a sequence when the row   *)
(* is inserted and is visible when its transaction commits, which may be   *)
(* after a larger id.                                                      *)
(***************************************************************************)
EXTENDS Integers, Sequences, FiniteSets

CONSTANTS Deliveries,        \* reward deliveries -> sequence of drops
          Titles,            \* windows of an operations notice: [starts, ends, priority]
          EditedCodes,       \* templates that are edited
          PageLimit,         \* rows of one poll
          MaxNotices, MaxTime

ASSUME AnnouncementsAssumption ==
  /\ MaxTime \in Nat /\ PageLimit \in Nat
  /\ EditedCodes \subseteq {"rare_equipment", "rare_mount", "ops_notice"}
  /\ \A t \in Titles : t.starts \in Int /\ t.ends \in Int /\ t.priority \in Int
  /\ \A d \in DOMAIN Deliveries : Len(Deliveries[d]) \in Nat /\ DOMAIN Deliveries[d] = 1 .. Len(Deliveries[d])

VARIABLES templates,         \* announcement_templates, by code
          notices,           \* announcements rows, in id order
          delivery,          \* deliveries: open, inserted or committed
          time,
          afterId,           \* the client's cursor
          received,          \* ids the client was given
          saidEnabled,       \* the last value a request gave a template's flag
          withdrawn,         \* ids that were revoked
          shownRevoked,      \* ids given to the client after that
          late, crowded      \* ids the cursor passed: not yet visible, page full

annVars == <<templates, notices, delivery, time, afterId, received, saidEnabled, withdrawn,
             shownRevoked, late, crowded>>

Codes == {"rare_equipment", "rare_mount", "ops_notice"}
Never == MaxTime + 1

\* The seeded templates: rare rewards are shown for a while, notices until
\* they are withdrawn.
DefaultAnnouncementTemplates ==
  [c \in Codes |-> [enabled |-> TRUE, duration |-> IF c = "ops_notice" THEN 0 ELSE 1,
                    priority |-> IF c = "rare_mount" THEN 3 ELSE 2]]

AnnouncementsInit ==
  /\ templates = DefaultAnnouncementTemplates
  /\ notices = <<>> /\ delivery = [d \in DOMAIN Deliveries |-> "open"] /\ time = 0
  /\ afterId = 0 /\ received = {} /\ saidEnabled = [c \in Codes |-> TRUE]
  /\ withdrawn = {} /\ shownRevoked = {} /\ late = {} /\ crowded = {}

-----------------------------------------------------------------------------
Said(c, enabled) ==
  saidEnabled' = IF enabled = "unsaid" THEN saidEnabled ELSE [saidEnabled EXCEPT ![c] = enabled = "yes"]

\* UpsertAnnouncementTemplate of a known code: a request that does not say
\* "enabled" leaves the flag alone.
UpsertAnnouncementTemplate(c, enabled, duration) ==
  /\ templates' = [templates EXCEPT ![c].duration = duration,
                     ![c].enabled = IF enabled = "unsaid" THEN @ ELSE enabled = "yes"]
  /\ Said(c, enabled)
  /\ UNCHANGED <<notices, delivery, time, afterId, received, withdrawn, shownRevoked, late, crowded>>

\* A mount is announced whatever its rarity, other equipment from five stars.
TemplateOf(drop) == IF drop.category = "mount" THEN "rare_mount" ELSE "rare_equipment"
IsRare(drop) == drop.type = "equipment" /\ (drop.category = "mount" \/ drop.rarity >= 5)

DedupeKey(d, drop) == <<TemplateOf(drop), d, drop.uid>>

\* insertAnnouncementTx: a row of the same dedupe key makes it do nothing.
InsertAnnouncementTx(rows, row) ==
  IF \E i \in DOMAIN rows : rows[i].dedupe = row.dedupe /\ row.dedupe # <<>> THEN rows ELSE Append(rows, row)

\* publishRareRewardAnnouncementsTx for the drops of a delivery, in order.
PublishRareRewardAnnouncementsTx(d) ==
  LET Published[i \in 0 .. Len(Deliveries[d])] ==
        IF i = 0 THEN notices
        ELSE LET drop == Deliveries[d][i]
                 template == templates[TemplateOf(drop)]
             IN  IF ~IsRare(drop) \/ ~template.enabled THEN Published[i - 1]
                 ELSE InsertAnnouncementTx(Published[i - 1],
                        [kind |-> "RARE_REWARD", status |-> "ACTIVE", starts |-> time,
                         ends |-> IF template.duration > 0 THEN time + template.duration ELSE Never,
                         priority |-> template.priority, dedupe |-> DedupeKey(d, drop), by |-> d])
  IN  Published[Len(Deliveries[d])]

DeliverRewards(d) ==
  /\ delivery[d] = "open"
  /\ Len(notices) + Len(Deliveries[d]) <= MaxNotices
  /\ notices' = PublishRareRewardAnnouncementsTx(d)
  /\ delivery' = [delivery EXCEPT ![d] = "inserted"]
  /\ UNCHANGED <<templates, time, afterId, received, saidEnabled, withdrawn,
                 shownRevoked, late, crowded>>

DeliveryCommits(d) ==
  /\ delivery[d] = "inserted"
  /\ delivery' = [delivery EXCEPT ![d] = "committed"]
  /\ UNCHANGED <<templates, notices, time, afterId, received, saidEnabled, withdrawn,
                 shownRevoked, late, crowded>>

CreateOpsAnnouncement(t) ==
  /\ Len(notices) < MaxNotices /\ t.ends > t.starts
  /\ notices' = Append(notices, [kind |-> "OPS_NOTICE", status |-> "ACTIVE", starts |-> t.starts,
                                 ends |-> t.ends, priority |-> t.priority, dedupe |-> <<>>, by |-> "ops"])
  /\ UNCHANGED <<templates, delivery, time, afterId, received, saidEnabled, withdrawn,
                 shownRevoked, late, crowded>>

\* UpdateOpsAnnouncement: text, priority and window; the status is not touched.
UpdateOpsAnnouncement(n, t) ==
  /\ notices[n].kind = "OPS_NOTICE" /\ t.ends > t.starts
  /\ notices' = [notices EXCEPT ![n].starts = t.starts, ![n].ends = t.ends, ![n].priority = t.priority]
  /\ UNCHANGED <<templates, delivery, time, afterId, received, saidEnabled, withdrawn,
                 shownRevoked, late, crowded>>

Committed(n) == notices[n].by # "ops" => delivery[notices[n].by] = "committed"

RevokeAnnouncement(n) ==
  /\ Committed(n)
  /\ notices' = [notices EXCEPT ![n].status = "REVOKED"]
  /\ withdrawn' = withdrawn \cup {n}
  /\ UNCHANGED <<templates, delivery, time, afterId, received, saidEnabled, shownRevoked,
                 late, crowded>>

-----------------------------------------------------------------------------
Showing(n) == /\ Committed(n) /\ notices[n].starts <= time /\ notices[n].ends > time

FaultVisible(n) == /\ Committed(n) /\ notices[n].status = "ACTIVE"
                   /\ notices[n].starts < time /\ notices[n].ends > time

\* The WHERE clause of ListActiveAnnouncements.
Visible(n) == Showing(n) /\ notices[n].status = "ACTIVE"

Before(m, n) == \/ notices[m].priority > notices[n].priority
                \/ notices[m].priority = notices[n].priority /\ m < n

\* The rows of one page: by priority, not by id.
ListActiveAnnouncements(after) ==
  LET found == {n \in DOMAIN notices : n > after /\ Visible(n)}
  IN  {n \in found : Cardinality({m \in found : Before(m, n)}) < PageLimit}

\* A client that asks for what is newer than the newest row it has.
Poll ==
  LET page == ListActiveAnnouncements(afterId)
      to == IF page = {} THEN afterId ELSE CHOOSE n \in page : \A m \in page : m <= n
      passed == {n \in DOMAIN notices : n > afterId /\ n < to /\ n \notin page}
  IN  /\ page # {}
      /\ received' = received \cup page
      /\ shownRevoked' = shownRevoked \cup (page \cap withdrawn)
      /\ afterId' = to
      /\ crowded' = IF Cardinality(page) = PageLimit THEN crowded \cup passed ELSE crowded
      /\ late' = late \cup {n \in passed : ~Showing(n) \/ notices[n].status = "REVOKED"}
      /\ UNCHANGED <<templates, notices, delivery, time, saidEnabled, withdrawn>>

TimePasses ==
  /\ time < MaxTime
  /\ time' = time + 1
  /\ UNCHANGED <<templates, notices, delivery, afterId, received, saidEnabled, withdrawn,
                 shownRevoked, late, crowded>>

AnnouncementsNext ==
  \/ Poll \/ TimePasses
  \/ \E c \in EditedCodes, enabled \in {"yes", "no", "unsaid"}, duration \in 0 .. 1 :
       UpsertAnnouncementTemplate(c, enabled, duration)
  \/ \E d \in DOMAIN Deliveries : DeliverRewards(d) \/ DeliveryCommits(d)
  \/ \E t \in Titles : CreateOpsAnnouncement(t) \/ \E n \in DOMAIN notices : UpdateOpsAnnouncement(n, t)
  \/ \E n \in DOMAIN notices : RevokeAnnouncement(n)

AnnouncementsSpec == AnnouncementsInit /\ [][AnnouncementsNext]_annVars

-----------------------------------------------------------------------------
\* Every row has a window that is not empty, and a rare reward is announced
\* only by a delivery that has run and for a drop that is rare
\* (publishRareRewardAnnouncementsTx).
AnnouncementsTypeOK ==
  \A n \in DOMAIN notices :
    /\ notices[n].ends > notices[n].starts /\ notices[n].status \in {"ACTIVE", "REVOKED"}
    /\ notices[n].kind = "RARE_REWARD" =>
         /\ delivery[notices[n].by] # "open"
         /\ \E i \in DOMAIN Deliveries[notices[n].by] :
              LET drop == Deliveries[notices[n].by][i]
              IN  IsRare(drop) /\ DedupeKey(notices[n].by, drop) = notices[n].dedupe

\* A client is never given a row that has been revoked, not even one whose
\* window an administrator has moved since.
RevokedNotShown == shownRevoked = {}

\* A row that is visible, that the cursor has passed and that the client never
\* got was not visible when the cursor passed it, or did not fit the page.
MissedExplained ==
  \A n \in DOMAIN notices :
    Visible(n) /\ n <= afterId /\ n \notin received => n \in late \cup crowded

\* A disabled template comes back only when a request says so: editing its
\* text or duration does not (the CASE in UpsertAnnouncementTemplate).
TemplateFlagAsSaid == \A c \in Codes : templates[c].enabled = saidEnabled[c]

\* What polling clients see: nothing revoked, and nothing missing without one
\* of the two reasons the cursor has.
AnnouncementsReach ==
  AnnouncementsTypeOK /\ RevokedNotShown /\ MissedExplained /\ TemplateFlagAsSaid
=============================================================================
