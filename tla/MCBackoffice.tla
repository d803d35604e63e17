---------------------------- MODULE MCBackoffice ----------------------------
(***************************************************************************)
(* The back office: announcements, access of administrators and services,  *)
(* and the super-administrator's operations.  They share no table that one *)
(* of them writes and another reads, so each behaviour explores one of     *)
(* them and leaves the others at rest.                                     *)
(***************************************************************************)
EXTENDS Announcements, AdminAccess, AdminOps

VARIABLE focus               \* the part that this behaviour explores

MCDeliveries == [d \in {"run", "order"} |->
  IF d = "run" THEN <<[type |-> "equipment", category |-> "weapon", rarity |-> 5, uid |-> 1],
                      [type |-> "item", category |-> "ore", rarity |-> 5, uid |-> 0]>>
  ELSE <<[type |-> "equipment", category |-> "mount", rarity |-> 1, uid |-> 2]>>]
MCTitles == {[starts |-> 0, ends |-> 3, priority |-> 1], [starts |-> 1, ends |-> 3, priority |-> 4],
             [starts |-> 1, ends |-> 1, priority |-> 1]}
MCMessages == [m \in {"m1", "m2"} |->
  [service |-> "s1", nonce |-> m, signed |-> IF m = "m1" THEN 0 ELSE 2, capability |-> "economy.gameplay"]]
MCMenus == {{"upsert", "set_status"}, {"kick"}, {"lottery"}, {"compensation"}}

MCInit ==
  /\ AnnouncementsInit /\ AccessInit /\ OpsInit
  /\ focus \in {"announcements", "admins", "services", "operations"}
  /\ focus # "operations" => menu = {"kick"} /\ \A t \in Targets : people[t].level = MinLevel

MCNext ==
  /\ UNCHANGED focus
  /\ \/ focus = "announcements" /\ AnnouncementsNext /\ UNCHANGED <<accessVars, opsVars>>
     \/ focus = "admins" /\ AdminsNext /\ UNCHANGED <<annVars, opsVars>>
     \/ focus = "services" /\ ServicesNext /\ UNCHANGED <<annVars, opsVars>>
     \/ focus = "operations" /\ OpsNext /\ UNCHANGED <<annVars, accessVars>>

MCSpec == MCInit /\ [][MCNext]_<<annVars, accessVars, opsVars, focus>>
=============================================================================
