----------------------------- MODULE MCPlayers -----------------------------
(***************************************************************************)
(* The account service: sessions and tickets, and presence on the game     *)
(* servers.  They write different tables and Redis keys; each behaviour    *)
(* explores one of them and leaves the other at rest.                      *)
(***************************************************************************)
EXTENDS Sessions, Presence

VARIABLE focus               \* the part that this behaviour explores

MCScenarios == {
  [ops |-> {"login", "ban", "lapse", "crash"}, nonces |-> 2],
  [ops |-> {"login", "refresh", "logout", "crash"}, nonces |-> 1],
  [ops |-> {"login", "refresh", "adminRevoke", "ban"}, nonces |-> 1],
  [ops |-> {"login", "launch", "consume", "logout", "lapse"}, nonces |-> 1],
  [ops |-> {"login", "launch", "consume", "adminRevoke", "ban"}, nonces |-> 1] }

MCInit ==
  /\ SessionsInit /\ PresenceInit
  /\ focus \in {"sessions", "presence"}
  /\ focus = "presence" => scenario = [ops |-> {"login", "ban", "lapse", "crash"}, nonces |-> 2]

MCNext ==
  \/ focus = "sessions" /\ SessionsNext /\ UNCHANGED <<pvars, focus>>
  \/ focus = "presence" /\ PresenceNext /\ UNCHANGED <<svars, focus>>

MCSpec ==
  MCInit /\ [][MCNext]_<<svars, pvars, focus>> /\ SessionsFairness /\ PresenceFairness
=============================================================================
