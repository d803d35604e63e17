------------------------------ MODULE Presence ------------------------------
(***************************************************************************)
(* Online presence: the online_sessions table, the game_servers counters   *)
(* and the copy of the presence kept in Redis (a key per account with a    *)
(* TTL, and a set of accounts per server), with the handlers that enter,   *)
(* beat, leave, sweep and count interleaving between statements.           *)
(*                                                                         *)
(* Sources: internal/account/sessions.go, internal/account/service.go,     *)
(* internal/platform/store/sessions.go.                                    *)
(*                                                                         *)
(* A Redis key may expire at any time; a row may fall silent (not seen for *)
(* two TTLs) at any time, and a beat makes it fresh again.                 *)
(***************************************************************************)
EXTENDS Naturals, FiniteSets

CONSTANTS Accounts, GameServers, Handlers,
          MaxConnections,    \* bound: connections ever opened
          Capacity           \* max_players of a game server

ASSUME CapacityAssumption ==
  /\ MaxConnections \in Nat /\ Capacity \in Nat \ {0}
  /\ IsFiniteSet(Accounts)

Absent == [server |-> "", conn |-> 0]

VARIABLES
  online,      \* online_sessions: server and connection per account
  silent,      \* accounts whose row was last seen two TTLs ago
  players,     \* game_servers.online_players, 0 and unlisted until registered
  registered,  \* rows of game_servers
  live,        \* servers whose last heartbeat is within the launch window
  key,         \* Redis: online:<account>
  members,     \* Redis: server:<server>:accounts
  handler,     \* the handlers under way
  lastConn     \* connection ids given out so far

pvars == <<online, silent, players, registered, live, key, members, handler, lastConn>>

Resting == [op |-> "resting", account |-> "", row |-> Absent, server |-> "",
            stale |-> {}]

PresenceInit ==
  /\ online = [a \in Accounts |-> Absent]
  /\ silent = {}
  /\ players = [g \in GameServers |-> 0]
  /\ registered = {}
  /\ live = {}
  /\ key = [a \in Accounts |-> Absent]
  /\ members = [g \in GameServers |-> {}]
  /\ handler = [h \in Handlers |-> Resting]
  /\ lastConn = 0

Rest(h) == handler' = [handler EXCEPT ![h] = Resting]
RowsAt(rows, g) == Cardinality({a \in Accounts : rows[a].server = g})

(* UPDATE game_servers SET online_players = (SELECT COUNT( * ) ...) for    *)
(* the given servers.                                                      *)
Recount(rows, gs) == [g \in GameServers |-> IF g \in gs THEN RowsAt(rows, g) ELSE players[g]]

-----------------------------------------------------------------------------
(* UpsertGameServer: a new row counts no players, an existing one keeps    *)
(* its count.                                                              *)
RegisterGameServer(g) ==
  /\ registered' = registered \cup {g}
  /\ live' = live \cup {g}
  /\ UNCHANGED <<online, silent, players, key, members, handler, lastConn>>

(* HeartbeatGameServer: the count becomes what the game server reports.    *)
HeartbeatGameServer(g, n) ==
  /\ g \in registered
  /\ players' = [players EXCEPT ![g] = n]
  /\ live' = live \cup {g}
  /\ UNCHANGED <<online, silent, registered, key, members, handler, lastConn>>

ServerFallsSilent(g) ==
  /\ live' = live \ {g}
  /\ UNCHANGED <<online, silent, players, registered, key, members, handler, lastConn>>

(* EnterOnline of an account whose session and character passed their      *)
(* checks: dropOnlineCache of the presence found in the table.             *)
EnterDropPrevious(h, a, g) ==
  /\ handler[h] = Resting
  /\ g \in registered
  /\ lastConn < MaxConnections
  /\ lastConn' = lastConn + 1
  /\ LET prev == online[a] IN
     /\ key' = IF prev = Absent THEN key ELSE [key EXCEPT ![a] = Absent]
     /\ members' = IF prev = Absent THEN members
                   ELSE [members EXCEPT ![prev.server] = @ \ {a}]
  /\ handler' = [handler EXCEPT ![h] =
        [Resting EXCEPT !.op = "enter", !.account = a,
                        !.row = [server |-> g, conn |-> lastConn + 1]]]
  /\ UNCHANGED <<online, silent, players, registered, live>>

(* EnterOnlineSession: the row of the account is replaced; only the new    *)
(* server is recounted, and counts as alive.                               *)
EnterOnlineSession(h) ==
  /\ handler[h].op = "enter"
  /\ LET a == handler[h].account
         g == handler[h].row.server IN
     /\ online' = [online EXCEPT ![a] = handler[h].row]
     /\ players' = Recount(online', {g})
     /\ live' = live \cup {g}
     /\ silent' = silent \ {a}
  /\ handler' = [handler EXCEPT ![h].op = "cache"]
  /\ UNCHANGED <<registered, key, members, lastConn>>

(* OnlineHeartbeat, TouchOnlineSession: only for the row's connection.     *)
TouchOnlineSession(h, a, c) ==
  /\ handler[h] = Resting
  /\ online[a] # Absent /\ online[a].conn = c
  /\ silent' = silent \ {a}
  /\ handler' = [handler EXCEPT ![h] =
        [Resting EXCEPT !.op = "cache", !.account = a, !.row = online[a]]]
  /\ UNCHANGED <<online, players, registered, live, key, members, lastConn>>

FaultCacheIfMissing(h) ==
  /\ handler[h].op = "cache"
  /\ LET a == handler[h].account
         row == handler[h].row IN
     /\ key' = IF key[a] = Absent THEN [key EXCEPT ![a] = row] ELSE key
     /\ members' = [members EXCEPT ![row.server] = @ \cup {a}]
  /\ Rest(h)
  /\ UNCHANGED <<online, silent, players, registered, live, lastConn>>

(* cacheOnline with the row read earlier: the account's key and the member *)
(* of the server's set.                                                    *)
CacheOnline(h) ==
  /\ handler[h].op = "cache"
  /\ LET a == handler[h].account
         row == handler[h].row IN
     /\ key' = [key EXCEPT ![a] = row]
     /\ members' = [members EXCEPT ![row.server] = @ \cup {a}]
  /\ Rest(h)
  /\ UNCHANGED <<online, silent, players, registered, live, lastConn>>

FaultLeaveOnlineSession(h, a, c) ==
  /\ handler[h] = Resting
  /\ online[a] # Absent
  /\ online' = [online EXCEPT ![a] = Absent]
  /\ players' = Recount(online', {online[a].server})
  /\ silent' = silent \ {a}
  /\ handler' = [handler EXCEPT ![h] =
        [Resting EXCEPT !.op = "uncache", !.account = a, !.row = [online[a] EXCEPT !.conn = c]]]
  /\ UNCHANGED <<registered, live, key, members, lastConn>>

(* LeaveOnlineSession: the row goes only if it is of this connection, and  *)
(* its server is recounted.                                                *)
LeaveOnlineSession(h, a, c) ==
  /\ handler[h] = Resting
  /\ online[a] # Absent /\ online[a].conn = c
  /\ online' = [online EXCEPT ![a] = Absent]
  /\ players' = Recount(online', {online[a].server})
  /\ silent' = silent \ {a}
  /\ handler' = [handler EXCEPT ![h] =
        [Resting EXCEPT !.op = "uncache", !.account = a, !.row = online[a]]]
  /\ UNCHANGED <<registered, live, key, members, lastConn>>

(* dropOnlineCache after the commit: the key goes whatever it holds now.   *)
LeaveUncache(h) ==
  /\ handler[h].op = "uncache"
  /\ key' = [key EXCEPT ![handler[h].account] = Absent]
  /\ members' = [members EXCEPT ![handler[h].row.server] = @ \ {handler[h].account}]
  /\ Rest(h)
  /\ UNCHANGED <<online, silent, players, registered, live, lastConn>>

(* SweepStaleOnlineSessions: the silent rows go and their servers are      *)
(* recounted; Redis is left to its TTLs.                                   *)
SweepStaleOnline ==
  /\ silent # {}
  /\ online' = [a \in Accounts |-> IF a \in silent THEN Absent ELSE online[a]]
  /\ players' = Recount(online', {online[a].server : a \in silent})
  /\ silent' = {}
  /\ UNCHANGED <<registered, live, key, members, handler, lastConn>>

FallSilent(a) ==
  /\ online[a] # Absent
  /\ silent' = silent \cup {a}
  /\ UNCHANGED <<online, players, registered, live, key, members, handler, lastConn>>

(* The TTL of the account's key runs out.                                  *)
KeyExpires(a) ==
  /\ key[a] # Absent
  /\ key' = [key EXCEPT ![a] = Absent]
  /\ UNCHANGED <<online, silent, players, registered, live, members, handler, lastConn>>

-----------------------------------------------------------------------------
(* onlinePresenceCounts: the members whose key exists and names the server.*)
Counted(g) == {a \in members[g] : key[a].server = g}

(* The members judged stale by the count of a server, then removed.        *)
CountRead(h, g) ==
  /\ handler[h] = Resting
  /\ members[g] # Counted(g)
  /\ handler' = [handler EXCEPT ![h] =
        [Resting EXCEPT !.op = "srem", !.server = g, !.stale = members[g] \ Counted(g)]]
  /\ UNCHANGED <<online, silent, players, registered, live, key, members, lastConn>>

CountRemove(h) ==
  /\ handler[h].op = "srem"
  /\ members' = [members EXCEPT ![handler[h].server] = @ \ handler[h].stale]
  /\ Rest(h)
  /\ UNCHANGED <<online, silent, players, registered, live, key, lastConn>>

(* A server is full at 95% of its capacity, rounded up.                    *)
PublicFullThreshold(n) == (n * 95 + 99) \div 100

PublicServerStatus(g) ==
  IF g \notin live THEN "offline"
  ELSE IF Cardinality(Counted(g)) >= PublicFullThreshold(Capacity) THEN "full"
  ELSE "online"

(* selectLaunchServer without a server named: the least loaded of those    *)
(* that are online, ties broken by name.                                   *)
LaunchCandidates == {g \in registered : PublicServerStatus(g) = "online"}

LaunchServers ==
  {g \in LaunchCandidates : \A k \in LaunchCandidates :
      Cardinality(Counted(g)) <= Cardinality(Counted(k))}

(* What GetOnline answers: the Redis key when there is one.                *)
GetOnline(a) == IF key[a] # Absent THEN key[a] ELSE online[a]

-----------------------------------------------------------------------------
Finishes(h) == EnterOnlineSession(h) \/ CacheOnline(h) \/ LeaveUncache(h) \/ CountRemove(h)
Beats(h, a) == TouchOnlineSession(h, a, online[a].conn)

PresenceNext ==
  \/ \E g \in GameServers : RegisterGameServer(g) \/ ServerFallsSilent(g)
  \/ \E g \in GameServers, n \in 0 .. Cardinality(Accounts) : HeartbeatGameServer(g, n)
  \/ \E h \in Handlers :
       \/ Finishes(h)
       \/ \E g \in GameServers : CountRead(h, g)
       \/ \E a \in Accounts, g \in GameServers : EnterDropPrevious(h, a, g)
       \/ \E a \in Accounts, c \in 1 .. lastConn :
            TouchOnlineSession(h, a, c) \/ LeaveOnlineSession(h, a, c)
  \/ \E a \in Accounts : FallSilent(a) \/ KeyExpires(a)
  \/ SweepStaleOnline

(* Handlers run to their end, a game server beats for the accounts it      *)
(* holds, and Redis expires keys.                                          *)
PresenceFairness ==
  /\ \A h \in Handlers : WF_pvars(Finishes(h))
  /\ \A a \in Accounts : SF_pvars(\E h \in Handlers : Beats(h, a))
  /\ \A a \in Accounts : WF_pvars(online[a] = Absent /\ KeyExpires(a))

PresenceSpec == PresenceInit /\ [][PresenceNext]_pvars /\ PresenceFairness

(* Rows, keys and counters stay within their domains.                      *)
PresenceTypeOK ==
  /\ \A a \in Accounts : online[a] = Absent \/ online[a].server \in registered
  /\ \A g \in GameServers : players[g] \in 0 .. Cardinality(Accounts)
  /\ silent \subseteq {a \in Accounts : online[a] # Absent}
  /\ live \subseteq registered

(* However enters, beats and leaves race, no account is counted on two     *)
(* game servers at once (onlinePresenceCounts), so the load that launches  *)
(* are balanced on never exceeds the accounts.                             *)
CountedOnce ==
  \A g, k \in GameServers : g # k => Counted(g) \cap Counted(k) = {}

(* A launch goes to no server whose presence count has reached its         *)
(* capacity, and an empty live server, however small, always takes one     *)
(* (selectLaunchServer, publicFullThreshold).                              *)
LaunchFindsRoom ==
  /\ \A g \in LaunchServers : Cardinality(Counted(g)) < Capacity
  /\ (\E g \in registered \cap live : Counted(g) = {}) => LaunchServers # {}

(* A late leave or beat of a connection the account has replaced touches   *)
(* nothing: only the sweep removes a row without its own connection asking.*)
OldConnectionHarmless ==
  [][\A a \in Accounts :
       (online[a] # Absent /\ online'[a] = Absent) =>
         \/ a \in silent
         \/ \E h \in Handlers : /\ handler'[h].op = "uncache"
                                /\ handler'[h].account = a
                                /\ handler'[h].row = online[a]]_pvars

(* The races between a handler's statement and its Redis write leave the   *)
(* cache wrong for a while (a ghost after a leave, a missing key after a   *)
(* relocation) but beats and TTLs repair it: again and again what GetOnline*)
(* answers is what the table holds, and the key of an account that stays   *)
(* online comes back after it was lost.                                    *)
PresenceHeals ==
  /\ []<>(\A a \in Accounts : GetOnline(a) = online[a])
  /\ \A a \in Accounts : online[a] # Absent ~> (key[a] # Absent \/ online[a] = Absent)

(* The table of who is online and where: nobody twice, room where launches *)
(* are sent, and no effect of a connection that was replaced.              *)
PresenceSafe ==
  /\ [](PresenceTypeOK /\ CountedOnce /\ LaunchFindsRoom)
  /\ OldConnectionHarmless
=============================================================================
