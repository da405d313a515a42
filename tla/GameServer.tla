------------------------------ MODULE GameServer ------------------------------
(***************************************************************************)
(* The game server's side of an account session: who may connect           *)
(* (ConnectionInfoManager), which character is in the game (PCFinder), and *)
(* the way of a connection (GamePlayer) through the player managers:       *)
(*                                                                         *)
(*   accept -> ipm --CGReady--> ipmOut -> zpmIn -> zpm                     *)
(*              ^                                   | CGLogout, kick,      *)
(*              +------- ipmQueue <---- zpmOut <----+ change of zone       *)
(*                                                                         *)
(* Three kinds of threads work on them: ClientManager (all of              *)
(* IncomingPlayerManager, CGConnect and CGReady), a ZoneGroupThread (all   *)
(* of ZonePlayerManager and the players in zpm) and LoginServerManager     *)
(* (the login server's datagrams).  A handler that does not give another   *)
(* thread a view of a half-done change is one action; CGConnect, whose     *)
(* database row is taken before the character is registered, is two.       *)
(***************************************************************************)
EXTENDS AccountTable

CONSTANTS LogoutPortHeard,  \* the login server listens on UDP 9999, as CGLogoutHandler assumes
          PacketsAfterReady \* clients send more in the batch of their CGReady

ASSUME GameAssumption == LogoutPortHeard \in BOOLEAN /\ PacketsAfterReady \in BOOLEAN

VARIABLES game,     \* the GamePlayer on each descriptor
          conn,     \* ConnectionInfo by client IP
          finder,   \* PCFinder: the connection that plays each character
          loading,  \* the connection whose CGConnect is loading its character
          held      \* the connections each player manager and queue holds

gameVars == <<game, conn, finder, loading, held>>

(***************************************************************************)
(* ipm      IncomingPlayerManager::m_pPlayers                              *)
(* ipmQueue IncomingPlayerManager::m_PlayerListQueue                       *)
(* ipmOut   IncomingPlayerManager::m_PlayerOutListQueue                    *)
(* zpmIn    ZonePlayerManager::m_PlayerListQueue                           *)
(* zpm      ZonePlayerManager::m_pPlayers                                  *)
(* zpmOut   ZonePlayerManager::m_PlayerOutListQueue                        *)
(***************************************************************************)
Managers == {"ipm", "ipmQueue", "ipmOut", "zpmIn", "zpm", "zpmOut"}

GPS == {"GPS_BEGIN_SESSION", "GPS_WAITING_FOR_CG_READY", "GPS_NORMAL",
        "GPS_AFTER_SENDING_GL_INCOMING_CONNECTION"}

\* No GamePlayer on the descriptor.
Gone == [status |-> "GONE", id |-> Nobody, pc |-> Nobody, host |-> Nobody,
         kicked |-> FALSE, forLogin |-> FALSE, key |-> Nobody]

\* pc is m_pCreature's name, kicked PENALTY_TYPE_KICKED, forLogin m_bKickForLogin
\* (with the login server as m_KickRequestHost), key that of m_pReconnectPacket.
GamePlayers ==
    [status : GPS, id : Accounts \cup {Nobody}, pc : Accounts \cup {Nobody}, host : Hosts,
     kicked : BOOLEAN, forLogin : BOOLEAN, key : Keys \cup {Nobody}]

ConnectionInfos == [id : Accounts, key : Keys]

GameTypeOK ==
    /\ game \in [GameSockets -> GamePlayers \cup {Gone}]
    /\ conn \in [Hosts -> ConnectionInfos \cup {Nobody}]
    /\ finder \in [Accounts -> GameSockets \cup {Nobody}]
    /\ loading \in GameSockets \cup {Nobody}
    /\ held \in [Managers -> SUBSET GameSockets]

GameInit ==
    /\ game = [s \in GameSockets |-> Gone]
    /\ conn = [h \in Hosts |-> Nobody]
    /\ finder = [a \in Accounts |-> Nobody]
    /\ loading = Nobody
    /\ held = [m \in Managers |-> {}]

Playing(s) == game[s].status # "GONE"

\* Mutant: the player is added there and stays here.
Move_Copies(s, from, to) == held' = [held EXCEPT ![to] = @ \cup {s}]

\* deletePlayer here, pushPlayer or addPlayer there.
Move(s, from, to) ==
    held' = [held EXCEPT ![from] = @ \ {s}, ![to] = @ \cup {s}]

\* The ClientManager thread is not inside CGConnect.
ClientThreadFree == loading = Nobody

-----------------------------------------------------------------------------
(* Datagrams from the login server (LoginServerManager thread). *)

\* LGIncomingConnection: a new key for the client's IP replaces an older one.
LGIncomingConnection(m) ==
    /\ m \in net
    /\ m.type = "LGIncoming"
    /\ \E k \in Keys :
         /\ conn' = [conn EXCEPT ![m.host] = [id |-> m.id, key |-> k]]
         /\ Exchange({m}, {[type |-> "GLIncomingOK", id |-> m.id, key |-> k]})
    /\ UNCHANGED <<dbVars, tickets, game, finder, loading, held>>

\* LGKickCharacter: a character in the game is marked, and answered for when it
\* leaves; one that is not is answered for at once.
LGKickCharacter(m) ==
    /\ m \in net
    /\ m.type = "LGKick"
    /\ LET s == finder[m.name]
       IN  IF s = Nobody
           THEN /\ Exchange({m}, {[type |-> "GLKickVerify", sock |-> m.sock,
                                   name |-> m.name, try |-> m.try]})
                /\ UNCHANGED game
           ELSE /\ Receive(m)
                /\ game' = [game EXCEPT ![s].kicked = TRUE, ![s].forLogin = TRUE]
    /\ UNCHANGED <<dbVars, tickets, conn, finder, loading, held>>

\* getPlayer, then getReadyPlayer: by account, among the incoming players first.
IsIncoming(s, a) == s \in held["ipm"] /\ game[s].id = a
IsReady(s, a) ==
    /\ s \in held["ipmQueue"] /\ game[s].id = a
    /\ \A r \in GameSockets : ~IsIncoming(r, a)

\* Mutant: the packet is stored whatever the player is doing.
KeepsKey_Always(s) == TRUE

KeepsKey(s) == game[s].status = "GPS_AFTER_SENDING_GL_INCOMING_CONNECTION"

\* LGIncomingConnectionOK: whoever is found is kicked; one that was logging out
\* keeps the key for the GCReconnectLogin it is sent when it goes.
LGIncomingConnectionOK(m) ==
    /\ m \in net
    /\ m.type = "LGIncomingOK"
    /\ Receive(m)
    /\ \/ \E s \in GameSockets :
             /\ IsIncoming(s, m.id) \/ IsReady(s, m.id)
             /\ game' = [game EXCEPT
                    ![s].kicked = TRUE,
                    ![s].key = IF KeepsKey(s) THEN m.key ELSE @]
       \/ /\ \A s \in GameSockets : ~IsIncoming(s, m.id) /\ ~IsReady(s, m.id)
          /\ UNCHANGED game
    /\ UNCHANGED <<dbVars, tickets, conn, finder, loading, held>>

\* LGIncomingConnectionError: its Assert leaves a player alone that is not logging out.
LGIncomingConnectionError(m) ==
    /\ m \in net
    /\ m.type = "LGIncomingError"
    /\ Receive(m)
    /\ game' \in
         {[game EXCEPT ![s].kicked =
              @ \/ game[s].status = "GPS_AFTER_SENDING_GL_INCOMING_CONNECTION"] :
            s \in {r \in GameSockets : IsIncoming(r, m.id)}}
         \cup {g \in {game} : \A s \in GameSockets : ~IsIncoming(s, m.id)}
    /\ UNCHANGED <<dbVars, tickets, conn, finder, loading, held>>

-----------------------------------------------------------------------------
(* IncomingPlayerManager (ClientManager thread). *)

(***************************************************************************)
(* disconnect() and the destructor of a GamePlayer whose m_ID is id by     *)
(* then: its account's GAME row becomes LOGOFF, a reconnect packet it has  *)
(* is sent, and its character's name leaves the PCFinder.                  *)
(***************************************************************************)
Destroy(s, id) ==
    /\ game' = [game EXCEPT ![s] = Gone]
    /\ logon' = UpdateWhere(id, "GAME", "LOGOFF")
    /\ finder' = IF game[s].pc = Nobody
                 THEN finder ELSE [finder EXCEPT ![game[s].pc] = Nobody]
    /\ tickets' \in IF game[s].key = Nobody
                    THEN {tickets}
                    ELSE Hand({[to |-> "login", host |-> game[s].host,
                                id |-> game[s].id, key |-> game[s].key]})
    /\ UNCHANGED loginIP

\* ... of a player taken from the incoming players or from their queue.
Remove(s, id) ==
    /\ Destroy(s, id)
    /\ held' = [held EXCEPT !["ipm"] = @ \ {s}, !["ipmQueue"] = @ \ {s}]

\* acceptNewConnection: only from an address the login server announced.  It
\* comes after the heartbeat that empties the queues of deleted players.
AcceptGame(s, h) ==
    /\ ClientThreadFree
    /\ ~Playing(s)
    /\ \A m \in Managers : s \notin held[m]
    /\ conn[h] # Nobody
    /\ game' = [game EXCEPT ![s] = [Gone EXCEPT !.status = "GPS_BEGIN_SESSION",
                                                !.host = h]]
    /\ held' = [held EXCEPT !["ipm"] = @ \cup {s}]
    /\ UNCHANGED <<dbVars, linkVars, conn, finder, loading>>

\* Mutant: a player who logs out is left to the login server's answer.
IncomingMayEnd_NotLoggingOut(s) ==
    s \in held["ipm"] /\ game[s].status # "GPS_AFTER_SENDING_GL_INCOMING_CONNECTION"

IncomingMayEnd(s) == s \in held["ipm"]

\* processCommands, processInputs, processExceptions: the client is gone, idle
\* too long or marked as kicked.
IncomingDisconnect(s) ==
    /\ ClientThreadFree
    /\ IncomingMayEnd(s)
    /\ Remove(s, game[s].id)
    /\ UNCHANGED <<net, conn, loading>>

\* ConnectionInfoManager::heartbeat: the entry's 30 seconds are over.
ConnectionInfoExpires(h) ==
    /\ ClientThreadFree
    /\ conn[h] # Nobody
    /\ conn' = [conn EXCEPT ![h] = Nobody]
    /\ UNCHANGED <<dbVars, linkVars, game, finder, loading, held>>
-----------------------------------------------------------------------------
(* CGConnect (ClientManager thread), with the key and name of ticket t. *)

UsesTicket(s, t) ==
    /\ ClientThreadFree
    /\ s \in held["ipm"]
    /\ game[s].status = "GPS_BEGIN_SESSION"
    /\ ~game[s].kicked
    /\ t \in tickets /\ t.to = "game" /\ t.host = game[s].host

MatchesInfo(t) ==
    /\ conn[t.host] # Nobody
    /\ conn[t.host].key = t.key
    /\ conn[t.host].id = t.id

\* No entry for the address, or another key or character: m_ID is not set yet.
CGConnectUnknown(s, t) ==
    /\ UsesTicket(s, t)
    /\ ~MatchesInfo(t)
    /\ game' = [game EXCEPT ![s] = Gone]
    /\ held' = [held EXCEPT !["ipm"] = @ \ {s}]
    /\ tickets' = tickets \ {t}
    /\ UNCHANGED <<dbVars, net, conn, finder, loading>>

\* The entry has expired, or the row is not LOGOFF: m_ID is set by now, so that
\* the disconnect turns a GAME row of that account to LOGOFF.
CGConnectRefused(s, t) ==
    /\ UsesTicket(s, t)
    /\ MatchesInfo(t)
    /\ conn' = [conn EXCEPT ![t.host] = Nobody]
    /\ logon' = UpdateWhere(t.id, "GAME", "LOGOFF")
    /\ game' = [game EXCEPT ![s] = Gone]
    /\ held' = [held EXCEPT !["ipm"] = @ \ {s}]
    /\ tickets' = tickets \ {t}
    /\ UNCHANGED <<loginIP, net, finder, loading>>

\* The guarded UPDATE takes the row; the character is now read from the database.
CGConnectTakesRow(s, t) ==
    /\ UsesTicket(s, t)
    /\ MatchesInfo(t)
    /\ RowFree(t.id)
    /\ conn' = [conn EXCEPT ![t.host] = Nobody]
    /\ logon' = UpdateWhere(t.id, "LOGOFF", "GAME")
    /\ game' = [game EXCEPT ![s].id = t.id]
    /\ loading' = s
    /\ tickets' = tickets \ {t}
    /\ UNCHANGED <<loginIP, net, finder, held>>

\* Mutant: addCreature overwrites the entry it finds.
InPCFinder_Never(a) == FALSE

InPCFinder(a) == finder[a] # Nobody

\* Mutant: the status stays at GPS_BEGIN_SESSION.
CGConnectEnters_KeepsStatus(s) ==
    /\ loading = s
    /\ ~InPCFinder(game[s].id)
    /\ finder' = [finder EXCEPT ![game[s].id] = s]
    /\ game' = [game EXCEPT ![s].pc = game[s].id]
    /\ loading' = Nobody
    /\ UNCHANGED <<dbVars, linkVars, conn, held>>

\* PCFinder::addCreature accepts the character.
CGConnectEnters(s) ==
    /\ loading = s
    /\ ~InPCFinder(game[s].id)
    /\ finder' = [finder EXCEPT ![game[s].id] = s]
    /\ game' = [game EXCEPT ![s].pc = game[s].id, ![s].status = "GPS_WAITING_FOR_CG_READY"]
    /\ loading' = Nobody
    /\ UNCHANGED <<dbVars, linkVars, conn, held>>

\* bAlreadyConnected: m_ID is emptied, so that the disconnect leaves the row alone.
CGConnectDuplicate(s) ==
    /\ loading = s
    /\ InPCFinder(game[s].id)
    /\ Remove(s, Nobody)
    /\ loading' = Nobody
    /\ UNCHANGED <<net, conn>>

\* Mutant: m_ID is emptied on this error path too.
CGConnectLoadFails_KeepsRow(s) ==
    /\ loading = s
    /\ Remove(s, Nobody)
    /\ loading' = Nobody
    /\ UNCHANGED <<net, conn>>

\* The character, its items or its guild cannot be loaded.
CGConnectLoadFails(s) ==
    /\ loading = s
    /\ Remove(s, game[s].id)
    /\ loading' = Nobody
    /\ UNCHANGED <<net, conn>>

IsLoaded(s) ==
    /\ ClientThreadFree
    /\ s \in held["ipm"]
    /\ game[s].status = "GPS_WAITING_FOR_CG_READY"
    /\ ~game[s].kicked

\* Mutant: the status is left at GPS_WAITING_FOR_CG_READY.
CGReady_KeepsStatus(s) ==
    /\ IsLoaded(s)
    /\ Move(s, "ipm", "ipmOut")
    /\ UNCHANGED <<dbVars, linkVars, game, conn, finder, loading>>

\* CGReady: the client has loaded its zone.
CGReady(s) ==
    /\ IsLoaded(s)
    /\ Move(s, "ipm", "ipmOut")
    /\ game' = [game EXCEPT ![s].status = "GPS_NORMAL"]
    /\ UNCHANGED <<dbVars, linkVars, conn, finder, loading>>

(***************************************************************************)
(* CGReady, and a later packet of the batch processCommand is reading is   *)
(* refused or fails.  The player is destroyed; deletePlayer throws, since  *)
(* CGReady took it from the incoming players already, so deleteQueuePlayer *)
(* is not reached and the pointer stays in the queue it was pushed to.     *)
(***************************************************************************)
CGReadyThenFails(s) ==
    /\ PacketsAfterReady
    /\ IsLoaded(s)
    /\ Destroy(s, game[s].id)
    /\ Move(s, "ipm", "ipmOut")
    /\ UNCHANGED <<net, conn, loading>>

-----------------------------------------------------------------------------
(* IncomingPlayerManager::heartbeat (ClientManager thread), player by player. *)

\* A kicked player is disconnected; a login server that asked for it is told.
\* The answer carries this server's descriptor, not the ID of the request.
HeartbeatKicked(s) ==
    /\ ClientThreadFree
    /\ s \in held["ipmQueue"]
    /\ game[s].kicked
    /\ Remove(s, game[s].id)
    /\ IF game[s].forLogin
       THEN Send({[type |-> "GLKickVerify", sock |-> s, name |-> game[s].pc, try |-> 0]})
       ELSE UNCHANGED net
    /\ UNCHANGED <<conn, loading>>

\* One that changes zones waits for CGReady again; one that logs out is
\* announced to the login server.
HeartbeatIncoming(s) ==
    /\ ClientThreadFree
    /\ s \in held["ipmQueue"]
    /\ ~game[s].kicked
    /\ Move(s, "ipmQueue", "ipm")
    /\ IF game[s].status = "GPS_AFTER_SENDING_GL_INCOMING_CONNECTION"
       THEN Send({[type |-> "GLIncoming", host |-> game[s].host, id |-> game[s].id]})
       ELSE UNCHANGED net
    /\ UNCHANGED <<dbVars, tickets, game, conn, finder, loading>>

HeartbeatOut(s) ==
    /\ ClientThreadFree
    /\ Playing(s)
    /\ s \in held["ipmOut"]
    /\ Move(s, "ipmOut", "zpmIn")
    /\ UNCHANGED <<dbVars, linkVars, game, conn, finder, loading>>

\* What comes of the pointer to a deleted player is undefined.  Here catch (...)
\* drops it; that it takes the server down is GameServerRestarts.
HeartbeatDrops(s) ==
    /\ ClientThreadFree
    /\ ~Playing(s)
    /\ s \in held["ipmOut"]
    /\ held' = [held EXCEPT !["ipmOut"] = @ \ {s}]
    /\ UNCHANGED <<dbVars, linkVars, game, conn, finder, loading>>

-----------------------------------------------------------------------------
(* ZonePlayerManager (ZoneGroupThread). *)

\* processPlayerListQueue: the character enters its zone.
EnterZone(s) ==
    /\ s \in held["zpmIn"]
    /\ Move(s, "zpmIn", "zpm")
    /\ UNCHANGED <<dbVars, linkVars, game, conn, finder, loading>>

\* CGLogoutHandler, for the packet or for a player who must go (kick): out of the
\* zone, a first GLIncomingConnection to UDP port 9999, then the status.
Logout(s, kick) ==
    /\ s \in held["zpm"]
    /\ Move(s, "zpm", "zpmOut")
    /\ game' = [game EXCEPT ![s].status = "GPS_AFTER_SENDING_GL_INCOMING_CONNECTION",
                            ![s].kicked = @ \/ kick]
    /\ IF LogoutPortHeard
       THEN Send({[type |-> "GLIncoming", host |-> game[s].host, id |-> game[s].id]})
       ELSE UNCHANGED net
    /\ UNCHANGED <<dbVars, tickets, conn, finder, loading>>

CGLogout(s) == ~game[s].kicked /\ Logout(s, FALSE)

\* processInputs, processCommands: the client is gone, idle or marked as kicked.
ZoneKick(s) == Logout(s, TRUE)

\* Mutant: a player marked as kicked changes zone like any other, and the mark is set anew.
ChangeZone_Unmarks(s, kick) ==
    /\ s \in held["zpm"]
    /\ Move(s, "zpm", "zpmOut")
    /\ game' = [game EXCEPT ![s].status = "GPS_WAITING_FOR_CG_READY",
                            ![s].kicked = kick]
    /\ UNCHANGED <<dbVars, linkVars, conn, finder, loading>>

\* transportCreature: to another zone, by way of the incoming players.  If a later
\* packet of the batch is refused, the player is marked, and CGLogoutHandler throws
\* before it changes anything: the player is in no zone by then.
ChangeZone(s, kick) ==
    /\ s \in held["zpm"]
    /\ ~game[s].kicked
    /\ Move(s, "zpm", "zpmOut")
    /\ game' = [game EXCEPT ![s].status = "GPS_WAITING_FOR_CG_READY",
                            ![s].kicked = kick]
    /\ UNCHANGED <<dbVars, linkVars, conn, finder, loading>>

\* Mutant: the queue of players who left is emptied, and nobody takes them.
LeaveZone_Forgets(s) ==
    /\ s \in held["zpmOut"]
    /\ held' = [held EXCEPT !["zpmOut"] = @ \ {s}]
    /\ UNCHANGED <<dbVars, linkVars, game, conn, finder, loading>>

\* heartbeat: players who left go back to the incoming players.
LeaveZone(s) ==
    /\ s \in held["zpmOut"]
    /\ Move(s, "zpmOut", "ipmQueue")
    /\ UNCHANGED <<dbVars, linkVars, game, conn, finder, loading>>

-----------------------------------------------------------------------------
\* The game server dies and is started again: IncomingPlayerManager::init
\* resets the rows it had set to GAME.
GameServerRestarts ==
    /\ game' = [s \in GameSockets |-> Gone]
    /\ conn' = [h \in Hosts |-> Nobody]
    /\ finder' = [a \in Accounts |-> Nobody]
    /\ loading' = Nobody
    /\ held' = [m \in Managers |-> {}]
    /\ logon' = UpdateAllWhere("GAME", "LOGOFF")
    /\ UNCHANGED <<loginIP, linkVars>>

GameClientStep(s) ==
    \/ \E h \in Hosts : AcceptGame(s, h)
    \/ IncomingDisconnect(s)
    \/ \E t \in tickets : \/ CGConnectUnknown(s, t)
                         \/ CGConnectRefused(s, t)
                         \/ CGConnectTakesRow(s, t)
    \/ CGConnectEnters(s) \/ CGConnectDuplicate(s) \/ CGConnectLoadFails(s)
    \/ CGReady(s) \/ CGReadyThenFails(s)
    \/ HeartbeatKicked(s) \/ HeartbeatIncoming(s) \/ HeartbeatOut(s) \/ HeartbeatDrops(s)

ZoneStep(s) ==
    \/ EnterZone(s) \/ CGLogout(s) \/ ZoneKick(s) \/ LeaveZone(s)
    \/ \E kick \in BOOLEAN : ChangeZone(s, kick)

GameDatagramStep(m) ==
    \/ LGIncomingConnection(m)
    \/ LGKickCharacter(m)
    \/ LGIncomingConnectionOK(m)
    \/ LGIncomingConnectionError(m)

GameServerStep ==
    \/ \E s \in GameSockets : GameClientStep(s) \/ ZoneStep(s)
    \/ \E m \in net : GameDatagramStep(m)
    \/ \E h \in Hosts : ConnectionInfoExpires(h)
=============================================================================
