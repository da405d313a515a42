------------------------------ MODULE LoginHandoff ------------------------------
(***************************************************************************)
(* The login server and the game server together, with the clients and the *)
(* network between them: an account logs in, is handed to the game server, *)
(* plays, is handed back or kicked by a second login, while datagrams are  *)
(* lost or late and either server may be restarted.                        *)
(***************************************************************************)
EXTENDS LoginServer, GameServer

CONSTANT Restarts \* whether the servers are ever restarted

ASSUME RestartsAssumption == Restarts \in BOOLEAN

vars == <<dbVars, linkVars, loginVars, gameVars>>

TypeOK == TableTypeOK /\ LinkTypeOK /\ LoginTypeOK /\ GameTypeOK

Init == TableInit /\ LinkInit /\ LoginInit /\ GameInit

LoginStep == LoginServerStep /\ UNCHANGED gameVars
GameStep == GameServerStep /\ UNCHANGED loginVars
ClientStep == (\E t \in tickets : ClientGivesUp(t)) /\ UNCHANGED <<loginVars, gameVars>>

RestartStep ==
    /\ Restarts
    /\ \/ LoginServerRestarts /\ UNCHANGED gameVars
       \/ GameServerRestarts /\ UNCHANGED loginVars

Next == LoginStep \/ GameStep \/ ClientStep \/ RestartStep

Spec == Init /\ [][Next]_vars

(***************************************************************************)
(* Fairness of the servers' loops.  The login server's ClientManager       *)
(* visits every connection in every pass, so that a deadline that has      *)
(* passed is acted on.  The game server's ClientManager does too, and all  *)
(* it may be doing instead is loading a character for a CGConnect, which   *)
(* ends: hence strong fairness for what it does between two.  Nothing is   *)
(* assumed of clients, of the network, or of the idle deadline of a client *)
(* whose packets still push it out.                                        *)
(***************************************************************************)
LoginFairness(s) ==
    /\ WF_vars(KickWaitExpires(s) /\ UNCHANGED gameVars)
    /\ WF_vars(/\ login[s].status = "LPS_AFTER_SENDING_LG_INCOMING_CONNECTION"
               /\ IdleExpires(s) /\ UNCHANGED gameVars)

GameFairness(s) ==
    /\ WF_vars((CGConnectEnters(s) \/ CGConnectDuplicate(s)) /\ UNCHANGED loginVars)
    /\ SF_vars(/\ \/ game[s].kicked
                  \/ game[s].status = "GPS_AFTER_SENDING_GL_INCOMING_CONNECTION"
               /\ IncomingDisconnect(s) /\ UNCHANGED loginVars)
    /\ SF_vars((HeartbeatKicked(s) \/ HeartbeatIncoming(s)) /\ UNCHANGED loginVars)
    /\ SF_vars(HeartbeatOut(s) /\ UNCHANGED loginVars)
    /\ WF_vars(EnterZone(s) /\ UNCHANGED loginVars)
    /\ WF_vars(game[s].kicked /\ ZoneKick(s) /\ UNCHANGED loginVars)
    /\ WF_vars(LeaveZone(s) /\ UNCHANGED loginVars)

FairSpec ==
    /\ Spec
    /\ \A s \in LoginSockets : LoginFairness(s)
    /\ \A s \in GameSockets : GameFairness(s)

-----------------------------------------------------------------------------
(* Invariants. *)

(***************************************************************************)
(* A live game connection is in the hands of exactly one player manager or *)
(* queue, and none holds a deleted one, while ClientManager, zone thread   *)
(* and heartbeats pass it around.  The one exception is the pointer that a *)
(* batch which fails after its CGReady leaves in IncomingPlayerManager's   *)
(* out queue.                                                              *)
(***************************************************************************)
HeldOnce ==
    \A s \in GameSockets :
        /\ Playing(s) => \E m \in Managers : s \in held[m]
        /\ \A m, n \in Managers : s \in held[m] /\ s \in held[n] => m = n
        /\ \A m \in Managers :
             s \in held[m] => Playing(s) \/ (PacketsAfterReady /\ m = "ipmOut")

(***************************************************************************)
(* The PCFinder names, for every character, exactly the connection that    *)
(* plays it, so no two ever play the same one, although the LogOn row that *)
(* CGConnect tests may have been freed or taken over under a live player.  *)
(***************************************************************************)
OnePlayerPerCharacter ==
    \A a \in Accounts, s \in GameSockets : finder[a] = s <=> game[s].pc = a

(***************************************************************************)
(* A GAME row is never left behind: while one is there, some connection of *)
(* the game server has the account's ID and will free it when it ends,     *)
(* also after duplicates, failed loads and refusals on other connections.  *)
(***************************************************************************)
GameRowHasConnection ==
    \A a \in Accounts : logon[a] = "GAME" => \E s \in GameSockets : game[s].id = a

(***************************************************************************)
(* What is known of a connection agrees with how far it has come: it has   *)
(* an account from the row taken in CGConnect on and the character of that *)
(* account from the PCFinder entry on, and only a connection with a        *)
(* character is asked to go for a login or holds a reconnect key.          *)
(***************************************************************************)
PlayerHasAccount ==
    \A s \in GameSockets :
        /\ game[s].status = "GPS_BEGIN_SESSION" =>
              /\ game[s].pc = Nobody
              /\ game[s].id # Nobody <=> loading = s
              /\ s \in held["ipm"]
        /\ game[s].status \notin {"GONE", "GPS_BEGIN_SESSION"} =>
              game[s].id # Nobody /\ game[s].pc = game[s].id
        /\ loading = s => game[s].status = "GPS_BEGIN_SESSION"
        /\ game[s].forLogin \/ game[s].key # Nobody => game[s].pc # Nobody

\* A login session beyond LPS_BEGIN_SESSION has an account, and one that waits
\* for a kick the name of the character it asked for.
SessionHasAccount ==
    \A s \in LoginSockets :
        /\ login[s].status \in Admitted => login[s].id # Nobody
        /\ login[s].status = "LPS_WAITING_FOR_GL_KICK_VERIFY" =>
              login[s].id # Nobody /\ login[s].name # Nobody

(***************************************************************************)
(* The inductive invariant of LoginHandoffProofs: the datagrams and the    *)
(* reconnect packets the two servers send always carry an account, and no  *)
(* handler reaches a player who was deleted, because connections keep to   *)
(* one manager and know who they are.                                      *)
(***************************************************************************)
HandoffInv ==
    /\ TypeOK
    /\ SessionHasAccount
    /\ HeldOnce
    /\ PlayerHasAccount
    /\ OnePlayerPerCharacter
    /\ GameRowHasConnection

(***************************************************************************)
(* Where a connection is agrees with its status, as the assertions on the  *)
(* players taken from the queues and the status switch of heartbeat        *)
(* expect: what is or goes in a zone is NORMAL with a registered           *)
(* character; what comes out of one is about to load or to log out.        *)
(***************************************************************************)
PlaceFitsStatus ==
    \A s \in GameSockets : Playing(s) =>
        /\ s \in held["ipmOut"] \cup held["zpmIn"] \cup held["zpm"] =>
              game[s].status = "GPS_NORMAL" /\ finder[game[s].pc] = s
        /\ s \in held["zpmOut"] \cup held["ipmQueue"] =>
              /\ game[s].status \in {"GPS_WAITING_FOR_CG_READY",
                                     "GPS_AFTER_SENDING_GL_INCOMING_CONNECTION"}
              /\ finder[game[s].pc] = s
        /\ s \in held["ipm"] => game[s].status # "GPS_NORMAL"

(***************************************************************************)
(* A connection that holds a GCReconnectLogin is marked for the disconnect *)
(* that sends it, and has told the login server that it is logging out:    *)
(* the key is neither stored for a player who stays nor forgotten.         *)
(***************************************************************************)
ReconnectIsOnItsWay ==
    \A s \in GameSockets : game[s].key # Nobody =>
        /\ game[s].kicked
        /\ game[s].status = "GPS_AFTER_SENDING_GL_INCOMING_CONNECTION"
        /\ s \in held["ipm"] \cup held["ipmQueue"]

-----------------------------------------------------------------------------
(* Action properties. *)

(***************************************************************************)
(* A session is let in only by the step that takes the account's row: it   *)
(* was not LOGON before, for another session, and is LOGON after.  CLLogin,*)
(* CLReconnectLogin, and a GLKickVerify or a kick wait at any later time.  *)
(***************************************************************************)
AdmissionTakesRow ==
    [][\A s \in LoginSockets :
         login[s].status \notin Admitted /\ login'[s].status \in Admitted =>
             logon[login'[s].id] # "LOGON" /\ logon'[login'[s].id] = "LOGON"]_vars

(***************************************************************************)
(* An admitted session that ends, for whatever reason, leaves its row free *)
(* for the next login or for the CGConnect it was ended for.               *)
(***************************************************************************)
EndingFreesRow ==
    [][\A s \in LoginSockets :
         login[s].status \in Admitted /\ login'[s].status = "CLOSED" =>
             logon'[login[s].id] # "LOGON"]_vars

(***************************************************************************)
(* A player's GAME row becomes LOGON under it only for a session of that   *)
(* account which asked the game server to kick a character, however late,  *)
(* lost or misdirected the answers are.                                    *)
(***************************************************************************)
TakeoverWasAsked ==
    [][\A a \in Accounts : logon[a] = "GAME" /\ logon'[a] = "LOGON" =>
         \E s \in LoginSockets : login[s].id = a /\ login[s].name # Nobody]_vars

(***************************************************************************)
(* A connection that LGKickCharacter or a refusal marked as kicked stays   *)
(* marked until it is gone: no thread that changes its status or hands it  *)
(* on meanwhile writes the mark away.                                      *)
(***************************************************************************)
KickIsNotForgotten ==
    [][\A s \in GameSockets :
         game[s].kicked => game'[s].kicked \/ game'[s] = Gone]_vars

\* The sessions that were let in for account a.
Holders(a) == {s \in LoginSockets : login[s].status \in Admitted /\ login[s].id = a}

(***************************************************************************)
(* A row that is LOGON has a session to free it, from the step that sets   *)
(* it on; it loses the last one only when the answer to a second           *)
(* LGKickCharacter puts that session back to LPS_BEGIN_SESSION.            *)
(***************************************************************************)
LogonIsHeld ==
    [][\A a \in Accounts : logon'[a] = "LOGON" /\ Holders(a)' = {} =>
         \/ logon[a] = "LOGON" /\ Holders(a) = {}
         \/ \E s \in Holders(a) :
                login'[s].status = "LPS_BEGIN_SESSION" /\ login'[s].id = a]_vars

\* Session r goes on, and the row it was let in for is LOGON no more.
LosesRow(r) ==
    /\ login[r].status \in Admitted /\ login'[r].status \in Admitted
    /\ logon[login[r].id] = "LOGON" /\ logon'[login[r].id] # "LOGON"

\* A connection that is not let in (not yet, put back, or refused) ends.
OutsiderEnds ==
    \E s \in LoginSockets : login[s].status = "LPS_BEGIN_SESSION" /\ login'[s] = Closed

(***************************************************************************)
(* The row of a session that goes on is freed under it only by the end of  *)
(* another session that was let in for the account, or of a connection at  *)
(* LPS_BEGIN_SESSION: one that was put back with the account's ID, or      *)
(* whose CLReconnectLogin took the ID before its key was refused.          *)
(***************************************************************************)
RowFreedByEnding ==
    [][\A r \in LoginSockets :
         LosesRow(r) =>
             \/ OutsiderEnds
             \/ \E s \in Holders(login[r].id) \ {r} : login'[s] = Closed]_vars

-----------------------------------------------------------------------------
(***************************************************************************)
(* The two servers keep the promise of AccountSession: the rows they       *)
(* update, the game connections that have an account's ID, and the         *)
(* PCFinder as the one that plays.                                         *)
(***************************************************************************)
Promise ==
    INSTANCE AccountSession
    WITH Connections <- GameSockets,
         row <- logon,
         owner <- [s \in GameSockets |-> game[s].id],
         player <- finder

\* The implementation of AccountSession by the two servers.
ImplementsAccountSession == Promise!SessionSpec

-----------------------------------------------------------------------------
(* Liveness, under FairSpec. *)

(***************************************************************************)
(* A session that waits for the game server to kick its character is       *)
(* answered, ends, or takes the row itself: lost datagrams do not hold it. *)
(***************************************************************************)
KickWaitEnds ==
    \A s \in LoginSockets : login[s].status = "LPS_WAITING_FOR_GL_KICK_VERIFY"
                       ~> login[s].status # "LPS_WAITING_FOR_GL_KICK_VERIFY"

(***************************************************************************)
(* A connection marked as kicked is disconnected, whichever thread's       *)
(* manager or queue it was in when LGKickCharacter marked it.              *)
(***************************************************************************)
KickedLeaves ==
    \A s \in GameSockets : game[s].kicked ~> ~game[s].kicked

(***************************************************************************)
(* A player who logs out is gone in the end, also when GLIncomingConnection*)
(* or its answer is lost: its packets are ignored and do not refresh the   *)
(* idle deadline.                                                          *)
(***************************************************************************)
LogoutEnds ==
    \A s \in GameSockets :
        game[s].status = "GPS_AFTER_SENDING_GL_INCOMING_CONNECTION"
        ~> game[s].status # "GPS_AFTER_SENDING_GL_INCOMING_CONNECTION"

(***************************************************************************)
(* A player who selected a character is handed over or disconnected, also  *)
(* when LGIncomingConnection or its answer is lost.                        *)
(***************************************************************************)
SelectEnds ==
    \A s \in LoginSockets :
        login[s].status = "LPS_AFTER_SENDING_LG_INCOMING_CONNECTION"
        ~> login[s].status # "LPS_AFTER_SENDING_LG_INCOMING_CONNECTION"

-----------------------------------------------------------------------------
(* What the repository says, and the code does not do. *)

(***************************************************************************)
(* LOGIN_SMOKE.md: once the character is in the world its row is GAME.     *)
(***************************************************************************)
PlayingRowIsGame == \A s \in held["zpm"] : logon[game[s].id] = "GAME"

(***************************************************************************)
(* CLReconnectLoginHandler, LoginPlayer: multiple logins are denied.  No   *)
(* two admitted login sessions have one account.                           *)
(***************************************************************************)
NoMultiLogin ==
    \A r, s \in LoginSockets :
        /\ login[r].status \in Admitted
        /\ login[s].status \in Admitted
        /\ login[r].id = login[s].id
        => r = s

(***************************************************************************)
(* IncomingPlayerManager::heartbeat asserts that what it takes from its    *)
(* out queue is a player with a character.                                 *)
(***************************************************************************)
QueuedPlayerIsAlive ==
    \A s \in held["ipmOut"] : Playing(s) /\ game[s].pc # Nobody

-----------------------------------------------------------------------------
(***************************************************************************)
(* What it takes for the code not to do so: where these hold, the theorems *)
(* show, the claims do (QueuedPlayerIsAlive, if ~PacketsAfterReady).       *)
(***************************************************************************)

\* Of the steps of the promise, two never happen: no login session takes a row that is
\* GAME, when its kick is answered or given up, and no CGConnect refused for its row, or
\* for its expired entry, frees with its disconnect one that is.
GameRowsAreLeft == [][\A a \in Accounts : ~Promise!TakeOver(a) /\ ~Promise!Refuse(a)]_vars

\* No connection at LPS_BEGIN_SESSION frees the row of a session with its end.
OutsidersFreeNothing ==
    [][\A r \in LoginSockets : LosesRow(r) => ~OutsiderEnds]_vars

\* sendLCLoginOK puts no session back because it finds the row LOGON: by another session's
\* login, or by an earlier answer to one of its own LGKickCharacters.
NoneIsPutBack ==
    \A s \in LoginSockets : login[s].status = "LPS_BEGIN_SESSION" => login[s].id = Nobody

\* Then a LOGON row always has a session that will free it ...
LogonRowHasSession == \A a \in Accounts : logon[a] = "LOGON" => Holders(a) # {}

\* ... and a session has only the character of its own account kicked.
KicksOwnCharacter ==
    \A s \in LoginSockets : login[s].name # Nobody => login[s].name = login[s].id
=============================================================================
