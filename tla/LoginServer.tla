------------------------------ MODULE LoginServer ------------------------------
(***************************************************************************)
(* The login server's side of an account session: connections              *)
(* (LoginPlayer, LoginPlayerManager), the handlers of the client packets   *)
(* CLLogin, CLReconnectLogin, CLGetPCList, CLSelectPC and of the game      *)
(* server's datagrams, and the keys of players who come back               *)
(* (ReconnectLoginInfoManager).                                            *)
(*                                                                         *)
(* The ClientManager thread runs the client handlers and the timers, the   *)
(* GameServerManager thread the datagram handlers; both hold the           *)
(* LoginPlayerManager lock while they do, so a handler is one action.      *)
(* A search that would meet several sessions of one account finds the one  *)
(* with the lowest descriptor; here it may find any.                       *)
(* Timers are not clocked: an armed deadline may pass at any moment.       *)
(***************************************************************************)
EXTENDS AccountTable

CONSTANTS MaxFailures, \* failed logins a connection survives: 3 in CLLoginHandler
          MaxKicks     \* kick waits before the row is taken over: maxWaitForKickCharacterCount

ASSUME LimitAssumption == MaxFailures \in Nat /\ MaxKicks \in Nat \ {0}

VARIABLES login,  \* the LoginPlayer on each descriptor
          reconn  \* ReconnectLoginInfo by client IP

loginVars == <<login, reconn>>

LPS == {"LPS_BEGIN_SESSION", "LPS_WAITING_FOR_CL_GET_PC_LIST", "LPS_PC_MANAGEMENT",
        "LPS_AFTER_SENDING_LG_INCOMING_CONNECTION", "LPS_WAITING_FOR_GL_KICK_VERIFY"}

\* No LoginPlayer on the descriptor.
Closed == [status |-> "CLOSED", id |-> Nobody, host |-> Nobody, name |-> Nobody,
           kicks |-> 0, fails |-> 0]

\* name is m_LastCharacterName, kicks m_KickCharacterCount (counted up to MaxKicks:
\* it is only compared with it), fails m_FailureCount.
LoginPlayers ==
    [status : LPS, id : Accounts \cup {Nobody}, host : Hosts,
     name : Accounts \cup {Nobody}, kicks : 0..MaxKicks, fails : 0..MaxFailures]

ReconnectLoginInfos == [id : Accounts, key : Keys]

LoginTypeOK ==
    /\ login \in [LoginSockets -> LoginPlayers \cup {Closed}]
    /\ reconn \in [Hosts -> ReconnectLoginInfos \cup {Nobody}]

LoginInit ==
    /\ login = [s \in LoginSockets |-> Closed]
    /\ reconn = [h \in Hosts |-> Nobody]

Live(s) == login[s].status # "CLOSED"

\* The statuses of a session that was let in: it holds its account's LOGON row.
Admitted == {"LPS_WAITING_FOR_CL_GET_PC_LIST", "LPS_PC_MANAGEMENT",
             "LPS_AFTER_SENDING_LG_INCOMING_CONNECTION"}

-----------------------------------------------------------------------------
(* Ending a session. *)

\* Mutant: disconnect() forgets the row.
EndSession_KeepsRow(s, id) ==
    login' = [login EXCEPT ![s] = Closed] /\ UNCHANGED dbVars

\* Mutant: a session that waits for another server's kick frees the row as well.
EndSession_FreesAlways(s, id) ==
    /\ login' = [login EXCEPT ![s] = Closed]
    /\ logon' = UpdateWhere(id, "LOGON", "LOGOFF")
    /\ UNCHANGED loginIP

\* disconnect() of a session whose m_ID is id by then, and its deletion.
EndSession(s, id) ==
    /\ login' = [login EXCEPT ![s] = Closed]
    /\ logon' = IF login[s].status = "LPS_WAITING_FOR_GL_KICK_VERIFY"
                THEN logon
                ELSE UpdateWhere(id, "LOGON", "LOGOFF")
    /\ UNCHANGED loginIP

\* acceptNewConnection
Accept(s, h) ==
    /\ ~Live(s)
    /\ login' = [login EXCEPT ![s] = [Closed EXCEPT !.status = "LPS_BEGIN_SESSION",
                                                    !.host = h]]
    /\ UNCHANGED <<dbVars, linkVars, reconn>>

\* The connection has gone, the client broke the protocol, or it logged out (CLLogout).
ClientGone(s) ==
    /\ Live(s)
    /\ EndSession(s, login[s].id)
    /\ UNCHANGED <<linkVars, reconn>>

\* Mutant: the idle check is skipped in the state in which packets are ignored.
IdleIsChecked_NotWhenIgnoring(s) ==
    login[s].status \notin {"CLOSED", "LPS_WAITING_FOR_GL_KICK_VERIFY",
                            "LPS_AFTER_SENDING_LG_INCOMING_CONNECTION"}

\* processCommand returns before the idle check while it waits for GLKickVerify.
IdleIsChecked(s) ==
    login[s].status \notin {"CLOSED", "LPS_WAITING_FOR_GL_KICK_VERIFY"}

\* No packet was accepted for maxIdleSec.
IdleExpires(s) ==
    /\ IdleIsChecked(s)
    /\ EndSession(s, login[s].id)
    /\ UNCHANGED <<linkVars, reconn>>

\* The pre-authentication deadline armed at accept.
PreAuthExpires(s) ==
    /\ login[s].status = "LPS_BEGIN_SESSION"
    /\ EndSession(s, login[s].id)
    /\ UNCHANGED <<linkVars, reconn>>

-----------------------------------------------------------------------------
(* Kicking the account's character out of the game. *)

\* sendLGKickCharacter of a session whose m_ID is id; try is the count it had.
\* The character's name is looked up once per connection, then kept.
KickedName(s, id) == IF login[s].name = Nobody THEN id ELSE login[s].name

SendLGKickCharacter(s, id, try) ==
    Send({[type |-> "LGKick", sock |-> s, name |-> KickedName(s, id), try |-> try]})

\* Mutant: the number of rows the UPDATE changed is not looked at.
TakesRow_Always(id) == id # Nobody

\* The UPDATE of sendLCLoginOK has no WHERE on LogOn, but no row changes when
\* it is LOGON already, and the session is then sent back to LPS_BEGIN_SESSION.
TakesRow(id) == id # Nobody /\ logon[id] # "LOGON"

AfterLCLoginOK(s) ==
    IF TakesRow(login[s].id) THEN "LPS_WAITING_FOR_CL_GET_PC_LIST" ELSE "LPS_BEGIN_SESSION"

SendLCLoginOK(s) ==
    /\ logon' = IF TakesRow(login[s].id)
                THEN [logon EXCEPT ![login[s].id] = "LOGON"] ELSE logon
    /\ loginIP' = IF TakesRow(login[s].id)
                  THEN [loginIP EXCEPT ![login[s].id] = login[s].host] ELSE loginIP

\* Mutant: m_KickCharacterCount is compared before it is counted up for good.
NextKickCount_Forgotten(k) == k

\* ++m_KickCharacterCount
NextKickCount(k) == IF k < MaxKicks THEN k + 1 ELSE MaxKicks

\* processCommand while LPS_WAITING_FOR_GL_KICK_VERIFY: three seconds passed.
KickWaitExpires(s) ==
    /\ login[s].status = "LPS_WAITING_FOR_GL_KICK_VERIFY"
    /\ LET count == NextKickCount(login[s].kicks)
       IN  /\ SendLGKickCharacter(s, login[s].id, count)
           /\ IF count >= MaxKicks
              THEN /\ SendLCLoginOK(s)
                   /\ login' = [login EXCEPT ![s].kicks = count,
                                             ![s].status = AfterLCLoginOK(s)]
              ELSE /\ login' = [login EXCEPT ![s].kicks = count]
                   /\ UNCHANGED dbVars
    /\ UNCHANGED <<tickets, reconn>>

\* Mutant: the character's name is not compared.
VerifyIsFor_Any(s, m) == s \in LoginSockets /\ Live(s)

\* The session on the answer's descriptor asked for this character.
VerifyIsFor(s, m) == s \in LoginSockets /\ Live(s) /\ login[s].name = m.name

\* GLKickVerify: the session is found by descriptor and checked by name only.
GLKickVerify(m) ==
    /\ m \in net
    /\ m.type = "GLKickVerify"
    /\ Receive(m)
    /\ IF VerifyIsFor(m.sock, m)
       THEN /\ SendLCLoginOK(m.sock)
            /\ login' = [login EXCEPT ![m.sock].status = AfterLCLoginOK(m.sock)]
       ELSE UNCHANGED <<login, dbVars>>
    /\ UNCHANGED <<tickets, reconn>>
-----------------------------------------------------------------------------
(* CLLogin, by a connection in LPS_BEGIN_SESSION. *)

\* Mutant: one failure more is let pass.
MayFailAgain_Late(s) == login[s].fails <= MaxFailures

MayFailAgain(s) == login[s].fails < MaxFailures

\* A counted failure; the one after MaxFailures ends the connection.
Fails(s) ==
    IF MayFailAgain(s)
    THEN /\ login' = [login EXCEPT ![s].fails = @ + 1]
         /\ UNCHANGED dbVars
    ELSE EndSession(s, login[s].id)

\* No row matches the ID and password.
CLLoginWrongPassword(s) ==
    /\ login[s].status = "LPS_BEGIN_SESSION"
    /\ Fails(s)
    /\ UNCHANGED <<linkVars, reconn>>

\* ALREADY_CONNECTED: another login session has the account, or the game is
\* played from another address than this one.
CLLoginAlreadyConnected(s, a) ==
    /\ login[s].status = "LPS_BEGIN_SESSION"
    /\ \/ logon[a] = "LOGON"
       \/ logon[a] = "GAME" /\ loginIP[a] # login[s].host
    /\ Fails(s)
    /\ UNCHANGED <<linkVars, reconn>>

\* The account is in the game from this very address: kick that character first.
CLLoginKick(s, a) ==
    /\ login[s].status = "LPS_BEGIN_SESSION"
    /\ logon[a] = "GAME"
    /\ loginIP[a] = login[s].host
    /\ SendLGKickCharacter(s, a, login[s].kicks)
    /\ login' = [login EXCEPT ![s].status = "LPS_WAITING_FOR_GL_KICK_VERIFY",
                              ![s].id = a,
                              ![s].name = KickedName(s, a),
                              ![s].fails = 0]
    /\ UNCHANGED <<dbVars, tickets, reconn>>

\* LCLoginOK: the guarded UPDATE took the row.
CLLoginOK(s, a) ==
    /\ login[s].status = "LPS_BEGIN_SESSION"
    /\ RowFree(a)
    /\ logon' = UpdateWhere(a, "LOGOFF", "LOGON")
    /\ loginIP' = [loginIP EXCEPT ![a] = login[s].host]
    /\ login' = [login EXCEPT ![s].status = "LPS_WAITING_FOR_CL_GET_PC_LIST",
                              ![s].id = a,
                              ![s].fails = 0]
    /\ UNCHANGED <<linkVars, reconn>>

CLGetPCList(s) ==
    /\ login[s].status = "LPS_WAITING_FOR_CL_GET_PC_LIST"
    /\ login' = [login EXCEPT ![s].status = "LPS_PC_MANAGEMENT"]
    /\ UNCHANGED <<dbVars, linkVars, reconn>>

-----------------------------------------------------------------------------
(* Going into the game. *)

CLSelectPC(s) ==
    /\ login[s].status = "LPS_PC_MANAGEMENT"
    /\ login' = [login EXCEPT ![s].status = "LPS_AFTER_SENDING_LG_INCOMING_CONNECTION"]
    /\ Send({[type |-> "LGIncoming", host |-> login[s].host, id |-> login[s].id]})
    /\ UNCHANGED <<dbVars, tickets, reconn>>

\* The session is found by account; it ends whatever it was doing, and only
\* one that was waiting for this answer gets the LCReconnect.
GLIncomingConnectionOK(m) ==
    /\ m \in net
    /\ m.type = "GLIncomingOK"
    /\ Receive(m)
    /\ \/ \E s \in LoginSockets :
             /\ login[s].id = m.id
             /\ EndSession(s, m.id)
             /\ tickets' \in IF login[s].status = "LPS_AFTER_SENDING_LG_INCOMING_CONNECTION"
                             THEN Hand({[to |-> "game", host |-> login[s].host,
                                         id |-> m.id, key |-> m.key]})
                             ELSE {tickets}
       \/ /\ \A s \in LoginSockets : login[s].id # m.id
          /\ UNCHANGED <<login, dbVars, tickets>>
    /\ UNCHANGED reconn

-----------------------------------------------------------------------------
(* Coming back from the game. *)

\* GLIncomingConnection: one entry per client IP, a second is an error.
GLIncomingConnection(m) ==
    /\ m \in net
    /\ m.type = "GLIncoming"
    /\ \/ /\ reconn[m.host] = Nobody
          /\ \E k \in Keys :
               /\ reconn' = [reconn EXCEPT ![m.host] = [id |-> m.id, key |-> k]]
               /\ Exchange({m}, {[type |-> "LGIncomingOK", id |-> m.id, key |-> k]})
       \/ /\ reconn[m.host] # Nobody
          /\ Exchange({m}, {[type |-> "LGIncomingError", id |-> m.id]})
          /\ UNCHANGED reconn
    /\ UNCHANGED <<login, dbVars, tickets>>

\* heartbeat: the entry's 30 seconds are over.
ReconnectLoginInfoExpires(h) ==
    /\ reconn[h] # Nobody
    /\ reconn' = [reconn EXCEPT ![h] = Nobody]
    /\ UNCHANGED <<login, dbVars, linkVars>>

(***************************************************************************)
(* CLReconnectLogin with the key of ticket t.  m_ID is set from the host's *)
(* entry before the key is compared, so a rejected client is disconnected  *)
(* under that account.  A row that is not LOGOFF resets m_ID to "NONE".    *)
(***************************************************************************)
CLReconnectLoginRejected(s, t) ==
    /\ login[s].status = "LPS_BEGIN_SESSION"
    /\ t \in tickets /\ t.to = "login" /\ t.host = login[s].host
    /\ tickets' = tickets \ {t}
    /\ LET info == reconn[t.host]
       IN  \/ /\ info = Nobody
             /\ EndSession(s, login[s].id)
             /\ UNCHANGED reconn
          \/ /\ info # Nobody
             /\ info.key # t.key
             /\ EndSession(s, info.id)
             /\ UNCHANGED reconn
          \/ /\ info # Nobody      \* right key, but the entry has expired
             /\ info.key = t.key
             /\ reconn' = [reconn EXCEPT ![t.host] = Nobody]
             /\ EndSession(s, info.id)
          \/ /\ info # Nobody
             /\ info.key = t.key
             /\ ~RowFree(info.id)
             /\ reconn' = [reconn EXCEPT ![t.host] = Nobody]
             /\ EndSession(s, Nobody)
    /\ UNCHANGED net

CLReconnectLoginOK(s, t) ==
    /\ login[s].status = "LPS_BEGIN_SESSION"
    /\ t \in tickets /\ t.to = "login" /\ t.host = login[s].host
    /\ tickets' = tickets \ {t}
    /\ reconn[t.host] # Nobody
    /\ reconn[t.host].key = t.key
    /\ reconn' = [reconn EXCEPT ![t.host] = Nobody]
    /\ LET a == reconn[t.host].id
       IN  /\ RowFree(a)
           /\ logon' = UpdateWhere(a, "LOGOFF", "LOGON")
           /\ login' = [login EXCEPT ![s].status = "LPS_PC_MANAGEMENT", ![s].id = a]
    /\ UNCHANGED <<loginIP, net>>

-----------------------------------------------------------------------------
\* The login server dies and is started again: LoginPlayerManager::init
\* resets the rows it had set to LOGON.
LoginServerRestarts ==
    /\ login' = [s \in LoginSockets |-> Closed]
    /\ reconn' = [h \in Hosts |-> Nobody]
    /\ logon' = UpdateAllWhere("LOGON", "LOGOFF")
    /\ UNCHANGED <<loginIP, linkVars>>

LoginClientStep(s) ==
    \/ \E h \in Hosts : Accept(s, h)
    \/ ClientGone(s) \/ IdleExpires(s) \/ PreAuthExpires(s)
    \/ CLLoginWrongPassword(s)
    \/ \E a \in Accounts : \/ CLLoginAlreadyConnected(s, a)
                          \/ CLLoginKick(s, a)
                          \/ CLLoginOK(s, a)
    \/ CLGetPCList(s)
    \/ CLSelectPC(s)
    \/ \E t \in tickets : CLReconnectLoginRejected(s, t) \/ CLReconnectLoginOK(s, t)
    \/ KickWaitExpires(s)

LoginDatagramStep(m) ==
    GLKickVerify(m) \/ GLIncomingConnectionOK(m) \/ GLIncomingConnection(m)

LoginServerStep ==
    \/ \E s \in LoginSockets : LoginClientStep(s)
    \/ \E m \in net : LoginDatagramStep(m)
    \/ \E h \in Hosts : ReconnectLoginInfoExpires(h)
=============================================================================
