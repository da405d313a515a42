--------------------------- MODULE LoginHandoffProofs ---------------------------
(***************************************************************************)
(* Proofs about LoginHandoff for any sets of accounts, hosts, descriptors  *)
(* and keys, any bounds, and with or without restarts: HandoffInv is       *)
(* inductive, and what follows from it.                                    *)
(***************************************************************************)
EXTENDS LoginHandoff, TLAPS

-----------------------------------------------------------------------------
(* The shared state: the Player table and the two kinds of messages. *)

\* No row becomes GAME by a step of the login server.
NoRowIntoGame == \A a \in Accounts : logon'[a] = "GAME" => logon[a] = "GAME"

\* Both UPDATE forms keep the type of the column they set.
LEMMA UpdateType ==
    ASSUME logon \in [Accounts -> LogOnValues], NEW old, NEW new \in LogOnValues
    PROVE  /\ \A id : UpdateWhere(id, old, new) \in [Accounts -> LogOnValues]
           /\ UpdateAllWhere(old, new) \in [Accounts -> LogOnValues]
BY DEF UpdateWhere, UpdateAllWhere

\* What is in flight after an exchange was there before or is sent by it.
LEMMA ExchangeType ==
    ASSUME net \subseteq Datagrams, NEW received, NEW sent \in SUBSET Datagrams,
           Exchange(received, sent)
    PROVE  net' \subseteq Datagrams
BY DEF Exchange

\* The packets clients hold after one is handed out.
LEMMA HandType ==
    ASSUME tickets \subseteq Tickets, NEW ts \in SUBSET Tickets, tickets' \in Hand(ts)
    PROVE  tickets' \subseteq Tickets
BY DEF Hand

-----------------------------------------------------------------------------
(* The login server. *)

\* A session as TypeOK and SessionHasAccount want each to be.
GoodSession(p) ==
    /\ p \in LoginPlayers \cup {Closed}
    /\ p.status \in Admitted => p.id # Nobody
    /\ p.status = "LPS_WAITING_FOR_GL_KICK_VERIFY" => p.id # Nobody /\ p.name # Nobody

\* What the login server's steps rely on and keep.
LoginInv ==
    /\ TableTypeOK
    /\ LinkTypeOK
    /\ LoginTypeOK
    /\ SessionHasAccount

LEMMA ClosedIsGood == GoodSession(Closed)
BY DEF GoodSession, Closed, Admitted

\* Sessions stay good if the one that changes becomes a good one.
LEMMA SessionChange ==
    ASSUME login \in [LoginSockets -> LoginPlayers \cup {Closed}], SessionHasAccount,
           NEW s \in LoginSockets, NEW p, GoodSession(p),
           login' = [login EXCEPT ![s] = p]
    PROVE  login' \in [LoginSockets -> LoginPlayers \cup {Closed}] /\ SessionHasAccount'
BY DEF GoodSession, SessionHasAccount

\* A session that ends frees its row or leaves it alone.
LEMMA EndSessionKeeps ==
    ASSUME LoginInv, NEW s \in LoginSockets, NEW id, EndSession(s, id)
    PROVE  /\ TableTypeOK'
           /\ login' \in [LoginSockets -> LoginPlayers \cup {Closed}]
           /\ SessionHasAccount'
           /\ NoRowIntoGame
<1>1. login' \in [LoginSockets -> LoginPlayers \cup {Closed}] /\ SessionHasAccount'
  BY ClosedIsGood, SessionChange DEF LoginInv, LoginTypeOK, EndSession
<1>2. TableTypeOK'
  BY UpdateType DEF LoginInv, TableTypeOK, LogOnValues, EndSession
<1>3. NoRowIntoGame
  BY DEF LoginInv, TableTypeOK, NoRowIntoGame, EndSession, UpdateWhere
<1> QED BY <1>1, <1>2, <1>3
\* A session whose status is not CLOSED is a LoginPlayer.
LEMMA LiveSession ==
    ASSUME LoginInv, NEW s \in LoginSockets, login[s].status # "CLOSED"
    PROVE  login[s] \in LoginPlayers
BY DEF LoginInv, LoginTypeOK, Closed

\* sendLGKickCharacter sends a kick that names an account.
LEMMA KickSent ==
    ASSUME LoginInv, NEW s \in LoginSockets, Live(s), NEW id \in Accounts, NEW try \in Nat,
           SendLGKickCharacter(s, id, try)
    PROVE  net' \subseteq Datagrams
<1>1. login[s].name \in Accounts \cup {Nobody}
  BY LiveSession DEF Live, LoginPlayers
<1>2. {[type |-> "LGKick", sock |-> s, name |-> KickedName(s, id), try |-> try]} \in SUBSET Datagrams
  BY <1>1 DEF KickedName, Datagrams, KickDatagrams, Sockets
<1> QED
  BY <1>2, ExchangeType DEF LoginInv, LinkTypeOK, SendLGKickCharacter, Send

\* sendLCLoginOK takes the row of the session's account or none.
LEMMA LoginOKKeepsTable ==
    ASSUME LoginInv, NEW s \in LoginSockets, Live(s), SendLCLoginOK(s)
    PROVE  TableTypeOK' /\ NoRowIntoGame
<1>1. login[s].host \in Hosts /\ login[s].id \in Accounts \cup {Nobody}
  BY LiveSession DEF Live, LoginPlayers
<1> QED
  BY <1>1 DEF LoginInv, TableTypeOK, LogOnValues, NoRowIntoGame, SendLCLoginOK, TakesRow

\* ... and the session gets a status that agrees with that.
LEMMA LoginOKStatus ==
    ASSUME NEW s
    PROVE  /\ AfterLCLoginOK(s) \in LPS \ {"LPS_WAITING_FOR_GL_KICK_VERIFY"}
           /\ AfterLCLoginOK(s) \in Admitted => login[s].id # Nobody
BY DEF AfterLCLoginOK, TakesRow, LPS, Admitted

\* The kick counter stays within its bound.
LEMMA KickCountType ==
    ASSUME NEW k \in 0..MaxKicks
    PROVE  NextKickCount(k) \in 0..MaxKicks
BY LimitAssumption DEF NextKickCount

\* A step in which a session ends, and reconnect packets or entries go.
LEMMA EndStepKeeps ==
    ASSUME LoginInv, NEW s \in LoginSockets, NEW id, EndSession(s, id),
           net' \subseteq Datagrams, tickets' \subseteq Tickets,
           reconn' \in [Hosts -> ReconnectLoginInfos \cup {Nobody}]
    PROVE  LoginInv' /\ NoRowIntoGame
BY EndSessionKeeps DEF LoginInv, LinkTypeOK, LoginTypeOK

\* A step in which a session changes, and the table with it.
LEMMA SessionStepKeeps ==
    ASSUME LoginInv, NEW s \in LoginSockets, NEW p, GoodSession(p),
           login' = [login EXCEPT ![s] = p],
           TableTypeOK', NoRowIntoGame,
           net' \subseteq Datagrams, tickets' \subseteq Tickets,
           reconn' \in [Hosts -> ReconnectLoginInfos \cup {Nobody}]
    PROVE  LoginInv' /\ NoRowIntoGame
BY SessionChange DEF LoginInv, LinkTypeOK, LoginTypeOK

\* A failed login is counted or ends the connection.
LEMMA FailsKeeps ==
    ASSUME LoginInv, NEW s \in LoginSockets, login[s].status = "LPS_BEGIN_SESSION",
           Fails(s), UNCHANGED <<linkVars, reconn>>
    PROVE  LoginInv' /\ NoRowIntoGame
<1> USE DEF linkVars, LinkTypeOK, LoginTypeOK
<1>1. CASE MayFailAgain(s)
  <2> DEFINE p == [login[s] EXCEPT !.fails = @ + 1]
  <2>1. login[s] \in LoginPlayers
    BY LiveSession
  <2>2. GoodSession(p)
    BY <1>1, <2>1, LimitAssumption DEF GoodSession, MayFailAgain, LoginPlayers, Admitted
  <2>3. login' = [login EXCEPT ![s] = p] /\ UNCHANGED dbVars
    BY <1>1 DEF Fails
  <2>4. TableTypeOK' /\ NoRowIntoGame
    BY <2>3 DEF LoginInv, TableTypeOK, dbVars, NoRowIntoGame
  <2> QED
    BY <2>2, <2>3, <2>4, SessionStepKeeps DEF LoginInv
<1>2. CASE ~MayFailAgain(s)
  BY <1>2, EndStepKeeps DEF Fails, LoginInv
<1> QED BY <1>1, <1>2

\* Both counters of a session start at 0.
LEMMA CountersStart == 0 \in 0..MaxFailures /\ 0 \in 0..MaxKicks
BY LimitAssumption

\* Steps of one connection's client or timers.
LEMMA LoginClientStepKeeps ==
    ASSUME LoginInv, NEW s \in LoginSockets, LoginClientStep(s)
    PROVE  LoginInv' /\ NoRowIntoGame
<1> USE DEF linkVars, LinkTypeOK, LoginTypeOK
<1>t. /\ net \subseteq Datagrams /\ tickets \subseteq Tickets
      /\ reconn \in [Hosts -> ReconnectLoginInfos \cup {Nobody}]
      /\ logon \in [Accounts -> LogOnValues]
      /\ loginIP \in [Accounts -> Hosts \cup {Nobody}]
      /\ Nobody \notin Accounts
  BY NobodyAssumption DEF LoginInv, TableTypeOK
<1>u. UNCHANGED dbVars => TableTypeOK' /\ NoRowIntoGame
  BY DEF LoginInv, TableTypeOK, dbVars, NoRowIntoGame
<1>1. ASSUME NEW h \in Hosts, Accept(s, h) PROVE LoginInv' /\ NoRowIntoGame
  <2> DEFINE p == [Closed EXCEPT !.status = "LPS_BEGIN_SESSION", !.host = h]
  <2>1. GoodSession(p)
    BY CountersStart DEF GoodSession, Closed, LoginPlayers, LPS, Admitted
  <2>2. login' = [login EXCEPT ![s] = p]
    BY <1>1 DEF Accept
  <2> QED BY <1>1, <1>t, <1>u, <2>1, <2>2, SessionStepKeeps DEF Accept
<1>2. ASSUME ClientGone(s) \/ IdleExpires(s) \/ PreAuthExpires(s)
      PROVE  LoginInv' /\ NoRowIntoGame
  BY <1>2, <1>t, EndStepKeeps DEF ClientGone, IdleExpires, PreAuthExpires
<1>3. ASSUME CLLoginWrongPassword(s) \/ \E a \in Accounts : CLLoginAlreadyConnected(s, a)
      PROVE  LoginInv' /\ NoRowIntoGame
  BY <1>3, FailsKeeps DEF CLLoginWrongPassword, CLLoginAlreadyConnected
<1>4. ASSUME NEW a \in Accounts, CLLoginKick(s, a) PROVE LoginInv' /\ NoRowIntoGame
  <2> DEFINE p == [login[s] EXCEPT !.status = "LPS_WAITING_FOR_GL_KICK_VERIFY",
                                   !.id = a, !.name = KickedName(s, a), !.fails = 0]
  <2>1. login[s] \in LoginPlayers
    BY <1>4, LiveSession DEF CLLoginKick
  <2>2. login[s].kicks \in Nat /\ Live(s)
    BY <1>4, <2>1, LimitAssumption DEF LoginPlayers, CLLoginKick, Live
  <2>3. net' \subseteq Datagrams
    BY <1>4, <2>2, KickSent DEF CLLoginKick
  <2>4. GoodSession(p)
    <3>1. KickedName(s, a) \in Accounts
      BY <2>1 DEF KickedName, LoginPlayers
    <3>2. p \in LoginPlayers
      BY <2>1, <3>1, CountersStart DEF LoginPlayers, LPS
    <3>3. p.status = "LPS_WAITING_FOR_GL_KICK_VERIFY" /\ p.id = a /\ p.name = KickedName(s, a)
      BY <2>1 DEF LoginPlayers
    <3> QED BY <1>t, <3>1, <3>2, <3>3 DEF GoodSession, Admitted
  <2>5. login' = [login EXCEPT ![s] = p]
    BY <1>4 DEF CLLoginKick
  <2> QED BY <1>4, <1>t, <1>u, <2>3, <2>4, <2>5, SessionStepKeeps DEF CLLoginKick
<1>5. ASSUME NEW a \in Accounts, CLLoginOK(s, a) PROVE LoginInv' /\ NoRowIntoGame
  <2> DEFINE p == [login[s] EXCEPT !.status = "LPS_WAITING_FOR_CL_GET_PC_LIST",
                                   !.id = a, !.fails = 0]
  <2>1. login[s] \in LoginPlayers
    BY <1>5, LiveSession DEF CLLoginOK
  <2>2. GoodSession(p)
    <3>1. p \in LoginPlayers
      BY <2>1, CountersStart DEF LoginPlayers, LPS
    <3>2. p.status = "LPS_WAITING_FOR_CL_GET_PC_LIST" /\ p.id = a
      BY <2>1 DEF LoginPlayers
    <3> QED BY <1>t, <3>1, <3>2 DEF GoodSession
  <2>3. login' = [login EXCEPT ![s] = p]
    BY <1>5 DEF CLLoginOK
  <2>4. TableTypeOK' /\ NoRowIntoGame
    <3>1. login[s].host \in Hosts
      BY <2>1 DEF LoginPlayers
    <3> QED BY <1>5, <1>t, <3>1, UpdateType
            DEF CLLoginOK, TableTypeOK, LogOnValues, NoRowIntoGame, UpdateWhere
  <2> QED BY <1>5, <1>t, <2>2, <2>3, <2>4, SessionStepKeeps DEF CLLoginOK
<1>6. ASSUME CLGetPCList(s) PROVE LoginInv' /\ NoRowIntoGame
  <2> DEFINE p == [login[s] EXCEPT !.status = "LPS_PC_MANAGEMENT"]
  <2>1. login[s] \in LoginPlayers /\ login[s].id # Nobody
    BY <1>6, LiveSession DEF CLGetPCList, LoginInv, SessionHasAccount, Admitted
  <2>2. GoodSession(p)
    BY <2>1 DEF GoodSession, LoginPlayers, LPS
  <2>3. login' = [login EXCEPT ![s] = p]
    BY <1>6 DEF CLGetPCList
  <2> QED BY <1>6, <1>t, <1>u, <2>2, <2>3, SessionStepKeeps DEF CLGetPCList
<1>7. ASSUME CLSelectPC(s) PROVE LoginInv' /\ NoRowIntoGame
  <2> DEFINE p == [login[s] EXCEPT !.status = "LPS_AFTER_SENDING_LG_INCOMING_CONNECTION"]
  <2>1. login[s] \in LoginPlayers /\ login[s].id # Nobody
    BY <1>7, LiveSession DEF CLSelectPC, LoginInv, SessionHasAccount, Admitted
  <2>2. GoodSession(p)
    BY <2>1 DEF GoodSession, LoginPlayers, LPS
  <2>3. login' = [login EXCEPT ![s] = p]
    BY <1>7 DEF CLSelectPC
  <2>4. {[type |-> "LGIncoming", host |-> login[s].host, id |-> login[s].id]}
          \in SUBSET Datagrams
    BY <2>1 DEF LoginPlayers, Datagrams, IncomingRequests
  <2>5. net' \subseteq Datagrams
    BY <1>7, <1>t, <2>4, ExchangeType DEF CLSelectPC, Send
  <2> QED BY <1>7, <1>t, <1>u, <2>2, <2>3, <2>5, SessionStepKeeps DEF CLSelectPC
<1>8. ASSUME NEW t \in tickets, CLReconnectLoginRejected(s, t) PROVE LoginInv' /\ NoRowIntoGame
  <2>1. \E id : EndSession(s, id)
    BY <1>8 DEF CLReconnectLoginRejected
  <2>2. /\ net' \subseteq Datagrams /\ tickets' \subseteq Tickets
        /\ reconn' \in [Hosts -> ReconnectLoginInfos \cup {Nobody}]
    BY <1>8, <1>t DEF CLReconnectLoginRejected
  <2> QED BY <2>1, <2>2, EndStepKeeps
<1>9. ASSUME NEW t \in tickets, CLReconnectLoginOK(s, t) PROVE LoginInv' /\ NoRowIntoGame
  <2> DEFINE a == reconn[t.host].id
  <2> DEFINE p == [login[s] EXCEPT !.status = "LPS_PC_MANAGEMENT", !.id = a]
  <2>1. login[s] \in LoginPlayers
    BY <1>9, LiveSession DEF CLReconnectLoginOK
  <2>2. a \in Accounts
    <3>1. t.host \in Hosts
      BY <1>t DEF Tickets
    <3> QED BY <1>9, <1>t, <3>1 DEF CLReconnectLoginOK, ReconnectLoginInfos
  <2>3. GoodSession(p)
    BY <1>t, <2>1, <2>2 DEF GoodSession, LoginPlayers, LPS
  <2>4. login' = [login EXCEPT ![s] = p]
    BY <1>9 DEF CLReconnectLoginOK
  <2>5. TableTypeOK' /\ NoRowIntoGame
    BY <1>9, <1>t, UpdateType
       DEF CLReconnectLoginOK, TableTypeOK, LogOnValues, NoRowIntoGame, UpdateWhere
  <2>6. /\ net' \subseteq Datagrams /\ tickets' \subseteq Tickets
        /\ reconn' \in [Hosts -> ReconnectLoginInfos \cup {Nobody}]
    BY <1>9, <1>t DEF CLReconnectLoginOK
  <2> QED BY <2>3, <2>4, <2>5, <2>6, SessionStepKeeps
<1>10. ASSUME KickWaitExpires(s) PROVE LoginInv' /\ NoRowIntoGame
  <2> DEFINE count == NextKickCount(login[s].kicks)
  <2>1. /\ login[s] \in LoginPlayers /\ Live(s)
        /\ login[s].id # Nobody /\ login[s].name # Nobody
    BY <1>10, LiveSession DEF KickWaitExpires, LoginInv, SessionHasAccount, Live
  <2>2. count \in 0..MaxKicks /\ login[s].id \in Accounts
    BY <2>1, KickCountType DEF LoginPlayers
  <2>3. net' \subseteq Datagrams
    BY <1>10, <2>1, <2>2, KickSent, LimitAssumption DEF KickWaitExpires
  <2>4. /\ reconn' \in [Hosts -> ReconnectLoginInfos \cup {Nobody}]
        /\ tickets' \subseteq Tickets
    BY <1>10, <1>t DEF KickWaitExpires
  <2>5. CASE count >= MaxKicks
    <3> DEFINE p == [login[s] EXCEPT !.kicks = count, !.status = AfterLCLoginOK(s)]
    <3>1. GoodSession(p)
      BY <2>1, <2>2, LoginOKStatus DEF GoodSession, LoginPlayers
    <3>2. login' = [login EXCEPT ![s] = p] /\ SendLCLoginOK(s)
      BY <1>10, <2>5 DEF KickWaitExpires
    <3>3. TableTypeOK' /\ NoRowIntoGame
      BY <2>1, <3>2, LoginOKKeepsTable
    <3> QED BY <2>3, <2>4, <3>1, <3>2, <3>3, SessionStepKeeps
  <2>6. CASE ~(count >= MaxKicks)
    <3> DEFINE p == [login[s] EXCEPT !.kicks = count]
    <3>1. GoodSession(p)
      BY <1>10, <2>1, <2>2 DEF GoodSession, LoginPlayers, KickWaitExpires, Admitted
    <3>2. login' = [login EXCEPT ![s] = p] /\ UNCHANGED dbVars
      BY <1>10, <2>6 DEF KickWaitExpires
    <3> QED BY <1>u, <2>3, <2>4, <3>1, <3>2, SessionStepKeeps
  <2> QED BY <2>5, <2>6
<1> QED
  BY <1>1, <1>2, <1>3, <1>4, <1>5, <1>6, <1>7, <1>8, <1>9, <1>10 DEF LoginClientStep
\* Steps for a datagram of the game server.
LEMMA LoginDatagramStepKeeps ==
    ASSUME LoginInv, NEW m \in net, LoginDatagramStep(m)
    PROVE  LoginInv' /\ NoRowIntoGame
<1>t. /\ net \subseteq Datagrams /\ tickets \subseteq Tickets
      /\ reconn \in [Hosts -> ReconnectLoginInfos \cup {Nobody}]
      /\ Nobody \notin Accounts
  BY NobodyAssumption DEF LoginInv, LinkTypeOK, LoginTypeOK
<1>u. UNCHANGED <<dbVars, login>> =>
        /\ TableTypeOK' /\ NoRowIntoGame /\ SessionHasAccount'
        /\ login' \in [LoginSockets -> LoginPlayers \cup {Closed}]
  BY DEF LoginInv, TableTypeOK, dbVars, NoRowIntoGame, SessionHasAccount, LoginTypeOK
<1>r. Receive(m) => net' \subseteq Datagrams
  BY <1>t, ExchangeType DEF Receive
<1>1. ASSUME GLKickVerify(m) PROVE LoginInv' /\ NoRowIntoGame
  <2>1. CASE VerifyIsFor(m.sock, m)
    <3> DEFINE s == m.sock
    <3> DEFINE p == [login[s] EXCEPT !.status = AfterLCLoginOK(s)]
    <3>1. s \in LoginSockets /\ Live(s) /\ login[s] \in LoginPlayers
      BY <2>1, LiveSession DEF VerifyIsFor, Live
    <3>2. GoodSession(p)
      BY <3>1, LoginOKStatus DEF GoodSession, LoginPlayers
    <3>3. login' = [login EXCEPT ![s] = p] /\ SendLCLoginOK(s)
      BY <1>1, <2>1 DEF GLKickVerify
    <3>4. TableTypeOK' /\ NoRowIntoGame
      BY <3>1, <3>3, LoginOKKeepsTable
    <3> QED BY <1>1, <1>t, <1>r, <3>1, <3>2, <3>3, <3>4, SessionStepKeeps DEF GLKickVerify
  <2>2. CASE ~VerifyIsFor(m.sock, m)
    BY <1>1, <1>t, <1>u, <1>r, <2>2 DEF GLKickVerify, LoginInv, LinkTypeOK, LoginTypeOK
  <2> QED BY <2>1, <2>2
<1>2. ASSUME GLIncomingConnectionOK(m) PROVE LoginInv' /\ NoRowIntoGame
  <2>1. m.id \in Accounts /\ m.key \in Keys
    BY <1>2, <1>t DEF GLIncomingConnectionOK, Datagrams, IncomingRequests, IncomingReplies,
                      IncomingErrors, KickDatagrams
  <2>2. CASE \E s \in LoginSockets :
               /\ login[s].id = m.id
               /\ EndSession(s, m.id)
               /\ tickets' \in IF login[s].status = "LPS_AFTER_SENDING_LG_INCOMING_CONNECTION"
                               THEN Hand({[to |-> "game", host |-> login[s].host,
                                           id |-> m.id, key |-> m.key]})
                               ELSE {tickets}
    <3>1. PICK s \in LoginSockets :
               /\ login[s].id = m.id
               /\ EndSession(s, m.id)
               /\ tickets' \in IF login[s].status = "LPS_AFTER_SENDING_LG_INCOMING_CONNECTION"
                               THEN Hand({[to |-> "game", host |-> login[s].host,
                                           id |-> m.id, key |-> m.key]})
                               ELSE {tickets}
      BY <2>2
    <3>2. login[s] \in LoginPlayers
      BY <1>t, <2>1, <3>1 DEF LoginInv, LoginTypeOK, Closed
    <3>3. {[to |-> "game", host |-> login[s].host, id |-> m.id, key |-> m.key]}
            \in SUBSET Tickets
      BY <2>1, <3>2 DEF Tickets, LoginPlayers
    <3>4. tickets' \subseteq Tickets
      BY <1>t, <3>1, <3>3, HandType
    <3> QED BY <1>2, <1>t, <1>r, <3>1, <3>4, EndStepKeeps DEF GLIncomingConnectionOK
  <2>3. CASE UNCHANGED <<login, dbVars, tickets>>
    BY <1>2, <1>t, <1>u, <1>r, <2>3 DEF GLIncomingConnectionOK, LoginInv, LinkTypeOK, LoginTypeOK
  <2> QED BY <1>2, <2>2, <2>3 DEF GLIncomingConnectionOK
<1>3. ASSUME GLIncomingConnection(m) PROVE LoginInv' /\ NoRowIntoGame
  <2>1. m.id \in Accounts /\ m.host \in Hosts
    BY <1>3, <1>t DEF GLIncomingConnection, Datagrams, IncomingRequests, IncomingReplies,
                      IncomingErrors, KickDatagrams
  <2>2. net' \subseteq Datagrams
    <3>1. \A k \in Keys :
            {[type |-> "LGIncomingOK", id |-> m.id, key |-> k]} \in SUBSET Datagrams
      BY <2>1 DEF Datagrams, IncomingReplies
    <3>2. {[type |-> "LGIncomingError", id |-> m.id]} \in SUBSET Datagrams
      BY <2>1 DEF Datagrams, IncomingErrors
    <3> QED BY <1>3, <1>t, <3>1, <3>2, ExchangeType DEF GLIncomingConnection
  <2>3. reconn' \in [Hosts -> ReconnectLoginInfos \cup {Nobody}]
    <3>1. \A k \in Keys : [id |-> m.id, key |-> k] \in ReconnectLoginInfos
      BY <2>1 DEF ReconnectLoginInfos
    <3>2. \/ reconn' = reconn
          \/ \E k \in Keys : reconn' = [reconn EXCEPT ![m.host] = [id |-> m.id, key |-> k]]
      BY <1>3 DEF GLIncomingConnection
    <3> QED BY <1>t, <3>1, <3>2
  <2> QED BY <1>3, <1>t, <1>u, <2>2, <2>3 DEF GLIncomingConnection, LoginInv, LinkTypeOK, LoginTypeOK
<1> QED BY <1>1, <1>2, <1>3 DEF LoginDatagramStep

\* Every step of the login server.
LEMMA LoginServerStepKeeps ==
    ASSUME LoginInv, LoginServerStep
    PROVE  LoginInv' /\ NoRowIntoGame
<1>1. ASSUME NEW h \in Hosts, ReconnectLoginInfoExpires(h) PROVE LoginInv' /\ NoRowIntoGame
  BY <1>1 DEF ReconnectLoginInfoExpires, LoginInv, TableTypeOK, LinkTypeOK, LoginTypeOK,
              SessionHasAccount, NoRowIntoGame, dbVars, linkVars
<1> QED BY <1>1, LoginClientStepKeeps, LoginDatagramStepKeeps DEF LoginServerStep

\* Its restart.
LEMMA LoginServerRestartKeeps ==
    ASSUME LoginInv, LoginServerRestarts
    PROVE  LoginInv' /\ NoRowIntoGame
<1>1. TableTypeOK'
  BY UpdateType DEF LoginServerRestarts, LoginInv, TableTypeOK, LogOnValues
<1>2. NoRowIntoGame
  BY DEF LoginServerRestarts, LoginInv, TableTypeOK, NoRowIntoGame, UpdateAllWhere
<1>3. LoginTypeOK' /\ SessionHasAccount'
  BY DEF LoginServerRestarts, LoginTypeOK, SessionHasAccount, Closed, Admitted
<1> QED BY <1>1, <1>2, <1>3 DEF LoginServerRestarts, LoginInv, LinkTypeOK, linkVars
-----------------------------------------------------------------------------
(* The game server. *)

\* What the game server's steps rely on and keep.
GameInv ==
    /\ TableTypeOK
    /\ LinkTypeOK
    /\ GameTypeOK
    /\ HeldOnce
    /\ PlayerHasAccount
    /\ OnePlayerPerCharacter
    /\ GameRowHasConnection

\* A connection whose status is not GONE is a GamePlayer.
LEMMA PlayingIsPlayer ==
    ASSUME GameInv, NEW s \in GameSockets, Playing(s)
    PROVE  game[s] \in GamePlayers
BY DEF GameInv, GameTypeOK, Playing, Gone

\* Who is not Gone by its account is playing.
LEMMA KnownIsPlaying ==
    ASSUME GameInv, NEW s \in GameSockets, game[s].id # Nobody \/ game[s].pc # Nobody
    PROVE  Playing(s)
BY DEF GameInv, GameTypeOK, GamePlayers, GPS, Playing, Gone

\* What a manager holds is alive, but for IncomingPlayerManager's out queue.
LEMMA HeldIsPlaying ==
    ASSUME GameInv, NEW s \in GameSockets, NEW m \in Managers, s \in held[m], m # "ipmOut"
    PROVE  Playing(s)
BY DEF GameInv, HeldOnce

\* A connection in one manager or queue is in no other.
LEMMA HeldNowhereElse ==
    ASSUME GameInv, NEW s \in GameSockets, NEW m \in Managers, s \in held[m]
    PROVE  \A n \in Managers \ {m} : s \notin held[n]
BY DEF GameInv, HeldOnce

\* A player past GPS_BEGIN_SESSION has the character of its account.
LEMMA PlayerIsKnown ==
    ASSUME GameInv, NEW s \in GameSockets, Playing(s), game[s].status # "GPS_BEGIN_SESSION"
    PROVE  game[s].id \in Accounts /\ game[s].pc = game[s].id
<1>1. game[s].id # Nobody /\ game[s].pc = game[s].id
  BY DEF GameInv, PlayerHasAccount, Playing
<1> QED BY <1>1, PlayingIsPlayer DEF GamePlayers

\* Who is past the incoming players is past GPS_BEGIN_SESSION.
LEMMA ElsewhereIsKnown ==
    ASSUME GameInv, NEW s \in GameSockets, NEW m \in Managers, s \in held[m], m # "ipm"
    PROVE  game[s].status # "GPS_BEGIN_SESSION"
BY HeldNowhereElse DEF GameInv, PlayerHasAccount, Managers

\* Nobody is neither an account nor a descriptor nor a key.
LEMMA NobodyIsNone ==
    Nobody \notin Accounts /\ Nobody \notin GameSockets /\ Nobody \notin Keys
BY NobodyAssumption DEF Sockets

\* A move takes a connection from one place to another and nowhere else.
LEMMA MoveMoves ==
    ASSUME held \in [Managers -> SUBSET GameSockets], NEW s \in GameSockets,
           NEW from \in Managers, NEW to \in Managers, from # to, Move(s, from, to)
    PROVE  /\ held' \in [Managers -> SUBSET GameSockets]
           /\ \A m \in Managers, r \in GameSockets :
                r \in held'[m] <=> IF r = s /\ m \in {from, to} THEN m = to ELSE r \in held[m]
BY DEF Move

\* Moving a live connection keeps every connection in one place.
LEMMA MoveKeepsHeld ==
    ASSUME GameInv, NEW s \in GameSockets, NEW from \in Managers, NEW to \in Managers,
           from # to, s \in held[from], Move(s, from, to),
           Playing(s)' \/ (PacketsAfterReady /\ to = "ipmOut"),
           \A r \in GameSockets \ {s} : Playing(r)' <=> Playing(r)
    PROVE  /\ held' \in [Managers -> SUBSET GameSockets]
           /\ HeldOnce'
           /\ \A r \in GameSockets \ {s} : r \in held["ipm"] => r \in held'["ipm"]
<1>1. /\ held' \in [Managers -> SUBSET GameSockets]
      /\ \A m \in Managers, r \in GameSockets :
           r \in held'[m] <=> IF r = s /\ m \in {from, to} THEN m = to ELSE r \in held[m]
  BY MoveMoves DEF GameInv, GameTypeOK
<1>2. \A m \in Managers : s \in held'[m] <=> m = to
  BY <1>1, HeldNowhereElse
<1>3. \A r \in GameSockets \ {s}, m \in Managers : r \in held'[m] <=> r \in held[m]
  BY <1>1
<1>4. HeldOnce'
  BY <1>2, <1>3 DEF GameInv, HeldOnce
<1> QED BY <1>1, <1>3, <1>4 DEF Managers

\* A connection that goes from all managers and queues and is deleted.
LEMMA DropKeepsHeld ==
    ASSUME GameInv, NEW s \in GameSockets, ~Playing(s)',
           \A r \in GameSockets \ {s} : Playing(r)' <=> Playing(r),
           \A m \in Managers : held'[m] = held[m] \ {s}
    PROVE  HeldOnce'
BY DEF GameInv, HeldOnce

\* A change of one connection that keeps its account and its character.
LEMMA ChangeKeepsPlayers ==
    ASSUME GameInv, NEW s \in GameSockets, Playing(s), NEW p \in GamePlayers,
           game' = [game EXCEPT ![s] = p],
           p.id = game[s].id, p.pc = game[s].pc,
           p.status = "GPS_BEGIN_SESSION" <=> game[s].status = "GPS_BEGIN_SESSION",
           p.forLogin \/ p.key # Nobody => p.pc # Nobody,
           UNCHANGED <<dbVars, finder, loading>>,
           \A r \in GameSockets :
              game[r].status = "GPS_BEGIN_SESSION" => r \in held'["ipm"]
    PROVE  /\ game' \in [GameSockets -> GamePlayers \cup {Gone}]
           /\ PlayerHasAccount' /\ OnePlayerPerCharacter' /\ GameRowHasConnection'
           /\ \A r \in GameSockets : Playing(r)' <=> Playing(r)
<1>1. game' \in [GameSockets -> GamePlayers \cup {Gone}]
  BY DEF GameInv, GameTypeOK
<1>2. /\ game'[s] = p
      /\ \A r \in GameSockets \ {s} : game'[r] = game[r]
  BY DEF GameInv, GameTypeOK
<1>3. \A r \in GameSockets : /\ game'[r].id = game[r].id /\ game'[r].pc = game[r].pc
                             /\ Playing(r)' <=> Playing(r)
  BY <1>2 DEF Playing, GamePlayers, GPS
<1>4. OnePlayerPerCharacter' /\ GameRowHasConnection'
  BY <1>3 DEF GameInv, OnePlayerPerCharacter, GameRowHasConnection, dbVars
<1>5. PlayerHasAccount'
  BY <1>2, NobodyIsNone DEF GameInv, PlayerHasAccount, Playing, GamePlayers, GPS
<1> QED BY <1>1, <1>3, <1>4, <1>5

\* A connection is deleted: its character leaves the PCFinder, and no row is
\* left in GAME that only it would have freed.
LEMMA GoneKeepsPlayers ==
    ASSUME GameInv, NEW s \in GameSockets, Playing(s),
           game' = [game EXCEPT ![s] = Gone],
           finder' = IF game[s].pc = Nobody
                     THEN finder ELSE [finder EXCEPT ![game[s].pc] = Nobody],
           loading' \in {loading, Nobody}, loading' # s,
           held["ipm"] \ {s} \subseteq held'["ipm"],
           \A a \in Accounts : logon'[a] = "GAME" =>
              /\ logon[a] = "GAME"
              /\ game[s].id # a \/ \E r \in GameSockets \ {s} : game[r].id = a,
           loading' = loading \/ loading = s
    PROVE  /\ game' \in [GameSockets -> GamePlayers \cup {Gone}]
           /\ finder' \in [Accounts -> GameSockets \cup {Nobody}]
           /\ loading' \in GameSockets \cup {Nobody}
           /\ PlayerHasAccount' /\ OnePlayerPerCharacter' /\ GameRowHasConnection'
           /\ ~Playing(s)' /\ \A r \in GameSockets \ {s} : Playing(r)' <=> Playing(r)
<1>1. /\ game' \in [GameSockets -> GamePlayers \cup {Gone}]
      /\ finder' \in [Accounts -> GameSockets \cup {Nobody}]
      /\ loading' \in GameSockets \cup {Nobody}
  BY DEF GameInv, GameTypeOK
<1>2. /\ game'[s] = Gone
      /\ \A r \in GameSockets \ {s} : game'[r] = game[r]
  BY DEF GameInv, GameTypeOK
<1>3. ~Playing(s)' /\ \A r \in GameSockets \ {s} : Playing(r)' <=> Playing(r)
  BY <1>2 DEF Playing, Gone
<1>4. PlayerHasAccount'
  BY <1>2, NobodyIsNone DEF GameInv, PlayerHasAccount, Gone
<1>5. GameRowHasConnection'
  BY <1>2 DEF GameInv, GameRowHasConnection
<1>6. OnePlayerPerCharacter'
  <2> SUFFICES ASSUME NEW a \in Accounts, NEW r \in GameSockets
               PROVE  finder'[a] = r <=> game'[r].pc = a
    BY DEF OnePlayerPerCharacter
  <2>1. finder[a] = r <=> game[r].pc = a
    BY DEF GameInv, OnePlayerPerCharacter
  <2>2. finder[a] = s <=> game[s].pc = a
    BY DEF GameInv, OnePlayerPerCharacter
  <2>3. finder'[a] = IF game[s].pc = a THEN Nobody ELSE finder[a]
    BY NobodyIsNone DEF GameInv, GameTypeOK
  <2> QED BY <1>2, <2>1, <2>2, <2>3, NobodyIsNone DEF Gone
<1> QED BY <1>1, <1>3, <1>4, <1>5, <1>6
\* disconnect() and the destructor of a player that is not loading any more.
LEMMA DestroyKeeps ==
    ASSUME GameInv, NEW s \in GameSockets, Playing(s), NEW id, Destroy(s, id),
           id = game[s].id \/ \E r \in GameSockets \ {s} : game[r].id = game[s].id,
           loading' \in {loading, Nobody}, loading' # s, loading' = loading \/ loading = s,
           held["ipm"] \ {s} \subseteq held'["ipm"]
    PROVE  /\ TableTypeOK'
           /\ tickets' \subseteq Tickets
           /\ game' \in [GameSockets -> GamePlayers \cup {Gone}]
           /\ finder' \in [Accounts -> GameSockets \cup {Nobody}]
           /\ loading' \in GameSockets \cup {Nobody}
           /\ PlayerHasAccount' /\ OnePlayerPerCharacter' /\ GameRowHasConnection'
           /\ ~Playing(s)' /\ \A r \in GameSockets \ {s} : Playing(r)' <=> Playing(r)
<1>1. TableTypeOK'
  BY UpdateType DEF GameInv, TableTypeOK, LogOnValues, Destroy
<1>2. tickets' \subseteq Tickets
  <2>1. CASE game[s].key = Nobody
    BY <2>1 DEF Destroy, GameInv, LinkTypeOK
  <2>2. CASE game[s].key # Nobody
    <3>1. game[s] \in GamePlayers
      BY PlayingIsPlayer
    <3>2. game[s].status # "GPS_BEGIN_SESSION"
      BY <2>2 DEF GameInv, PlayerHasAccount
    <3>3. game[s].id \in Accounts
      BY <3>2, PlayerIsKnown
    <3>4. {[to |-> "login", host |-> game[s].host, id |-> game[s].id, key |-> game[s].key]}
            \in SUBSET Tickets
      BY <2>2, <3>1, <3>3 DEF GamePlayers, Tickets
    <3> QED BY <2>2, <3>4, HandType DEF Destroy, GameInv, LinkTypeOK
  <2> QED BY <2>1, <2>2
<1>3. \A a \in Accounts : logon'[a] = "GAME" =>
         /\ logon[a] = "GAME"
         /\ game[s].id # a \/ \E r \in GameSockets \ {s} : game[r].id = a
  BY DEF Destroy, UpdateWhere, GameInv, TableTypeOK
<1>4. /\ game' = [game EXCEPT ![s] = Gone]
      /\ finder' = IF game[s].pc = Nobody
                   THEN finder ELSE [finder EXCEPT ![game[s].pc] = Nobody]
  BY DEF Destroy
<1> HIDE DEF Destroy
<1> QED BY <1>1, <1>2, <1>3, <1>4, GoneKeepsPlayers

\* ... from the incoming players or their queue.
LEMMA RemoveKeeps ==
    ASSUME GameInv, NEW s \in GameSockets, s \in held["ipm"] \cup held["ipmQueue"],
           NEW id, Remove(s, id),
           id = game[s].id \/ \E r \in GameSockets \ {s} : game[r].id = game[s].id,
           loading' \in {loading, Nobody}, loading' # s, loading' = loading \/ loading = s,
           net' \subseteq Datagrams, UNCHANGED conn
    PROVE  GameInv'
<1>1. Playing(s)
  BY HeldIsPlaying DEF Managers
<1>2. /\ held' \in [Managers -> SUBSET GameSockets]
      /\ held["ipm"] \ {s} \subseteq held'["ipm"]
  BY DEF Remove, GameInv, GameTypeOK, Managers
<1>3. \A m \in Managers : held'[m] = held[m] \ {s}
  <2>1. \A m \in Managers \ {"ipm", "ipmQueue"} : s \notin held[m]
    BY HeldNowhereElse DEF Managers
  <2> QED BY <2>1 DEF Remove, GameInv, GameTypeOK, Managers
<1>4. Destroy(s, id)
  BY DEF Remove
<1>5. /\ TableTypeOK'
      /\ tickets' \subseteq Tickets
      /\ game' \in [GameSockets -> GamePlayers \cup {Gone}]
      /\ finder' \in [Accounts -> GameSockets \cup {Nobody}]
      /\ loading' \in GameSockets \cup {Nobody}
      /\ PlayerHasAccount' /\ OnePlayerPerCharacter' /\ GameRowHasConnection'
      /\ ~Playing(s)' /\ \A r \in GameSockets \ {s} : Playing(r)' <=> Playing(r)
  BY <1>1, <1>2, <1>4, DestroyKeeps
<1>6. HeldOnce'
  BY <1>3, <1>5, DropKeepsHeld
<1> QED BY <1>2, <1>5, <1>6 DEF GameInv, LinkTypeOK, GameTypeOK

\* A connection that has no account yet is deleted.
LEMMA TurnAwayKeeps ==
    ASSUME GameInv, NEW s \in held["ipm"], game[s].status = "GPS_BEGIN_SESSION", loading = Nobody,
           game' = [game EXCEPT ![s] = Gone],
           held' = [held EXCEPT !["ipm"] = @ \ {s}],
           TableTypeOK', \A a \in Accounts : logon'[a] = "GAME" => logon[a] = "GAME",
           conn' \in [Hosts -> ConnectionInfos \cup {Nobody}],
           tickets' \subseteq tickets, UNCHANGED <<net, finder, loading>>
    PROVE  GameInv'
<1>1. s \in GameSockets /\ Playing(s) /\ game[s].id = Nobody /\ game[s].pc = Nobody
  <2>1. s \in GameSockets
    BY DEF GameInv, GameTypeOK, Managers
  <2> QED BY <2>1, NobodyIsNone DEF GameInv, PlayerHasAccount, Playing
<1>2. /\ held' \in [Managers -> SUBSET GameSockets]
      /\ held["ipm"] \ {s} \subseteq held'["ipm"]
  BY DEF GameInv, GameTypeOK, Managers
<1>3. \A m \in Managers : held'[m] = held[m] \ {s}
  <2>1. \A m \in Managers \ {"ipm"} : s \notin held[m]
    BY <1>1, HeldNowhereElse DEF Managers
  <2> QED BY <2>1 DEF GameInv, GameTypeOK, Managers
<1>4. /\ game' \in [GameSockets -> GamePlayers \cup {Gone}]
      /\ finder' \in [Accounts -> GameSockets \cup {Nobody}]
      /\ loading' \in GameSockets \cup {Nobody}
      /\ PlayerHasAccount' /\ OnePlayerPerCharacter' /\ GameRowHasConnection'
      /\ ~Playing(s)' /\ \A r \in GameSockets \ {s} : Playing(r)' <=> Playing(r)
  <2>1. loading' = loading /\ loading' \in {loading, Nobody} /\ loading' # s
    BY <1>1, NobodyIsNone
  <2>2. finder' = IF game[s].pc = Nobody
                  THEN finder ELSE [finder EXCEPT ![game[s].pc] = Nobody]
    BY <1>1
  <2>3. \A a \in Accounts : logon'[a] = "GAME" =>
            /\ logon[a] = "GAME"
            /\ game[s].id # a \/ \E r \in GameSockets \ {s} : game[r].id = a
    BY <1>1, NobodyIsNone
  <2> QED BY <1>1, <1>2, <2>1, <2>2, <2>3, GoneKeepsPlayers
<1>5. HeldOnce'
  BY <1>1, <1>3, <1>4, DropKeepsHeld
<1> QED BY <1>2, <1>4, <1>5 DEF GameInv, LinkTypeOK, GameTypeOK

\* A live player is moved on, with a change that keeps its account and character.
LEMMA MoveStepKeeps ==
    ASSUME GameInv, NEW s \in GameSockets, Playing(s), NEW p \in GamePlayers,
           game' = [game EXCEPT ![s] = p],
           p.id = game[s].id, p.pc = game[s].pc,
           p.status = "GPS_BEGIN_SESSION" <=> game[s].status = "GPS_BEGIN_SESSION",
           p.forLogin \/ p.key # Nobody => p.pc # Nobody,
           NEW from \in Managers, NEW to \in Managers, from # to,
           s \in held[from], Move(s, from, to),
           game[s].status # "GPS_BEGIN_SESSION",
           net' \subseteq Datagrams,
           UNCHANGED <<dbVars, tickets, conn, finder, loading>>
    PROVE  GameInv'
<1>1. \A r \in GameSockets : Playing(r)' <=> Playing(r)
  BY DEF Playing, GameInv, GameTypeOK, GamePlayers, GPS
<1>2. /\ held' \in [Managers -> SUBSET GameSockets]
      /\ HeldOnce'
      /\ \A r \in GameSockets \ {s} : r \in held["ipm"] => r \in held'["ipm"]
  BY <1>1, MoveKeepsHeld
<1>3. \A r \in GameSockets : game[r].status = "GPS_BEGIN_SESSION" => r \in held'["ipm"]
  BY <1>2 DEF GameInv, PlayerHasAccount
<1>4. /\ game' \in [GameSockets -> GamePlayers \cup {Gone}]
      /\ PlayerHasAccount' /\ OnePlayerPerCharacter' /\ GameRowHasConnection'
  BY <1>3, ChangeKeepsPlayers
<1> QED BY <1>2, <1>4 DEF GameInv, TableTypeOK, LinkTypeOK, GameTypeOK, dbVars

\* ... or is moved on as it is.
LEMMA PlainMoveKeeps ==
    ASSUME GameInv, NEW s \in GameSockets, Playing(s),
           NEW from \in Managers, NEW to \in Managers, from # to,
           s \in held[from], Move(s, from, to),
           from # "ipm",
           net' \subseteq Datagrams,
           UNCHANGED <<dbVars, tickets, game, conn, finder, loading>>
    PROVE  GameInv'
<1>1. game' = [game EXCEPT ![s] = game[s]]
  BY DEF GameInv, GameTypeOK
<1>2. game[s].forLogin \/ game[s].key # Nobody => game[s].pc # Nobody
  BY DEF GameInv, PlayerHasAccount
<1>3. game[s].status # "GPS_BEGIN_SESSION"
  BY ElsewhereIsKnown
<1> QED BY <1>1, <1>2, <1>3, PlayingIsPlayer, MoveStepKeeps

\* A live player is marked or given a key where it is.
LEMMA MarkStepKeeps ==
    ASSUME GameInv, NEW s \in GameSockets, Playing(s), NEW p \in GamePlayers,
           game' = [game EXCEPT ![s] = p],
           p.id = game[s].id, p.pc = game[s].pc, p.status = game[s].status,
           p.forLogin \/ p.key # Nobody => p.pc # Nobody,
           net' \subseteq Datagrams,
           UNCHANGED <<dbVars, tickets, conn, finder, loading, held>>
    PROVE  GameInv'
<1>1. /\ game' \in [GameSockets -> GamePlayers \cup {Gone}]
      /\ PlayerHasAccount' /\ OnePlayerPerCharacter' /\ GameRowHasConnection'
      /\ \A r \in GameSockets : Playing(r)' <=> Playing(r)
  BY ChangeKeepsPlayers DEF GameInv, GameTypeOK, PlayerHasAccount
<1>2. HeldOnce'
  BY <1>1 DEF GameInv, HeldOnce
<1> QED BY <1>1, <1>2 DEF GameInv, TableTypeOK, LinkTypeOK, GameTypeOK, dbVars
-----------------------------------------------------------------------------
(* The steps of the game server. *)

\* The steps of the ClientManager thread for connections that come and go.
LEMMA ConnectStepsKeep ==
    ASSUME GameInv, NEW s \in GameSockets,
           \/ \E h \in Hosts : AcceptGame(s, h)
           \/ IncomingDisconnect(s)
           \/ \E t \in tickets : \/ CGConnectUnknown(s, t)
                                \/ CGConnectRefused(s, t)
                                \/ CGConnectTakesRow(s, t)
           \/ CGConnectEnters(s) \/ CGConnectDuplicate(s) \/ CGConnectLoadFails(s)
    PROVE  GameInv'
<1>t. /\ net \subseteq Datagrams /\ tickets \subseteq Tickets
      /\ game \in [GameSockets -> GamePlayers \cup {Gone}]
      /\ conn \in [Hosts -> ConnectionInfos \cup {Nobody}]
      /\ finder \in [Accounts -> GameSockets \cup {Nobody}]
      /\ held \in [Managers -> SUBSET GameSockets]
      /\ logon \in [Accounts -> LogOnValues]
      /\ loginIP \in [Accounts -> Hosts \cup {Nobody}]
      /\ "ipm" \in Managers
  BY DEF GameInv, TableTypeOK, LinkTypeOK, GameTypeOK, Managers
<1>1. ASSUME NEW h \in Hosts, AcceptGame(s, h) PROVE GameInv'
  <2> DEFINE p == [Gone EXCEPT !.status = "GPS_BEGIN_SESSION", !.host = h]
  <2>1. game[s] = Gone /\ ~Playing(s)
    BY <1>1, <1>t DEF AcceptGame, Playing, GamePlayers, GPS
  <2>2. p \in GamePlayers /\ p.status = "GPS_BEGIN_SESSION" /\ p.id = Nobody /\ p.pc = Nobody
        /\ ~p.forLogin /\ p.key = Nobody
    BY DEF Gone, GamePlayers, GPS
  <2>3. /\ game' \in [GameSockets -> GamePlayers \cup {Gone}]
        /\ game'[s] = p /\ \A r \in GameSockets \ {s} : game'[r] = game[r]
    BY <1>1, <1>t, <2>2 DEF AcceptGame
  <2>4. \A r \in GameSockets : game'[r].id = game[r].id /\ game'[r].pc = game[r].pc
    BY <2>1, <2>2, <2>3 DEF Gone
  <2>5. OnePlayerPerCharacter' /\ GameRowHasConnection'
    <3>1. logon' = logon /\ finder' = finder
      BY <1>1 DEF AcceptGame, dbVars
    <3>2. OnePlayerPerCharacter'
      BY <2>4, <3>1 DEF GameInv, OnePlayerPerCharacter
    <3>3. GameRowHasConnection'
      BY <2>4, <3>1 DEF GameInv, GameRowHasConnection
    <3> QED BY <3>2, <3>3
  <2>6. PlayerHasAccount'
    <3>1. loading = Nobody /\ loading' = Nobody
      BY <1>1 DEF AcceptGame, ClientThreadFree
    <3>2. s \in held'["ipm"] /\ \A r \in GameSockets : r \in held["ipm"] => r \in held'["ipm"]
      BY <1>1, <1>t DEF AcceptGame
    <3>3. \A r \in GameSockets : loading' # r
      BY <3>1, NobodyIsNone
    <3>4. \A r \in GameSockets \ {s} :
            /\ game'[r] = game[r]
            /\ r \in held["ipm"] => r \in held'["ipm"]
            /\ loading' = r <=> loading = r
      BY <2>3, <3>1, <3>2
    <3>5. /\ game'[s].status = "GPS_BEGIN_SESSION"
          /\ game'[s].id = Nobody /\ game'[s].pc = Nobody
          /\ ~game'[s].forLogin /\ game'[s].key = Nobody
      BY <2>2, <2>3
    <3> QED BY <3>2, <3>3, <3>4, <3>5 DEF GameInv, PlayerHasAccount
  <2>7. HeldOnce' /\ held' \in [Managers -> SUBSET GameSockets]
    <3>1. /\ held' \in [Managers -> SUBSET GameSockets]
          /\ \A m \in Managers, r \in GameSockets :
               r \in held'[m] <=> (r = s /\ m = "ipm") \/ r \in held[m]
      BY <1>1, <1>t DEF AcceptGame
    <3>2. Playing(s)' /\ \A r \in GameSockets \ {s} : Playing(r)' <=> Playing(r)
      BY <2>2, <2>3 DEF Playing
    <3>3. \A m \in Managers : s \notin held[m]
      BY <1>1 DEF AcceptGame
    <3> QED BY <1>t, <3>1, <3>2, <3>3 DEF GameInv, HeldOnce
  <2> QED BY <1>1, <2>3, <2>5, <2>6, <2>7
          DEF AcceptGame, GameInv, TableTypeOK, LinkTypeOK, GameTypeOK, dbVars, linkVars
<1>2. ASSUME IncomingDisconnect(s) PROVE GameInv'
  BY <1>2, <1>t, NobodyIsNone, RemoveKeeps DEF IncomingDisconnect, IncomingMayEnd, ClientThreadFree
<1>3. ASSUME NEW t \in tickets, CGConnectUnknown(s, t) PROVE GameInv'
  BY <1>3, <1>t, TurnAwayKeeps
     DEF CGConnectUnknown, UsesTicket, ClientThreadFree, GameInv, TableTypeOK, dbVars
<1>4. ASSUME NEW t \in tickets, CGConnectRefused(s, t) PROVE GameInv'
  <2>1. TableTypeOK' /\ \A a \in Accounts : logon'[a] = "GAME" => logon[a] = "GAME"
    BY <1>4, <1>t, UpdateType DEF CGConnectRefused, TableTypeOK, LogOnValues, UpdateWhere
  <2>2. conn' \in [Hosts -> ConnectionInfos \cup {Nobody}] /\ tickets' \subseteq tickets
    BY <1>4, <1>t DEF CGConnectRefused
  <2> QED BY <1>4, <2>1, <2>2, TurnAwayKeeps DEF CGConnectRefused, UsesTicket, ClientThreadFree
<1>5. ASSUME NEW t \in tickets, CGConnectTakesRow(s, t) PROVE GameInv'
  <2>1. t.id \in Accounts /\ game[s] \in GamePlayers /\ game[s].status = "GPS_BEGIN_SESSION"
        /\ loading = Nobody /\ s \in held["ipm"] /\ game[s].pc = Nobody /\ game[s].id = Nobody
    BY <1>5, <1>t, NobodyIsNone
       DEF CGConnectTakesRow, UsesTicket, ClientThreadFree, Tickets, Gone, GameInv, PlayerHasAccount
  <2> DEFINE p == [game[s] EXCEPT !.id = t.id]
  <2>2. p \in GamePlayers /\ p.id = t.id /\ p.pc = Nobody /\ p.status = "GPS_BEGIN_SESSION"
        /\ p.forLogin = game[s].forLogin /\ p.key = game[s].key
    BY <2>1 DEF GamePlayers
  <2>3. /\ game' \in [GameSockets -> GamePlayers \cup {Gone}]
        /\ game'[s] = p /\ \A r \in GameSockets \ {s} : game'[r] = game[r]
    BY <1>5, <1>t, <2>2 DEF CGConnectTakesRow
  <2>4. \A r \in GameSockets : game'[r].pc = game[r].pc /\ (Playing(r)' <=> Playing(r))
    BY <2>1, <2>2, <2>3 DEF Playing
  <2>5. OnePlayerPerCharacter' /\ HeldOnce'
    BY <1>5, <2>4 DEF CGConnectTakesRow, GameInv, OnePlayerPerCharacter, HeldOnce
  <2>6. PlayerHasAccount'
    BY <1>5, <2>1, <2>2, <2>3, NobodyIsNone DEF CGConnectTakesRow, GameInv, PlayerHasAccount
  <2>7. TableTypeOK'
    BY <1>5, <1>t, UpdateType DEF CGConnectTakesRow, TableTypeOK, LogOnValues
  <2>8. GameRowHasConnection'
    <3>1. \A a \in Accounts : logon'[a] = "GAME" => a = t.id \/ logon[a] = "GAME"
      BY <1>5 DEF CGConnectTakesRow, UpdateWhere
    <3> SUFFICES ASSUME NEW a \in Accounts, logon'[a] = "GAME"
                 PROVE  \E r \in GameSockets : game'[r].id = a
      BY DEF GameRowHasConnection
    <3>2. CASE a = t.id
      BY <2>2, <2>3, <3>2
    <3>3. CASE a # t.id
      <4>1. PICK r \in GameSockets : game[r].id = a
        BY <3>1, <3>3 DEF GameInv, GameRowHasConnection
      <4>2. r # s
        BY <2>1, <4>1, NobodyIsNone
      <4> QED BY <2>3, <4>1, <4>2
    <3> QED BY <3>2, <3>3
  <2> QED BY <1>5, <1>t, <2>3, <2>5, <2>6, <2>7, <2>8
          DEF CGConnectTakesRow, GameInv, LinkTypeOK, GameTypeOK
<1>6. ASSUME CGConnectEnters(s) PROVE GameInv'
  <2>1. /\ game[s].status = "GPS_BEGIN_SESSION" /\ s \in held["ipm"]
        /\ game[s].pc = Nobody /\ game[s].id # Nobody
        /\ game[s] \in GamePlayers
    BY <1>6, <1>t DEF CGConnectEnters, GameInv, PlayerHasAccount, Gone
  <2> DEFINE a == game[s].id
  <2> DEFINE p == [game[s] EXCEPT !.pc = a, !.status = "GPS_WAITING_FOR_CG_READY"]
  <2>2. p \in GamePlayers /\ p.id = a /\ p.pc = a /\ p.status = "GPS_WAITING_FOR_CG_READY"
        /\ a \in Accounts
    BY <2>1 DEF GamePlayers, GPS
  <2>3. /\ game' \in [GameSockets -> GamePlayers \cup {Gone}]
        /\ game'[s] = p /\ \A r \in GameSockets \ {s} : game'[r] = game[r]
    BY <1>6, <1>t, <2>2 DEF CGConnectEnters
  <2>4. \A r \in GameSockets : game'[r].id = game[r].id /\ (Playing(r)' <=> Playing(r))
    BY <2>1, <2>2, <2>3 DEF Playing
  <2>5. GameRowHasConnection' /\ HeldOnce'
    BY <1>6, <2>4 DEF CGConnectEnters, GameInv, GameRowHasConnection, HeldOnce, dbVars
  <2>6. PlayerHasAccount'
    BY <1>6, <2>1, <2>2, <2>3, NobodyIsNone DEF CGConnectEnters, GameInv, PlayerHasAccount
  <2>7. finder' \in [Accounts -> GameSockets \cup {Nobody}] /\ OnePlayerPerCharacter'
    <3>1. /\ finder[a] = Nobody /\ finder'[a] = s
          /\ \A b \in Accounts \ {a} : finder'[b] = finder[b]
          /\ finder' \in [Accounts -> GameSockets \cup {Nobody}]
      BY <1>6, <1>t, <2>2 DEF CGConnectEnters, InPCFinder
    <3>2. \A b \in Accounts, r \in GameSockets : finder[b] = r <=> game[r].pc = b
      BY DEF GameInv, OnePlayerPerCharacter
    <3>3. \A b \in Accounts, r \in GameSockets : finder'[b] = r <=> game'[r].pc = b
      <4> SUFFICES ASSUME NEW b \in Accounts, NEW r \in GameSockets
                   PROVE  finder'[b] = r <=> game'[r].pc = b
        OBVIOUS
      <4>1. CASE r = s
        <5>1. game'[r].pc = a
          BY <2>2, <2>3, <4>1
        <5>2. finder[b] # s
          BY <2>1, <3>2, NobodyIsNone
        <5>3. finder'[b] = s <=> b = a
          BY <3>1, <5>2
        <5> QED BY <4>1, <5>1, <5>3
      <4>2. CASE r # s
        <5>1. game'[r].pc = game[r].pc
          BY <2>3, <4>2
        <5>2. finder'[b] = r <=> finder[b] = r
          BY <3>1, <4>2, NobodyIsNone
        <5> QED BY <3>2, <5>1, <5>2
      <4> QED BY <4>1, <4>2
    <3> QED BY <3>1, <3>3 DEF OnePlayerPerCharacter
  <2> QED BY <1>6, <1>t, <2>3, <2>5, <2>6, <2>7
          DEF CGConnectEnters, GameInv, TableTypeOK, LinkTypeOK, GameTypeOK, dbVars, linkVars
<1>7. ASSUME CGConnectDuplicate(s) PROVE GameInv'
  <2>1. /\ s \in held["ipm"] /\ game[s].pc = Nobody /\ game[s].id # Nobody
        /\ game[s] \in GamePlayers
    BY <1>7, <1>t DEF CGConnectDuplicate, GameInv, PlayerHasAccount, Gone
  <2>2. finder[game[s].id] \in GameSockets /\ game[s].id \in Accounts
    BY <1>7, <1>t, <2>1 DEF CGConnectDuplicate, InPCFinder, GamePlayers
  <2>3. \E r \in GameSockets \ {s} : game[r].id = game[s].id
    <3> DEFINE r == finder[game[s].id]
    <3>1. game[r].pc = game[s].id
      BY <2>2 DEF GameInv, OnePlayerPerCharacter
    <3>2. Playing(r) /\ game[r].status # "GPS_BEGIN_SESSION"
      BY <2>1, <2>2, <3>1, KnownIsPlaying DEF GameInv, PlayerHasAccount
    <3> QED BY <2>1, <2>2, <3>1, <3>2, PlayerIsKnown
  <2> QED BY <1>7, <1>t, <2>1, <2>3, NobodyIsNone, RemoveKeeps DEF CGConnectDuplicate
<1>8. ASSUME CGConnectLoadFails(s) PROVE GameInv'
  <2>1. s \in held["ipm"]
    BY <1>8 DEF CGConnectLoadFails, GameInv, PlayerHasAccount
  <2> QED BY <1>8, <1>t, <2>1, NobodyIsNone, RemoveKeeps DEF CGConnectLoadFails
<1> QED BY <1>1, <1>2, <1>3, <1>4, <1>5, <1>6, <1>7, <1>8
\* CGReady, and the heartbeat of IncomingPlayerManager.
LEMMA IncomingStepsKeep ==
    ASSUME GameInv, NEW s \in GameSockets,
           \/ CGReady(s) \/ CGReadyThenFails(s)
           \/ HeartbeatKicked(s) \/ HeartbeatIncoming(s) \/ HeartbeatOut(s) \/ HeartbeatDrops(s)
    PROVE  GameInv'
<1>t. /\ net \subseteq Datagrams
      /\ held \in [Managers -> SUBSET GameSockets]
      /\ {"ipm", "ipmQueue", "ipmOut", "zpmIn"} \subseteq Managers
  BY DEF GameInv, LinkTypeOK, GameTypeOK, Managers
<1>1. ASSUME CGReady(s) PROVE GameInv'
  <2> DEFINE p == [game[s] EXCEPT !.status = "GPS_NORMAL"]
  <2>1. /\ Playing(s) /\ s \in held["ipm"] 
        /\ game[s].status = "GPS_WAITING_FOR_CG_READY"
    BY <1>1 DEF CGReady, IsLoaded, Playing
  <2>2. game[s] \in GamePlayers /\ game[s].pc # Nobody
    BY <2>1, PlayingIsPlayer, PlayerIsKnown, NobodyIsNone
  <2>3. /\ p \in GamePlayers /\ p.id = game[s].id /\ p.pc = game[s].pc /\ p.status = "GPS_NORMAL"
    BY <2>2 DEF GamePlayers, GPS
  <2>4. game' = [game EXCEPT ![s] = p]
    BY <1>1 DEF CGReady
  <2> QED BY <1>1, <1>t, <2>1, <2>2, <2>3, <2>4, MoveStepKeeps DEF CGReady, linkVars
<1>2. ASSUME CGReadyThenFails(s) PROVE GameInv'
  <2>1. Playing(s) /\ s \in held["ipm"] /\ loading = Nobody /\ PacketsAfterReady
    BY <1>2 DEF CGReadyThenFails, IsLoaded, ClientThreadFree, Playing
  <2>2. /\ held' \in [Managers -> SUBSET GameSockets]
        /\ held["ipm"] \ {s} \subseteq held'["ipm"]
    BY <1>2, <1>t DEF CGReadyThenFails, Move
  <2>3. /\ TableTypeOK'
        /\ tickets' \subseteq Tickets
        /\ game' \in [GameSockets -> GamePlayers \cup {Gone}]
        /\ finder' \in [Accounts -> GameSockets \cup {Nobody}]
        /\ loading' \in GameSockets \cup {Nobody}
        /\ PlayerHasAccount' /\ OnePlayerPerCharacter' /\ GameRowHasConnection'
        /\ ~Playing(s)' /\ \A r \in GameSockets \ {s} : Playing(r)' <=> Playing(r)
    BY <1>2, <2>1, <2>2, NobodyIsNone, DestroyKeeps DEF CGReadyThenFails
  <2>4. HeldOnce'
    BY <1>2, <1>t, <2>1, <2>3, MoveKeepsHeld DEF CGReadyThenFails
  <2> QED BY <1>2, <2>2, <2>3, <2>4 DEF CGReadyThenFails, GameInv, LinkTypeOK, GameTypeOK
<1>3. ASSUME HeartbeatKicked(s) PROVE GameInv'
  <2>1. s \in held["ipmQueue"] /\ Playing(s)
    BY <1>3, <1>t, HeldIsPlaying DEF HeartbeatKicked
  <2>2. net' \subseteq Datagrams
    <3>1. CASE game[s].forLogin
      <4>1. game[s].pc # Nobody /\ game[s] \in GamePlayers
        BY <2>1, <3>1, PlayingIsPlayer DEF GameInv, PlayerHasAccount
      <4>2. {[type |-> "GLKickVerify", sock |-> s, name |-> game[s].pc, try |-> 0]}
              \in SUBSET Datagrams
        BY <4>1 DEF GamePlayers, Datagrams, KickDatagrams, Sockets
      <4> QED BY <1>3, <1>t, <3>1, <4>2, ExchangeType DEF HeartbeatKicked, Send
    <3>2. CASE ~game[s].forLogin
      BY <1>3, <1>t, <3>2 DEF HeartbeatKicked
    <3> QED BY <3>1, <3>2
  <2> QED BY <1>3, <2>1, <2>2, NobodyIsNone, RemoveKeeps DEF HeartbeatKicked, ClientThreadFree
<1>4. ASSUME HeartbeatIncoming(s) PROVE GameInv'
  <2>1. s \in held["ipmQueue"] /\ Playing(s) /\ game[s] \in GamePlayers
    BY <1>4, <1>t, HeldIsPlaying, PlayingIsPlayer DEF HeartbeatIncoming
  <2>2. net' \subseteq Datagrams
    <3>1. CASE game[s].status = "GPS_AFTER_SENDING_GL_INCOMING_CONNECTION"
      <4>1. game[s].id \in Accounts
        BY <2>1, <3>1, PlayerIsKnown
      <4>2. {[type |-> "GLIncoming", host |-> game[s].host, id |-> game[s].id]}
              \in SUBSET Datagrams
        BY <2>1, <4>1 DEF GamePlayers, Datagrams, IncomingRequests
      <4> QED BY <1>4, <1>t, <3>1, <4>2, ExchangeType DEF HeartbeatIncoming, Send
    <3>2. CASE game[s].status # "GPS_AFTER_SENDING_GL_INCOMING_CONNECTION"
      BY <1>4, <1>t, <3>2 DEF HeartbeatIncoming
    <3> QED BY <3>1, <3>2
  <2> QED BY <1>4, <1>t, <2>1, <2>2, PlainMoveKeeps DEF HeartbeatIncoming, ClientThreadFree
<1>5. ASSUME HeartbeatOut(s) PROVE GameInv'
  BY <1>5, <1>t, PlainMoveKeeps DEF HeartbeatOut, ClientThreadFree, linkVars
<1>6. ASSUME HeartbeatDrops(s) PROVE GameInv'
  <2>1. /\ held' \in [Managers -> SUBSET GameSockets]
        /\ held'["ipm"] = held["ipm"]
        /\ \A m \in Managers : held'[m] \subseteq held[m]
        /\ \A m \in Managers, r \in GameSockets \ {s} : r \in held'[m] <=> r \in held[m]
    BY <1>6, <1>t DEF HeartbeatDrops
  <2>2. UNCHANGED <<logon, loginIP, net, tickets, game, conn, finder, loading>> /\ ~Playing(s)
    BY <1>6 DEF HeartbeatDrops, dbVars, linkVars
  <2>3. HeldOnce'
    BY <2>1, <2>2 DEF GameInv, HeldOnce, Playing
  <2>4. PlayerHasAccount'
    BY <2>1, <2>2 DEF GameInv, PlayerHasAccount
  <2> QED BY <2>1, <2>2, <2>3, <2>4
          DEF GameInv, TableTypeOK, LinkTypeOK, GameTypeOK, OnePlayerPerCharacter, GameRowHasConnection
<1> QED BY <1>1, <1>2, <1>3, <1>4, <1>5, <1>6

\* The zone thread.
LEMMA ZoneStepKeeps ==
    ASSUME GameInv, NEW s \in GameSockets, ZoneStep(s)
    PROVE  GameInv'
<1>t. /\ net \subseteq Datagrams
      /\ {"ipm", "ipmQueue", "zpmIn", "zpm", "zpmOut"} \subseteq Managers
  BY DEF GameInv, LinkTypeOK, Managers
<1>1. ASSUME EnterZone(s) \/ LeaveZone(s) PROVE GameInv'
  BY <1>1, <1>t, HeldIsPlaying, PlainMoveKeeps DEF EnterZone, LeaveZone, linkVars
<1>2. ASSUME NEW status \in GPS \ {"GPS_BEGIN_SESSION"},
             s \in held["zpm"], NEW marked \in BOOLEAN,
             game' = [game EXCEPT ![s].status = status, ![s].kicked = marked],
             Move(s, "zpm", "zpmOut"), net' \subseteq Datagrams,
             UNCHANGED <<dbVars, tickets, conn, finder, loading>>
      PROVE  GameInv'
  <2> DEFINE p == [game[s] EXCEPT !.status = status, !.kicked = marked]
  <2>1. Playing(s) /\ game[s] \in GamePlayers
    BY <1>2, <1>t, HeldIsPlaying, PlayingIsPlayer
  <2>2. game[s].pc # Nobody /\ game[s].status # "GPS_BEGIN_SESSION"
    BY <1>2, <1>t, <2>1, ElsewhereIsKnown, PlayerIsKnown, NobodyIsNone
  <2>3. /\ p \in GamePlayers /\ p.id = game[s].id /\ p.pc = game[s].pc /\ p.status = status
    BY <2>1 DEF GamePlayers
  <2>4. game' = [game EXCEPT ![s] = p]
    BY <1>2
  <2> QED BY <1>2, <1>t, <2>1, <2>2, <2>3, <2>4, MoveStepKeeps
<1>3. s \in held["zpm"] => game[s].kicked \in BOOLEAN
  BY <1>t, HeldIsPlaying, PlayingIsPlayer DEF GamePlayers
<1>4. ASSUME NEW kick \in BOOLEAN, Logout(s, kick) PROVE GameInv'
  <2>1. net' \subseteq Datagrams
    <3>1. CASE LogoutPortHeard
      <4>1. s \in held["zpm"] /\ Playing(s) /\ game[s] \in GamePlayers
        BY <1>4, <1>t, HeldIsPlaying, PlayingIsPlayer DEF Logout
      <4>2. game[s].id \in Accounts
        BY <1>t, <4>1, ElsewhereIsKnown, PlayerIsKnown
      <4>3. {[type |-> "GLIncoming", host |-> game[s].host, id |-> game[s].id]}
              \in SUBSET Datagrams
        BY <4>1, <4>2 DEF GamePlayers, Datagrams, IncomingRequests
      <4> QED BY <1>4, <1>t, <3>1, <4>3, ExchangeType DEF Logout, Send
    <3>2. CASE ~LogoutPortHeard
      BY <1>4, <1>t, <3>2 DEF Logout
    <3> QED BY <3>1, <3>2
  <2>2. game[s].kicked \/ kick \in BOOLEAN
    OBVIOUS
  <2>3. /\ s \in held["zpm"]
        /\ game' = [game EXCEPT ![s].status = "GPS_AFTER_SENDING_GL_INCOMING_CONNECTION",
                               ![s].kicked = @ \/ kick]
        /\ Move(s, "zpm", "zpmOut")
        /\ UNCHANGED <<dbVars, tickets, conn, finder, loading>>
    BY <1>4 DEF Logout
  <2> QED BY <1>2, <2>1, <2>2, <2>3 DEF GPS
<1>5. ASSUME NEW kick \in BOOLEAN, ChangeZone(s, kick) PROVE GameInv'
  BY <1>5, <1>2, <1>t DEF ChangeZone, GPS, linkVars
<1> QED BY <1>1, <1>4, <1>5 DEF ZoneStep, CGLogout, ZoneKick
\* The LoginServerManager thread.
LEMMA GameDatagramStepKeeps ==
    ASSUME GameInv, NEW m \in net, GameDatagramStep(m)
    PROVE  GameInv'
<1>t. /\ net \subseteq Datagrams
      /\ game \in [GameSockets -> GamePlayers \cup {Gone}]
      /\ conn \in [Hosts -> ConnectionInfos \cup {Nobody}]
      /\ finder \in [Accounts -> GameSockets \cup {Nobody}]
  BY DEF GameInv, LinkTypeOK, GameTypeOK
<1>m. /\ m.type = "LGIncoming" => m.host \in Hosts /\ m.id \in Accounts
      /\ m.type = "LGIncomingOK" => m.id \in Accounts /\ m.key \in Keys
      /\ m.type = "LGIncomingError" => m.id \in Accounts
      /\ m.type = "LGKick" => m.sock \in Sockets /\ m.name \in Accounts /\ m.try \in Nat
  BY <1>t DEF Datagrams, IncomingRequests, IncomingReplies, IncomingErrors, KickDatagrams
<1>r. Receive(m) => net' \subseteq Datagrams
  BY <1>t, ExchangeType DEF Receive
<1>u. ASSUME net' \subseteq Datagrams, conn' \in [Hosts -> ConnectionInfos \cup {Nobody}],
             UNCHANGED <<dbVars, tickets, game, finder, loading, held>>
      PROVE  GameInv'
  BY <1>u DEF GameInv, TableTypeOK, LinkTypeOK, GameTypeOK, HeldOnce, Playing, PlayerHasAccount,
              OnePlayerPerCharacter, GameRowHasConnection, dbVars
<1>1. ASSUME LGIncomingConnection(m) PROVE GameInv'
  <2>1. PICK k \in Keys :
          /\ conn' = [conn EXCEPT ![m.host] = [id |-> m.id, key |-> k]]
          /\ Exchange({m}, {[type |-> "GLIncomingOK", id |-> m.id, key |-> k]})
    BY <1>1 DEF LGIncomingConnection
  <2>2. m.host \in Hosts /\ m.id \in Accounts
    BY <1>1, <1>m DEF LGIncomingConnection
  <2>3. net' \subseteq Datagrams
    <3>1. {[type |-> "GLIncomingOK", id |-> m.id, key |-> k]} \in SUBSET Datagrams
      BY <2>2 DEF Datagrams, IncomingReplies
    <3> QED BY <1>t, <2>1, <3>1, ExchangeType
  <2>4. conn' \in [Hosts -> ConnectionInfos \cup {Nobody}]
    <3>1. [id |-> m.id, key |-> k] \in ConnectionInfos
      BY <2>2 DEF ConnectionInfos
    <3> QED BY <1>t, <2>1, <3>1
  <2> QED BY <1>1, <1>u, <2>3, <2>4 DEF LGIncomingConnection
<1>2. ASSUME LGKickCharacter(m) PROVE GameInv'
  <2> DEFINE s == finder[m.name]
  <2>1. m.sock \in Sockets /\ m.name \in Accounts /\ m.try \in Nat
    BY <1>2, <1>m DEF LGKickCharacter
  <2>2. CASE s = Nobody
    <3>1. {[type |-> "GLKickVerify", sock |-> m.sock, name |-> m.name, try |-> m.try]}
            \in SUBSET Datagrams
      BY <2>1 DEF Datagrams, KickDatagrams
    <3>2. net' \subseteq Datagrams
      BY <1>2, <1>t, <2>2, <3>1, ExchangeType DEF LGKickCharacter
    <3> QED BY <1>2, <1>t, <1>u, <2>2, <3>2 DEF LGKickCharacter
  <2>3. CASE s # Nobody
    <3> DEFINE p == [game[s] EXCEPT !.kicked = TRUE, !.forLogin = TRUE]
    <3>1. s \in GameSockets
      BY <1>t, <2>1, <2>3
    <3>2. game[s].pc = m.name
      BY <2>1, <3>1 DEF GameInv, OnePlayerPerCharacter
    <3>3. Playing(s) /\ game[s] \in GamePlayers
      BY <2>1, <3>1, <3>2, KnownIsPlaying, PlayingIsPlayer, NobodyIsNone
    <3>4. /\ p \in GamePlayers /\ p.id = game[s].id /\ p.pc = game[s].pc
          /\ p.status = game[s].status /\ p.pc # Nobody
      BY <2>1, <3>2, <3>3, NobodyIsNone DEF GamePlayers
    <3>5. game' = [game EXCEPT ![s] = p] /\ Receive(m)
      BY <1>2, <2>3 DEF LGKickCharacter
    <3> QED BY <1>2, <1>r, <3>1, <3>3, <3>4, <3>5, MarkStepKeeps DEF LGKickCharacter
  <2> QED BY <2>2, <2>3
<1>3. ASSUME LGIncomingConnectionOK(m) PROVE GameInv'
  <2>1. m.id \in Accounts /\ m.key \in Keys /\ Receive(m)
    BY <1>3, <1>m DEF LGIncomingConnectionOK
  <2>2. ASSUME NEW s \in GameSockets, game[s].id = m.id,
               game' = [game EXCEPT ![s].kicked = TRUE,
                                    ![s].key = IF KeepsKey(s) THEN m.key ELSE @]
        PROVE  GameInv'
    <3> DEFINE p == [game[s] EXCEPT !.kicked = TRUE, !.key = IF KeepsKey(s) THEN m.key ELSE @]
    <3>1. Playing(s) /\ game[s] \in GamePlayers
      BY <2>1, <2>2, KnownIsPlaying, PlayingIsPlayer, NobodyIsNone
    <3>2. /\ p \in GamePlayers /\ p.id = game[s].id /\ p.pc = game[s].pc
          /\ p.status = game[s].status /\ p.forLogin = game[s].forLogin
          /\ p.key = IF KeepsKey(s) THEN m.key ELSE game[s].key
      BY <2>1, <3>1 DEF GamePlayers
    <3>3. p.forLogin \/ p.key # Nobody => p.pc # Nobody
      <4>1. KeepsKey(s) => game[s].pc # Nobody
        BY <3>1, PlayerIsKnown, NobodyIsNone DEF KeepsKey
      <4> QED BY <3>2, <4>1 DEF GameInv, PlayerHasAccount
    <3>4. game' = [game EXCEPT ![s] = p]
      BY <2>2
    <3> QED BY <1>3, <1>r, <2>1, <3>1, <3>2, <3>3, <3>4, MarkStepKeeps
            DEF LGIncomingConnectionOK
  <2>3. CASE game' = game
    BY <1>3, <1>t, <1>r, <1>u, <2>1, <2>3 DEF LGIncomingConnectionOK
  <2> QED BY <1>3, <2>2, <2>3 DEF LGIncomingConnectionOK, IsIncoming, IsReady
<1>4. ASSUME LGIncomingConnectionError(m) PROVE GameInv'
  <2>1. m.id \in Accounts /\ Receive(m)
    BY <1>4, <1>m DEF LGIncomingConnectionError
  <2>2. ASSUME NEW s \in GameSockets, game[s].id = m.id,
               game' = [game EXCEPT ![s].kicked =
                  @ \/ game[s].status = "GPS_AFTER_SENDING_GL_INCOMING_CONNECTION"]
        PROVE  GameInv'
    <3> DEFINE marked == game[s].kicked
                         \/ game[s].status = "GPS_AFTER_SENDING_GL_INCOMING_CONNECTION"
    <3> DEFINE p == [game[s] EXCEPT !.kicked = marked]
    <3>1. Playing(s) /\ game[s] \in GamePlayers
      BY <2>1, <2>2, KnownIsPlaying, PlayingIsPlayer, NobodyIsNone
    <3>2. marked \in BOOLEAN
      BY <3>1 DEF GamePlayers
    <3> HIDE DEF marked
    <3>3. /\ p \in GamePlayers /\ p.id = game[s].id /\ p.pc = game[s].pc
          /\ p.status = game[s].status /\ p.forLogin = game[s].forLogin /\ p.key = game[s].key
      BY <3>1, <3>2 DEF GamePlayers
    <3>4. p.forLogin \/ p.key # Nobody => p.pc # Nobody
      BY <3>3 DEF GameInv, PlayerHasAccount
    <3>5. game' = [game EXCEPT ![s] = p]
      BY <2>2 DEF marked
    <3> QED BY <1>4, <1>r, <2>1, <3>1, <3>3, <3>4, <3>5, MarkStepKeeps
            DEF LGIncomingConnectionError
  <2>3. CASE game' = game
    BY <1>4, <1>t, <1>r, <1>u, <2>1, <2>3 DEF LGIncomingConnectionError
  <2> QED BY <1>4, <2>2, <2>3 DEF LGIncomingConnectionError, IsIncoming
<1> QED BY <1>1, <1>2, <1>3, <1>4 DEF GameDatagramStep

\* Every step of the game server.
LEMMA GameServerStepKeeps ==
    ASSUME GameInv, GameServerStep
    PROVE  GameInv'
<1>1. ASSUME NEW h \in Hosts, ConnectionInfoExpires(h) PROVE GameInv'
  BY <1>1 DEF ConnectionInfoExpires, GameInv, TableTypeOK, LinkTypeOK, GameTypeOK, HeldOnce,
              Playing, PlayerHasAccount, OnePlayerPerCharacter, GameRowHasConnection,
              dbVars, linkVars
<1>2. ASSUME NEW s \in GameSockets, GameClientStep(s) PROVE GameInv'
  BY <1>2, ConnectStepsKeep, IncomingStepsKeep DEF GameClientStep
<1> QED BY <1>1, <1>2, ZoneStepKeeps, GameDatagramStepKeeps DEF GameServerStep

\* Its restart.
LEMMA GameServerRestartKeeps ==
    ASSUME GameInv, GameServerRestarts
    PROVE  GameInv'
<1>1. TableTypeOK'
  BY UpdateType DEF GameServerRestarts, GameInv, TableTypeOK, LogOnValues
<1>2. GameTypeOK'
  BY DEF GameServerRestarts, GameTypeOK
<1>3. HeldOnce' /\ PlayerHasAccount' /\ OnePlayerPerCharacter'
  BY NobodyIsNone DEF GameServerRestarts, HeldOnce, Playing, PlayerHasAccount,
                      OnePlayerPerCharacter, Gone
<1>4. GameRowHasConnection'
  BY DEF GameServerRestarts, GameRowHasConnection, UpdateAllWhere
<1> QED BY <1>1, <1>2, <1>3, <1>4 DEF GameServerRestarts, GameInv, LinkTypeOK, linkVars

-----------------------------------------------------------------------------
(* The two servers together. *)

\* HandoffInv is what the two servers rely on.
LEMMA HandoffInvSplit == HandoffInv <=> LoginInv /\ GameInv
BY DEF HandoffInv, TypeOK, LoginInv, GameInv

\* It holds before anyone has connected.
LEMMA InitInv == Init => HandoffInv
<1> SUFFICES ASSUME Init PROVE HandoffInv
  OBVIOUS
<1>1. TypeOK
  BY DEF Init, TableInit, LinkInit, LoginInit, GameInit,
         TypeOK, TableTypeOK, LinkTypeOK, LoginTypeOK, GameTypeOK, LogOnValues
<1>2. SessionHasAccount
  BY DEF Init, LoginInit, SessionHasAccount, Closed, Admitted
<1>3. HeldOnce /\ PlayerHasAccount /\ OnePlayerPerCharacter
  BY NobodyIsNone DEF Init, GameInit, HeldOnce, Playing, PlayerHasAccount,
                      OnePlayerPerCharacter, Gone
<1>4. GameRowHasConnection
  BY DEF Init, TableInit, GameRowHasConnection
<1> QED BY <1>1, <1>2, <1>3, <1>4 DEF HandoffInv

\* A step of the login server leaves what is true of the game server's
\* connections, and takes no row into GAME.
LEMMA GameInvStays ==
    ASSUME GameInv, LoginInv', NoRowIntoGame, UNCHANGED gameVars
    PROVE  GameInv'
<1>1. GameTypeOK' /\ HeldOnce' /\ PlayerHasAccount' /\ OnePlayerPerCharacter'
  BY DEF GameInv, GameTypeOK, HeldOnce, Playing, PlayerHasAccount, OnePlayerPerCharacter, gameVars
<1>2. GameRowHasConnection'
  BY DEF GameInv, GameRowHasConnection, NoRowIntoGame, gameVars
<1> QED BY <1>1, <1>2 DEF LoginInv, GameInv

\* A step of the game server leaves the login sessions.
LEMMA LoginInvStays ==
    ASSUME LoginInv, GameInv', UNCHANGED loginVars
    PROVE  LoginInv'
BY DEF LoginInv, GameInv, LoginTypeOK, SessionHasAccount, loginVars

\* Every step keeps HandoffInv.
LEMMA NextInv == HandoffInv /\ [Next]_vars => HandoffInv'
<1> SUFFICES ASSUME HandoffInv, [Next]_vars PROVE HandoffInv'
  OBVIOUS
<1>i. LoginInv /\ GameInv
  BY HandoffInvSplit
<1>s. LoginInv' /\ GameInv' => HandoffInv'
  BY DEF HandoffInv, TypeOK, LoginInv, GameInv
<1>1. CASE LoginStep
  BY <1>1, <1>i, <1>s, LoginServerStepKeeps, GameInvStays DEF LoginStep
<1>2. CASE GameStep
  BY <1>2, <1>i, <1>s, GameServerStepKeeps, LoginInvStays DEF GameStep
<1>3. CASE ClientStep
  <2>1. LoginInv' /\ NoRowIntoGame
    BY <1>3, <1>i DEF ClientStep, ClientGivesUp, LoginInv, TableTypeOK, LinkTypeOK, LoginTypeOK,
                      SessionHasAccount, NoRowIntoGame, dbVars, loginVars
  <2> QED BY <1>3, <1>i, <1>s, <2>1, GameInvStays DEF ClientStep, loginVars, gameVars
<1>4. CASE RestartStep
  <2>1. CASE LoginServerRestarts /\ UNCHANGED gameVars
    BY <1>i, <1>s, <2>1, LoginServerRestartKeeps, GameInvStays
  <2>2. CASE GameServerRestarts /\ UNCHANGED loginVars
    BY <1>i, <1>s, <2>2, GameServerRestartKeeps, LoginInvStays
  <2> QED BY <1>4, <2>1, <2>2 DEF RestartStep
<1>5. CASE UNCHANGED vars
  BY <1>5 DEF HandoffInv, TypeOK, TableTypeOK, LinkTypeOK, LoginTypeOK, GameTypeOK,
              SessionHasAccount, HeldOnce, Playing, PlayerHasAccount, OnePlayerPerCharacter,
              GameRowHasConnection, vars, dbVars, linkVars, loginVars, gameVars
<1> QED BY <1>1, <1>2, <1>3, <1>4, <1>5 DEF Next

-----------------------------------------------------------------------------
(* Theorems. *)

(***************************************************************************)
(* HandoffInv holds in every behavior.                                     *)
(***************************************************************************)
THEOREM Invariance == Spec => []HandoffInv
BY InitInv, NextInv, PTL DEF Spec

(***************************************************************************)
(* Type correctness: every datagram and every reconnect packet the servers *)
(* send names an account, and the bounded counters keep to their bounds.   *)
(***************************************************************************)
THEOREM TypeCorrect == Spec => []TypeOK
<1>1. HandoffInv => TypeOK
  BY DEF HandoffInv
<1> QED BY <1>1, Invariance, PTL

(***************************************************************************)
(* No character is ever played by two connections, whatever the login      *)
(* server, lost datagrams and restarts do to its row.                      *)
(***************************************************************************)
THEOREM OnePlayer == Spec => []OnePlayerPerCharacter
<1>1. HandoffInv => OnePlayerPerCharacter
  BY DEF HandoffInv
<1> QED BY <1>1, Invariance, PTL

(***************************************************************************)
(* No account is locked out by a GAME row that no connection will free.    *)
(***************************************************************************)
THEOREM NoGameRowLeftBehind == Spec => []GameRowHasConnection
<1>1. HandoffInv => GameRowHasConnection
  BY DEF HandoffInv
<1> QED BY <1>1, Invariance, PTL

(***************************************************************************)
(* No connection is lost between the player managers or held by two.       *)
(***************************************************************************)
THEOREM ConnectionsHeldOnce == Spec => []HeldOnce
<1>1. HandoffInv => HeldOnce
  BY DEF HandoffInv
<1> QED BY <1>1, Invariance, PTL
=============================================================================
