------------------------------ MODULE HandoffSteps ------------------------------
(***************************************************************************)
(* Proofs of the action properties of LoginHandoff about an account's row: *)
(* who is let in takes it, who ends frees it, a row is taken from a player *)
(* only by a session that asked for a kick, and lost by a session only as  *)
(* another ends or is put back.  The last theorems say what would hold if  *)
(* no connection ended or were put back in that way.                       *)
(***************************************************************************)
EXTENDS LoginHandoffProofs

\* What the properties say of one step.
AdmissionStep ==
    \A s \in LoginSockets :
        login[s].status \notin Admitted /\ login'[s].status \in Admitted =>
            logon[login'[s].id] # "LOGON" /\ logon'[login'[s].id] = "LOGON"

EndingStep ==
    \A s \in LoginSockets :
        login[s].status \in Admitted /\ login'[s].status = "CLOSED" =>
            logon'[login[s].id] # "LOGON"

TakeoverStep ==
    \A a \in Accounts : logon[a] = "GAME" /\ logon'[a] = "LOGON" =>
        \E s \in LoginSockets : login[s].id = a /\ login[s].name # Nobody

HeldStep ==
    \A a \in Accounts : logon'[a] = "LOGON" /\ Holders(a)' = {} =>
        \/ logon[a] = "LOGON" /\ Holders(a) = {}
        \/ \E s \in Holders(a) :
               login'[s].status = "LPS_BEGIN_SESSION" /\ login'[s].id = a

FreedStep ==
    \A r \in LoginSockets :
        LosesRow(r) =>
            \/ OutsiderEnds
            \/ \E s \in Holders(login[r].id) \ {r} : login'[s] = Closed

\* One session is let in at a time, and an admitted one keeps its account.
AloneStep ==
    /\ \A r, s \in LoginSockets :
         /\ login[r].status \notin Admitted /\ login'[r].status \in Admitted
         /\ login[s].status \notin Admitted /\ login'[s].status \in Admitted
         => r = s
    /\ \A s \in LoginSockets :
         login[s].status \in Admitted /\ login'[s].status \in Admitted =>
             login'[s].id = login[s].id

RowStep ==
    AdmissionStep /\ EndingStep /\ TakeoverStep /\ HeldStep /\ FreedStep /\ AloneStep

\* No row is taken from a player, and none is set to LOGON or freed from it.
LogonStays == \A a \in Accounts : logon'[a] = "LOGON" <=> logon[a] = "LOGON"

-----------------------------------------------------------------------------
(* The kinds of steps. *)

\* An admitted session has an account.
LEMMA AdmittedHasAccount ==
    ASSUME LoginInv, NEW s \in LoginSockets, login[s].status \in Admitted
    PROVE  login[s].id \in Accounts
<1>1. login[s] \in LoginPlayers
  BY LiveSession DEF Admitted
<1> QED BY <1>1 DEF LoginInv, SessionHasAccount, LoginPlayers

\* No session changes.
LEMMA StillStep ==
    ASSUME LoginInv, UNCHANGED login, LogonStays
    PROVE  RowStep
<1>1. AdmissionStep /\ EndingStep /\ TakeoverStep /\ AloneStep
  BY DEF AdmissionStep, EndingStep, TakeoverStep, AloneStep, LogonStays, Admitted
<1>2. HeldStep
  BY DEF HeldStep, LogonStays, Holders
<1>3. FreedStep
  BY AdmittedHasAccount DEF FreedStep, LosesRow, LogonStays
<1> QED BY <1>1, <1>2, <1>3 DEF RowStep

\* A session changes, but is neither let in nor ended, and keeps what it was let in for.
LEMMA QuietStep ==
    ASSUME LoginInv, NEW s \in LoginSockets, NEW p, login' = [login EXCEPT ![s] = p],
           p.status # "CLOSED",
           p.status \in Admitted <=> login[s].status \in Admitted,
           p.status \in Admitted => p.id = login[s].id,
           LogonStays
    PROVE  RowStep
<1>1. login'[s] = p /\ \A r \in LoginSockets \ {s} : login'[r] = login[r]
  BY DEF LoginInv, LoginTypeOK
<1>2. AdmissionStep /\ AloneStep
  BY <1>1 DEF AdmissionStep, AloneStep
<1>3. EndingStep
  BY <1>1 DEF EndingStep, Admitted
<1>4. HeldStep
  <2>1. \A a \in Accounts : Holders(a)' = Holders(a)
    BY <1>1 DEF Holders
  <2> QED BY <2>1 DEF HeldStep, LogonStays
<1>5. FreedStep
  BY AdmittedHasAccount DEF FreedStep, LosesRow, LogonStays
<1> QED BY <1>2, <1>3, <1>4, <1>5 DEF RowStep, TakeoverStep, LogonStays

\* A session ends, with the account it was admitted for.
LEMMA EndStep ==
    ASSUME LoginInv, NEW s \in LoginSockets, NEW id, Live(s), EndSession(s, id),
           login[s].status \in Admitted => id = login[s].id
    PROVE  RowStep
<1>1. login'[s] = Closed /\ \A r \in LoginSockets \ {s} : login'[r] = login[r]
  BY DEF LoginInv, LoginTypeOK, EndSession
<1>2. AdmissionStep /\ AloneStep
  BY <1>1 DEF AdmissionStep, AloneStep, Admitted, Closed
<1>3. EndingStep
  <2>1. SUFFICES ASSUME login[s].status \in Admitted PROVE logon'[login[s].id] # "LOGON"
    BY <1>1 DEF EndingStep, Admitted
  <2>2. logon' = UpdateWhere(login[s].id, "LOGON", "LOGOFF")
    BY <2>1 DEF EndSession, Admitted
  <2> QED BY <2>1, <2>2, AdmittedHasAccount DEF UpdateWhere
<1>4. \A a \in Accounts : logon'[a] = "LOGON" => logon[a] = "LOGON"
  BY DEF EndSession, UpdateWhere, LoginInv, TableTypeOK
<1>5. HeldStep
  <2>1. SUFFICES ASSUME NEW a \in Accounts, logon'[a] = "LOGON", Holders(a)' = {}
                 PROVE  Holders(a) = {}
    BY <1>4 DEF HeldStep
  <2>2. s \notin Holders(a)
    BY <1>1, <1>3, <2>1 DEF EndingStep, Holders, Closed
  <2>3. Holders(a) \ {s} \subseteq Holders(a)'
    BY <1>1 DEF Holders
  <2> QED BY <2>1, <2>2, <2>3
<1>6. FreedStep
  <2>1. SUFFICES ASSUME NEW r \in LoginSockets, LosesRow(r), login[s].status # "LPS_BEGIN_SESSION"
                 PROVE  s \in Holders(login[r].id) \ {r}
    BY <1>1 DEF FreedStep, OutsiderEnds
  <2>2. r # s
    BY <1>1, <2>1 DEF LosesRow, Closed, Admitted
  <2>3. login[r].id \in Accounts
    BY <2>1, AdmittedHasAccount DEF LosesRow
  <2>4. login[s].status # "LPS_WAITING_FOR_GL_KICK_VERIFY" /\ login[r].id = id
    BY <2>1, <2>3 DEF LosesRow, EndSession, UpdateWhere
  <2>5. login[s].status \in Admitted
    BY <2>1, <2>4, LiveSession DEF Live, LoginPlayers, LPS, Admitted
  <2> QED BY <2>2, <2>4, <2>5 DEF Holders
<1> QED BY <1>2, <1>3, <1>4, <1>5, <1>6 DEF RowStep, TakeoverStep

\* A session takes a row that is free.
LEMMA TakeStep ==
    ASSUME LoginInv, NEW s \in LoginSockets, NEW p, login' = [login EXCEPT ![s] = p],
           p.status \in Admitted, login[s].status \notin Admitted,
           p.id \in Accounts, RowFree(p.id),
           logon' = UpdateWhere(p.id, "LOGOFF", "LOGON")
    PROVE  RowStep
<1>1. login'[s] = p /\ \A r \in LoginSockets \ {s} : login'[r] = login[r]
  BY DEF LoginInv, LoginTypeOK
<1>2. /\ logon[p.id] = "LOGOFF" /\ logon'[p.id] = "LOGON"
      /\ \A a \in Accounts \ {p.id} : logon'[a] = logon[a]
  BY DEF RowFree, UpdateWhere
<1>3. AdmissionStep /\ AloneStep
  BY <1>1, <1>2 DEF AdmissionStep, AloneStep
<1>4. EndingStep
  BY <1>1 DEF EndingStep, Admitted
<1>5. TakeoverStep
  BY <1>2 DEF TakeoverStep
<1>6. HeldStep
  <2>1. s \in Holders(p.id)' /\ \A a \in Accounts : Holders(a) \subseteq Holders(a)'
    BY <1>1 DEF Holders
  <2> QED BY <1>2, <2>1 DEF HeldStep
<1>7. FreedStep
  BY <1>2, AdmittedHasAccount DEF FreedStep, LosesRow
<1> QED BY <1>3, <1>4, <1>5, <1>6, <1>7 DEF RowStep

\* sendLCLoginOK, for a session that has asked for a kick.
LEMMA LoginOKStep ==
    ASSUME LoginInv, NEW s \in LoginSockets, login[s].name # Nobody, Live(s),
           SendLCLoginOK(s), NEW p, login' = [login EXCEPT ![s] = p],
           p.status = AfterLCLoginOK(s), p.id = login[s].id
    PROVE  RowStep
<1>1. login'[s] = p /\ \A r \in LoginSockets \ {s} : login'[r] = login[r]
  BY DEF LoginInv, LoginTypeOK
<1>2. login[s].id \in Accounts \cup {Nobody}
  BY LiveSession DEF Live, LoginPlayers
<1>3. AdmissionStep /\ AloneStep
  BY <1>1, <1>2 DEF AdmissionStep, AloneStep, AfterLCLoginOK, Admitted, SendLCLoginOK,
                    TakesRow, LoginInv, TableTypeOK
<1>4. EndingStep
  BY <1>1 DEF EndingStep, AfterLCLoginOK, Admitted
<1>5. TakeoverStep
  BY DEF TakeoverStep, SendLCLoginOK, TakesRow, LoginInv, TableTypeOK
<1>6. HeldStep
  <2>1. CASE TakesRow(login[s].id)
    <3>1. \A a \in Accounts \ {p.id} : logon'[a] = logon[a]
      BY <2>1 DEF SendLCLoginOK, LoginInv, TableTypeOK
    <3>2. s \in Holders(p.id)' /\ \A a \in Accounts : Holders(a) \subseteq Holders(a)'
      BY <1>1, <2>1 DEF Holders, AfterLCLoginOK, Admitted
    <3> QED BY <3>1, <3>2 DEF HeldStep
  <2>2. CASE ~TakesRow(login[s].id)
    <3>1. login'[s].status = "LPS_BEGIN_SESSION" /\ login'[s].id = login[s].id
      BY <1>1, <2>2 DEF AfterLCLoginOK
    <3>2. \A a \in Accounts : Holders(a) \ {s} \subseteq Holders(a)'
      BY <1>1 DEF Holders
    <3>3. \A a \in Accounts : s \in Holders(a) => login[s].id = a
      BY DEF Holders
    <3>4. logon' = logon
      BY <2>2 DEF SendLCLoginOK
    <3> QED BY <3>1, <3>2, <3>3, <3>4 DEF HeldStep
  <2> QED BY <2>1, <2>2
<1>7. FreedStep
  <2>1. \A a \in Accounts : logon[a] = "LOGON" => logon'[a] = "LOGON"
    BY DEF SendLCLoginOK, LoginInv, TableTypeOK
  <2> QED BY <2>1, AdmittedHasAccount DEF FreedStep, LosesRow
<1> QED BY <1>3, <1>4, <1>5, <1>6, <1>7 DEF RowStep

-----------------------------------------------------------------------------
(* The steps of the two servers. *)

\* A login connection's packets and timers.
LEMMA LoginClientRowStep ==
    ASSUME LoginInv, NEW s \in LoginSockets, LoginClientStep(s)
    PROVE  RowStep
<1>b. login[s].status = "LPS_BEGIN_SESSION" => login[s].status \notin Admitted
  BY DEF Admitted
<1>n. UNCHANGED dbVars => LogonStays
  BY DEF LogonStays, dbVars
<1>1. ASSUME NEW h \in Hosts, Accept(s, h) PROVE RowStep
  <2> DEFINE p == [Closed EXCEPT !.status = "LPS_BEGIN_SESSION", !.host = h]
  <2>1. p.status = "LPS_BEGIN_SESSION"
    BY DEF Closed
  <2>2. login' = [login EXCEPT ![s] = p] /\ UNCHANGED dbVars
    BY <1>1 DEF Accept
  <2>3. login[s].status \notin Admitted
    BY <1>1 DEF Accept, Live, Admitted
  <2> QED BY <1>n, <2>1, <2>2, <2>3, QuietStep DEF Admitted
<1>2. ASSUME ClientGone(s) \/ IdleExpires(s) \/ PreAuthExpires(s) PROVE RowStep
  BY <1>2, EndStep DEF ClientGone, IdleExpires, IdleIsChecked, PreAuthExpires, Live
<1>f. ASSUME Fails(s), login[s].status = "LPS_BEGIN_SESSION" PROVE RowStep
  <2>1. CASE MayFailAgain(s)
    <3>1. [login[s] EXCEPT !.fails = @ + 1].status = "LPS_BEGIN_SESSION"
      BY <1>f, LiveSession DEF LoginPlayers
    <3> QED BY <1>f, <1>n, <2>1, <3>1, <1>b, QuietStep DEF Fails
  <2>2. CASE ~MayFailAgain(s)
    BY <1>f, <2>2, EndStep DEF Fails, Live
  <2> QED BY <2>1, <2>2
<1>w. ASSUME CLLoginWrongPassword(s) PROVE RowStep
  BY <1>f, <1>w DEF CLLoginWrongPassword
<1>3. ASSUME NEW a \in Accounts, CLLoginAlreadyConnected(s, a) PROVE RowStep
  BY <1>3, <1>f DEF CLLoginAlreadyConnected
<1>4. ASSUME NEW a \in Accounts, CLLoginKick(s, a) PROVE RowStep
  <2> DEFINE p == [login[s] EXCEPT !.status = "LPS_WAITING_FOR_GL_KICK_VERIFY",
                                   !.id = a, !.name = KickedName(s, a), !.fails = 0]
  <2>1. p.status = "LPS_WAITING_FOR_GL_KICK_VERIFY"
    BY <1>4, LiveSession DEF CLLoginKick, LoginPlayers
  <2>2. login' = [login EXCEPT ![s] = p] /\ UNCHANGED dbVars
    BY <1>4 DEF CLLoginKick
  <2>3. login[s].status \notin Admitted
    BY <1>4, <1>b DEF CLLoginKick
  <2> QED BY <1>n, <2>1, <2>2, <2>3, QuietStep DEF Admitted
<1>5. ASSUME NEW a \in Accounts, CLLoginOK(s, a) PROVE RowStep
  <2> DEFINE p == [login[s] EXCEPT !.status = "LPS_WAITING_FOR_CL_GET_PC_LIST",
                                   !.id = a, !.fails = 0]
  <2>1. p.status = "LPS_WAITING_FOR_CL_GET_PC_LIST" /\ p.id = a
    BY <1>5, LiveSession DEF CLLoginOK, LoginPlayers
  <2>2. /\ login' = [login EXCEPT ![s] = p]
        /\ RowFree(a)
        /\ logon' = UpdateWhere(a, "LOGOFF", "LOGON")
    BY <1>5 DEF CLLoginOK
  <2>3. p.status \in Admitted /\ login[s].status \notin Admitted
    BY <1>5, <1>b, <2>1 DEF CLLoginOK, Admitted
  <2> QED BY <2>1, <2>2, <2>3, TakeStep
<1>6. ASSUME CLGetPCList(s) PROVE RowStep
  <2> DEFINE p == [login[s] EXCEPT !.status = "LPS_PC_MANAGEMENT"]
  <2>1. /\ p.status \in Admitted /\ login[s].status \in Admitted
        /\ p.status # "CLOSED" /\ p.id = login[s].id
    BY <1>6, LiveSession DEF CLGetPCList, LoginPlayers, Admitted
  <2>2. login' = [login EXCEPT ![s] = p] /\ UNCHANGED dbVars
    BY <1>6 DEF CLGetPCList
  <2> QED BY <1>n, <2>1, <2>2, QuietStep
<1>7. ASSUME CLSelectPC(s) PROVE RowStep
  <2> DEFINE p == [login[s] EXCEPT !.status = "LPS_AFTER_SENDING_LG_INCOMING_CONNECTION"]
  <2>1. /\ p.status \in Admitted /\ login[s].status \in Admitted
        /\ p.status # "CLOSED" /\ p.id = login[s].id
    BY <1>7, LiveSession DEF CLSelectPC, LoginPlayers, Admitted
  <2>2. login' = [login EXCEPT ![s] = p] /\ UNCHANGED dbVars
    BY <1>7 DEF CLSelectPC
  <2> QED BY <1>n, <2>1, <2>2, QuietStep
<1>8. ASSUME NEW t \in tickets, CLReconnectLoginRejected(s, t) PROVE RowStep
  <2>1. login[s].status \notin Admitted /\ Live(s) /\ \E id : EndSession(s, id)
    BY <1>8, <1>b DEF CLReconnectLoginRejected, Live
  <2> QED BY <2>1, EndStep
<1>9. ASSUME NEW t \in tickets, CLReconnectLoginOK(s, t) PROVE RowStep
  <2> DEFINE a == reconn[t.host].id
             p == [login[s] EXCEPT !.status = "LPS_PC_MANAGEMENT", !.id = a]
  <2>1. login[s] \in LoginPlayers
    BY <1>9, LiveSession DEF CLReconnectLoginOK
  <2>2. a \in Accounts
    BY <1>9 DEF CLReconnectLoginOK, LoginInv, LoginTypeOK, LinkTypeOK, Tickets, ReconnectLoginInfos
  <2>3. p.status = "LPS_PC_MANAGEMENT" /\ p.id = a
    BY <2>1 DEF LoginPlayers
  <2>4. /\ login' = [login EXCEPT ![s] = p]
        /\ RowFree(a)
        /\ logon' = UpdateWhere(a, "LOGOFF", "LOGON")
    BY <1>9 DEF CLReconnectLoginOK
  <2>5. p.status \in Admitted /\ login[s].status \notin Admitted
    BY <1>9, <1>b, <2>3 DEF CLReconnectLoginOK, Admitted
  <2> QED BY <2>2, <2>3, <2>4, <2>5, TakeStep
<1>10. ASSUME KickWaitExpires(s) PROVE RowStep
  <2> DEFINE count == NextKickCount(login[s].kicks)
  <2>1. login[s] \in LoginPlayers /\ login[s].name # Nobody /\ Live(s)
    BY <1>10, LiveSession DEF KickWaitExpires, LoginInv, SessionHasAccount, Live
  <2>2. CASE count >= MaxKicks
    <3> DEFINE p == [login[s] EXCEPT !.kicks = count, !.status = AfterLCLoginOK(s)]
    <3>1. p.status = AfterLCLoginOK(s) /\ p.id = login[s].id
      BY <2>1 DEF LoginPlayers
    <3>2. login' = [login EXCEPT ![s] = p] /\ SendLCLoginOK(s)
      BY <1>10, <2>2 DEF KickWaitExpires
    <3> QED BY <2>1, <3>1, <3>2, LoginOKStep
  <2>3. CASE ~(count >= MaxKicks)
    <3> DEFINE p == [login[s] EXCEPT !.kicks = count]
    <3>1. p.status = login[s].status /\ p.id = login[s].id
      BY <2>1 DEF LoginPlayers
    <3>2. login' = [login EXCEPT ![s] = p] /\ UNCHANGED dbVars
      BY <1>10, <2>3 DEF KickWaitExpires
    <3> QED BY <1>n, <2>1, <3>1, <3>2, QuietStep DEF Live
  <2> QED BY <2>2, <2>3
<1> QED
  BY <1>1, <1>2, <1>w, <1>3, <1>4, <1>5, <1>6, <1>7, <1>8, <1>9, <1>10 DEF LoginClientStep

\* The game server's datagrams.
LEMMA LoginDatagramRowStep ==
    ASSUME LoginInv, NEW m \in net, LoginDatagramStep(m)
    PROVE  RowStep
<1>n. UNCHANGED dbVars => LogonStays
  BY DEF LogonStays, dbVars
<1>1. ASSUME GLKickVerify(m) PROVE RowStep
  <2>1. CASE VerifyIsFor(m.sock, m)
    <3> DEFINE s == m.sock
               p == [login[s] EXCEPT !.status = AfterLCLoginOK(s)]
    <3>1. m.name \in Accounts
      BY <1>1 DEF GLKickVerify, LoginInv, LinkTypeOK, Datagrams, IncomingRequests,
                  IncomingReplies, IncomingErrors, KickDatagrams
    <3>2. s \in LoginSockets /\ Live(s) /\ login[s].name # Nobody
      BY <2>1, <3>1, NobodyAssumption DEF VerifyIsFor
    <3>3. p.status = AfterLCLoginOK(s) /\ p.id = login[s].id
      BY <3>2, LiveSession DEF Live, LoginPlayers
    <3>4. login' = [login EXCEPT ![s] = p] /\ SendLCLoginOK(s)
      BY <1>1, <2>1 DEF GLKickVerify
    <3> QED BY <3>2, <3>3, <3>4, LoginOKStep
  <2>2. CASE ~VerifyIsFor(m.sock, m)
    BY <1>1, <1>n, <2>2, StillStep DEF GLKickVerify
  <2> QED BY <2>1, <2>2
<1>2. ASSUME GLIncomingConnectionOK(m) PROVE RowStep
  <2>1. CASE \E s \in LoginSockets : login[s].id = m.id /\ EndSession(s, m.id)
    <3>1. m.id \in Accounts
      BY <1>2 DEF GLIncomingConnectionOK, LoginInv, LinkTypeOK, Datagrams, IncomingRequests,
                  IncomingReplies, IncomingErrors, KickDatagrams
    <3>2. PICK s \in LoginSockets : login[s].id = m.id /\ EndSession(s, m.id)
      BY <2>1
    <3>3. Live(s)
      BY <3>1, <3>2, NobodyAssumption DEF Live, LoginInv, LoginTypeOK, LoginPlayers, LPS, Closed
    <3> QED BY <3>2, <3>3, EndStep
  <2>2. CASE UNCHANGED <<login, dbVars>>
    BY <1>n, <2>2, StillStep
  <2> QED BY <1>2, <2>1, <2>2 DEF GLIncomingConnectionOK
<1>3. ASSUME GLIncomingConnection(m) PROVE RowStep
  BY <1>3, <1>n, StillStep DEF GLIncomingConnection
<1> QED BY <1>1, <1>2, <1>3 DEF LoginDatagramStep

\* The game server sets no row to LOGON, and none that is LOGON to another value.
LEMMA GameRowStep ==
    ASSUME TableTypeOK, GameServerStep
    PROVE  LogonStays
<1>n. UNCHANGED dbVars => LogonStays
  BY DEF LogonStays, dbVars
<1>u. ASSUME NEW id, NEW old \in {"LOGOFF", "GAME"}, NEW new \in {"LOGOFF", "GAME"},
             logon' = UpdateWhere(id, old, new)
      PROVE  LogonStays
  BY <1>u DEF LogonStays, UpdateWhere
<1>1. ASSUME NEW s \in GameSockets, GameClientStep(s) PROVE LogonStays
  <2>1. ASSUME NEW id, Destroy(s, id) PROVE LogonStays
    BY <1>u, <2>1 DEF Destroy
  <2>2. ASSUME NEW h \in Hosts, AcceptGame(s, h) PROVE LogonStays
    BY <1>n, <2>2 DEF AcceptGame
  <2>3. ASSUME \/ IncomingDisconnect(s) \/ CGConnectDuplicate(s) \/ CGConnectLoadFails(s)
               \/ CGReadyThenFails(s) \/ HeartbeatKicked(s)
        PROVE  LogonStays
    BY <2>1, <2>3 DEF IncomingDisconnect, CGConnectDuplicate, CGConnectLoadFails,
                      CGReadyThenFails, HeartbeatKicked, Remove
  <2>4. ASSUME NEW t \in tickets,
               CGConnectUnknown(s, t) \/ CGConnectRefused(s, t) \/ CGConnectTakesRow(s, t)
        PROVE  LogonStays
    BY <1>n, <1>u, <2>4 DEF CGConnectUnknown, CGConnectRefused, CGConnectTakesRow
  <2>5. ASSUME \/ CGConnectEnters(s) \/ CGReady(s) \/ HeartbeatIncoming(s)
               \/ HeartbeatOut(s) \/ HeartbeatDrops(s)
        PROVE  LogonStays
    BY <1>n, <2>5 DEF CGConnectEnters, CGReady, HeartbeatIncoming, HeartbeatOut, HeartbeatDrops
  <2> QED BY <1>1, <2>2, <2>3, <2>4, <2>5 DEF GameClientStep
<1>2. ASSUME NEW s \in GameSockets, ZoneStep(s) PROVE LogonStays
  BY <1>2, <1>n DEF ZoneStep, EnterZone, CGLogout, ZoneKick, Logout, LeaveZone, ChangeZone
<1>3. ASSUME NEW m \in net, GameDatagramStep(m) PROVE LogonStays
  BY <1>3, <1>n DEF GameDatagramStep, LGIncomingConnection, LGKickCharacter,
                    LGIncomingConnectionOK, LGIncomingConnectionError
<1>4. ASSUME NEW h \in Hosts, ConnectionInfoExpires(h) PROVE LogonStays
  BY <1>4, <1>n DEF ConnectionInfoExpires
<1> QED BY <1>1, <1>2, <1>3, <1>4 DEF GameServerStep

\* Every step.
LEMMA NextRowStep == HandoffInv /\ [Next]_vars => RowStep
<1> SUFFICES ASSUME HandoffInv, [Next]_vars PROVE RowStep
  OBVIOUS
<1>i. LoginInv
  BY HandoffInvSplit
<1>n. UNCHANGED dbVars => LogonStays
  BY DEF LogonStays, dbVars
<1>1. CASE LoginStep
  <2>1. ASSUME NEW h \in Hosts, ReconnectLoginInfoExpires(h) PROVE RowStep
    BY <1>i, <1>n, <2>1, StillStep DEF ReconnectLoginInfoExpires
  <2> QED BY <1>1, <1>i, <2>1, LoginClientRowStep, LoginDatagramRowStep
          DEF LoginStep, LoginServerStep
<1>2. CASE GameStep
  BY <1>2, <1>i, GameRowStep, StillStep DEF GameStep, LoginInv, loginVars
<1>3. CASE ClientStep
  BY <1>3, <1>i, <1>n, StillStep DEF ClientStep, ClientGivesUp, loginVars
<1>4. CASE RestartStep
  <2>1. CASE LoginServerRestarts
    <3>1. \A s \in LoginSockets : login'[s].status = "CLOSED"
      BY <2>1 DEF LoginServerRestarts, Closed
    <3>2. \A a \in Accounts : logon'[a] # "LOGON"
      BY <2>1 DEF LoginServerRestarts, UpdateAllWhere
    <3>3. AdmissionStep /\ AloneStep
      BY <3>1 DEF AdmissionStep, AloneStep, Admitted
    <3>4. EndingStep
      BY <1>i, <3>2, AdmittedHasAccount DEF EndingStep
    <3>5. HeldStep /\ FreedStep
      BY <3>1, <3>2 DEF HeldStep, FreedStep, LosesRow, Admitted
    <3> QED BY <3>2, <3>3, <3>4, <3>5 DEF RowStep, TakeoverStep
  <2>2. CASE GameServerRestarts /\ UNCHANGED loginVars
    <3>1. LogonStays
      BY <2>2 DEF GameServerRestarts, UpdateAllWhere, LogonStays
    <3> QED BY <1>i, <2>2, <3>1, StillStep DEF loginVars
  <2> QED BY <1>4, <2>1, <2>2 DEF RestartStep
<1>5. CASE UNCHANGED vars
  BY <1>5, <1>i, <1>n, StillStep DEF vars, loginVars
<1> QED BY <1>1, <1>2, <1>3, <1>4, <1>5 DEF Next

-----------------------------------------------------------------------------
(* Theorems. *)

(***************************************************************************)
(* Whoever is let in to the login server has just taken the account's row. *)
(***************************************************************************)
THEOREM AdmissionTakes == Spec => AdmissionTakesRow
<1>1. HandoffInv /\ [Next]_vars => [AdmissionStep]_vars
  BY NextRowStep DEF RowStep
<1> QED BY <1>1, Invariance, PTL DEF Spec, AdmissionTakesRow, AdmissionStep

(***************************************************************************)
(* However an admitted session ends, its account is not left at LOGON.     *)
(***************************************************************************)
THEOREM EndingFrees == Spec => EndingFreesRow
<1>1. HandoffInv /\ [Next]_vars => [EndingStep]_vars
  BY NextRowStep DEF RowStep
<1> QED BY <1>1, Invariance, PTL DEF Spec, EndingFreesRow, EndingStep

(***************************************************************************)
(* A player's row is taken only by a session of the account that asked for *)
(* a kick.                                                                 *)
(***************************************************************************)
THEOREM TakeoverAsked == Spec => TakeoverWasAsked
<1>1. HandoffInv /\ [Next]_vars => [TakeoverStep]_vars
  BY NextRowStep DEF RowStep
<1> QED BY <1>1, Invariance, PTL DEF Spec, TakeoverWasAsked, TakeoverStep

(***************************************************************************)
(* A LOGON row has a session that will free it, until the answer to a      *)
(* second LGKickCharacter puts the last one back to LPS_BEGIN_SESSION.     *)
(***************************************************************************)
THEOREM LogonStaysHeld == Spec => LogonIsHeld
<1>1. HandoffInv /\ [Next]_vars => [HeldStep]_vars
  BY NextRowStep DEF RowStep
<1> QED BY <1>1, Invariance, PTL DEF Spec, LogonIsHeld, HeldStep

(***************************************************************************)
(* A session's row is freed under it only by the end of another session of *)
(* the account, or of a connection that is not let in.                     *)
(***************************************************************************)
THEOREM RowsAreFreedByEndings == Spec => RowFreedByEnding
<1>1. HandoffInv /\ [Next]_vars => [FreedStep]_vars
  BY NextRowStep DEF RowStep
<1> QED BY <1>1, Invariance, PTL DEF Spec, RowFreedByEnding, FreedStep

-----------------------------------------------------------------------------
(* Where two logins of one account come from. *)

\* Every admitted session has the row it was let in for.
HoldersHaveRows ==
    \A s \in LoginSockets : login[s].status \in Admitted => logon[login[s].id] = "LOGON"

\* Sessions with rows of their own stay apart while no outsider frees one.
LEMMA SessionsStayApart ==
    ASSUME RowStep, \A r \in LoginSockets : LosesRow(r) => ~OutsiderEnds,
           NoMultiLogin, HoldersHaveRows
    PROVE  NoMultiLogin' /\ HoldersHaveRows'
<1>1. HoldersHaveRows'
  <2>1. SUFFICES ASSUME NEW s \in LoginSockets, login'[s].status \in Admitted
                 PROVE  logon'[login'[s].id] = "LOGON"
    BY DEF HoldersHaveRows, Admitted
  <2>2. CASE login[s].status \notin Admitted
    BY <2>1, <2>2 DEF RowStep, AdmissionStep
  <2>3. CASE login[s].status \in Admitted
    <3>1. login'[s].id = login[s].id /\ logon[login[s].id] = "LOGON"
      BY <2>1, <2>3 DEF RowStep, AloneStep, HoldersHaveRows
    <3>2. ~LosesRow(s)
      <4>1. SUFFICES ASSUME LosesRow(s) PROVE FALSE
        OBVIOUS
      <4>2. PICK r \in Holders(login[s].id) \ {s} : login'[r] = Closed
        BY <4>1 DEF RowStep, FreedStep
      <4> QED BY <2>3, <4>2 DEF Holders, NoMultiLogin
    <3> QED BY <2>1, <2>3, <3>1, <3>2 DEF LosesRow
  <2> QED BY <2>2, <2>3
<1>2. NoMultiLogin'
  <2>1. SUFFICES ASSUME NEW r \in LoginSockets, NEW s \in LoginSockets,
                        login'[r].status \in Admitted, login'[s].status \in Admitted,
                        login'[r].id = login'[s].id
                 PROVE  r = s
    BY DEF NoMultiLogin, Admitted
  <2>2. CASE login[r].status \in Admitted /\ login[s].status \in Admitted
    BY <2>1, <2>2 DEF RowStep, AloneStep, NoMultiLogin
  <2>3. CASE login[r].status \notin Admitted /\ login[s].status \notin Admitted
    BY <2>1, <2>3 DEF RowStep, AloneStep
  <2>4. ASSUME NEW o \in LoginSockets, NEW n \in LoginSockets, login'[o].id = login'[n].id,
               login[o].status \in Admitted, login'[o].status \in Admitted,
               login[n].status \notin Admitted, login'[n].status \in Admitted
        PROVE  FALSE
    <3>1. logon[login'[n].id] # "LOGON"
      BY <2>4 DEF RowStep, AdmissionStep
    <3>2. logon[login[o].id] = "LOGON" /\ login'[o].id = login[o].id
      BY <2>4 DEF RowStep, AloneStep, HoldersHaveRows
    <3> QED BY <2>4, <3>1, <3>2
  <2> QED BY <2>1, <2>2, <2>3, <2>4
<1> QED BY <1>1, <1>2

(***************************************************************************)
(* Two sessions are let in for one account only after a connection that is *)
(* not let in has freed the row under a session: neither the handlers of   *)
(* CLLogin, CLReconnectLogin and GLKickVerify, nor the takeover of a       *)
(* player's row, nor restarts do it in any order without that.             *)
(***************************************************************************)
THEOREM OneSessionWithoutOutsiders == Spec /\ OutsidersFreeNothing => []NoMultiLogin
<1> DEFINE Leaves == \A r \in LoginSockets : LosesRow(r) => ~OutsiderEnds
<1>1. Init => NoMultiLogin /\ HoldersHaveRows
  BY DEF Init, LoginInit, NoMultiLogin, HoldersHaveRows, Closed, Admitted
<1>2. HandoffInv /\ [Next]_vars /\ [Leaves]_vars /\ NoMultiLogin /\ HoldersHaveRows =>
        NoMultiLogin' /\ HoldersHaveRows'
  <2> SUFFICES ASSUME HandoffInv, [Next]_vars, [Leaves]_vars, NoMultiLogin, HoldersHaveRows
               PROVE  NoMultiLogin' /\ HoldersHaveRows'
    OBVIOUS
  <2>1. CASE Leaves
    BY <2>1, NextRowStep, SessionsStayApart
  <2>2. CASE UNCHANGED vars
    BY <2>2 DEF vars, dbVars, loginVars, NoMultiLogin, HoldersHaveRows
  <2> QED BY <2>1, <2>2
<1> QED BY <1>1, <1>2, Invariance, PTL DEF Spec, OutsidersFreeNothing

(***************************************************************************)
(* A row is LOGON with no session to free it only after sendLCLoginOK has  *)
(* put a session back to LPS_BEGIN_SESSION.                                *)
(***************************************************************************)
THEOREM LogonRowsAreHeld == Spec /\ []NoneIsPutBack => []LogonRowHasSession
<1>1. Init => LogonRowHasSession
  BY DEF Init, TableInit, LogonRowHasSession
<1>2. HandoffInv /\ [Next]_vars /\ NoneIsPutBack' /\ LogonRowHasSession => LogonRowHasSession'
  <2> SUFFICES ASSUME HandoffInv, [Next]_vars, NoneIsPutBack', LogonRowHasSession,
                      NEW a \in Accounts, logon'[a] = "LOGON", Holders(a)' = {}
               PROVE  FALSE
    BY DEF LogonRowHasSession
  <2>1. PICK s \in Holders(a) : login'[s].status = "LPS_BEGIN_SESSION" /\ login'[s].id = a
    BY NextRowStep DEF RowStep, HeldStep, LogonRowHasSession
  <2> QED BY <2>1, NobodyAssumption DEF NoneIsPutBack, Holders
<1> QED BY <1>1, <1>2, Invariance, PTL DEF Spec

-----------------------------------------------------------------------------
(* Whose character a session has kicked. *)

\* A session that changes keeps to its own character, or ends.
LEMMA OneSessionNames ==
    ASSUME LoginInv, KicksOwnCharacter, NEW s \in LoginSockets, NEW p,
           login' = [login EXCEPT ![s] = p], p.name # Nobody => p.name = p.id
    PROVE  KicksOwnCharacter'
BY DEF LoginInv, LoginTypeOK, KicksOwnCharacter

LEMMA EndingNames ==
    ASSUME LoginInv, KicksOwnCharacter, NEW s \in LoginSockets, NEW id, EndSession(s, id)
    PROVE  KicksOwnCharacter'
BY OneSessionNames DEF EndSession, Closed

\* A login connection's packets and timers: the name is set with the ID of the same login.
LEMMA ClientNames ==
    ASSUME LoginInv, KicksOwnCharacter, NoneIsPutBack,
           NEW s \in LoginSockets, LoginClientStep(s)
    PROVE  KicksOwnCharacter'
<1>b. login[s].status = "LPS_BEGIN_SESSION" => login[s].id = Nobody /\ login[s].name = Nobody
  BY DEF NoneIsPutBack, KicksOwnCharacter
<1>k. login[s].name # Nobody => login[s].name = login[s].id
  BY DEF KicksOwnCharacter
<1>1. ASSUME NEW h \in Hosts, Accept(s, h) PROVE KicksOwnCharacter'
  <2>1. [Closed EXCEPT !.status = "LPS_BEGIN_SESSION", !.host = h].name = Nobody
    BY DEF Closed
  <2> QED BY <1>1, <2>1, OneSessionNames DEF Accept
<1>2. ASSUME ClientGone(s) \/ IdleExpires(s) \/ PreAuthExpires(s) PROVE KicksOwnCharacter'
  BY <1>2, EndingNames DEF ClientGone, IdleExpires, PreAuthExpires
<1>f. ASSUME Fails(s), login[s].status = "LPS_BEGIN_SESSION" PROVE KicksOwnCharacter'
  <2>1. CASE MayFailAgain(s)
    <3>1. [login[s] EXCEPT !.fails = @ + 1].name = Nobody
      BY <1>b, <1>f, LiveSession DEF LoginPlayers
    <3> QED BY <1>f, <2>1, <3>1, OneSessionNames DEF Fails
  <2>2. CASE ~MayFailAgain(s)
    BY <1>f, <2>2, EndingNames DEF Fails
  <2> QED BY <2>1, <2>2
<1>w. ASSUME CLLoginWrongPassword(s) PROVE KicksOwnCharacter'
  BY <1>f, <1>w DEF CLLoginWrongPassword
<1>3. ASSUME NEW a \in Accounts, CLLoginAlreadyConnected(s, a) PROVE KicksOwnCharacter'
  BY <1>3, <1>f DEF CLLoginAlreadyConnected
<1>4. ASSUME NEW a \in Accounts, CLLoginKick(s, a) PROVE KicksOwnCharacter'
  <2> DEFINE p == [login[s] EXCEPT !.status = "LPS_WAITING_FOR_GL_KICK_VERIFY",
                                   !.id = a, !.name = KickedName(s, a), !.fails = 0]
  <2>1. p.id = a /\ p.name = KickedName(s, a)
    BY <1>4, LiveSession DEF CLLoginKick, LoginPlayers
  <2>2. login' = [login EXCEPT ![s] = p]
    BY <1>4 DEF CLLoginKick
  <2>3. KickedName(s, a) = a
    BY <1>4, <1>b DEF CLLoginKick, KickedName
  <2> QED BY <2>1, <2>2, <2>3, OneSessionNames
<1>5. ASSUME NEW a \in Accounts, CLLoginOK(s, a) PROVE KicksOwnCharacter'
  <2> DEFINE p == [login[s] EXCEPT !.status = "LPS_WAITING_FOR_CL_GET_PC_LIST",
                                   !.id = a, !.fails = 0]
  <2>1. p.name = Nobody
    BY <1>5, <1>b, LiveSession DEF CLLoginOK, LoginPlayers
  <2>2. login' = [login EXCEPT ![s] = p]
    BY <1>5 DEF CLLoginOK
  <2> QED BY <2>1, <2>2, OneSessionNames
<1>s. ASSUME NEW st, login' = [login EXCEPT ![s].status = st], login[s] \in LoginPlayers
      PROVE  KicksOwnCharacter'
  <2> DEFINE p == [login[s] EXCEPT !.status = st]
  <2>1. p.name = login[s].name /\ p.id = login[s].id
    BY <1>s DEF LoginPlayers
  <2>2. login' = [login EXCEPT ![s] = p]
    BY <1>s
  <2> QED BY <1>k, <2>1, <2>2, OneSessionNames
<1>6. ASSUME CLGetPCList(s) \/ CLSelectPC(s) PROVE KicksOwnCharacter'
  <2>1. login[s] \in LoginPlayers
    BY <1>6, LiveSession DEF CLGetPCList, CLSelectPC
  <2> QED BY <1>6, <1>s, <2>1 DEF CLGetPCList, CLSelectPC
<1>7. ASSUME NEW t \in tickets, CLReconnectLoginRejected(s, t) PROVE KicksOwnCharacter'
  <2>1. \E id : EndSession(s, id)
    BY <1>7 DEF CLReconnectLoginRejected
  <2> QED BY <2>1, EndingNames
<1>8. ASSUME NEW t \in tickets, CLReconnectLoginOK(s, t) PROVE KicksOwnCharacter'
  <2> DEFINE p == [login[s] EXCEPT !.status = "LPS_PC_MANAGEMENT", !.id = reconn[t.host].id]
  <2>1. p.name = Nobody
    BY <1>8, <1>b, LiveSession DEF CLReconnectLoginOK, LoginPlayers
  <2>2. login' = [login EXCEPT ![s] = p]
    BY <1>8 DEF CLReconnectLoginOK
  <2> QED BY <2>1, <2>2, OneSessionNames
<1>9. ASSUME KickWaitExpires(s) PROVE KicksOwnCharacter'
  <2> DEFINE count == NextKickCount(login[s].kicks)
             p == [login[s] EXCEPT !.kicks = count, !.status = AfterLCLoginOK(s)]
             q == [login[s] EXCEPT !.kicks = count]
  <2>1. login[s] \in LoginPlayers
    BY <1>9, LiveSession DEF KickWaitExpires
  <2>2. p.name = login[s].name /\ p.id = login[s].id /\ q.name = p.name /\ q.id = p.id
    BY <2>1 DEF LoginPlayers
  <2>3. login' = [login EXCEPT ![s] = p] \/ login' = [login EXCEPT ![s] = q]
    BY <1>9 DEF KickWaitExpires
  <2> QED BY <1>k, <2>2, <2>3, OneSessionNames
<1> QED BY <1>1, <1>2, <1>w, <1>3, <1>4, <1>5, <1>6, <1>7, <1>8, <1>9 DEF LoginClientStep

\* The game server's datagrams.
LEMMA DatagramNames ==
    ASSUME LoginInv, KicksOwnCharacter, NEW m \in net, LoginDatagramStep(m)
    PROVE  KicksOwnCharacter'
<1>1. ASSUME GLKickVerify(m) PROVE KicksOwnCharacter'
  <2>1. CASE VerifyIsFor(m.sock, m)
    <3> DEFINE p == [login[m.sock] EXCEPT !.status = AfterLCLoginOK(m.sock)]
    <3>1. p.name = login[m.sock].name /\ p.id = login[m.sock].id
      BY <2>1, LiveSession DEF VerifyIsFor, Live, LoginPlayers
    <3>2. login' = [login EXCEPT ![m.sock] = p]
      BY <1>1, <2>1 DEF GLKickVerify
    <3> QED BY <2>1, <3>1, <3>2, OneSessionNames DEF VerifyIsFor, KicksOwnCharacter
  <2>2. CASE ~VerifyIsFor(m.sock, m)
    BY <1>1, <2>2 DEF GLKickVerify, KicksOwnCharacter
  <2> QED BY <2>1, <2>2
<1>2. ASSUME GLIncomingConnectionOK(m) PROVE KicksOwnCharacter'
  <2>1. CASE \E s \in LoginSockets : login[s].id = m.id /\ EndSession(s, m.id)
    BY <2>1, EndingNames
  <2>2. CASE UNCHANGED login
    BY <2>2 DEF KicksOwnCharacter
  <2> QED BY <1>2, <2>1, <2>2 DEF GLIncomingConnectionOK
<1>3. ASSUME GLIncomingConnection(m) PROVE KicksOwnCharacter'
  BY <1>3 DEF GLIncomingConnection, KicksOwnCharacter
<1> QED BY <1>1, <1>2, <1>3 DEF LoginDatagramStep

(***************************************************************************)
(* The kept name is that of another account's character only in a session  *)
(* that was put back to LPS_BEGIN_SESSION and logged in once more.         *)
(***************************************************************************)
THEOREM KicksAreOwn == Spec /\ []NoneIsPutBack => []KicksOwnCharacter
<1>1. Init => KicksOwnCharacter
  BY DEF Init, LoginInit, KicksOwnCharacter, Closed
<1>2. HandoffInv /\ [Next]_vars /\ NoneIsPutBack /\ KicksOwnCharacter => KicksOwnCharacter'
  <2> SUFFICES ASSUME HandoffInv, [Next]_vars, NoneIsPutBack, KicksOwnCharacter
               PROVE  KicksOwnCharacter'
    OBVIOUS
  <2>i. LoginInv
    BY HandoffInvSplit
  <2>n. UNCHANGED login => KicksOwnCharacter'
    BY DEF KicksOwnCharacter
  <2>1. CASE LoginStep
    <3>1. ASSUME NEW h \in Hosts, ReconnectLoginInfoExpires(h) PROVE KicksOwnCharacter'
      BY <2>n, <3>1 DEF ReconnectLoginInfoExpires
    <3> QED BY <2>1, <2>i, <3>1, ClientNames, DatagramNames DEF LoginStep, LoginServerStep
  <2>2. CASE UNCHANGED loginVars
    BY <2>2, <2>n DEF loginVars
  <2>3. CASE RestartStep
    BY <2>3, <2>n DEF RestartStep, LoginServerRestarts, loginVars, KicksOwnCharacter, Closed
  <2> QED BY <2>1, <2>2, <2>3 DEF Next, GameStep, ClientStep, vars
<1> QED BY <1>1, <1>2, Invariance, PTL DEF Spec
=============================================================================
