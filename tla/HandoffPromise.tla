----------------------------- MODULE HandoffPromise -----------------------------
(***************************************************************************)
(* Proof that the two servers implement AccountSession: initial states map *)
(* to initial states, and every step to a step of the promise or to none.  *)
(* From it: the row of a character in its zone is GAME, unless the promise *)
(* made one of the two steps that take it away.                            *)
(***************************************************************************)
EXTENDS LoginHandoffProofs

\* The image of the owner variable.
Owners == [s \in GameSockets |-> game[s].id]

PromiseStep == Promise!SessionNext \/ UNCHANGED <<logon, Owners, finder>>

\* A guarded UPDATE that finds its row.
RowGoes(a, from, to) == logon[a] = from /\ logon' = [logon EXCEPT ![a] = to]

\* The row moves the promise has besides those of a connection.
RowMove ==
    \/ UNCHANGED logon
    \/ \E a \in Accounts : \/ RowGoes(a, "LOGOFF", "LOGON")
                          \/ RowGoes(a, "LOGON", "LOGOFF")
                          \/ RowGoes(a, "GAME", "LOGON")
                          \/ RowGoes(a, "GAME", "LOGOFF")

-----------------------------------------------------------------------------
(* The table. *)

\* A guarded UPDATE changes the row it names, if that has the old value, or none.
LEMMA UpdateGoes ==
    ASSUME TableTypeOK, NEW id, NEW old, NEW new, logon' = UpdateWhere(id, old, new)
    PROVE  UNCHANGED logon \/ (id \in Accounts /\ RowGoes(id, old, new))
<1>1. CASE id \in Accounts /\ logon[id] = old
  BY <1>1 DEF RowGoes, UpdateWhere, TableTypeOK
<1>2. CASE ~(id \in Accounts /\ logon[id] = old)
  BY <1>2 DEF UpdateWhere, TableTypeOK
<1> QED BY <1>1, <1>2

\* A row may make such a move by itself.
LEMMA RowMovePromised ==
    ASSUME RowMove, UNCHANGED <<Owners, finder>>
    PROVE  PromiseStep
BY DEF RowMove, RowGoes, PromiseStep, Owners, Promise!SessionNext, Promise!LogIn,
       Promise!LogOut, Promise!TakeOver, Promise!Refuse, Promise!RowMoves

-----------------------------------------------------------------------------
(* The login server moves rows and no game connections. *)

\* A session that ends frees a LOGON row at most.
LEMMA EndSessionMoves ==
    ASSUME TableTypeOK, NEW s, NEW id, EndSession(s, id)
    PROVE  RowMove
BY UpdateGoes DEF EndSession, RowMove

\* sendLCLoginOK takes a row from a player, a free one, or none.
LEMMA LoginOKMoves ==
    ASSUME LoginInv, NEW s \in LoginSockets, Live(s), SendLCLoginOK(s)
    PROVE  RowMove
<1>1. login[s].id \in Accounts \cup {Nobody}
  BY LiveSession DEF Live, LoginPlayers
<1>2. CASE TakesRow(login[s].id)
  BY <1>1, <1>2 DEF SendLCLoginOK, TakesRow, RowMove, RowGoes, LoginInv, TableTypeOK, LogOnValues
<1>3. CASE ~TakesRow(login[s].id)
  BY <1>3 DEF SendLCLoginOK, RowMove
<1> QED BY <1>2, <1>3

\* A login connection's packets and timers.
LEMMA LoginClientMoves ==
    ASSUME LoginInv, NEW s \in LoginSockets, LoginClientStep(s)
    PROVE  RowMove
<1>n. UNCHANGED dbVars => RowMove
  BY DEF RowMove, dbVars
<1>t. TableTypeOK
  BY DEF LoginInv
<1>f. Fails(s) => RowMove
  BY <1>n, <1>t, EndSessionMoves DEF Fails
<1>1. ASSUME NEW h \in Hosts, Accept(s, h) PROVE RowMove
  BY <1>1, <1>n DEF Accept
<1>2. ASSUME ClientGone(s) \/ IdleExpires(s) \/ PreAuthExpires(s) PROVE RowMove
  BY <1>2, <1>t, EndSessionMoves DEF ClientGone, IdleExpires, PreAuthExpires
<1>3. ASSUME CLLoginWrongPassword(s) \/ \E a \in Accounts : CLLoginAlreadyConnected(s, a)
      PROVE  RowMove
  BY <1>3, <1>f DEF CLLoginWrongPassword, CLLoginAlreadyConnected
<1>4. ASSUME NEW a \in Accounts, CLLoginKick(s, a) PROVE RowMove
  BY <1>4, <1>n DEF CLLoginKick
<1>5. ASSUME NEW a \in Accounts, CLLoginOK(s, a) PROVE RowMove
  BY <1>5, <1>t, UpdateGoes DEF CLLoginOK, RowMove
<1>6. ASSUME CLGetPCList(s) \/ CLSelectPC(s) PROVE RowMove
  BY <1>6, <1>n DEF CLGetPCList, CLSelectPC
<1>7. ASSUME NEW t \in tickets, CLReconnectLoginRejected(s, t) PROVE RowMove
  <2>1. \E id : EndSession(s, id)
    BY <1>7 DEF CLReconnectLoginRejected
  <2> QED BY <1>t, <2>1, EndSessionMoves
<1>8. ASSUME NEW t \in tickets, CLReconnectLoginOK(s, t) PROVE RowMove
  BY <1>8, <1>t, UpdateGoes DEF CLReconnectLoginOK, RowMove
<1>9. ASSUME KickWaitExpires(s) PROVE RowMove
  BY <1>9, <1>n, LoginOKMoves DEF KickWaitExpires, Live
<1> QED
  BY <1>1, <1>2, <1>3, <1>4, <1>5, <1>6, <1>7, <1>8, <1>9 DEF LoginClientStep

\* Every step of the login server.
LEMMA LoginServerMoves ==
    ASSUME LoginInv, LoginServerStep
    PROVE  RowMove
<1>n. UNCHANGED dbVars => RowMove
  BY DEF RowMove, dbVars
<1>1. ASSUME NEW m \in net, GLKickVerify(m) PROVE RowMove
  BY <1>1, <1>n, LoginOKMoves DEF GLKickVerify, VerifyIsFor
<1>2. ASSUME NEW m \in net, GLIncomingConnectionOK(m) PROVE RowMove
  <2>1. UNCHANGED dbVars \/ \E s : EndSession(s, m.id)
    BY <1>2 DEF GLIncomingConnectionOK, dbVars
  <2> QED BY <1>n, <2>1, EndSessionMoves DEF LoginInv
<1>3. ASSUME NEW m \in net, GLIncomingConnection(m) PROVE RowMove
  BY <1>3, <1>n DEF GLIncomingConnection
<1>4. ASSUME NEW h \in Hosts, ReconnectLoginInfoExpires(h) PROVE RowMove
  BY <1>4, <1>n DEF ReconnectLoginInfoExpires
<1> QED BY <1>1, <1>2, <1>3, <1>4, LoginClientMoves DEF LoginServerStep, LoginDatagramStep

-----------------------------------------------------------------------------
(* The game server. *)

\* What its steps rely on.
LEMMA GameFacts ==
    ASSUME HandoffInv
    PROVE  /\ TableTypeOK
           /\ game \in [GameSockets -> GamePlayers \cup {Gone}]
           /\ finder \in [Accounts -> GameSockets \cup {Nobody}]
           /\ Nobody \notin Accounts /\ Nobody \notin GameSockets
BY NobodyAssumption DEF HandoffInv, TypeOK, GameTypeOK, Sockets

\* A connection's account is Nobody or an account.
LEMMA OwnerType ==
    ASSUME HandoffInv, NEW s \in GameSockets
    PROVE  /\ game[s].id \in Accounts \cup {Nobody}
           /\ game[s].pc \in {Nobody, game[s].id}
<1>1. game[s] \in GamePlayers \cup {Gone}
  BY GameFacts
<1>2. CASE game[s] = Gone
  BY <1>2 DEF Gone
<1>3. CASE game[s] \in GamePlayers
  <2>1. game[s].status \in GPS /\ game[s].status # "GONE"
    BY <1>3 DEF GamePlayers, GPS
  <2> QED BY <1>3, <2>1 DEF HandoffInv, PlayerHasAccount, GamePlayers
<1> QED BY <1>1, <1>2, <1>3

\* One connection changes: what the owners become.
LEMMA OwnersAfter ==
    ASSUME HandoffInv, NEW s \in GameSockets, NEW p, game' = [game EXCEPT ![s] = p]
    PROVE  Owners' = [Owners EXCEPT ![s] = p.id]
BY GameFacts DEF Owners

\* ... and its account does not.
LEMMA SameOwner ==
    ASSUME HandoffInv, NEW s \in GameSockets, NEW p, game' = [game EXCEPT ![s] = p],
           p.id = game[s].id
    PROVE  UNCHANGED Owners
BY GameFacts DEF Owners

\* A connection ends: it has no account any more.
LEMMA GoneOwner ==
    ASSUME HandoffInv, NEW s \in GameSockets, game' = [game EXCEPT ![s] = Gone]
    PROVE  Owners' = [Owners EXCEPT ![s] = Nobody]
<1>1. Gone.id = Nobody
  BY DEF Gone
<1> QED BY <1>1, OwnersAfter

\* A step the promise does not see.
LEMMA NothingMoves ==
    ASSUME UNCHANGED <<logon, Owners, finder>>
    PROVE  PromiseStep
BY DEF PromiseStep

\* No connection changes.
LEMMA NoGameChange ==
    ASSUME UNCHANGED game
    PROVE  UNCHANGED Owners
BY DEF Owners

\* A player is destroyed with its account, or with none yet.
LEMMA DestroyLeaves ==
    ASSUME HandoffInv, NEW s \in GameSockets, Destroy(s, game[s].id)
    PROVE  PromiseStep
<1> DEFINE a == game[s].id
<1>1. Owners' = [Owners EXCEPT ![s] = Nobody]
  BY GoneOwner DEF Destroy
<1>2. logon' = UpdateWhere(a, "GAME", "LOGOFF")
  BY DEF Destroy
<1>3. CASE a = Nobody
  <2>1. UNCHANGED logon
    BY <1>2, <1>3, GameFacts, UpdateGoes
  <2>2. UNCHANGED finder
    BY <1>3, OwnerType DEF Destroy
  <2>3. UNCHANGED Owners
    BY <1>1, <1>3 DEF Owners
  <2> QED BY <2>1, <2>2, <2>3, NothingMoves
<1>4. CASE a # Nobody
  <2>1. a \in Accounts
    BY <1>4, OwnerType
  <2>2. logon' = [logon EXCEPT ![a] = IF @ = "GAME" THEN "LOGOFF" ELSE @]
    BY <1>2, <2>1, GameFacts DEF UpdateWhere, TableTypeOK
  <2>3. finder[a] = s <=> game[s].pc = a
    BY <2>1 DEF HandoffInv, OnePlayerPerCharacter
  <2>4. finder' = [finder EXCEPT ![a] = IF @ = s THEN Nobody ELSE @]
    BY <1>4, <2>1, <2>3, OwnerType, GameFacts DEF Destroy
  <2>5. Promise!Leave(a, s)
    BY <1>1, <2>2, <2>4 DEF Promise!Leave, Owners
  <2> QED BY <2>1, <2>5 DEF PromiseStep, Promise!SessionNext
<1> QED BY <1>3, <1>4

\* A connection that has no account yet is turned away.
LEMMA UnknownOwner ==
    ASSUME HandoffInv, NEW s \in GameSockets, game[s].status = "GPS_BEGIN_SESSION",
           ClientThreadFree
    PROVE  game[s].id = Nobody
BY GameFacts DEF HandoffInv, PlayerHasAccount, ClientThreadFree

\* The three steps of CGConnect on the key it was given.
LEMMA ConnectPromised ==
    ASSUME HandoffInv, NEW s \in GameSockets, NEW t \in tickets,
           CGConnectUnknown(s, t) \/ CGConnectRefused(s, t) \/ CGConnectTakesRow(s, t)
    PROVE  PromiseStep
<1>1. game[s].id = Nobody
  BY UnknownOwner DEF CGConnectUnknown, CGConnectRefused, CGConnectTakesRow, UsesTicket
<1>2. t.id \in Accounts
  BY DEF HandoffInv, TypeOK, LinkTypeOK, Tickets
<1>3. CASE CGConnectUnknown(s, t)
  BY <1>1, <1>3, SameOwner, NothingMoves DEF CGConnectUnknown, Gone, dbVars
<1>4. CASE CGConnectRefused(s, t)
  <2>1. UNCHANGED Owners
    BY <1>1, <1>4, SameOwner DEF CGConnectRefused, Gone
  <2>2. RowMove
    BY <1>4, GameFacts, UpdateGoes DEF CGConnectRefused, RowMove
  <2> QED BY <1>4, <2>1, <2>2, RowMovePromised DEF CGConnectRefused
<1>5. CASE CGConnectTakesRow(s, t)
  <2>1. game[s] \in GamePlayers
    BY <1>5, GameFacts DEF CGConnectTakesRow, UsesTicket, Gone
  <2>2. [game[s] EXCEPT !.id = t.id].id = t.id
    BY <2>1 DEF GamePlayers
  <2>3. Owners' = [Owners EXCEPT ![s] = t.id]
    BY <1>5, <2>2, OwnersAfter DEF CGConnectTakesRow
  <2>4. logon[t.id] = "LOGOFF" /\ logon' = [logon EXCEPT ![t.id] = "GAME"]
    <3>1. logon[t.id] = "LOGOFF" /\ logon' = UpdateWhere(t.id, "LOGOFF", "GAME")
      BY <1>5 DEF CGConnectTakesRow, RowFree
    <3> QED BY <1>2, <3>1, GameFacts DEF UpdateWhere, TableTypeOK
  <2>5. Promise!Connect(t.id, s)
    BY <1>1, <1>5, <2>3, <2>4 DEF Promise!Connect, CGConnectTakesRow, Owners
  <2> QED BY <1>2, <2>5 DEF PromiseStep, Promise!SessionNext
<1> QED BY <1>3, <1>4, <1>5

\* The connection that is loading its character.
LEMMA LoadPromised ==
    ASSUME HandoffInv, NEW s \in GameSockets,
           CGConnectEnters(s) \/ CGConnectDuplicate(s) \/ CGConnectLoadFails(s)
    PROVE  PromiseStep
<1> DEFINE a == game[s].id
<1>1. loading = s
  BY DEF CGConnectEnters, CGConnectDuplicate, CGConnectLoadFails
<1>2. game[s].status = "GPS_BEGIN_SESSION" /\ game[s].pc = Nobody /\ a \in Accounts
  BY <1>1, OwnerType DEF HandoffInv, PlayerHasAccount
<1>3. CASE CGConnectEnters(s)
  <2>1. game[s] \in GamePlayers
    BY <1>2, GameFacts DEF Gone
  <2>2. [game[s] EXCEPT !.pc = a, !.status = "GPS_WAITING_FOR_CG_READY"].id = a
    BY <2>1 DEF GamePlayers
  <2>3. UNCHANGED Owners
    BY <1>3, <2>2, SameOwner DEF CGConnectEnters
  <2>4. Promise!Enter(a, s)
    BY <1>3, <2>3 DEF Promise!Enter, CGConnectEnters, InPCFinder, Owners, dbVars
  <2> QED BY <1>2, <2>4 DEF PromiseStep, Promise!SessionNext
<1>4. CASE CGConnectDuplicate(s)
  <2>1. Destroy(s, Nobody) /\ InPCFinder(a)
    BY <1>4 DEF CGConnectDuplicate, Remove
  <2>2. Owners' = [Owners EXCEPT ![s] = Nobody]
    BY <2>1, GoneOwner DEF Destroy
  <2>3. UNCHANGED logon
    BY <2>1, GameFacts, UpdateGoes DEF Destroy
  <2>4. UNCHANGED finder
    BY <1>2, <2>1 DEF Destroy
  <2>5. finder[a] \notin {Nobody, s}
    BY <1>2, <2>1, GameFacts DEF InPCFinder, HandoffInv, OnePlayerPerCharacter
  <2>6. Promise!Bounce(a, s)
    BY <2>2, <2>3, <2>4, <2>5 DEF Promise!Bounce, Owners
  <2> QED BY <1>2, <2>6 DEF PromiseStep, Promise!SessionNext
<1>5. CASE CGConnectLoadFails(s)
  BY <1>5, DestroyLeaves DEF CGConnectLoadFails, Remove
<1> QED BY <1>3, <1>4, <1>5

\* All that a connection's packets and the heartbeat do.
LEMMA GameClientPromised ==
    ASSUME HandoffInv, NEW s \in GameSockets, GameClientStep(s)
    PROVE  PromiseStep
<1>1. ASSUME NEW h \in Hosts, AcceptGame(s, h) PROVE PromiseStep
  <2> DEFINE p == [Gone EXCEPT !.status = "GPS_BEGIN_SESSION", !.host = h]
  <2>1. p.id = Nobody
    BY DEF Gone
  <2>2. game[s].id = Nobody
    BY <1>1, GameFacts DEF AcceptGame, Playing, Gone, GamePlayers, GPS
  <2>3. UNCHANGED Owners
    BY <1>1, <2>1, <2>2, SameOwner DEF AcceptGame
  <2> QED BY <1>1, <2>3, NothingMoves DEF AcceptGame, dbVars
<1>2. ASSUME IncomingDisconnect(s) \/ CGReadyThenFails(s) \/ HeartbeatKicked(s)
      PROVE  PromiseStep
  BY <1>2, DestroyLeaves DEF IncomingDisconnect, CGReadyThenFails, HeartbeatKicked, Remove
<1>3. ASSUME CGReady(s) PROVE PromiseStep
  <2>1. game[s] \in GamePlayers
    BY <1>3, GameFacts DEF CGReady, IsLoaded, Gone
  <2>2. [game[s] EXCEPT !.status = "GPS_NORMAL"].id = game[s].id
    BY <2>1 DEF GamePlayers
  <2>3. UNCHANGED Owners
    BY <1>3, <2>2, SameOwner DEF CGReady
  <2> QED BY <1>3, <2>3, NothingMoves DEF CGReady, dbVars
<1>4. ASSUME HeartbeatIncoming(s) \/ HeartbeatOut(s) \/ HeartbeatDrops(s) PROVE PromiseStep
  BY <1>4, NoGameChange, NothingMoves
     DEF HeartbeatIncoming, HeartbeatOut, HeartbeatDrops, dbVars
<1> QED BY <1>1, <1>2, <1>3, <1>4, ConnectPromised, LoadPromised DEF GameClientStep

\* The zone thread moves connections about and marks them.
LEMMA ZonePromised ==
    ASSUME HandoffInv, NEW s \in GameSockets, ZoneStep(s)
    PROVE  PromiseStep
<1>1. s \in held["zpm"] => game[s] \in GamePlayers
  BY GameFacts DEF HandoffInv, HeldOnce, Managers, Playing, Gone
<1>2. ASSUME NEW status, NEW marked, s \in held["zpm"],
             game' = [game EXCEPT ![s].status = status, ![s].kicked = marked],
             UNCHANGED <<dbVars, finder>>
      PROVE  PromiseStep
  <2> DEFINE p == [game[s] EXCEPT !.status = status, !.kicked = marked]
  <2>1. p.id = game[s].id
    BY <1>1, <1>2 DEF GamePlayers
  <2>2. game' = [game EXCEPT ![s] = p]
    BY <1>2
  <2> QED BY <1>2, <2>1, <2>2, SameOwner, NothingMoves DEF dbVars
<1>3. ASSUME NEW kick, Logout(s, kick) \/ ChangeZone(s, kick) PROVE PromiseStep
  BY <1>2, <1>3 DEF Logout, ChangeZone
<1>4. ASSUME EnterZone(s) \/ LeaveZone(s) PROVE PromiseStep
  BY <1>4, NoGameChange, NothingMoves DEF EnterZone, LeaveZone, dbVars
<1> QED BY <1>3, <1>4 DEF ZoneStep, CGLogout, ZoneKick

\* Datagrams mark players, and give them keys.
LEMMA GameDatagramPromised ==
    ASSUME HandoffInv, NEW m \in net, GameDatagramStep(m)
    PROVE  PromiseStep
<1>1. UNCHANGED <<logon, finder>>
  BY DEF GameDatagramStep, LGIncomingConnection, LGKickCharacter, LGIncomingConnectionOK,
         LGIncomingConnectionError, dbVars
<1>k. ASSUME NEW s \in GameSockets, IsIncoming(s, m.id) \/ IsReady(s, m.id)
      PROVE  game[s] \in GamePlayers
  BY <1>k, GameFacts DEF IsIncoming, IsReady, HandoffInv, HeldOnce, Managers, Playing, Gone
<1>2. CASE LGIncomingConnection(m)
  BY <1>1, <1>2, NoGameChange, NothingMoves DEF LGIncomingConnection
<1>3. CASE LGKickCharacter(m)
  <2> DEFINE s == finder[m.name]
  <2>1. m.name \in Accounts
    BY <1>3 DEF LGKickCharacter, HandoffInv, TypeOK, LinkTypeOK, Datagrams, IncomingRequests,
                IncomingReplies, IncomingErrors, KickDatagrams
  <2>2. CASE s = Nobody
    BY <1>1, <1>3, <2>2, NoGameChange, NothingMoves DEF LGKickCharacter
  <2>3. CASE s # Nobody
    <3>1. s \in GameSockets /\ game[s].pc # Nobody
      BY <2>1, <2>3, GameFacts DEF HandoffInv, OnePlayerPerCharacter
    <3>2. game[s] \in GamePlayers
      BY <3>1, GameFacts DEF Gone
    <3> DEFINE p == [game[s] EXCEPT !.kicked = TRUE, !.forLogin = TRUE]
    <3>3. p.id = game[s].id
      BY <3>2 DEF GamePlayers
    <3>4. game' = [game EXCEPT ![s] = p]
      BY <1>3, <2>3 DEF LGKickCharacter
    <3>5. UNCHANGED Owners
      BY <3>1, <3>3, <3>4, SameOwner
    <3> QED BY <1>1, <3>5, NothingMoves
  <2> QED BY <2>2, <2>3
<1>4. CASE LGIncomingConnectionOK(m)
  <2>1. ASSUME NEW s \in GameSockets, IsIncoming(s, m.id) \/ IsReady(s, m.id),
               game' = [game EXCEPT ![s].kicked = TRUE,
                                    ![s].key = IF KeepsKey(s) THEN m.key ELSE @]
        PROVE  UNCHANGED Owners
    <3> DEFINE p == [game[s] EXCEPT !.kicked = TRUE,
                                    !.key = IF KeepsKey(s) THEN m.key ELSE @]
    <3>1. p.id = game[s].id
      BY <1>k, <2>1 DEF GamePlayers
    <3>2. game' = [game EXCEPT ![s] = p]
      BY <2>1
    <3> QED BY <3>1, <3>2, SameOwner
  <2>2. UNCHANGED Owners
    BY <1>4, <2>1, NoGameChange DEF LGIncomingConnectionOK
  <2> QED BY <1>1, <2>2, NothingMoves
<1>5. CASE LGIncomingConnectionError(m)
  <2>1. ASSUME NEW s \in GameSockets, IsIncoming(s, m.id),
               game' = [game EXCEPT ![s].kicked =
                          @ \/ game[s].status = "GPS_AFTER_SENDING_GL_INCOMING_CONNECTION"]
        PROVE  UNCHANGED Owners
    <3> DEFINE p == [game[s] EXCEPT !.kicked =
                          @ \/ game[s].status = "GPS_AFTER_SENDING_GL_INCOMING_CONNECTION"]
    <3>1. p.id = game[s].id
      BY <1>k, <2>1 DEF GamePlayers
    <3>2. game' = [game EXCEPT ![s] = p]
      BY <2>1
    <3> QED BY <3>1, <3>2, SameOwner
  <2>2. UNCHANGED Owners
    BY <1>5, <2>1, NoGameChange DEF LGIncomingConnectionError
  <2> QED BY <1>1, <2>2, NothingMoves
<1> QED BY <1>2, <1>3, <1>4, <1>5 DEF GameDatagramStep

-----------------------------------------------------------------------------
(* The specification. *)

\* Initial states are initial states of the promise.
LEMMA InitPromised == Init => Promise!SessionInit
BY DEF Init, TableInit, GameInit, Gone, Promise!SessionInit

\* Every step is a step of the promise or leaves what it sees alone.
LEMMA NextPromised ==
    ASSUME HandoffInv, [Next]_vars
    PROVE  PromiseStep
<1>1. CASE LoginStep
  BY <1>1, LoginServerMoves, NoGameChange, RowMovePromised, HandoffInvSplit
     DEF LoginStep, gameVars
<1>2. CASE GameStep
  <2>1. ASSUME NEW h \in Hosts, ConnectionInfoExpires(h) PROVE PromiseStep
    BY <2>1, NoGameChange, NothingMoves DEF ConnectionInfoExpires, dbVars
  <2> QED BY <1>2, <2>1, GameClientPromised, ZonePromised, GameDatagramPromised
          DEF GameStep, GameServerStep
<1>3. CASE ClientStep
  BY <1>3, NoGameChange, NothingMoves DEF ClientStep, ClientGivesUp, gameVars, dbVars
<1>4. CASE LoginServerRestarts /\ UNCHANGED gameVars
  <2>1. Promise!LoginRestart
    BY <1>4, NoGameChange DEF Promise!LoginRestart, LoginServerRestarts, UpdateAllWhere,
                              gameVars, Owners
  <2> QED BY <2>1 DEF PromiseStep, Promise!SessionNext
<1>5. CASE GameServerRestarts
  <2>1. Promise!GameRestart
    BY <1>5 DEF Promise!GameRestart, GameServerRestarts, UpdateAllWhere, Gone
  <2> QED BY <2>1 DEF PromiseStep, Promise!SessionNext
<1>6. CASE UNCHANGED vars
  BY <1>6, NoGameChange, NothingMoves DEF vars, gameVars, dbVars
<1> QED BY <1>1, <1>2, <1>3, <1>4, <1>5, <1>6 DEF Next, RestartStep

(***************************************************************************)
(* The login and game servers implement AccountSession: whatever datagrams *)
(* are lost or late, whoever restarts, a row moves only as the promise     *)
(* says, and a character is played by one connection at a time.            *)
(***************************************************************************)
THEOREM PromiseKept == Spec => ImplementsAccountSession
<1>1. HandoffInv /\ [Next]_vars => [Promise!SessionNext]_(Promise!sessionVars)
  BY NextPromised DEF PromiseStep, Promise!sessionVars, Owners
<1> QED
  BY <1>1, InitPromised, Invariance, PTL DEF Spec, ImplementsAccountSession, Promise!SessionSpec

-----------------------------------------------------------------------------
(* Who plays has the row, where nobody else takes or frees it. *)

\* A connection that was let in has its account's row, and has it alone.
OwnersHaveRows ==
    \A s \in GameSockets :
        Owners[s] # Nobody =>
            /\ logon[Owners[s]] = "GAME"
            /\ \A r \in GameSockets : Owners[r] = Owners[s] => r = s

\* Every other step of the promise keeps that so.
LEMMA OwnersKeepRows ==
    ASSUME HandoffInv, OwnersHaveRows, PromiseStep,
           \A a \in Accounts : ~Promise!TakeOver(a) /\ ~Promise!Refuse(a)
    PROVE  OwnersHaveRows'
<1>t. /\ logon \in [Accounts -> LogOnValues] /\ Nobody \notin Accounts
      /\ Owners \in [GameSockets -> Accounts \cup {Nobody}]
  BY GameFacts, OwnerType DEF TableTypeOK, Owners
<1>o. Owners' = [s \in GameSockets |-> game[s].id]'
  BY DEF Owners
<1>1. CASE UNCHANGED <<logon, Owners, finder>>
  BY <1>1 DEF OwnersHaveRows
<1>2. ASSUME NEW a \in Accounts, Promise!LogIn(a) \/ Promise!LogOut(a)
      PROVE  OwnersHaveRows'
  BY <1>t, <1>o, <1>2 DEF OwnersHaveRows, Promise!LogIn, Promise!LogOut, Promise!RowMoves, Owners
<1>3. ASSUME NEW a \in Accounts, NEW c \in GameSockets,
             Promise!Connect(a, c) \/ Promise!Leave(a, c) \/ Promise!Bounce(a, c)
                 \/ Promise!Enter(a, c)
      PROVE  OwnersHaveRows'
  <2>1. CASE Promise!Connect(a, c)
    <3>1. logon[a] = "LOGOFF" /\ logon' = [logon EXCEPT ![a] = "GAME"]
          /\ Owners' = [Owners EXCEPT ![c] = a]
      BY <2>1 DEF Promise!Connect, Owners
    <3> QED BY <1>t, <3>1 DEF OwnersHaveRows
  <2>2. CASE Promise!Leave(a, c)
    <3>1. /\ Owners[c] = a /\ Owners' = [Owners EXCEPT ![c] = Nobody]
          /\ \A b \in Accounts \ {a} : logon'[b] = logon[b]
      BY <1>t, <2>2 DEF Promise!Leave, Owners
    <3> QED BY <1>t, <3>1 DEF OwnersHaveRows
  <2>3. CASE Promise!Bounce(a, c)
    <3>1. Owners' = [Owners EXCEPT ![c] = Nobody] /\ logon' = logon
      BY <2>3 DEF Promise!Bounce, Owners
    <3> QED BY <1>t, <3>1 DEF OwnersHaveRows
  <2>4. CASE Promise!Enter(a, c)
    <3>1. Owners' = Owners /\ logon' = logon
      BY <2>4 DEF Promise!Enter, Owners
    <3> QED BY <3>1 DEF OwnersHaveRows
  <2> QED BY <1>3, <2>1, <2>2, <2>3, <2>4
<1>4. CASE Promise!LoginRestart
  <2>1. Owners' = Owners /\ \A a \in Accounts : logon[a] = "GAME" => logon'[a] = "GAME"
    BY <1>4 DEF Promise!LoginRestart, Owners
  <2> QED BY <1>t, <2>1 DEF OwnersHaveRows
<1>5. CASE Promise!GameRestart
  <2>1. \A s \in GameSockets : Owners'[s] = Nobody
    BY <1>5 DEF Promise!GameRestart, Owners
  <2> QED BY <2>1 DEF OwnersHaveRows
<1> QED BY <1>1, <1>2, <1>3, <1>4, <1>5 DEF PromiseStep, Promise!SessionNext

(***************************************************************************)
(* Where no login session takes a GAME row over and no refused CGConnect   *)
(* frees one, every character in a zone has its row at GAME, as            *)
(* LOGIN_SMOKE.md says: nothing else in the two servers breaks it.         *)
(***************************************************************************)
THEOREM PlayingRows == Spec /\ GameRowsAreLeft => []PlayingRowIsGame
<1>1. Init => OwnersHaveRows
  BY DEF Init, GameInit, Gone, OwnersHaveRows, Owners
<1>2. ASSUME HandoffInv, OwnersHaveRows, [Next]_vars,
             [\A a \in Accounts : ~Promise!TakeOver(a) /\ ~Promise!Refuse(a)]_vars
      PROVE  OwnersHaveRows'
  <2>1. CASE UNCHANGED vars
    <3>1. UNCHANGED <<logon, Owners>>
      BY <2>1 DEF vars, dbVars, gameVars, Owners
    <3> QED BY <1>2, <3>1 DEF OwnersHaveRows
  <2> QED BY <1>2, <2>1, NextPromised, OwnersKeepRows
<1>3. ASSUME HandoffInv, OwnersHaveRows PROVE PlayingRowIsGame
  <2> SUFFICES ASSUME NEW s \in held["zpm"] PROVE logon[game[s].id] = "GAME"
    BY DEF PlayingRowIsGame
  <2>1. s \in GameSockets
    BY <1>3 DEF HandoffInv, TypeOK, GameTypeOK, Managers
  <2>2. game[s].status \notin {"GONE", "GPS_BEGIN_SESSION"}
    BY <1>3, <2>1 DEF HandoffInv, HeldOnce, PlayerHasAccount, Playing, Managers
  <2>3. game[s].id # Nobody
    BY <1>3, <2>1, <2>2 DEF HandoffInv, PlayerHasAccount
  <2> QED BY <1>3, <2>1, <2>3 DEF OwnersHaveRows, Owners
<1> QED BY <1>1, <1>2, <1>3, Invariance, PTL DEF Spec, GameRowsAreLeft
=============================================================================
