----------------------------- MODULE HandoffPlaces -----------------------------
(***************************************************************************)
(* Proofs about LoginHandoff, on the invariant of LoginHandoffProofs: where*)
(* a connection of the game server is agrees with its status, one that     *)
(* holds a reconnect key is about to be disconnected, one that is marked   *)
(* as kicked stays so, and no queue holds a deleted one unless packets go  *)
(* on after a CGReady.                                                     *)
(***************************************************************************)
EXTENDS LoginHandoffProofs

-----------------------------------------------------------------------------
(* The invariant, connection by connection. *)

\* PlaceFitsStatus without the PCFinder, which HandoffInv knows of.
PlaceFits(s) ==
    Playing(s) =>
        /\ s \in held["ipmOut"] \cup held["zpmIn"] \cup held["zpm"] =>
              game[s].status = "GPS_NORMAL"
        /\ s \in held["zpmOut"] \cup held["ipmQueue"] =>
              game[s].status \in {"GPS_WAITING_FOR_CG_READY",
                                  "GPS_AFTER_SENDING_GL_INCOMING_CONNECTION"}
        /\ s \in held["ipm"] => game[s].status # "GPS_NORMAL"

KeyFits(s) ==
    game[s].key # Nobody =>
        /\ game[s].kicked
        /\ game[s].status = "GPS_AFTER_SENDING_GL_INCOMING_CONNECTION"
        /\ s \in held["ipm"] \cup held["ipmQueue"]

PlacesInv == \A s \in GameSockets : PlaceFits(s) /\ KeyFits(s)

\* What a step of one connection leaves of the others.
OthersStay(s) ==
    \A r \in GameSockets \ {s} :
        game'[r] = game[r] /\ \A m \in Managers : r \in held'[m] <=> r \in held[m]

-----------------------------------------------------------------------------
(* General steps. *)

\* A connection is in one place, and is one that exists.
LEMMA PlaceOf ==
    ASSUME HandoffInv, NEW s \in GameSockets, NEW m \in Managers, s \in held[m]
    PROVE  /\ \A n \in Managers \ {m} : s \notin held[n]
           /\ m # "ipmOut" => Playing(s)
           /\ Playing(s) => game[s] \in GamePlayers
BY DEF HandoffInv, HeldOnce, TypeOK, GameTypeOK, Playing, Gone

\* A step of one connection keeps the invariant if it does so for that one.
LEMMA OneChanges ==
    ASSUME PlacesInv, NEW s \in GameSockets, OthersStay(s), PlaceFits(s)', KeyFits(s)'
    PROVE  PlacesInv'
<1> SUFFICES ASSUME NEW r \in GameSockets, r # s
             PROVE  PlaceFits(r)' /\ KeyFits(r)'
  BY DEF PlacesInv
<1>1. PlaceFits(r) /\ KeyFits(r)
  BY DEF PlacesInv
<1>2. game'[r] = game[r] /\ \A m \in Managers : r \in held'[m] <=> r \in held[m]
  BY DEF OthersStay
<1> QED BY <1>1, <1>2 DEF PlaceFits, KeyFits, Playing, Managers

\* A connection that ends is in no place that matters, wherever a pointer to it stays.
LEMMA EndingFits ==
    ASSUME NEW s \in GameSockets, game'[s] = Gone
    PROVE  PlaceFits(s)' /\ KeyFits(s)'
BY DEF PlaceFits, KeyFits, Playing, Gone

\* Removing a connection from its manager.
LEMMA RemoveKeepsPlaces ==
    ASSUME HandoffInv, PlacesInv, NEW s \in GameSockets, NEW id, Remove(s, id)
    PROVE  PlacesInv'
<1>1. game' = [game EXCEPT ![s] = Gone] /\ game \in [GameSockets -> GamePlayers \cup {Gone}]
  BY DEF Remove, Destroy, HandoffInv, TypeOK, GameTypeOK
<1>2. OthersStay(s)
  BY <1>1 DEF OthersStay, Remove, HandoffInv, TypeOK, GameTypeOK, Managers
<1> QED BY <1>1, <1>2, EndingFits, OneChanges

\* Where a connection is after a move.
LEMMA MovePlaces ==
    ASSUME HandoffInv, NEW s \in GameSockets, NEW from \in Managers, NEW to \in Managers \ {from},
           s \in held[from], Move(s, from, to)
    PROVE  /\ \A r \in GameSockets \ {s}, m \in Managers : r \in held'[m] <=> r \in held[m]
           /\ s \in held'[to] /\ \A m \in Managers \ {to} : s \notin held'[m]
<1>1. held \in [Managers -> SUBSET GameSockets]
  BY DEF HandoffInv, TypeOK, GameTypeOK
<1>2. \A m \in Managers \ {from} : s \notin held[m]
  BY PlaceOf
<1>3. held' = [held EXCEPT ![from] = held[from] \ {s}, ![to] = held[to] \cup {s}]
  BY <1>1 DEF Move
<1> QED BY <1>1, <1>2, <1>3

-----------------------------------------------------------------------------
(* The steps of the game server. *)

\* Accept, CGConnect and CGReady.
LEMMA ConnectKeepsPlaces ==
    ASSUME HandoffInv, PlacesInv, NEW s \in GameSockets,
           \/ \E h \in Hosts : AcceptGame(s, h)
           \/ \E t \in tickets : \/ CGConnectUnknown(s, t)
                                \/ CGConnectRefused(s, t)
                                \/ CGConnectTakesRow(s, t)
           \/ CGConnectEnters(s) \/ CGConnectDuplicate(s) \/ CGConnectLoadFails(s)
           \/ CGReady(s) \/ CGReadyThenFails(s)
    PROVE  PlacesInv'
<1>t. /\ game \in [GameSockets -> GamePlayers \cup {Gone}]
      /\ held \in [Managers -> SUBSET GameSockets]
      /\ Nobody \notin Keys
  BY NobodyAssumption DEF HandoffInv, TypeOK, GameTypeOK
<1>p. PlaceFits(s) /\ KeyFits(s)
  BY DEF PlacesInv
<1>1. ASSUME NEW h \in Hosts, AcceptGame(s, h) PROVE PlacesInv'
  <2>1. /\ game'[s].status = "GPS_BEGIN_SESSION" /\ game'[s].key = Nobody
        /\ \A m \in Managers : s \in held'[m] <=> m = "ipm"
    BY <1>1, <1>t DEF AcceptGame, Gone, Managers
  <2>2. OthersStay(s)
    BY <1>1, <1>t DEF AcceptGame, OthersStay, Managers
  <2> QED BY <2>1, <2>2, OneChanges DEF PlaceFits, KeyFits, Managers
<1>2. ASSUME NEW t \in tickets, CGConnectUnknown(s, t) \/ CGConnectRefused(s, t)
      PROVE  PlacesInv'
  <2>1. game' = [game EXCEPT ![s] = Gone] /\ held' = [held EXCEPT !["ipm"] = @ \ {s}]
    BY <1>2 DEF CGConnectUnknown, CGConnectRefused
  <2>2. OthersStay(s)
    BY <2>1, <1>t DEF OthersStay, Managers
  <2> QED BY <1>t, <2>1, <2>2, EndingFits, OneChanges
<1>3. ASSUME NEW t \in tickets, CGConnectTakesRow(s, t) PROVE PlacesInv'
  <2>1. game' = [game EXCEPT ![s].id = t.id] /\ held' = held
    BY <1>3 DEF CGConnectTakesRow
  <2>2. OthersStay(s)
    BY <2>1, <1>t DEF OthersStay
  <2>3. game[s] \in GamePlayers
    BY <1>3, <1>t DEF CGConnectTakesRow, UsesTicket, Gone
  <2>4. /\ game'[s].status = game[s].status /\ game'[s].kicked = game[s].kicked
        /\ game'[s].key = game[s].key
    BY <1>t, <2>1, <2>3 DEF GamePlayers
  <2> QED BY <1>p, <2>1, <2>2, <2>4, OneChanges DEF PlaceFits, KeyFits, Playing
<1>4. ASSUME CGConnectEnters(s) PROVE PlacesInv'
  <2>1. game[s].status = "GPS_BEGIN_SESSION" /\ s \in held["ipm"] /\ game[s] \in GamePlayers
    BY <1>4, <1>t DEF CGConnectEnters, HandoffInv, PlayerHasAccount, Gone
  <2>2. \A m \in Managers : s \in held[m] => m = "ipm"
    BY <2>1 DEF HandoffInv, HeldOnce, Managers
  <2>3. /\ game' = [game EXCEPT ![s].pc = game[s].id, ![s].status = "GPS_WAITING_FOR_CG_READY"]
        /\ held' = held
    BY <1>4 DEF CGConnectEnters
  <2>4. game'[s].status = "GPS_WAITING_FOR_CG_READY" /\ game'[s].key = game[s].key
    BY <1>t, <2>1, <2>3 DEF GamePlayers
  <2>5. OthersStay(s)
    BY <2>3, <1>t DEF OthersStay
  <2> QED BY <1>p, <2>1, <2>2, <2>3, <2>4, <2>5, OneChanges DEF PlaceFits, KeyFits, Managers
<1>5. ASSUME CGConnectDuplicate(s) \/ CGConnectLoadFails(s) PROVE PlacesInv'
  BY <1>5, RemoveKeepsPlaces DEF CGConnectDuplicate, CGConnectLoadFails
<1>6. ASSUME CGReady(s) PROVE PlacesInv'
  <2>1. s \in held["ipm"] /\ ~game[s].kicked /\ game[s] \in GamePlayers
    BY <1>6, <1>t DEF CGReady, IsLoaded, Gone
  <2>2. /\ \A r \in GameSockets \ {s}, m \in Managers : r \in held'[m] <=> r \in held[m]
        /\ \A m \in Managers : s \in held'[m] <=> m = "ipmOut"
    BY <1>6, <2>1, MovePlaces DEF CGReady, Managers
  <2>3. game' = [game EXCEPT ![s].status = "GPS_NORMAL"]
    BY <1>6 DEF CGReady
  <2>4. game'[s].status = "GPS_NORMAL" /\ game'[s].key = game[s].key
    BY <1>t, <2>1, <2>3 DEF GamePlayers
  <2>5. game[s].key = Nobody
    BY <1>p, <2>1 DEF KeyFits
  <2>6. OthersStay(s)
    BY <1>t, <2>2, <2>3 DEF OthersStay
  <2> QED BY <2>2, <2>4, <2>5, <2>6, OneChanges DEF PlaceFits, KeyFits, Managers
<1>7. ASSUME CGReadyThenFails(s) PROVE PlacesInv'
  <2>1. s \in held["ipm"] /\ Move(s, "ipm", "ipmOut") /\ game' = [game EXCEPT ![s] = Gone]
    BY <1>7 DEF CGReadyThenFails, IsLoaded, Destroy
  <2>2. OthersStay(s)
    BY <1>t, <2>1, MovePlaces DEF OthersStay, Managers
  <2> QED BY <1>t, <2>1, <2>2, EndingFits, OneChanges
<1> QED BY <1>1, <1>2, <1>3, <1>4, <1>5, <1>6, <1>7

\* A move without a change of the player.
LEMMA PlainMoveFits ==
    ASSUME HandoffInv, PlacesInv, NEW s \in GameSockets, NEW from \in Managers,
           NEW to \in Managers \ {from}, s \in held[from], Move(s, from, to), game' = game,
           Playing(s) => /\ to \in {"ipmOut", "zpmIn", "zpm"} => game[s].status = "GPS_NORMAL"
                         /\ to \in {"zpmOut", "ipmQueue"} =>
                               game[s].status \in {"GPS_WAITING_FOR_CG_READY",
                                                   "GPS_AFTER_SENDING_GL_INCOMING_CONNECTION"}
                         /\ to = "ipm" => game[s].status # "GPS_NORMAL",
           game[s].key = Nobody
    PROVE  PlacesInv'
<1>1. /\ \A r \in GameSockets \ {s}, m \in Managers : r \in held'[m] <=> r \in held[m]
      /\ \A m \in Managers : s \in held'[m] <=> m = to
  BY MovePlaces
<1>2. OthersStay(s)
  BY <1>1 DEF OthersStay
<1>3. PlaceFits(s)' /\ KeyFits(s)'
  BY <1>1 DEF PlaceFits, KeyFits, Playing, Managers
<1> QED BY <1>2, <1>3, OneChanges

\* The heartbeat of the incoming players, and their disconnects.
LEMMA IncomingKeepsPlaces ==
    ASSUME HandoffInv, PlacesInv, NEW s \in GameSockets,
           \/ IncomingDisconnect(s)
           \/ HeartbeatKicked(s) \/ HeartbeatIncoming(s) \/ HeartbeatOut(s) \/ HeartbeatDrops(s)
    PROVE  PlacesInv'
<1>t. /\ game \in [GameSockets -> GamePlayers \cup {Gone}]
      /\ held \in [Managers -> SUBSET GameSockets]
  BY DEF HandoffInv, TypeOK, GameTypeOK
<1>p. PlaceFits(s) /\ KeyFits(s)
  BY DEF PlacesInv
<1>1. ASSUME IncomingDisconnect(s) \/ HeartbeatKicked(s) PROVE PlacesInv'
  BY <1>1, RemoveKeepsPlaces DEF IncomingDisconnect, HeartbeatKicked
<1>2. ASSUME HeartbeatIncoming(s) PROVE PlacesInv'
  <2>1. /\ s \in held["ipmQueue"] /\ ~game[s].kicked
        /\ Move(s, "ipmQueue", "ipm") /\ game' = game
    BY <1>2 DEF HeartbeatIncoming
  <2>2. Playing(s) => game[s].status # "GPS_NORMAL"
    BY <1>p, <2>1 DEF PlaceFits
  <2>3. game[s].key = Nobody
    BY <1>p, <2>1 DEF KeyFits
  <2> QED BY <2>1, <2>2, <2>3, PlainMoveFits DEF Managers
<1>3. ASSUME HeartbeatOut(s) PROVE PlacesInv'
  <2>1. s \in held["ipmOut"] /\ Playing(s) /\ Move(s, "ipmOut", "zpmIn") /\ game' = game
    BY <1>3 DEF HeartbeatOut
  <2>2. game[s].status = "GPS_NORMAL"
    BY <1>p, <2>1 DEF PlaceFits
  <2>3. game[s].key = Nobody
    BY <1>p, <2>2 DEF KeyFits
  <2> QED BY <2>1, <2>2, <2>3, PlainMoveFits DEF Managers
<1>4. ASSUME HeartbeatDrops(s) PROVE PlacesInv'
  <2>1. ~Playing(s) /\ held' = [held EXCEPT !["ipmOut"] = @ \ {s}] /\ game' = game
    BY <1>4 DEF HeartbeatDrops
  <2>2. game'[s] = Gone
    BY <1>t, <2>1 DEF Playing, GamePlayers, GPS
  <2>3. OthersStay(s)
    BY <1>t, <2>1 DEF OthersStay, Managers
  <2> QED BY <2>2, <2>3, EndingFits, OneChanges
<1> QED BY <1>1, <1>2, <1>3, <1>4

\* The zone thread.
LEMMA ZoneKeepsPlaces ==
    ASSUME HandoffInv, PlacesInv, NEW s \in GameSockets, ZoneStep(s)
    PROVE  PlacesInv'
<1>t. game \in [GameSockets -> GamePlayers \cup {Gone}]
  BY DEF HandoffInv, TypeOK, GameTypeOK
<1>p. PlaceFits(s) /\ KeyFits(s)
  BY DEF PlacesInv
<1>1. ASSUME EnterZone(s) PROVE PlacesInv'
  <2>1. s \in held["zpmIn"] /\ Move(s, "zpmIn", "zpm") /\ game' = game
    BY <1>1 DEF EnterZone
  <2>2. game[s].status = "GPS_NORMAL"
    BY <1>p, <2>1, PlaceOf DEF PlaceFits, Managers
  <2>3. game[s].key = Nobody
    BY <1>p, <2>2 DEF KeyFits
  <2> QED BY <2>1, <2>2, <2>3, PlainMoveFits DEF Managers
<1>2. ASSUME NEW new \in GamePlayers, s \in held["zpm"], Move(s, "zpm", "zpmOut"),
             game' = [game EXCEPT ![s] = new], new.key = game[s].key,
             new.status \in {"GPS_WAITING_FOR_CG_READY",
                             "GPS_AFTER_SENDING_GL_INCOMING_CONNECTION"}
      PROVE  PlacesInv'
  <2>1. game[s].key = Nobody
    BY <1>p, <1>2, PlaceOf DEF KeyFits, Managers
  <2>2. /\ \A r \in GameSockets \ {s}, m \in Managers : r \in held'[m] <=> r \in held[m]
        /\ \A m \in Managers : s \in held'[m] <=> m = "zpmOut"
    BY <1>2, MovePlaces DEF Managers
  <2>3. game'[s] = new /\ OthersStay(s)
    BY <1>t, <1>2, <2>2 DEF OthersStay
  <2> QED BY <1>2, <2>1, <2>2, <2>3, OneChanges DEF PlaceFits, KeyFits, Managers
<1>3. s \in held["zpm"] => game[s] \in GamePlayers
  BY PlaceOf DEF Managers
<1>4. ASSUME NEW kick \in BOOLEAN, Logout(s, kick) PROVE PlacesInv'
  <2> DEFINE new == [game[s] EXCEPT !.status = "GPS_AFTER_SENDING_GL_INCOMING_CONNECTION",
                                    !.kicked = game[s].kicked \/ kick]
  <2>1. s \in held["zpm"] /\ Move(s, "zpm", "zpmOut") /\ game' = [game EXCEPT ![s] = new]
    BY <1>4, <1>t DEF Logout
  <2>2. /\ new \in GamePlayers /\ new.key = game[s].key
        /\ new.status = "GPS_AFTER_SENDING_GL_INCOMING_CONNECTION"
    BY <1>3, <2>1 DEF GamePlayers, GPS
  <2> HIDE DEF new
  <2> QED BY <1>2, <2>1, <2>2
<1>5. ASSUME NEW kick \in BOOLEAN, ChangeZone(s, kick) PROVE PlacesInv'
  <2> DEFINE new == [game[s] EXCEPT !.status = "GPS_WAITING_FOR_CG_READY", !.kicked = kick]
  <2>1. s \in held["zpm"] /\ Move(s, "zpm", "zpmOut") /\ game' = [game EXCEPT ![s] = new]
    BY <1>5, <1>t DEF ChangeZone
  <2>2. /\ new \in GamePlayers /\ new.key = game[s].key
        /\ new.status = "GPS_WAITING_FOR_CG_READY"
    BY <1>3, <2>1 DEF GamePlayers, GPS
  <2> HIDE DEF new
  <2> QED BY <1>2, <2>1, <2>2
<1>6. ASSUME LeaveZone(s) PROVE PlacesInv'
  <2>1. s \in held["zpmOut"] /\ Move(s, "zpmOut", "ipmQueue") /\ game' = game
    BY <1>6 DEF LeaveZone
  <2>2. game[s].status \in {"GPS_WAITING_FOR_CG_READY",
                            "GPS_AFTER_SENDING_GL_INCOMING_CONNECTION"}
    BY <1>p, <2>1, PlaceOf DEF PlaceFits, Managers
  <2>3. game[s].key = Nobody
    BY <1>p, <2>1, PlaceOf DEF KeyFits, Managers
  <2> QED BY <2>1, <2>2, <2>3, PlainMoveFits DEF Managers
<1> QED BY <1>1, <1>4, <1>5, <1>6 DEF ZoneStep, CGLogout, ZoneKick

\* Datagrams of the login server mark connections, and hand a key to those that
\* are logging out.
LEMMA DatagramKeepsPlaces ==
    ASSUME HandoffInv, PlacesInv, NEW m \in net, GameDatagramStep(m)
    PROVE  PlacesInv'
<1>t. game \in [GameSockets -> GamePlayers \cup {Gone}]
  BY DEF HandoffInv, TypeOK, GameTypeOK
<1>0. held' = held
  BY DEF GameDatagramStep, LGIncomingConnection, LGKickCharacter, LGIncomingConnectionOK,
         LGIncomingConnectionError
<1>1. ASSUME game' = game PROVE PlacesInv'
  BY <1>0, <1>1 DEF PlacesInv, PlaceFits, KeyFits, Playing
<1>2. ASSUME NEW s \in GameSockets, NEW new, game' = [game EXCEPT ![s] = new],
             new.status = game[s].status, game[s].kicked => new.kicked,
             new.key = game[s].key \/ /\ new.kicked
                                      /\ KeepsKey(s)
                                      /\ s \in held["ipm"] \cup held["ipmQueue"]
      PROVE  PlacesInv'
  <2>1. game'[s] = new /\ OthersStay(s)
    BY <1>t, <1>0, <1>2 DEF OthersStay
  <2>2. PlaceFits(s) /\ KeyFits(s)
    BY DEF PlacesInv
  <2>3. PlaceFits(s)'
    BY <1>0, <1>2, <2>1, <2>2 DEF PlaceFits, Playing
  <2>4. KeyFits(s)'
    BY <1>0, <1>2, <2>1, <2>2 DEF KeyFits, KeepsKey
  <2> QED BY <2>1, <2>3, <2>4, OneChanges
<1>3. ASSUME LGKickCharacter(m) PROVE PlacesInv'
  <2> DEFINE s == finder[m.name]
  <2>1. CASE s = Nobody
    BY <1>1, <1>3, <2>1 DEF LGKickCharacter
  <2>2. CASE s # Nobody
    <3>1. m.name \in Accounts
      BY <1>3 DEF LGKickCharacter, HandoffInv, TypeOK, LinkTypeOK, Datagrams, KickDatagrams,
                  IncomingRequests, IncomingReplies, IncomingErrors
    <3>2. s \in GameSockets
      BY <2>2, <3>1 DEF HandoffInv, TypeOK, GameTypeOK
    <3>3. game' = [game EXCEPT ![s] = [game[s] EXCEPT !.kicked = TRUE, !.forLogin = TRUE]]
      BY <1>3, <1>t, <2>2, <3>2 DEF LGKickCharacter
    <3>4. game[s] \in GamePlayers \cup {Gone}
      BY <1>t, <3>2
    <3> DEFINE new == [game[s] EXCEPT !.kicked = TRUE, !.forLogin = TRUE]
    <3>5. new.status = game[s].status /\ new.kicked /\ new.key = game[s].key
      BY <3>4 DEF GamePlayers, Gone
    <3> HIDE DEF s, new
    <3> QED BY <1>2, <3>2, <3>3, <3>5 DEF new
  <2> QED BY <2>1, <2>2
<1>4. ASSUME LGIncomingConnectionOK(m) PROVE PlacesInv'
  <2>1. CASE game' = game
    BY <1>1, <2>1
  <2>2. ASSUME NEW s \in GameSockets, IsIncoming(s, m.id) \/ IsReady(s, m.id),
               game' = [game EXCEPT ![s].kicked = TRUE,
                                    ![s].key = IF KeepsKey(s) THEN m.key ELSE @]
        PROVE  PlacesInv'
    <3> DEFINE new == [game[s] EXCEPT !.kicked = TRUE,
                                      !.key = IF KeepsKey(s) THEN m.key ELSE game[s].key]
    <3>1. game' = [game EXCEPT ![s] = new]
      BY <1>t, <2>2
    <3>2. game[s] \in GamePlayers \cup {Gone}
      BY <1>t
    <3>3. /\ new.status = game[s].status /\ new.kicked
          /\ new.key = IF KeepsKey(s) THEN m.key ELSE game[s].key
      BY <3>2 DEF GamePlayers, Gone
    <3>4. s \in held["ipm"] \cup held["ipmQueue"]
      BY <2>2 DEF IsIncoming, IsReady
    <3> HIDE DEF new
    <3> QED BY <1>2, <3>1, <3>3, <3>4
  <2> QED BY <1>4, <2>1, <2>2 DEF LGIncomingConnectionOK
<1>5. ASSUME LGIncomingConnectionError(m) PROVE PlacesInv'
  <2>1. CASE game' = game
    BY <1>1, <2>1
  <2>2. ASSUME NEW s \in GameSockets,
               game' = [game EXCEPT ![s].kicked =
                    @ \/ game[s].status = "GPS_AFTER_SENDING_GL_INCOMING_CONNECTION"]
        PROVE  PlacesInv'
    <3> DEFINE new == [game[s] EXCEPT !.kicked = game[s].kicked
                           \/ game[s].status = "GPS_AFTER_SENDING_GL_INCOMING_CONNECTION"]
    <3>1. game' = [game EXCEPT ![s] = new]
      BY <1>t, <2>2
    <3>2. game[s] \in GamePlayers \cup {Gone}
      BY <1>t
    <3>3. /\ new.status = game[s].status /\ new.key = game[s].key
          /\ game[s].kicked => new.kicked
      BY <3>2 DEF GamePlayers, Gone
    <3> HIDE DEF new
    <3> QED BY <1>2, <3>1, <3>3
  <2> QED BY <1>5, <2>1, <2>2 DEF LGIncomingConnectionError
<1>6. ASSUME LGIncomingConnection(m) PROVE PlacesInv'
  BY <1>1, <1>6 DEF LGIncomingConnection
<1> QED BY <1>3, <1>4, <1>5, <1>6 DEF GameDatagramStep

-----------------------------------------------------------------------------
(* Both servers. *)

\* No connection is there in the beginning.
LEMMA InitPlaces == Init => PlacesInv
BY DEF Init, GameInit, PlacesInv, PlaceFits, KeyFits, Playing, Gone

\* Every step, those of the login server and the restarts included.
LEMMA NextPlaces ==
    ASSUME HandoffInv, PlacesInv, [Next]_vars
    PROVE  PlacesInv'
<1>1. ASSUME game' = game, held' = held PROVE PlacesInv'
  BY <1>1 DEF PlacesInv, PlaceFits, KeyFits, Playing
<1>2. CASE GameStep
  <2>1. ASSUME NEW s \in GameSockets, GameClientStep(s) PROVE PlacesInv'
    BY <2>1, ConnectKeepsPlaces, IncomingKeepsPlaces DEF GameClientStep
  <2>2. ASSUME NEW h \in Hosts, ConnectionInfoExpires(h) PROVE PlacesInv'
    BY <1>1, <2>2 DEF ConnectionInfoExpires
  <2> QED BY <1>2, <2>1, <2>2, ZoneKeepsPlaces, DatagramKeepsPlaces DEF GameStep, GameServerStep
<1>3. CASE GameServerRestarts
  BY <1>3 DEF GameServerRestarts, PlacesInv, PlaceFits, KeyFits, Playing, Gone
<1>4. CASE UNCHANGED gameVars
  BY <1>1, <1>4 DEF gameVars
<1> QED BY <1>2, <1>3, <1>4 DEF Next, LoginStep, ClientStep, RestartStep, vars

\* In every reachable state.
LEMMA PlacesInvariance == Spec => []PlacesInv
<1>1. HandoffInv /\ PlacesInv /\ [Next]_vars => PlacesInv'
  BY NextPlaces
<1> QED BY <1>1, InitPlaces, Invariance, PTL DEF Spec

(***************************************************************************)
(* Players in a zone or on their way there are NORMAL and registered, those*)
(* that come out of one are loading or logging out: the queues between the *)
(* threads never hand over a player that the assertions would refuse.      *)
(***************************************************************************)
THEOREM PlacesFit == Spec => []PlaceFitsStatus
<1>1. HandoffInv /\ PlacesInv => PlaceFitsStatus
  <2> SUFFICES ASSUME HandoffInv, PlacesInv, NEW s \in GameSockets, Playing(s)
               PROVE  /\ PlaceFits(s)
                      /\ game[s].status \notin {"GONE", "GPS_BEGIN_SESSION"} =>
                            finder[game[s].pc] = s
    BY DEF PlaceFitsStatus, PlaceFits
  <2>1. game[s] \in GamePlayers
    BY DEF HandoffInv, TypeOK, GameTypeOK, Playing, Gone
  <2>2. game[s].status \notin {"GONE", "GPS_BEGIN_SESSION"} => game[s].pc \in Accounts
    BY <2>1 DEF HandoffInv, PlayerHasAccount, GamePlayers
  <2> QED BY <2>2 DEF HandoffInv, OnePlayerPerCharacter, PlacesInv
<1> QED BY <1>1, Invariance, PlacesInvariance, PTL

(***************************************************************************)
(* A reconnect key is held only by a connection that is marked and logging *)
(* out, and among the incoming players, whose disconnect sends it.         *)
(***************************************************************************)
THEOREM ReconnectsLeave == Spec => []ReconnectIsOnItsWay
<1>1. PlacesInv => ReconnectIsOnItsWay
  BY DEF PlacesInv, KeyFits, ReconnectIsOnItsWay
<1> QED BY <1>1, PlacesInvariance, PTL

(***************************************************************************)
(* While clients send nothing more in the batch of their CGReady, no       *)
(* pointer to a deleted player is in the queue that heartbeat asserts to   *)
(* hold players with a character.                                          *)
(***************************************************************************)
THEOREM QueuedPlayersLive == ~PacketsAfterReady => (Spec => []QueuedPlayerIsAlive)
<1> SUFFICES ASSUME ~PacketsAfterReady PROVE Spec => []QueuedPlayerIsAlive
  OBVIOUS
<1>1. HandoffInv /\ PlacesInv => QueuedPlayerIsAlive
  <2> SUFFICES ASSUME HandoffInv, PlacesInv, NEW s \in held["ipmOut"]
               PROVE  Playing(s) /\ game[s].pc # Nobody
    BY DEF QueuedPlayerIsAlive
  <2>1. s \in GameSockets
    BY DEF HandoffInv, TypeOK, GameTypeOK, Managers
  <2>2. Playing(s)
    BY <2>1 DEF HandoffInv, HeldOnce, Managers
  <2>3. game[s].status = "GPS_NORMAL"
    BY <2>1, <2>2 DEF PlacesInv, PlaceFits
  <2> QED BY <2>1, <2>2, <2>3 DEF HandoffInv, PlayerHasAccount
<1> QED BY <1>1, Invariance, PlacesInvariance, PTL

-----------------------------------------------------------------------------
(* A mark stays. *)

KickStep == \A s \in GameSockets : game[s].kicked => game'[s].kicked \/ game'[s] = Gone

\* One connection changes, and is marked if it was, or ends.
LEMMA OneKickStays ==
    ASSUME HandoffInv, NEW s \in GameSockets, NEW new, game' = [game EXCEPT ![s] = new],
           game[s].kicked => new.kicked \/ new = Gone
    PROVE  KickStep
BY DEF KickStep, HandoffInv, TypeOK, GameTypeOK

\* The threads that have a connection.
LEMMA ConnectionKickStays ==
    ASSUME HandoffInv, NEW s \in GameSockets, GameClientStep(s) \/ ZoneStep(s)
    PROVE  KickStep
<1>t. game \in [GameSockets -> GamePlayers \cup {Gone}]
  BY DEF HandoffInv, TypeOK, GameTypeOK
<1>g. game[s] = Gone => ~game[s].kicked
  BY DEF Gone
<1>n. game' = game => KickStep
  BY DEF KickStep
<1>e. game' = [game EXCEPT ![s] = Gone] => KickStep
  BY OneKickStays
<1>1. ASSUME NEW h \in Hosts, AcceptGame(s, h) PROVE KickStep
  <2>1. ~Playing(s) /\ game' = [game EXCEPT ![s] = [Gone EXCEPT !.status = "GPS_BEGIN_SESSION",
                                                               !.host = h]]
    BY <1>1 DEF AcceptGame
  <2>2. game[s] = Gone
    BY <1>t, <2>1 DEF Playing, GamePlayers, GPS
  <2> QED BY <1>g, <2>1, <2>2, OneKickStays
<1>2. ASSUME \/ IncomingDisconnect(s) \/ CGConnectDuplicate(s) \/ CGConnectLoadFails(s)
             \/ CGReadyThenFails(s) \/ HeartbeatKicked(s)
             \/ \E t \in tickets : CGConnectUnknown(s, t) \/ CGConnectRefused(s, t)
      PROVE  KickStep
  BY <1>2, <1>e DEF IncomingDisconnect, CGConnectDuplicate, CGConnectLoadFails, CGReadyThenFails,
                    HeartbeatKicked, CGConnectUnknown, CGConnectRefused, Remove, Destroy
<1>3. ASSUME NEW t \in tickets, CGConnectTakesRow(s, t) PROVE KickStep
  <2>1. ~game[s].kicked /\ game' = [game EXCEPT ![s] = [game[s] EXCEPT !.id = t.id]]
    BY <1>3, <1>t DEF CGConnectTakesRow, UsesTicket
  <2> QED BY <2>1, OneKickStays
<1>4. ASSUME CGConnectEnters(s) PROVE KickStep
  <2> DEFINE new == [game[s] EXCEPT !.pc = game[s].id, !.status = "GPS_WAITING_FOR_CG_READY"]
  <2>1. game' = [game EXCEPT ![s] = new]
    BY <1>4, <1>t DEF CGConnectEnters
  <2>2. new.kicked = game[s].kicked
    BY <1>t DEF GamePlayers, Gone
  <2> HIDE DEF new
  <2> QED BY <2>1, <2>2, OneKickStays
<1>5. ASSUME CGReady(s) PROVE KickStep
  <2>1. ~game[s].kicked /\ game' = [game EXCEPT ![s] = [game[s] EXCEPT !.status = "GPS_NORMAL"]]
    BY <1>5, <1>t DEF CGReady, IsLoaded
  <2> QED BY <2>1, OneKickStays
<1>6. ASSUME \/ HeartbeatIncoming(s) \/ HeartbeatOut(s) \/ HeartbeatDrops(s)
             \/ EnterZone(s) \/ LeaveZone(s)
      PROVE  KickStep
  BY <1>6, <1>n DEF HeartbeatIncoming, HeartbeatOut, HeartbeatDrops, EnterZone, LeaveZone
<1>7. ASSUME NEW kick \in BOOLEAN, Logout(s, kick) PROVE KickStep
  <2> DEFINE new == [game[s] EXCEPT !.status = "GPS_AFTER_SENDING_GL_INCOMING_CONNECTION",
                                    !.kicked = game[s].kicked \/ kick]
  <2>1. game' = [game EXCEPT ![s] = new]
    BY <1>7, <1>t DEF Logout
  <2>2. game[s].kicked => new.kicked
    BY <1>t DEF GamePlayers, Gone
  <2> HIDE DEF new
  <2> QED BY <2>1, <2>2, OneKickStays
<1>8. ASSUME NEW kick \in BOOLEAN, ChangeZone(s, kick) PROVE KickStep
  <2> DEFINE new == [game[s] EXCEPT !.status = "GPS_WAITING_FOR_CG_READY", !.kicked = kick]
  <2>1. ~game[s].kicked /\ game' = [game EXCEPT ![s] = new]
    BY <1>8, <1>t DEF ChangeZone
  <2> HIDE DEF new
  <2> QED BY <2>1, OneKickStays
<1> QED BY <1>1, <1>2, <1>3, <1>4, <1>5, <1>6, <1>7, <1>8
        DEF GameClientStep, ZoneStep, CGLogout, ZoneKick

\* The login server's datagrams mark, and unmark nobody.
LEMMA DatagramKickStays ==
    ASSUME HandoffInv, NEW m \in net, GameDatagramStep(m)
    PROVE  KickStep
<1>t. game \in [GameSockets -> GamePlayers \cup {Gone}]
  BY DEF HandoffInv, TypeOK, GameTypeOK
<1>n. game' = game => KickStep
  BY DEF KickStep
<1>1. ASSUME LGKickCharacter(m) PROVE KickStep
  <2> DEFINE s == finder[m.name]
             new == [game[s] EXCEPT !.kicked = TRUE, !.forLogin = TRUE]
  <2>1. CASE s = Nobody
    BY <1>1, <1>n, <2>1 DEF LGKickCharacter
  <2>2. CASE s # Nobody
    <3>1. m.name \in Accounts
      BY <1>1 DEF LGKickCharacter, HandoffInv, TypeOK, LinkTypeOK, Datagrams, KickDatagrams,
                  IncomingRequests, IncomingReplies, IncomingErrors
    <3>2. s \in GameSockets
      BY <2>2, <3>1 DEF HandoffInv, TypeOK, GameTypeOK
    <3>3. game' = [game EXCEPT ![s] = new]
      BY <1>1, <1>t, <2>2, <3>2 DEF LGKickCharacter
    <3>4. new.kicked
      BY <1>t, <3>2 DEF GamePlayers, Gone
    <3> HIDE DEF s, new
    <3> QED BY <3>2, <3>3, <3>4, OneKickStays
  <2> QED BY <2>1, <2>2
<1>2. ASSUME NEW s \in GameSockets, NEW key,
             game' = [game EXCEPT ![s].kicked = TRUE, ![s].key = key]
      PROVE  KickStep
  <2> DEFINE new == [game[s] EXCEPT !.kicked = TRUE, !.key = key]
  <2>1. game' = [game EXCEPT ![s] = new]
    BY <1>t, <1>2
  <2>2. new.kicked
    BY <1>t DEF GamePlayers, Gone
  <2> HIDE DEF new
  <2> QED BY <2>1, <2>2, OneKickStays
<1>3. ASSUME NEW s \in GameSockets, NEW more \in BOOLEAN,
             game' = [game EXCEPT ![s].kicked = @ \/ more]
      PROVE  KickStep
  <2> DEFINE new == [game[s] EXCEPT !.kicked = game[s].kicked \/ more]
  <2>1. game' = [game EXCEPT ![s] = new]
    BY <1>t, <1>3
  <2>2. game[s].kicked => new.kicked
    BY <1>t DEF GamePlayers, Gone
  <2> HIDE DEF new
  <2> QED BY <2>1, <2>2, OneKickStays
<1>4. ASSUME LGIncomingConnectionOK(m) PROVE KickStep
  <2>1. \/ game' = game
        \/ \E s \in GameSockets : game' = [game EXCEPT
               ![s].kicked = TRUE, ![s].key = IF KeepsKey(s) THEN m.key ELSE game[s].key]
    BY <1>4, <1>t DEF LGIncomingConnectionOK
  <2> QED BY <1>n, <1>2, <2>1
<1>5. ASSUME LGIncomingConnectionError(m) PROVE KickStep
  <2>1. \/ game' = game
        \/ \E s \in GameSockets : game' = [game EXCEPT ![s].kicked =
               @ \/ game[s].status = "GPS_AFTER_SENDING_GL_INCOMING_CONNECTION"]
    BY <1>5 DEF LGIncomingConnectionError
  <2> QED BY <1>n, <1>3, <2>1
<1>6. ASSUME LGIncomingConnection(m) PROVE KickStep
  BY <1>6, <1>n DEF LGIncomingConnection
<1> QED BY <1>1, <1>4, <1>5, <1>6 DEF GameDatagramStep

(***************************************************************************)
(* A connection once marked as kicked is marked until it is gone, whichever*)
(* thread has it and whatever it does with it.                             *)
(***************************************************************************)
THEOREM KicksStay == Spec => KickIsNotForgotten
<1>1. HandoffInv /\ [Next]_vars => [KickStep]_vars
  <2> SUFFICES ASSUME HandoffInv, [Next]_vars PROVE KickStep
    OBVIOUS
  <2>n. game' = game => KickStep
    BY DEF KickStep
  <2>1. CASE GameStep
    <3>1. ASSUME NEW h \in Hosts, ConnectionInfoExpires(h) PROVE KickStep
      BY <2>n, <3>1 DEF ConnectionInfoExpires
    <3> QED BY <2>1, <3>1, ConnectionKickStays, DatagramKickStays DEF GameStep, GameServerStep
  <2>2. CASE GameServerRestarts
    BY <2>2 DEF GameServerRestarts, KickStep
  <2>3. CASE UNCHANGED gameVars
    BY <2>n, <2>3 DEF gameVars
  <2> QED BY <2>1, <2>2, <2>3 DEF Next, LoginStep, ClientStep, RestartStep, vars
<1> QED BY <1>1, Invariance, PTL DEF Spec, KickIsNotForgotten, KickStep
=============================================================================
