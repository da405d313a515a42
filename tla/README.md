# Verification of newdk: sessions, trading, streams, guilds

newdk is the server and the client of the MMORPG DarkEden. This directory holds
TLA+ models of the parts of it where several actors have to agree:

- the **account session**: two servers, several threads, a database and the clients
  agree on who is logged in, who is in the game, and how an account gets from one
  server to the other and back;
- **trading**: two characters agree on a swap of items and gold while everything else
  that moves items and gold goes on;
- the **socket streams**: two programs agree on where a packet begins, through buffers
  that wrap and grow and sockets that take and give what they like;
- the **guilds**: the shared server keeps them, and every game server has a copy by which its
  players act.

TLC checks the models on small instances, TLAPS proves the safety core for all of
them.

Paths below are relative to `src/dkrixserver/src/`.

## 1. The system

### Processes and threads

| Process | Threads | Works on |
|---|---|---|
| login server | `ClientManager` | client connections (`LoginPlayerManager`), the CL packets, timers, expiry of reconnect keys |
| | `GameServerManager` | datagrams from game servers (GL packets) |
| game server | `ClientManager` | `IncomingPlayerManager`: accept, CGConnect, CGReady, heartbeat; `ConnectionInfoManager` |
| | `ZoneGroupThread` (one per zone group) | `ZonePlayerManager` and everything in its zones, their `TradeManager`s included |
| | `LoginServerManager` | datagrams from login servers (LG packets) |
| | `SharedServerManager` | the TCP connection to the shared server: the SG packets, the copy of the guilds |
| shared server | one, `GameServerManager::run` | connections of game servers, the GS packets, the guilds |
| MySQL | | `Player.LogOn`, `Player.LoginIP`, characters, `GuildInfo`, `GuildMember` |

Every connection of a client has a `SocketInputStream` and a `SocketOutputStream`, worked
on by the thread whose manager holds it: `processInputs` fills, `processCommands` reads
packets, `processOutputs` flushes.

The two servers talk over UDP. The clients carry a key from one to the other: the
server that expects a client registers a key for the client's IP address, and the
server that gives it up sends the key to the client (`LCReconnect`,
`GCReconnectLogin`). The `LogOn` column of the account (`LOGOFF`, `LOGON`, `GAME`)
is the lock that both servers test and set, without a transaction that would span
more than one statement.

### The life of an account

1. CLLogin: `LOGOFF -> LOGON` by an UPDATE with `AND LogOn='LOGOFF'`.
2. CLSelectPC: the login server sends `LGIncomingConnection`; the game server notes
   a `ConnectionInfo` for the client's address and answers
   `GLIncomingConnectionOK`; the login server sends `LCReconnect` and ends the
   session: `LOGON -> LOGOFF`.
3. CGConnect on the game server: key and character are compared, `LOGOFF -> GAME`,
   the character is loaded and put into the `PCFinder`.
4. CGReady, and later every change of zone, pass the connection through the queues
   of the two player managers.
5. CGLogout: `GLIncomingConnection`, `LGIncomingConnectionOK`, `GCReconnectLogin`;
   the connection ends, `GAME -> LOGOFF`; CLReconnectLogin: `LOGOFF -> LOGON`.
6. A second CLLogin from the address that plays sends `LGKickCharacter`, waits for
   `GLKickVerify`, repeats it, and after the last wait takes the row over.

### A trade

1. CGTradePrepare makes a `TradeInfo` for both, each with the other as target.
2. CGTradeAddItem, CGTradeRemoveItem and CGTradeMoney change the sender's stake and set
   both back to `TRADE_TRADING`. Items are staked by pointer and stay in the inventory;
   gold is taken out of the purse in memory, not out of the row.
3. CGTradeFinish with ACCEPT makes the sender's status `TRADE_FINISH`. When the partner's is
   that already, the rows are compared, the swap is tested, and `processTrade` does it.
4. Any refusal, a time too soon, and leaving the zone for whatever reason cancel the
   trade: both infos go, both stakes return.

### A packet

`writePacket` puts the header and the body into a ring buffer that grows when it must;
`flush` sends what the socket takes. On the other side `fill` receives what has arrived, in
one to three pieces, into a ring that grows too; `processCommand` peeks at the header and
reads the packet when all of it is there. `GamePlayer` counts headers and disconnects when a
header does not have the number it expects.

### A guild

1. CGRegistGuild and CGJoinGuild send `GSAddGuild` and `GSAddGuildMember`. The shared server
   writes the rows, changes its guilds and broadcasts `SGAddGuildOK`, `SGAddGuildMemberOK`.
2. A guild waits until it has more than four members, then becomes active
   (`SGModifyGuildOK`); an active one that falls below three ends (`SGDeleteGuildOK`).
3. Members are accepted, promoted, expelled and leave, a new master is named, and applicants
   are dropped after seven days. Every change is made first by the shared server, in memory and in
   the tables, and then by each game server when the packet arrives.
4. A game server that connects asks for all guilds (`GSRequestGuildInfo`) and replaces its copy by
   the answer. It is sent broadcasts from the moment it is accepted, before it has asked.
5. The shared server reads its guilds from the tables when it starts.

### Components

State, operations and what makes each correct. The status of each is in
`PROJECT.json`.

| Component | State | Operations | Correct when | Modelled |
|---|---|---|---|---|
| Account table and server link | `LogOn`, `LoginIP`, datagrams, reconnect packets | the UPDATEs, send, receive, loss | | `AccountTable` |
| Login sessions (`loginserver/LoginPlayer*`, `Core/CL*Handler`, `GL*Handler`) | per descriptor: status, ID, last character name, kick count, failures | accept, login, kick wait, list, select, hand-over, logout, deadlines, restart | who is let in holds the row, who leaves frees it, waits end | `LoginServer` |
| Return to the login server (`ReconnectLoginInfoManager`) | key by address | register, refuse, expire, use | a key is used once, for its account | `LoginServer` |
| Game connections (`IncomingPlayerManager`, `ZonePlayerManager`, `GamePlayer`) | per descriptor: status, ID, creature, kicked, key; six managers and queues | accept, moves, heartbeats, kick, logout, zone change, disconnect, restart | a connection is in one place, fit for its status; kicked ones go | `GameServer` |
| Entering the game (`CGConnect`, `ConnectionInfoManager`, `PCFinder`) | key by address, character registry | announce, connect, load, register, refuse | one connection per character, no row left behind | `GameServer` |
| `LoginThrottle` | failures by address and account over time | record, check, clear | bounded tables, blocks expire, a success clears the account only | planned |
| `TradeManager`, `Core/CGTrade*Handler` | stakes and statuses of pairs; gold, rows, items | prepare, add, remove, money, reconsider, accept, finish, cancel | both or neither, what was agreed to, once | `Trade`, `Bargain`, `TradeFaults` |
| `Party`, `GlobalPartyManager`, `LocalPartyManager` | members, invitations | invite, accept, leave, expel | a member of one party; tables agree | planned |
| Guild replication (`sharedserver/`, `SharedServerManager`, GS and SG packets) | guilds on the shared server, their tables, copies, connections | found, join, accept, promote, new master, expel, quit, expire; connect, ask, broadcast, crash, restart | copies follow the original; counts, masters and rows agree | `GuildTable`, `Guild`, `Replica` |
| Socket streams (`Core/Socket*Stream`, `processCommand` of the players) | two ring buffers, the sequence count | write, resize, flush, fill, peek, skip, read a packet | a queue of packets | `Ring`, `Stream`, `Pipe` |
| Couples (`PartnerWaitingManager`) | waits of two players | add, answer, expire | a pair or none | planned |
| `ItemIDRegistry` | ranges of identifiers | reserve, next | no identifier twice | planned |
| `WarSystem`, `FlagManager`, lairs | clocked schedules | start, end, enter | one at a time | later, if at all |
| `ExchangeService` | | all refused: `isOperational()` is false | | no |
| `PacketValidator` | static table | | | as status guards |
| Inventory, monsters, skills, effects, quests | data of one zone group thread | | rules of the game | no: numeric rules without a protocol |
| Billing, pay systems, mofus | | | | no: compiled out |
| `DatabaseManager`, `Mutex`, `ThreadPool` | | | | as atomic statements and as threads |
| Client (`src/dkrix`), tools, docs, packets' encoding | | | | as an environment |
| `server/IncomingPlayerManager.cpp`, `server/ZoneUtil.cpp`, `server/Restore*.cpp` | | | | no: older copies, in no build |

### What is hard to test here

`PROJECT.json` lists the hazards at their lines. They fall into these groups.

- Datagrams are lost, late or repeated, and are matched to a session by its
  descriptor, by the account's ID or by a character's name, whatever that session
  is doing by then.
- The row is tested and set in one server while it changes in the other. CGConnect
  takes the row, then spends a long time in the database, then registers the
  character.
- Each server sets `m_ID` of a connection at some point of a handler that can still
  fail; the disconnect that follows updates the row of that ID.
- A connection goes through six containers owned by different threads, and a kick
  marks it wherever it is.
- What a trader accepted is a status, not the deal. Stakes change after it, staked items
  are taken away, and a trader leaves, in any order with what the partner does.
- Gold is in two places, the purse in memory and the row, and a stake is in neither of
  them. Amounts are 32 bits wide and capped; the margins to the cap are computed from sums.
- The commit of a trade is several statements and assignments, any of which may throw.
- A ring buffer wraps, is sent in part, grows while it is wrapped, and is received into
  up to a byte before its head. Off by one, a packet is garbage once in many hours.
- A packet arrives in parts, and what a turn did to the counters when it saw a part stays.
- A request about a guild is made by what a copy and a row say, and served when both may have
  changed. The same change is made in memory, in two tables and in every copy by different code,
  and a handler that meets what it does not expect ends the connection, or the shared server.

## 2. The modules

| Module | Models |
|---|---|
| `AccountTable` | `logon`, `loginIP`, `net`, `tickets`; the SQL statements as operators with their WHERE clause; lossy exchange of datagrams |
| `LoginServer` (EXTENDS `AccountTable`) | `login` (the `LoginPlayer` of each descriptor), `reconn`; one action per client packet, datagram, deadline |
| `GameServer` (EXTENDS `AccountTable`) | `game`, `conn`, `finder`, `loading`, `held`; one action per client packet, datagram, heartbeat case and move |
| `LoginHandoff` (EXTENDS both) | the composition, restarts, fairness and all properties |
| `AccountSession` | abstract specification: the row, the game connections let in for an account, the one that plays |
| `Trade` | `info` (`m_InfoMap`), `gold`, `row`, `inv`, `hand`, `floor`, `presence`; one action per outcome of each CGTrade handler, and whatever else moves a trader's gold and items |
| `TradeFaults` (EXTENDS `Trade`) | the commit of a trade in which a statement fails |
| `Bargain` | abstract specification: deals accepted, one step that swaps |
| `Ring` | the operators of both ring buffers |
| `Stream` (EXTENDS `Ring`) | writer, TCP, reader: `out`, `tcp`, `in`, `sequence`; write, flush, fill, one turn of `processCommand` |
| `Pipe` | abstract specification: a queue of packets |
| `GuildTable` | the guilds a program holds, `Guild`'s operations on members, ranks and counts, and what each SG packet does to a copy |
| `Guild` (EXTENDS `GuildTable`) | shared server, tables, connections and game servers: `guilds` (`m_Guilds`), `info`, `row`, `copy`, `link`, `toShared`, `toGame`; one action per GS packet, per request of a player or operator, and per event of a connection |
| `Replica` | abstract specification: whoever was given the original takes all its values in order |
| `MCLoginHandoff`, `MCTrade`, `MCStream`, `MCGuild` | symmetry sets for TLC, and the tables at the start |
| `LoginHandoffProofs` (EXTENDS `LoginHandoff`, `TLAPS`) | proofs: the inductive invariant and the safety invariants |
| `HandoffSteps` (EXTENDS `LoginHandoffProofs`) | proofs of the action properties about rows, and of what holds while no connection ends, or is put back, in the way that breaks it |
| `HandoffPromise` (EXTENDS `LoginHandoffProofs`) | proof of the refinement of `AccountSession`, and of `PlayingRowIsGame` for the servers that make two of its steps never |
| `HandoffPlaces` (EXTENDS `LoginHandoffProofs`) | proofs of `PlaceFitsStatus`, `ReconnectIsOnItsWay` and `KickIsNotForgotten`, and of `QueuedPlayerIsAlive` without packets after a CGReady |
| `TradeProofs` (EXTENDS `Trade`) | proofs of the invariants of trading, of `StakesOutgrowPurseByEarning` and of `RowsDriftByFeesAndCuts` |
| `TradePromise` (EXTENDS `TradeProofs`, `TradeFaults`) | proof of the refinement of `Bargain`, and of `GoldIsCreditedOnce` while no statement fails |
| `StreamProofs` (EXTENDS `Stream`) | proofs of the invariants of the stream, of `TakenForClosed`, of the refinement of `Pipe`, and of `KeepsSequence` for packets that arrive whole |
| `GuildProofs` (EXTENDS `Guild`) | proofs of the invariants of the guilds, of `SyncedLinkHolds` and of the refinement of `Replica` |

The definitions named `X_Y` are mutated forms of `X`, each a bug the code could
plausibly have; with one in place of `X` a property of a run is violated.

### How the state corresponds to the code

- `login[s]` and `game[s]` are the players on descriptor `s`. `LoginSockets` and
  `GameSockets` may overlap, as the descriptors of two processes do: the answer to
  a kick from the heartbeat carries the game server's own descriptor
  (`IncomingPlayerManager.cpp:1213`), and the login server looks it up among its
  connections.
- `held` says which of the six containers a connection is in. A deleted player
  that a container still points to is an `s` in `held` with `game[s]` `GONE`.
- `loading` is the connection whose CGConnect is between its UPDATE and its
  `PCFinder` entry. The `ClientManager` thread is busy until then, while the
  datagram thread and the zone threads go on. `ClientThreadFree` guards everything
  that thread does.
- `tickets` are the reconnect packets honest clients hold. Clients send their
  other packets whenever `PacketValidator` lets their status.

- `info[p]` is the `TradeInfo` of a character, `None` when `m_InfoMap` has none. `gold[p]` is
  `m_Gold`, `row[p]` the column. `presence[p]` is `zone`, `away` (on the server, in another
  zone) or `out`. `agreed` is a history variable: the deal a character accepted, while
  nothing has taken the acceptance back. No guard reads it.
- A byte of the stream is its place in all that was written, so that a byte that is lost,
  repeated or moved shows. `packets`, `tcp` and `got` are histories of what was written,
  sent and read. `Store` keeps bytes that are written past the end of an array, as
  cells the array does not have, so that an overrun breaks `TypeOK`.

- `guilds` is `m_Guilds` of the shared server, `copy[s]` that of game server `s`, which is kept
  while there is no connection. `info` has the state and master of each `GuildInfo` record, `row`
  the guild, rank and expiry of each `GuildMember` row, whose key is the name. `link[s]` is `new`
  from the moment the shared server accepts until `GSRequestGuildInfo` was sent.
- `trail[s]` is a history variable: what `guilds` was when each packet on its way to `s` was sent,
  from the answer with all guilds on. `synced[s]` is one too: that answer has arrived over this
  connection. No guard of a program reads them.

### Grain of atomicity

On the login server both threads hold the lock of `LoginPlayerManager` while they
process a connection or a datagram, so a handler is one action. On the game
server a handler is one action when no other thread sees an intermediate state
that matters; CGConnect is two. A disconnect, the deletion of the player and
its removal from the manager are one action, as one thread does all of it. One that
starts after the character was registered, still in CGConnect, is
`CGConnectEnters` followed by `IncomingDisconnect`.

Trading runs in one zone thread, so a handler is one action; only the database may
fail in the middle of one (`TradeFaults`). Writer and reader of a stream are threads of
different programs that share the socket alone: a flush, a fill and a turn of
`processCommand` are one action each.

The shared server has one thread, and the game server handles SG packets in one, so that a
handler is one action here as well; what a player's handler reads of the copy and sends is
one step of that player.

### Abstractions of the account session

- An account has one character, named like it. There is one login server, one
  game server, one zone group.
- Deadlines have no clock: one that is armed may pass at any moment. This covers
  every setting of them, but says nothing about races that only the lengths of
  deadlines exclude.
- Keys are drawn from a small set in any way. `rand()` shifted by random amounts,
  partly by more than the width, promises no more.
- `m_KickCharacterCount` is counted up to `MaxKicks`, as it is only compared with it.
- `affected rows` is what MySQL reports: rows that changed. An UPDATE to `LOGON` of
  a row that is `LOGON` affects none.
- A look-up by account or name takes any of several sessions that match; the code
  takes the lowest descriptor.
- Outcomes that no model can enumerate are left to what the handlers around them
  do: the `Assert` of `LGIncomingConnectionErrorHandler` is an exception that
  leaves the player alone; a pointer to a deleted player in the out queue is either
  dropped by the `catch` around it or takes the server down (a restart).
- `CGLogoutHandler` sends a first `GLIncomingConnection` to UDP port 9999, where a
  login server may or may not listen (`LogoutPortHeard`).
- Not modelled: character creation and deletion, world and server selection,
  billing, blocked accounts, `LoginThrottle`, missing characters or server
  records, `clearPlayers` at shutdown, pointers used after an unlock
  (`LGIncomingConnectionOKHandler.cpp:44`), the map without a lock in
  `ReconnectLoginInfoManager`.

### Abstractions of trading

- All characters are of one race, and may be of any. Races differ in two places, and the model
  allows what each does: after CGTradeRemoveItem slayers alone wait four seconds
  (`CGTradeRemoveItemHandler.cpp:170`; `RemoveItem` chooses), and only a slayer's CGTradeAddItem looks at
  the flag of green gift boxes (a `Refuse`).
- Items do not stack and take one slot; `canTrade`'s search for room is a comparison with
  `Capacity`. Gift boxes, whose kinds `canTrade` pairs, are a refusal that may come to
  any trade. The rows of the items are not modelled; `Inventory::save` does not fail.
- `m_LastOKTime` has no clock: the four seconds pass at any moment.
- What a handler refuses for (safe zone, riding, an item that may not be traded, an amount
  that is not there) is one action, `Refuse`, which may come at any time of a trade.
- `Earn` stops when the purse is at `MaxMoney`, as `increaseGoldEx` does: the stake is not counted, so
  that a trader may come to hold and stake more than its purse can take back. The row grows by the
  same amount; `Column` is what its 32 bits keep of it, for the servers do not run in strict mode
  (`docker/docker-compose.yml:31`).
- A staked item may be used up (`UseUp`): the info keeps a pointer to what is deleted. No item comes
  into being in the model, so that freed memory which holds another item is not represented. A sale to a shop is a
  `UseUp` and an `Earn`.

### Abstractions of the streams

- `EncryptData` is the identity: `encrypt_stream` is compiled out on both sides.
- A socket never fails; a failure ends the connection and with it everything here. Idle
  deadlines and packets that are refused or ignored are left out for the same reason.
- Packets may be of any size, also larger than the input buffer (`PacketFits` tells them apart): the
  maximum of `SGGuildInfo` is some 2.9 MB (`SGGuildInfo.h:117`), the buffer has 81920 bytes. That
  a receive of 0 bytes ends the connection, as the code takes it, is `FillBlind`.
- The header is `HeaderLen` bytes, of which the first tells the packet. Its sequence number is
  the number of the packet modulo `Modulus`, as the writer counts it.

### Abstractions of the guilds

- Left out: gold (the fees are 0), races, introductions, who is logged on, the limits on the number
  of members, wars, unions, and the `GuildID` a character carries. Conditions on a character may
  be met or not.
- Because that `GuildID` is left out, a player who acts for his guild acts for any guild of the
  copy that has him with the rank asked for. This allows more than the code does.
- CGModifyGuildMember is sent with DENY or with one of the three ranks that the shared server acts on;
  its handler sends on whatever number the client gave (`CGModifyGuildMemberHandler.cpp:113`), and the
  shared server ignores the others. A submaster comes from CGAppointSubmaster too, a master from the
  operator's command. CGQuitGuild and CGExpelGuildMember cast the player to a class it never has and do nothing.
- TCP loses nothing while a connection lasts. When the shared server ends, every connection ends
  in the same step. It crashes between two handlers, not inside one (see the hazards).
- A failed statement of the database ends the shared server like a crash and is not told apart.
- A guild with an ID beyond `GuildIDs` is not founded. `maxID` counts from the base of the world.
- An action of a player is counted by `requests` also when its packet is dropped for want of a
  connection.

## 3. Properties and runs

| Run | Instance | Checks |
|---|---|---|
| `TwoAccounts` | 2 accounts, 1 descriptor each side, 1 host, 2 keys, 1 failure, 2 kick waits, everything switched on | `TypeOK`, `HandoffInv`, `EndingFreesRow`, `ImplementsAccountSession` |
| `TwoSessions` | 1 account, 2 login descriptors, 1 game descriptor, everything switched on | `AdmissionTakesRow`, `TakeoverWasAsked`, `LogonIsHeld`, `RowFreedByEnding` |
| `TwoConnections` | 1 account, 1 login descriptor, 2 game descriptors, 2 datagrams in flight, restarts | `OnePlayerPerCharacter`, `HeldOnce`, `GameRowHasConnection`, `PlaceFitsStatus`, `ReconnectIsOnItsWay`, `ImplementsAccountSession`, `KickIsNotForgotten` |
| `Progress` | 1 account, 1 descriptor each side, `FairSpec` | `KickWaitEnds`, `KickedLeaves`, `LogoutEnds`, `SelectEnds` |
| `Trade` | 2 characters, 2 items, `MaxMoney` 2, words modulo 5, room for 1 item | `TypeOK`, `TradesArePaired`, `ItemInOnePlace`, `AcceptedIsCurrent`, `StakesOutgrowPurseByEarning`, `ImplementsBargain`, `RowsDriftByFeesAndCuts` |
| `Stream` | output buffer of 2 bytes, input buffer of 3, packets of 1, 2 and 3 bytes, 3 packets, `FairSpec` | `TypeOK`, `InOrder`, `TakenForClosed`, `AtPacketStart`, `ImplementsPipe`, `PacketsArrive` |
| `Guild` | 3 characters, 2 guild IDs, 1 game server, active above 1 member, ended below 2, 2 requests, 1 fault, 3 starting tables, `FairSpec` | `TypeOK`, `CountsAgree`, `OneMaster`, `RestartRaisesNobody`, `QuietCopyIsCurrent`, `SyncedLinkHolds`, `ImplementsReplica`, `Converges` |
| `PlayingRow`, `MultiLogin`, `ReadyBatch` | 1 account, 2 descriptors (`ReadyBatch`: 1) | one statement of the repository each that does not hold, see below |
| `TradeCommit` | 2 characters, 1 item, `MaxMoney` 2, `FaultySpec` | `GoldIsCreditedOnce` does not hold |
| `SplitPacket` | input buffer of 4, packets of 1 and 3 bytes, 2 packets | `KeepsSequence` does not hold |

What they show:

- **One player per character** holds even though the row does not protect it: it is
  the `PCFinder` test of CGConnect that does. The row protects admission
  (`AdmissionTakesRow`), and an admitted session that ends always frees it
  (`EndingFreesRow`).
- **A GAME row is never left behind** (`GameRowHasConnection`), also through
  duplicates, failed loads, refusals and takeovers.
- **A takeover was asked for** (`TakeoverWasAsked`): a GAME row becomes LOGON only for a
  session of that account that once sent a kick, although answers find sessions by
  descriptor and name.
- **A LOGON row has somebody to free it** (`LogonIsHeld`), except where a second answer to a kick
  put that session back. **And a session keeps its row** until another session of the
  account, or a connection at `LPS_BEGIN_SESSION`, ends (`RowFreedByEnding`): no datagram, deadline
  or step of the game server takes it away.
- **Connections are neither lost nor duplicated** between the managers (`HeldOnce`),
  are where their status says (`PlaceFitsStatus`), and a reconnect key is held
  only by one that is leaving (`ReconnectIsOnItsWay`). A kick is not lost while the connection is
  handed from thread to thread (`KickIsNotForgotten`).
- **The servers implement `AccountSession`** with the row as it is in the table, the
  IDs of the game connections as owners and the `PCFinder` as player. The abstract
  specification has two steps a stricter one would not: `TakeOver`, a login takes
  the row of a character in the game, and `Refuse`, a connection that is turned
  away frees the row of another. Both are in the code.
- **Waits end** in `Progress` with every datagram losable.
- **A trade is the one that was agreed to.** `AcceptedIsCurrent` says what a status of
  `TRADE_FINISH` means: what its owner accepted is still what both stake. With that, trading
  implements `Bargain`: gold and items pass between two characters only in a swap, and it
  is the swap the first to accept agreed to. Infos come and go in pairs
  (`TradesArePaired`), through every way of leaving, and a staked item that is taken in
  hand, dropped and found by another is never in two places (`ItemInOnePlace`). `ImplementsBargain`
  is about the steps from states with no stake above `MAX_MONEY` (`StakesCapped`), see below.
- **Only earning outgrows a purse** (`StakesOutgrowPurseByEarning`): the margins of CGTradeMoney, in
  arithmetic that wraps, and refunds, swaps and logins keep purse and stake of a character within
  the cap together, until it earns while gold of its own is staked. What is over the cap is then
  lost with the refund, which `setGold` cuts.
- **Rows drift in two ways** (`RowsDriftByFeesAndCuts`): a row stops being what its character holds
  and stakes by a fee that is paid while gold is staked (`PayFee` writes it from memory), or when a purse is cut
  at `MAX_MONEY` and the row is not. No stake, margin or swap does it.
- **Bytes stay in order** (`InOrder`) through every wrap, growth and partial send or receive,
  and the reader always stands where a packet begins (`AtPacketStart`). The stream implements
  `Pipe`, and packets arrive (`PacketsArrive`) unless the reader has closed the connection.
- **When a reader closes for nothing** (`TakenForClosed`): `fill` asks for 0 bytes, and takes the 0 it gets for the
  other side's close, in two states only. Its buffer begins at the second place of the
  array and has just been filled up to the end of it; or it is full of a part of a packet that
  does not fit. Both occur in the run. There is no third, whatever is written, split or read in
  between.
- **A copy follows the original** (`ImplementsReplica`): from the answer with all guilds on, a game
  server's copy takes the very values the shared server's guilds had, in order, although the
  handlers of the two are different code. Before that, a stale copy may make a handler throw,
  which costs the connection; after it, no packet does (`SyncedLinkHolds`). A game server that has
  taken all that was sent has the guilds as they are (`QuietCopyIsCurrent`): no handler of the
  shared server changes a guild without a packet that says so. So a copy is the
  original again and again as long as the shared server runs (`Converges`), without any
  fairness of what players do.
- **Counts are of members** (`CountsAgree`) on both sides, so that a guild becomes active and ends
  when it should. **A guild has one master** (`OneMaster`), and its record and its rows name the
  same, whatever stale request is served.
- **A restart raises nobody** (`RestartRaisesNobody`): a row that would make somebody a member or
  master at the next start is of somebody who is that now. It speaks of masters and
  members only, with reason: a row `WAIT` or `SUBMASTER` is written before the guild is looked up
  and stays when that is gone, and after a restart its ID may be given to another guild.

### Stakes above `MAX_MONEY`

`Bargain`, the rows and `GoldIsCreditedOnce` are about steps from states in which no stake is above
`MAX_MONEY`. TLC led to this condition. Where a purse and the partner's stake exceed the cap together, as they may
after earning, `CGTradeMoney` takes a margin larger than the amount, and a DECREASE moves gold the other way,
from purse to stake. That is still neither more nor less gold, but the stake may so come to be above `MAX_MONEY`.
From there sums of a purse and a stake wrap, and margins exceed purses: a DECREASE against a partner with such a stake leaves a
purse at the cap that had nearly nothing, and a refund loses more than `setGold` cuts
(`CGTradeMoneyHandler.cpp:165`, `:209`). Nothing in the repository says that this cannot be, so there is no run
of its own. The condition leaves out the steps from such states; the
invariants hold without it, and a step towards such a state keeps its promise like any other.

### What the repository says and the code does not do

The last sentence of each names the theorem that shows its cause to be the only one.

- `PlayingRow`: a character in its zone has a `GAME` row
  (`docs/smoke-test/LOGIN_SMOKE.md:171`). Lost kicks let a login take it over; a
  refused second connection frees it. Where neither happens (`GameRowsAreLeft`) the claim
  holds: `PlayingRows`.
- `MultiLogin`: multiple logins are denied (`CLReconnectLoginHandler.cpp:172`,
  `LoginPlayer.cpp:694`). A session that fails to take the row keeps the account's
  ID, and its disconnect frees the row of the one that holds it. (By the same way, a repeated
  `GLKickVerify`, an admitted session comes back to `LPS_BEGIN_SESSION`, which
  `LoginPlayer.cpp:47` says it never does; no run of its own.) Where no connection at that status
  frees with its end the row of a session that goes on (`OutsidersFreeNothing`), there is one
  session per account: `OneSessionWithoutOutsiders`.
- `ReadyBatch`: the out queue holds live players (`IncomingPlayerManager.cpp:1362`).
  A batch that fails after its CGReady leaves a deleted one.
  Without packets after the CGReady no queue ever does: `QueuedPlayersLive`.
- `TradeCommit`: nothing after the commit point can fail the trade, and the stakes are
  credited once (`TradeManager.cpp:719`, `:821`). `setGoldEx` sets the gold in memory before its
  statement, which may fail; the trade is then cancelled with the stakes still in the infos. While no statement fails nothing is
  credited twice: `GoldCreditedOnce`.
- `SplitPacket`: a packet of which a part has arrived is waited for (`GamePlayer.cpp:489`,
  `:583`). Its header has been counted by then; when the rest is there the header is seen
  again and taken for one out of sequence. Where every header is seen with all of its packet
  (`PacketsAreWhole`), no packet is out of sequence: `WholePacketsKeepSequence`.

### Bounds, and why they are enough

- `LoginSockets`, `GameSockets`: two sessions or two connections are what races for
  one row or one character need; a third adds no step that the second does not
  have. The two sides are doubled in separate runs, since both together exceed what
  TLC finishes in minutes. `TwoAccounts` has one descriptor each side, so that
  late datagrams meet a session of the other account on the same descriptor.
- `Hosts`: one. Keys are per address, so that sharing an address is the case in
  which accounts collide.
- `Keys`: two in `TwoAccounts`, so that wrong keys occur; elsewhere one, the case in
  which keys collide.
- `MaxInFlight`: 1, or 2 in `TwoConnections` where a kick and an answer of another
  exchange meet. Repeated kicks are told apart by `try`, as the network holds a set.
- `MaxTickets`: 1. `MaxFailures`: 0 or 1 for the 3 of the code. `MaxKicks`: 2, the
  least with which a wait is repeated.
- `PacketsAfterReady`, `LogoutPortHeard`, `Restarts`: TRUE in `TwoAccounts` and
  `TwoSessions`. `TwoConnections` leaves the first two out for its size. `Progress`
  leaves out restarts, which end every wait.
- `Trade`: two items and room for one each, so that both stake one, an item taken in hand or used up makes
  room for the other's, and there is no room where it is not. With `MaxMoney` 2 a
  character holds and stakes gold at once, so that a fee can leave its row short, a
  margin is partly used and a stake comes to be above the cap; words modulo 5 are the least that the
  assumption allows. What a character has in its row, or holds and stakes, exceeds `MaxMoney` in
  states without items only (`ItemsOrMuchMoney` in `MCTrade`): no handler that moves gold looks at an item,
  except that a swap needs both sides to be tradable, which a trade of gold alone is. A third
  character adds none but one who is refused: the model also passes with 3 characters, 1 item and
  `MaxMoney` 1 (52 393 states).
- `Stream`: an output buffer of 2 bytes has room for one, so that nearly every packet makes
  it grow, by its own size and by half. An input buffer of 3 has room for packets of 1 and 2 bytes, and not
  for the one of 3, until it has grown. Three packets wrap both buffers and meet each of the three ways
  `fill` receives, and both states in which it takes the connection for closed. The
  sequence number wraps at 2. The header is one byte; one that arrives in parts is left to the proofs,
  which are for any `HeaderLen`.
- `Guild`: three characters are a master, a member and one more; two IDs let a guild be founded
  beside one that is there, and an ID be given twice over a restart. With the thresholds at 1 and
  2 one request makes a guild active or ends it. Two requests are what it takes for one to be
  stale; three pass too (2.7 million states). One fault: a connection lost before, between
  or after two broadcasts, or one crash (the `DuplicatedException` of two joins is
  no fault and ends the shared server besides). One game server: with two, 2.2 million states were
  explored and none violated anything, but the run is too long to keep; the proofs are for any number. The starting tables hold an active guild with an
  applicant, one that waits, and both kinds.

### Fairness

`FairSpec` assumes only what the loops of the servers do. The login server's
`ClientManager` visits every connection in every pass: weak fairness for a kick
wait that is over and for the idle deadline of a session whose packets are ignored
(`LPS_AFTER_SENDING_LG_INCOMING_CONNECTION`), which therefore nothing pushes out.
The game server's `ClientManager` may be loading a character for a CGConnect, which
ends (weak fairness of its end); what it does between two such loads it gets to
again and again, hence strong fairness of the heartbeat, and of disconnecting a
connection that is kicked or logging out. The zone thread has weak fairness.
Nothing is assumed of clients, of the network, or of idle deadlines that packets
refresh.

`FairSpec` of `Stream`: both programs go round their loops (weak fairness of a flush, of `fill` and
of a turn of `processCommand`), and TCP delivers: a receive that finds something is not
put off forever by receives that find nothing (strong fairness of a `Fill` that moves
bytes or ends the connection). The writer need not write.

`FairSpec` of `Guild`: the loops of the shared server and of `SharedServerManager` go on (weak fairness
of serving a request, of connecting, of asking and of delivering a packet, per game server).
Nothing is assumed of players, of faults or of the restart of the shared server.

## 4. Proofs

Eight modules prove, for every value of the constants that the `ASSUME`s of the models
allow. For the account session these are any sets of accounts, hosts, descriptors and keys,
any bounds and any setting of the switches (`Nobody` is none of the others; bounds are
naturals, `MaxKicks` is positive; switches are Booleans). For trading: any characters and items,
any cap less than half of the modulus, any capacity. For the streams: buffers of any
size, any set of packet sizes, those that do not fit the input buffer included; a header fits it.
For the guilds: any game servers, any finite set of characters, any IDs, thresholds, number of
requests and of faults, and any tables at the start that are `Sound`.

| Theorem | Statement |
|---|---|
| `Invariance` | `Spec => []HandoffInv` |
| `TypeCorrect` | `Spec => []TypeOK` |
| `OnePlayer` | `Spec => []OnePlayerPerCharacter` |
| `NoGameRowLeftBehind` | `Spec => []GameRowHasConnection` |
| `ConnectionsHeldOnce` | `Spec => []HeldOnce` |
| `AdmissionTakes` | `Spec => AdmissionTakesRow` |
| `EndingFrees` | `Spec => EndingFreesRow` |
| `TakeoverAsked` | `Spec => TakeoverWasAsked` |
| `LogonStaysHeld` | `Spec => LogonIsHeld` |
| `RowsAreFreedByEndings` | `Spec => RowFreedByEnding` |
| `OneSessionWithoutOutsiders` | `Spec /\ OutsidersFreeNothing => []NoMultiLogin` |
| `LogonRowsAreHeld` | `Spec /\ []NoneIsPutBack => []LogonRowHasSession` |
| `KicksAreOwn` | `Spec /\ []NoneIsPutBack => []KicksOwnCharacter` |
| `PromiseKept` | `Spec => ImplementsAccountSession` |
| `PlayingRows` | `Spec /\ GameRowsAreLeft => []PlayingRowIsGame` |
| `PlacesFit` | `Spec => []PlaceFitsStatus` |
| `ReconnectsLeave` | `Spec => []ReconnectIsOnItsWay` |
| `KicksStay` | `Spec => KickIsNotForgotten` |
| `QueuedPlayersLive` | `~PacketsAfterReady => (Spec => []QueuedPlayerIsAlive)` |
| `TradeInvariant` | `Spec => []TradeInv` |
| `TradeTypeOK`, `TradesStayPaired`, `ItemsStayInOnePlace`, `AcceptancesStayCurrent` | the conjuncts of `TradeInv`, each of them |
| `OutgrownOnlyByEarning` | `Spec => StakesOutgrowPurseByEarning` |
| `RowsDriftOnlyByFeesAndCuts` | `Spec => RowsDriftByFeesAndCuts` |
| `TradeKeepsPromise` | `Spec => ImplementsBargain` |
| `GoldCreditedOnce` | `Spec => GoldIsCreditedOnce` |
| `StreamInvariant` | `Spec => []StreamInv` |
| `StreamTypeOK`, `BytesStayInOrder`, `ReaderStandsAtPacket` | the conjuncts of `StreamInv` that the run checks |
| `ClosedOnlyWhenFull` | `Spec => TakenForClosed` |
| `StreamImplementsPipe` | `Spec => ImplementsPipe` |
| `WholePacketsKeepSequence` | `Spec /\ PacketsAreWhole => []KeepsSequence` |
| `GuildInvariant` | `Spec => []GuildInv` |
| `GuildTypeOK`, `GuildCounts`, `GuildHasOneMaster`, `GuildRestarts`, `GuildQuietCopies` | the invariants of the guilds that the run checks |
| `GuildLinkHolds` | `Spec => SyncedLinkHolds` |
| `GuildImplementsReplica` | `Spec => ImplementsReplica` |

The first five are in `LoginHandoffProofs`, the next eight in `HandoffSteps`, then two
in `HandoffPromise` and four in `HandoffPlaces`; those of trading are in `TradeProofs`, the last two
in `TradePromise`; those of the stream in `StreamProofs`, those of the guilds in `GuildProofs`.

### The account session

`HandoffInv` is inductive; `TypeOK` alone is not, nor are the others. A datagram
must name an account (`TypeOK`), so whoever sends one must have an account
(`SessionHasAccount`, `PlayerHasAccount`). A kick marks whatever connection the
`PCFinder` names, which must be alive (`OnePlayerPerCharacter`: the finder and the
connections' characters agree). Queues are read without a test, so that they must
hold live connections (`HeldOnce`), with one exception that the code has
(`QueuedPlayerIsAlive` fails). And a duplicate that is turned away leaves the
row to a connection that must exist (`GameRowHasConnection`).

The invariant is split into `LoginInv` and `GameInv`, so that a step of one server
need not be followed through the other's variables. The general lemmas say what an
update of one session, a move between containers, a mark on a connection or a
removal does to each conjunct; the step lemmas (`LoginClientStepKeeps`,
`LoginDatagramStepKeeps`, `ConnectStepsKeep`, `IncomingStepsKeep`, `ZoneStepKeeps`,
`GameDatagramStepKeeps`, the restarts) apply them action by action; `NextInv`
combines them.

`HandoffSteps` splits a step of the login server by what it does to one session: it
changes a session that is neither let in nor ended (`QuietStep`), ends one
(`EndStep`), takes a free row for one (`TakeStep`) or answers one that asked for a
kick (`LoginOKStep`). Game server steps set no row to LOGON. `HandoffInv` is needed
for what an admitted session's ID is (`SessionHasAccount`). `NextRowStep` says of every step, by these
kinds, all that the action properties say (`RowStep`): a row that becomes LOGON does so with
a session let in (`HeldStep`), and one that stops being LOGON does so with a session or a
connection that ends (`FreedStep`).

`HandoffPromise` maps the initial states and every step of `Next` to `AccountSession`.
Steps of the login server are row moves. Of those of the game server, only five
kinds are seen: CGConnect's two parts (`Connect`, `Enter`), the duplicate
(`Bounce`), the disconnect (`Leave`) and the refusal (`Refuse`). That a disconnect frees
the `PCFinder` entry exactly when it is its own is `OnePlayerPerCharacter`; that a
refused connection had no account before is `PlayerHasAccount`. `PlayingRows` is then a matter of
the promise alone: without `TakeOver` and `Refuse`, every owner has its row at GAME and has it alone
(`OwnersHaveRows`), and a character in its zone is an owner's.

`HandoffPlaces` adds `PlacesInv` to `HandoffInv`: status and key of each connection fit the one manager
or queue that `HeldOnce` says it is in. A step touches one connection (`OneChanges`), which ends
(`EndingFits`), moves (`MovePlaces`), or is marked where it is. That one in a zone or on its way out
holds no key is why leaving need not look at it. Who is registered follows from `OnePlayerPerCharacter`.
For `KicksStay`, every step of a thread that has a connection, and every datagram, is shown to write a record
that is still marked, or `Gone` (`OneKickStays`). `QueuedPlayersLive` needs no invariant of its own: the one
exception in `HeldOnce` is under `PacketsAfterReady`, and who is in the out queue is `GPS_NORMAL`.

### Theorems with a condition

Five of the theorems speak of the behaviors of `Spec` in which something never happens. Each
condition is about single steps or states that the code makes, none mentions what is concluded, and
all can be met: TLC explored `Init /\ [][Next /\ condition]_vars` on the instance of the run that
refutes the claim without it (for the two of `NoneIsPutBack`, that of `MultiLogin`). What remains has
980 813 states for `OutsidersFreeNothing`, 1 598 603 for `NoneIsPutBack`, 378 145 for `GameRowsAreLeft`:
logins, kicks asked for, characters that play, leave and come back, and in the first two takeovers.
With `PacketsAreWhole` a `GamePlayer` reads packets to the last.

- `OneSessionWithoutOutsiders` adds to `NoMultiLogin` that who was let in has the row
  (`HoldersHaveRows`). A session is let in to a row that is not LOGON (`AdmissionStep`), hence one
  that nobody else was let in to; by `FreedStep` it keeps the row until it ends.
- `LogonRowsAreHeld` draws from `HeldStep` that only a session that is put back leaves a LOGON row.
- `KicksAreOwn`: the name is set together with the ID, from the same login, and kept when a session
  logs in again, which it can do only at `LPS_BEGIN_SESSION`.
- `PlayingRows` and `WholePacketsKeepSequence` are described with their modules.

### Trading

`TradeInv` is inductive as the conjunction of its parts, none of which is alone. That
`CancelTrade` ends a pair needs that infos are paired; that a partner is never on another
server, so that the branch of the code that credits its row is dead, is the same fact. That
a purse and a stake are words whatever the margins do is `MarginIs`, and a purse stays under the
cap by `setGold` alone (`ClampIs`): `TradeInv` says nothing of their sum, which has no bound that
the code keeps. `AcceptedIsCurrent` needs that a change of either stake reaches both infos
(`RestakeKeepsInv`).

The two action properties follow the sums. From a state with no stake above the cap, `IncreaseIs` and
`DecreaseIs` compute the margins in whole numbers, for any word wider than twice the cap, and every
handler but the one that completes a trade keeps the rows, and the sum of purse and stake of each character
but for what `setGold` cuts (`SumsHold`, `HandlersKeepSums`). A swap leaves no stake and writes both rows from
the purses (`SwapSums`); `Earn` and `Spend` change row and purse by the same amount, up to the width of
the column, and `PayFee` is the fee (`PurseIs`). `OutgrownOnlyByEarning` needs no condition of its own: where
every sum is within the cap, so is every stake (`FitIsCapped`).

`TradePromise` takes what a character can still come to have (`Wealth`: the greater of purse with stake
and row) as its wealth. `TradeSwaps` is the step of `processTrade`: by `AcceptedIsCurrent` what
it swaps is the deal the partner accepted, seen from the other side. Everything else lapses
acceptances, moves one item or adds to one purse.

`GoldCreditedOnce` says of two who trade that only what one earns raises their `Wealth`. It is stated
for the pair: of two characters who do not trade with each other, one may gain by a swap with a third
while the other stands by, and so it had failed for three characters when it was first stated for any two.
What keeps the sums and rows keeps `Wealth`; a swap moves it from one to the other (`TradeGainsNothing`), and
two trades have no trader in common, which is `TradesArePaired`.

### The streams

The lemmas about `Ring` say what each operator does to a ring that holds the bytes from
some place on: `PeekGives`, `SkipKeeps`, `PutOnce` and `PutAround` (a write in one and in two
pieces), `ResizeKeeps`, `WriteKeeps`, `FlushKeeps`, `ReceiveKeeps`. `StreamInv` adds to what the
run checks that packets lie one behind the other (`Framed`) and that the input buffer
never shrinks, and that a turn begins with room if the packet it is about fits (`RoomAtTurn`): a reader that waits
for the rest of such a packet has room for it (`RoomLeft`). `AtHead` says which packet is peeked at: by `AtPacketStart` the one
after those it has read.

`WholePacketsKeepSequence` is by `CountsWhatItGot`: while headers are seen once, `sequence` is the number
of packets read, modulo `Modulus`, which is what the writer put into the next header. `OneMore` is
the step of both counters. Of all steps only a turn that puts a packet off (`NotWhole`) counts a
header and reads nothing.

### The guilds

`GuildInv` has four parts. `TypeOK`. `CountsInv`: the counts are right also in the tables that are still
on their way to a game server, which become copies. `TablesInv`: while the shared server runs, its
guilds agree with the records (`RecordsAgree`), whoever is master by rank is the one named
(`MastersAgree`), and the two tables are `Sound`, as they were at the start; that a load makes of them
the guilds there were is `RestartRaisesNobody`. `LinesInv`: the packets on the way to a game server,
applied one by one to its copy, give the tables in `trail`, the last of which are the guilds
(`Line`); the packet with all guilds is among them exactly while they have not been given, and
was asked for once (`AskedOnce`).

Each packet served by the shared server is shown to be ignored, to end the server
(`SharedServerEnds`), or to be a step (`Serves`) that changes the guilds by what the one or two packets it sends
say (`Told`) and keeps the tables (`Recorded`). A line then grows by such packets (`LineGrows`), by all
guilds (`LineGiven`), or loses its head to the copy (`LineDelivered`). That the packet due
is never one that throws is `DueIsTaken`: it gives `GuildLinkHolds`, and the step of `Replica` that takes the
next value. `GuildQuietCopies` is the case of a line with no packets: it has no tables either, so that the
copy is what the last one was.

### Only model-checked

The six liveness properties: `KickWaitEnds`, `KickedLeaves`, `LogoutEnds`, `SelectEnds`, `PacketsArrive`,
`Converges`. They rest on fairness and on when actions are enabled, about which tlapm proves
nothing. Every other property of a passing run is a theorem.

## 5. Plan

Done: the account session, trading, the socket streams, the guilds, with their proofs. What is left, in
the order of what it would add:

1. `LoginThrottle` (a clocked table with eviction, against a reference that forgets
   nothing), and its place in CLLogin.
2. `Party`: invitations, the global and the local tables, logout in between.
3. `PartnerWaitingManager`, `ItemIDRegistry`.

## 6. Running

    tlc -workers 2 -config TwoAccounts.cfg MCLoginHandoff.tla
    tlc -workers 2 -config Trade.cfg MCTrade.tla
    tlc -workers 2 -config Stream.cfg MCStream.tla
    tlc -workers 2 -config Guild.cfg MCGuild.tla
    tlapm LoginHandoffProofs.tla
    tlapm HandoffSteps.tla
    tlapm HandoffPromise.tla
    tlapm HandoffPlaces.tla
    tlapm TradeProofs.tla
    tlapm TradePromise.tla
    tlapm StreamProofs.tla
    tlapm GuildProofs.tla

`Trade` and `TradeCommit` are for `MCTrade`, `Stream` and `SplitPacket` for `MCStream`, `Guild` for `MCGuild`, the
other configurations for `MCLoginHandoff`. The largest takes about three minutes, the proofs of a
module between two and ten.
