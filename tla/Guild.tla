---------------------------------- MODULE Guild --------------------------------
(***************************************************************************)
(* Guilds: the shared server keeps them in memory and in the tables        *)
(* GuildInfo and GuildMember, and every game server has a copy, which it   *)
(* asks for when it connects and which the shared server's packets then    *)
(* keep up.  Players act on what the copy of their game server and the     *)
(* table say, so that what they ask may be out of date when it is served.  *)
(*                                                                         *)
(* A request is served in one step: the shared server has one thread.  The *)
(* table has a row for a name, with one guild in it.  Left out: gold and   *)
(* conditions on a character (whoever asks may have them or not), races,   *)
(* the guild ID of the character himself, wars, unions, introductions, and *)
(* who is logged on.                                                       *)
(***************************************************************************)
EXTENDS GuildTable, Sequences

CONSTANTS Servers,
          ActivateAbove, \* GSAddGuildMemberHandler: 4
          MinMembers,    \* MIN_GUILDMEMBER_COUNT
          NoRow,         \* a name without a row
          Unknown,       \* the copy of a server that has not been given one
          InitTables,    \* what the two tables may hold when the servers start
          MaxRequests,   \* what players do
          MaxFaults      \* lost connections and stops of the shared server

ASSUME GuildAssumption == ActivateAbove \in Nat /\ MinMembers \in Nat \ {0}

Infos == [GuildIDs -> [state : {"WAIT", "ACTIVE"}, master : Characters] \cup {NoGuild}]

Rows == [Characters -> [guild : GuildIDs, rank : Ranks \cup {"DENY", "LEAVE"},
                        expired : BOOLEAN] \cup {NoRow}]

VARIABLES
    up,       \* the shared server runs
    guilds,   \* its guilds, m_Guilds
    maxID,    \* its m_MaxGuildID, from the base of its world
    info,     \* the table GuildInfo
    row,      \* the table GuildMember
    copy,     \* the guilds of a game server
    link,     \* its connection: down, new until it has asked for the guilds, up
    synced,   \* it has been given them over this connection
    toShared, \* packets to the shared server
    toGame,   \* packets to the game server
    trail,    \* history: the guilds as they were when each packet of toGame was
              \* sent, from the packet with all guilds on
    requests, faults

vars == <<up, guilds, maxID, info, row, copy, link, synced, toShared, toGame, trail,
          requests, faults>>

NoGuilds == [g \in GuildIDs |-> NoGuild]

-----------------------------------------------------------------------------
(* The tables. *)

Members(gd) == {n \in Characters : IsMember(gd, n)}

\* GuildMember::create()
Created(rows, n, g, r) == [rows EXCEPT ![n] = [guild |-> g, rank |-> r, expired |-> FALSE]]

\* Mutant: only the date is written.
Expired_KeepsRank(rows, n, r) ==
    IF rows[n] = NoRow THEN rows ELSE [rows EXCEPT ![n].expired = TRUE]

\* The rank of a name's row becomes DENY, GuildMember::expire(), or LEAVE, leave().
Expired(rows, n, r) ==
    IF rows[n] = NoRow THEN rows
    ELSE [rows EXCEPT ![n].rank = r, ![n].expired = TRUE]

\* GuildMember::save() in modifyMemberRank, for member n of gd with ID g.
Saved(rows, gd, g, n, r) ==
    IF rows[n] = NoRow \/ gd.rank[n] \in {"NONE", r} THEN rows
    ELSE [rows EXCEPT ![n].guild = g, ![n].rank = r]

\* What is left of the rows when guild g with these members is gone.
Dissolved(rows, names, g) ==
    [n \in Characters |->
        IF rows[n] # NoRow /\ rows[n].guild = g THEN NoRow
        ELSE IF n \in names THEN Expired(rows, n, "DENY")[n] ELSE rows[n]]

\* The rank that GuildManager::load() gives n in guild g.
RankOf(rows, g, n) ==
    IF rows[n] # NoRow /\ rows[n].guild = g /\ rows[n].rank \in Ranks THEN rows[n].rank ELSE "NONE"

\* A row makes nobody master or member of a guild without a record, nor master of
\* a guild whose record names another.
Sound(infos, rows) ==
    \A g \in GuildIDs, n \in Characters :
        /\ RankOf(rows, g, n) \in {"MASTER", "NORMAL"} => infos[g] # NoGuild
        /\ RankOf(rows, g, n) = "MASTER" => infos[g].master = n

ASSUME TablesAssumption ==
    /\ InitTables \subseteq [info : Infos, row : Rows]
    /\ \A t \in InitTables : Sound(t.info, t.row)
    /\ NoGuild \notin [state : {"WAIT", "ACTIVE"}, master : Characters]
    /\ NoRow \notin [guild : GuildIDs, rank : Ranks \cup {"DENY", "LEAVE"}, expired : BOOLEAN]
    /\ Unknown \notin Tables

Loaded(infos, rows) ==
    [g \in GuildIDs |->
        IF infos[g] = NoGuild THEN NoGuild
        ELSE [state |-> infos[g].state, master |-> infos[g].master,
              rank |-> [n \in Characters |-> RankOf(rows, g, n)],
              active |-> Cardinality({n \in Characters : RankOf(rows, g, n) \in Counted}),
              waiting |-> Cardinality({n \in Characters : RankOf(rows, g, n) = "WAIT"})]]

\* i is the highest ID of the table, 0 when it is empty.
IsLastID(infos, i) ==
    /\ i # 0 => infos[i] # NoGuild
    /\ \A g \in GuildIDs : infos[g] # NoGuild => g <= i

-----------------------------------------------------------------------------
(* The connections. *)

\* The packets that s gets from here on bring its copy up to date.
Follows(s) == synced[s] \/ trail[s] # <<>>

\* GameServerManager::broadcast
Broadcast(p) ==
    /\ toGame' = [s \in Servers |->
                     IF link[s] # "down" THEN Append(toGame[s], p) ELSE toGame[s]]
    /\ trail' = [s \in Servers |->
                     IF Follows(s) THEN Append(trail[s], guilds') ELSE trail[s]]

\* Mutant: the other order.
BroadcastBoth_Swapped(p, v, q) ==
    /\ toGame' = [s \in Servers |->
                     IF link[s] # "down" THEN Append(Append(toGame[s], q), p) ELSE toGame[s]]
    /\ trail' = [s \in Servers |->
                     IF Follows(s) THEN Append(Append(trail[s], v), guilds') ELSE trail[s]]

\* Two packets, with the guilds v between them.
BroadcastBoth(p, v, q) ==
    /\ toGame' = [s \in Servers |->
                     IF link[s] # "down" THEN Append(Append(toGame[s], p), q) ELSE toGame[s]]
    /\ trail' = [s \in Servers |->
                     IF Follows(s) THEN Append(Append(trail[s], v), guilds') ELSE trail[s]]

\* The connections of lost end.
Cut(lost) ==
    /\ link' = [s \in Servers |-> IF s \in lost THEN "down" ELSE link[s]]
    /\ synced' = [s \in Servers |-> s \notin lost /\ synced[s]]
    /\ toShared' = [s \in Servers |-> IF s \in lost THEN <<>> ELSE toShared[s]]
    /\ toGame' = [s \in Servers |-> IF s \in lost THEN <<>> ELSE toGame[s]]
    /\ trail' = [s \in Servers |-> IF s \in lost THEN <<>> ELSE trail[s]]

-----------------------------------------------------------------------------
(* The shared server: the requests it serves. *)

\* The request of s that is next is of this kind.
Asks(s, op) == up /\ toShared[s] # <<>> /\ Head(toShared[s]).op = op

Served(s) ==
    /\ toShared' = [toShared EXCEPT ![s] = Tail(@)]
    /\ UNCHANGED <<up, copy, link, synced, requests, faults>>

Ignored(s) == Served(s) /\ UNCHANGED <<guilds, maxID, info, row, toGame, trail>>

\* An exception that GameServerManager::processCommands does not catch.
SharedServerEnds ==
    /\ up' = FALSE /\ guilds' = NoGuilds /\ maxID' = 0
    /\ Cut(Servers)
    /\ UNCHANGED <<info, copy, requests>>

RequestGuildInfo(s) ==
    /\ Asks(s, "RequestGuildInfo")
    /\ toGame' = [toGame EXCEPT ![s] = Append(@, [op |-> "GuildInfo", table |-> guilds])]
    /\ trail' = [trail EXCEPT ![s] = <<guilds>>]
    /\ Served(s)
    /\ UNCHANGED <<guilds, maxID, info, row>>

\* A guild that would get an ID beyond GuildIDs, a bound of the model, is left out.
AddGuild(s) ==
    LET n == Head(toShared[s]).name
        g == maxID + 1
        new == Put(guilds, g, NewGuild(n))
    IN  /\ Asks(s, "AddGuild")
        /\ \/ g \notin GuildIDs /\ Ignored(s)
           \/ /\ g \in GuildIDs
              /\ maxID' = g
              /\ info' = Put(info, g, [state |-> "WAIT", master |-> n])
              /\ row' = Created(row, n, g, "MASTER")
              /\ guilds' = Put(new, g, SetRank(new[g], n, "MASTER"))
              /\ BroadcastBoth([op |-> "AddGuildOK", guild |-> g, name |-> n], new,
                               [op |-> "AddGuildMemberOK", guild |-> g, name |-> n,
                                rank |-> "MASTER"])
              /\ Served(s)

AddGuildMember(s) ==
    LET p == Head(toShared[s])
        g == p.guild
        joined == Put(guilds, g, SetRank(guilds[g], p.name, p.rank))
        OK == [op |-> "AddGuildMemberOK", guild |-> g, name |-> p.name, rank |-> p.rank]
    IN  /\ Asks(s, "AddGuildMember")
        /\ row' = Created(row, p.name, g, p.rank)
        /\ \/ /\ guilds[g] = NoGuild
              /\ Served(s)
              /\ UNCHANGED <<guilds, maxID, info, toGame, trail>>
           \/ /\ guilds[g] # NoGuild /\ IsMember(guilds[g], p.name)
              /\ SharedServerEnds
              /\ UNCHANGED faults
           \/ /\ guilds[g] # NoGuild /\ ~IsMember(guilds[g], p.name)
              /\ IF joined[g].state = "WAIT" /\ joined[g].active > ActivateAbove
                 THEN /\ guilds' = Put(joined, g, [joined[g] EXCEPT !.state = "ACTIVE"])
                      /\ info' = Put(info, g, [info[g] EXCEPT !.state = "ACTIVE"])
                      /\ BroadcastBoth(OK, joined, [op |-> "ModifyGuildOK", guild |-> g])
                 ELSE /\ guilds' = joined
                      /\ UNCHANGED info
                      /\ Broadcast(OK)
              /\ Served(s)
              /\ UNCHANGED maxID

\* Guild g ends: the rows become rows, without those of the names left in it.
\* GuildManager::deleteGuild
DeleteGuild(g, rows, names) ==
    /\ guilds' = Put(guilds, g, NoGuild)
    /\ info' = Put(info, g, NoGuild)
    /\ row' = Dissolved(rows, names, g)

\* Member n of guild g goes, his row gets rank r, and an active guild that has
\* become too small ends.
MemberGoes(g, n, r) ==
    LET rest == DeleteMember(guilds[g], n)
        rows == Expired(row, n, r)
        Gone == [op |-> "GuildMemberGoneOK", guild |-> g, name |-> n]
    IN  IF rest.state = "ACTIVE" /\ rest.active < MinMembers
        THEN /\ DeleteGuild(g, rows, Members(rest))
             /\ BroadcastBoth(Gone, Put(guilds, g, rest), [op |-> "DeleteGuildOK", guild |-> g])
        ELSE /\ guilds' = Put(guilds, g, rest)
             /\ row' = rows
             /\ UNCHANGED info
             /\ Broadcast(Gone)

\* The guild and the member that a request names are there.
Present(p) == guilds[p.guild] # NoGuild /\ IsMember(guilds[p.guild], p.name)

ExpelGuildMember(s) ==
    LET p == Head(toShared[s])
    IN  /\ Asks(s, "ExpelGuildMember")
        /\ \/ ~Present(p) /\ Ignored(s)
           \/ Present(p) /\ MemberGoes(p.guild, p.name, "DENY") /\ Served(s) /\ UNCHANGED maxID

\* The master of a guild that waits cancels it, and that of an active one stays.
QuitGuild(s) ==
    LET p == Head(toShared[s])
        state == guilds[p.guild].state
        rank == guilds[p.guild].rank[p.name]
    IN  /\ Asks(s, "QuitGuild")
        /\ \/ /\ Present(p) => \/ state = "ACTIVE" /\ rank = "MASTER"
                               \/ state = "WAIT" /\ rank \notin {"MASTER", "SUBMASTER"}
              /\ Ignored(s)
           \/ /\ Present(p) /\ state = "ACTIVE" /\ rank # "MASTER"
              /\ MemberGoes(p.guild, p.name, "LEAVE") /\ Served(s) /\ UNCHANGED maxID
           \/ /\ Present(p) /\ state = "WAIT" /\ rank = "SUBMASTER"
              /\ MemberGoes(p.guild, p.name, "DENY") /\ Served(s) /\ UNCHANGED maxID
           \/ /\ Present(p) /\ state = "WAIT" /\ rank = "MASTER"
              /\ DeleteGuild(p.guild, row, Members(guilds[p.guild]))
              /\ Broadcast([op |-> "DeleteGuildOK", guild |-> p.guild])
              /\ Served(s) /\ UNCHANGED maxID

\* What the ranks of a request and of a member allow.
IsPromotion(old, r) == <<old, r>> \in {<<"WAIT", "NORMAL">>, <<"NORMAL", "SUBMASTER">>}

ModifyGuildMember(s) ==
    LET p == Head(toShared[s])
        g == p.guild
        gd == guilds[g]
        allowed == Present(p) /\ (gd.master = p.sender \/ p.rank = "MASTER")
        OK == [op |-> "ModifyGuildMemberOK", guild |-> g, name |-> p.name, rank |-> p.rank]
    IN  /\ Asks(s, "ModifyGuildMember")
        /\ \/ /\ allowed /\ IsPromotion(gd.rank[p.name], p.rank)
              /\ guilds' = Put(guilds, g, ModifyMemberRank(gd, p.name, p.rank))
              /\ row' = Saved(row, gd, g, p.name, p.rank)
              /\ Broadcast(OK) /\ Served(s) /\ UNCHANGED <<maxID, info>>
           \/ /\ allowed /\ gd.rank[p.name] # "MASTER" /\ p.rank = "MASTER"
              /\ guilds' = Put(guilds, g, ChangeMaster(gd, p.name))
              /\ row' = Saved(Saved(row, gd, g, gd.master, gd.rank[p.name]),
                              gd, g, p.name, "MASTER")
              /\ info' = Put(info, g, [info[g] EXCEPT !.master = p.name])
              /\ Broadcast(OK) /\ Served(s) /\ UNCHANGED maxID
           \/ /\ ~(allowed /\ (IsPromotion(gd.rank[p.name], p.rank)
                               \/ (gd.rank[p.name] # "MASTER" /\ p.rank = "MASTER")))
              /\ Ignored(s)

HandleRequest(s) ==
    \/ RequestGuildInfo(s) \/ AddGuild(s) \/ AddGuildMember(s)
    \/ ExpelGuildMember(s) \/ QuitGuild(s) \/ ModifyGuildMember(s)

\* Mutant: nobody is told.
ExpireApplicant_Silent(g, n) ==
    /\ up /\ guilds[g] # NoGuild /\ guilds[g].rank[n] = "WAIT"
    /\ guilds' = Put(guilds, g, DeleteMember(guilds[g], n))
    /\ row' = Expired(row, n, "DENY")
    /\ UNCHANGED <<up, maxID, info, copy, link, synced, toShared, toGame, trail, requests,
                   faults>>

\* GuildManager::heartbeat: an applicant has waited for seven days.
ExpireApplicant(g, n) ==
    /\ up /\ guilds[g] # NoGuild /\ guilds[g].rank[n] = "WAIT"
    /\ guilds' = Put(guilds, g, DeleteMember(guilds[g], n))
    /\ row' = Expired(row, n, "DENY")
    /\ Broadcast([op |-> "GuildMemberGoneOK", guild |-> g, name |-> n])
    /\ UNCHANGED <<up, maxID, info, copy, link, synced, toShared, requests, faults>>

Crash ==
    /\ up /\ faults < MaxFaults
    /\ SharedServerEnds
    /\ faults' = faults + 1
    /\ UNCHANGED row

Restart ==
    /\ ~up /\ up' = TRUE
    /\ guilds' = Loaded(info, row)
    /\ \E i \in GuildIDs \cup {0} : IsLastID(info, i) /\ maxID' = i
    /\ UNCHANGED <<info, row, copy, link, synced, toShared, toGame, trail, requests, faults>>

-----------------------------------------------------------------------------
(* A game server: the connection. *)

\* The shared server accepts the connection of a SharedServerManager.
Connect(s) ==
    /\ up /\ link[s] = "down"
    /\ link' = [link EXCEPT ![s] = "new"]
    /\ UNCHANGED <<up, guilds, maxID, info, row, copy, synced, toShared, toGame, trail,
                   requests, faults>>

Ask(s) ==
    /\ link[s] = "new"
    /\ link' = [link EXCEPT ![s] = "up"]
    /\ toShared' = [toShared EXCEPT ![s] = Append(@, [op |-> "RequestGuildInfo"])]
    /\ UNCHANGED <<up, guilds, maxID, info, row, copy, synced, toGame, trail, requests, faults>>

\* The next packet; an exception of its handler ends the connection.
Deliver(s) ==
    LET p == Head(toGame[s])
    IN  /\ link[s] = "up" /\ toGame[s] # <<>>
        /\ IF Apply(p, copy[s]) = Failed
           THEN Cut({s}) /\ UNCHANGED copy
           ELSE /\ copy' = [copy EXCEPT ![s] = Apply(p, copy[s])]
                /\ toGame' = [toGame EXCEPT ![s] = Tail(@)]
                /\ synced' = [synced EXCEPT ![s] = @ \/ p.op = "GuildInfo"]
                /\ trail' = IF synced'[s] THEN [trail EXCEPT ![s] = Tail(@)] ELSE trail
                /\ UNCHANGED <<link, toShared>>
        /\ UNCHANGED <<up, guilds, maxID, info, row, requests, faults>>

LinkDown(s) ==
    /\ link[s] # "down" /\ faults < MaxFaults
    /\ Cut({s})
    /\ faults' = faults + 1
    /\ UNCHANGED <<up, guilds, maxID, info, row, copy, requests>>

-----------------------------------------------------------------------------
(* A game server: what players do. *)

Act ==
    /\ requests < MaxRequests /\ requests' = requests + 1
    /\ UNCHANGED <<up, guilds, maxID, info, copy, link, synced, toGame, trail, faults>>

\* SharedServerManager::sendPacket drops a packet without a connection.
Send(s, p) ==
    /\ Act /\ link[s] # "down"
    /\ toShared' = [toShared EXCEPT ![s] = Append(@, p)]

\* CGJoinGuild, of a name whose row, if any, has expired long ago.
JoinGuild(s, n, g, r) ==
    /\ row[n] # NoRow => row[n].expired
    /\ r = "SUBMASTER" => copy[s][g] # NoGuild /\ copy[s][g].state = "WAIT"
    /\ Send(s, [op |-> "AddGuildMember", guild |-> g, name |-> n, rank |-> r])
    /\ UNCHANGED row

\* CGRegistGuild: the row goes even when no request is sent.
RegistGuild(s, n) ==
    /\ row' = [row EXCEPT ![n] = NoRow]
    /\ \/ Send(s, [op |-> "AddGuild", name |-> n])
       \/ Act /\ UNCHANGED toShared

HasRank(s, g, n, ranks) == copy[s][g] # NoGuild /\ copy[s][g].rank[n] \in ranks

\* CGModifyGuildMember with the rank DENY, by sender m ...
DenyMember(s, m, g, n) ==
    /\ HasRank(s, g, m, {"MASTER"})
    /\ Send(s, [op |-> "ExpelGuildMember", guild |-> g, name |-> n])
    /\ UNCHANGED row

\* ... and with another rank, which is passed on as the client sent it.
ModifyMember(s, m, g, n, r) ==
    /\ HasRank(s, g, m, {"MASTER", "SUBMASTER"})
    /\ Send(s, [op |-> "ModifyGuildMember", guild |-> g, name |-> n, rank |-> r, sender |-> m])
    /\ UNCHANGED row

\* CGAppointSubmaster.
AppointSubmaster(s, m, g, n) ==
    /\ copy[s][g] # NoGuild /\ copy[s][g].master = m
    /\ Send(s, [op |-> "ModifyGuildMember", guild |-> g, name |-> n, rank |-> "SUBMASTER",
                sender |-> m])
    /\ UNCHANGED row

\* The operator command changeGuildMaster, by operator m.
ChangeGuildMaster(s, m, g, n) ==
    /\ HasRank(s, g, n, {"NORMAL", "SUBMASTER"})
    /\ Send(s, [op |-> "ModifyGuildMember", guild |-> g, name |-> n, rank |-> "MASTER",
                sender |-> m])
    /\ UNCHANGED row

\* The guild dialog of an NPC, with the guild of the player's row.
LeaveGuild(s, n) ==
    /\ row[n] # NoRow
    /\ HasRank(s, row[n].guild, n, Ranks)
    /\ ~(copy[s][row[n].guild].state = "ACTIVE" /\ HasRank(s, row[n].guild, n, {"MASTER"}))
    /\ Send(s, [op |-> "QuitGuild", guild |-> row[n].guild, name |-> n])
    /\ UNCHANGED row

-----------------------------------------------------------------------------
Init ==
    /\ \E t \in InitTables : info = t.info /\ row = t.row
    /\ up = FALSE /\ guilds = NoGuilds /\ maxID = 0
    /\ copy = [s \in Servers |-> NoGuilds]
    /\ link = [s \in Servers |-> "down"]
    /\ synced = [s \in Servers |-> FALSE]
    /\ toShared = [s \in Servers |-> <<>>]
    /\ toGame = [s \in Servers |-> <<>>]
    /\ trail = [s \in Servers |-> <<>>]
    /\ requests = 0 /\ faults = 0

PlayerActs(s) ==
    \E g \in GuildIDs, n \in Characters :
        \/ \E r \in {"SUBMASTER", "WAIT"} : JoinGuild(s, n, g, r)
        \/ RegistGuild(s, n)
        \/ LeaveGuild(s, n)
        \/ \E m \in Characters : \/ DenyMember(s, m, g, n)
                                 \/ \E r \in {"NORMAL", "SUBMASTER", "MASTER"} :
                                        ModifyMember(s, m, g, n, r)
                                 \/ AppointSubmaster(s, m, g, n)
                                 \/ ChangeGuildMaster(s, m, g, n)

Next ==
    \/ Crash \/ Restart
    \/ \E g \in GuildIDs, n \in Characters : ExpireApplicant(g, n)
    \/ \E s \in Servers : \/ HandleRequest(s)
                          \/ Connect(s) \/ Ask(s) \/ Deliver(s) \/ LinkDown(s)
                          \/ PlayerActs(s)

Spec == Init /\ [][Next]_vars

\* The threads of the programs go on.
Fairness == \A s \in Servers : /\ WF_vars(HandleRequest(s))
                               /\ WF_vars(Connect(s)) /\ WF_vars(Ask(s))
                               /\ WF_vars(Deliver(s))

FairSpec == Spec /\ Fairness

-----------------------------------------------------------------------------
Requests ==
    [op : {"RequestGuildInfo"}] \cup [op : {"AddGuild"}, name : Characters] \cup
    [op : {"AddGuildMember"}, guild : GuildIDs, name : Characters,
     rank : {"SUBMASTER", "WAIT"}] \cup
    [op : {"ExpelGuildMember", "QuitGuild"}, guild : GuildIDs, name : Characters] \cup
    [op : {"ModifyGuildMember"}, guild : GuildIDs, name : Characters,
     rank : {"NORMAL", "SUBMASTER", "MASTER"}, sender : Characters]

TypeOK ==
    /\ up \in BOOLEAN /\ maxID \in GuildIDs \cup {0}
    /\ guilds \in Tables /\ info \in Infos /\ row \in Rows
    /\ copy \in [Servers -> Tables]
    /\ link \in [Servers -> {"down", "new", "up"}]
    /\ synced \in [Servers -> BOOLEAN]
    /\ toShared \in [Servers -> Seq(Requests)]
    /\ toGame \in [Servers -> Seq(Packets)]
    /\ trail \in [Servers -> Seq(Tables)]
    /\ requests \in Nat /\ faults \in Nat

\* The counts of a guild, on which it becomes active and ends, are the numbers
\* of its members, wherever a program keeps them.
Counts(gd) ==
    /\ gd.active = Cardinality({n \in Characters : gd.rank[n] \in Counted})
    /\ gd.waiting = Cardinality({n \in Characters : gd.rank[n] = "WAIT"})

CountsAgree ==
    \A g \in GuildIDs :
        /\ guilds[g] # NoGuild => Counts(guilds[g])
        /\ \A s \in Servers : copy[s][g] # NoGuild => Counts(copy[s][g])

\* Nobody has the rank MASTER but the character whom the guild, and its record,
\* name as master, neither in memory nor in the row that the next start reads.
OneMaster ==
    \A g \in GuildIDs, n \in Characters :
        /\ guilds[g] # NoGuild /\ guilds[g].rank[n] = "MASTER" => guilds[g].master = n
        /\ RankOf(row, g, n) = "MASTER" => info[g] # NoGuild /\ info[g].master = n

\* A row that makes its name a member or master at the next start is of somebody
\* who is that now.
RestartRaisesNobody ==
    \A g \in GuildIDs, n \in Characters :
        up /\ RankOf(row, g, n) \in {"MASTER", "NORMAL"} =>
            guilds[g] # NoGuild /\ guilds[g].rank[n] = RankOf(row, g, n)

\* A game server that has been given the guilds does not lose its connection by
\* a packet of the shared server: its handlers throw only before that.
SyncedLinkHolds ==
    [][\A s \in Servers :
          synced[s] /\ link'[s] = "down" => (up /\ ~up') \/ faults' = faults + 1]_vars

\* From the packet with all guilds on, the copy takes the values the guilds of
\* the shared server had, in their order and none left out.
Promise == INSTANCE Replica WITH
    original <- guilds, due <- trail,
    copy <- [s \in Servers |-> IF synced[s] THEN copy[s] ELSE Unknown]

ImplementsReplica == Promise!Spec

\* A game server that was given the guilds and has nothing more to take has them as the
\* shared server has them now: no request changes a guild without a packet that says so.
QuietCopyIsCurrent ==
    \A s \in Servers : synced[s] /\ toGame[s] = <<>> => copy[s] = guilds

\* While the shared server runs, a copy is again and again what it keeps.
Converges == \A s \in Servers : []<>(~up \/ copy[s] = guilds)
=============================================================================
