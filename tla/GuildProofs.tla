------------------------------- MODULE GuildProofs -----------------------------
(***************************************************************************)
(* Theorems about Guild, for any number of servers, characters and IDs.    *)
(* Part 1 is about the tables of guilds, part 2 about the connections,     *)
(* part 3 about the rows, and part 4 about the steps of the shared server  *)
(* that change a guild.  Part 5 shows that these and all others keep the   *)
(* invariant, and parts 6 and 7 draw the theorems from it.                 *)
(***************************************************************************)
EXTENDS Guild, FiniteSetTheorems, TLAPS

-----------------------------------------------------------------------------
(* The inductive invariant. *)

\* The counts of a table's guilds are right.
Consistent(v) == \A g \in GuildIDs : v[g] # NoGuild => Counts(v[g])

\* Also in the tables that are on their way.
CountsInv ==
    /\ Consistent(guilds)
    /\ \A s \in Servers : Consistent(copy[s])
    /\ \A s \in Servers : \A i \in 1 .. Len(toGame[s]) :
          toGame[s][i].op = "GuildInfo" => Consistent(toGame[s][i].table)

\* Guilds and records agree while the shared server runs, and the rows with both.
RecordsAgree ==
    /\ ~up => guilds = NoGuilds
    /\ up => \A g \in GuildIDs :
          /\ guilds[g] = NoGuild <=> info[g] = NoGuild
          /\ guilds[g] # NoGuild => /\ guilds[g].master = info[g].master
                                    /\ guilds[g].state = info[g].state
                                    /\ g <= maxID

MastersAgree ==
    \A g \in GuildIDs, n \in Characters :
        guilds[g] # NoGuild /\ guilds[g].rank[n] = "MASTER" => guilds[g].master = n

TablesInv == RecordsAgree /\ MastersAgree /\ Sound(info, row) /\ RestartRaisesNobody

\* What a copy becomes by packets whose tables are these.
Reached(v, ts) == IF ts = <<>> THEN v ELSE ts[Len(ts)]

\* The packets q, the tables t that they lead to from v, and the original o, on a
\* connection over which all guilds were given (y) or not.
Line(q, t, v, y, o) ==
    /\ Len(t) <= Len(q)
    /\ y => Len(t) = Len(q)
    /\ \A i \in 1 .. Len(t) :
          t[i] = Apply(q[Len(q) - Len(t) + i], IF i = 1 THEN v ELSE t[i - 1])
    /\ \A j \in 1 .. Len(q) :
          q[j].op = "GuildInfo" <=> ~y /\ t # <<>> /\ j = Len(q) - Len(t) + 1
    /\ y \/ t # <<>> => Reached(v, t) = o

\* A request for all guilds is the only one, and comes before they are given.
AskedOnce(r, t, y) ==
    \A i \in 1 .. Len(r) : r[i].op = "RequestGuildInfo" =>
        /\ ~y /\ t = <<>>
        /\ \A j \in 1 .. Len(r) : r[j].op = "RequestGuildInfo" => j = i

\* What is there of a connection that is down or new.
LinkFits(s) ==
    /\ ~up => link[s] = "down"
    /\ link[s] = "down" => toShared[s] = <<>> /\ toGame[s] = <<>>
    /\ link[s] # "up" => /\ ~synced[s] /\ trail[s] = <<>>
                         /\ \A i \in 1 .. Len(toShared[s]) : toShared[s][i].op # "RequestGuildInfo"

LinesInv ==
    \A s \in Servers : /\ Line(toGame[s], trail[s], copy[s], synced[s], guilds)
                       /\ AskedOnce(toShared[s], trail[s], synced[s])
                       /\ LinkFits(s)

GuildInv == TypeOK /\ CountsInv /\ TablesInv /\ LinesInv

-----------------------------------------------------------------------------
(* Part 1. Tables of guilds. *)

\* What SetRank changes, and that it is a guild.
LEMMA SetRankType ==
    ASSUME NEW gd \in Guilds, NEW n \in Characters, NEW r \in Ranks \cup {"NONE"}
    PROVE  /\ SetRank(gd, n, r) \in Guilds
           /\ SetRank(gd, n, r).rank = [gd.rank EXCEPT ![n] = r]
           /\ SetRank(gd, n, r).state = gd.state
           /\ SetRank(gd, n, r).master = gd.master
  <1>1. One(gd.rank[n] \in Counted) \in Int /\ One(r \in Counted) \in Int
        /\ One(gd.rank[n] = "WAIT") \in Int /\ One(r = "WAIT") \in Int
    BY DEF One
  <1>2. [gd.rank EXCEPT ![n] = r] \in [Characters -> Ranks \cup {"NONE"}]
    BY DEF Guilds
  <1> DEFINE new == SetRank(gd, n, r)
  <1>3. new = [gd EXCEPT !.rank = [gd.rank EXCEPT ![n] = r],
                        !.active = gd.active - One(gd.rank[n] \in Counted) + One(r \in Counted),
                        !.waiting = gd.waiting - One(gd.rank[n] = "WAIT") + One(r = "WAIT")]
    BY DEF SetRank, Guilds
  <1>4. gd.active \in Int /\ gd.waiting \in Int
    BY DEF Guilds
  <1>5. /\ new.rank = [gd.rank EXCEPT ![n] = r] /\ new.state = gd.state /\ new.master = gd.master
        /\ new.active = gd.active - One(gd.rank[n] \in Counted) + One(r \in Counted)
        /\ new.waiting = gd.waiting - One(gd.rank[n] = "WAIT") + One(r = "WAIT")
        /\ new = [state |-> new.state, master |-> new.master, rank |-> new.rank,
                  active |-> new.active, waiting |-> new.waiting]
    BY <1>3 DEF Guilds
  <1>6. new.active \in Int /\ new.waiting \in Int
    BY <1>1, <1>4, <1>5
  <1>7. new.state \in {"WAIT", "ACTIVE"} /\ new.master \in Characters
    BY <1>5 DEF Guilds
  <1>8. new \in Guilds
    <2> HIDE DEF new
    <2> QED  BY <1>2, <1>5, <1>6, <1>7 DEF Guilds
  <1> QED  BY <1>5, <1>8

\* A set of names changes its size by one when one name's membership changes.
LEMMA CountOfOne ==
    ASSUME NEW S, NEW T, NEW n, IsFiniteSet(S), S \subseteq Characters,
           \A m \in Characters \ {n} : m \in S <=> m \in T, T \subseteq Characters
    PROVE  Cardinality(T) = Cardinality(S) - One(n \in S) + One(n \in T)
  <1>1. CASE n \in S /\ n \in T
    <2> S = T
      BY <1>1
    <2> QED  BY <1>1, FS_CardinalityType DEF One
  <1>2. CASE n \in S /\ n \notin T
    <2> T = S \ {n}
      BY <1>2
    <2> QED  BY <1>2, FS_RemoveElement, FS_CardinalityType DEF One
  <1>3. CASE n \notin S /\ n \in T
    <2> T = S \cup {n}
      BY <1>3
    <2> QED  BY <1>3, FS_AddElement, FS_CardinalityType DEF One
  <1>4. CASE n \notin S /\ n \notin T
    <2> S = T
      BY <1>4
    <2> QED  BY <1>4, FS_CardinalityType DEF One
  <1> QED  BY <1>1, <1>2, <1>3, <1>4

\* SetRank keeps the counts right.
LEMMA SetRankCounts ==
    ASSUME NEW gd \in Guilds, Counts(gd), NEW n \in Characters, NEW r \in Ranks \cup {"NONE"}
    PROVE  Counts(SetRank(gd, n, r))
  <1> DEFINE new == [gd.rank EXCEPT ![n] = r]
             S == {m \in Characters : gd.rank[m] \in Counted}
             T == {m \in Characters : new[m] \in Counted}
             U == {m \in Characters : gd.rank[m] = "WAIT"}
             V == {m \in Characters : new[m] = "WAIT"}
  <1>1. new[n] = r /\ \A m \in Characters \ {n} : new[m] = gd.rank[m]
    BY DEF Guilds
  <1>2. IsFiniteSet(S) /\ IsFiniteSet(U)
    BY SentinelAssumption, FS_Subset
  <1>3. (n \in S <=> gd.rank[n] \in Counted) /\ (n \in T <=> r \in Counted)
    BY <1>1
  <1>4. (n \in U <=> gd.rank[n] = "WAIT") /\ (n \in V <=> r = "WAIT")
    BY <1>1
  <1>5. Cardinality(T) = Cardinality(S) - One(n \in S) + One(n \in T)
    BY <1>1, <1>2, CountOfOne
  <1>6. Cardinality(V) = Cardinality(U) - One(n \in U) + One(n \in V)
    BY <1>1, <1>2, CountOfOne
  <1>7. Cardinality(T) = gd.active - One(gd.rank[n] \in Counted) + One(r \in Counted)
    BY <1>3, <1>5 DEF Counts, One
  <1>8. Cardinality(V) = gd.waiting - One(gd.rank[n] = "WAIT") + One(r = "WAIT")
    BY <1>4, <1>6 DEF Counts, One
  <1>9. /\ SetRank(gd, n, r).rank = new
        /\ SetRank(gd, n, r).active = gd.active - One(gd.rank[n] \in Counted) + One(r \in Counted)
        /\ SetRank(gd, n, r).waiting = gd.waiting - One(gd.rank[n] = "WAIT") + One(r = "WAIT")
    BY DEF SetRank, Guilds
  <1>10. SetRank(gd, n, r).active = Cardinality(T) /\ SetRank(gd, n, r).waiting = Cardinality(V)
    BY <1>7, <1>8, <1>9
  <1> HIDE DEF new
  <1> QED  BY <1>9, <1>10 DEF Counts

\* A guild without members.
LEMMA NewGuildCounts ==
    ASSUME NEW n \in Characters
    PROVE  NewGuild(n) \in Guilds /\ Counts(NewGuild(n))
  <1>1. NewGuild(n) \in Guilds
    BY DEF NewGuild, Guilds, Ranks
  <1>2. {m \in Characters : NewGuild(n).rank[m] \in Counted} = {}
    BY DEF NewGuild, Counted
  <1>3. {m \in Characters : NewGuild(n).rank[m] = "WAIT"} = {}
    BY DEF NewGuild
  <1> QED  BY <1>1, <1>2, <1>3, FS_EmptySet DEF Counts, NewGuild

\* One guild of a table changes.
LEMMA PutType ==
    ASSUME NEW v \in Tables, NEW g \in GuildIDs, NEW that \in Guilds \cup {NoGuild}
    PROVE  /\ Put(v, g, that) \in Tables
           /\ Put(v, g, that)[g] = that
           /\ \A h \in GuildIDs \ {g} : Put(v, g, that)[h] = v[h]
  BY DEF Put, Tables

\* One guild of a table changes, its counts right.
LEMMA PutConsistent ==
    ASSUME NEW v \in Tables, NEW g \in GuildIDs, NEW that \in Guilds \cup {NoGuild},
           Consistent(v), that # NoGuild => Counts(that)
    PROVE  Consistent(Put(v, g, that))
  BY PutType DEF Consistent

\* What a table has.
LEMMA GuildOf ==
    ASSUME NEW v \in Tables, NEW g \in GuildIDs, v[g] # NoGuild
    PROVE  v[g] \in Guilds
  BY DEF Tables

\* An ID without a guild is not a guild, and a handler that throws leaves no table.
LEMMA NoGuildIsNone == NoGuild \notin Guilds /\ Failed \notin Tables
  BY SentinelAssumption

\* A rank that a member gets, and the master that a guild gets.
LEMMA ModifyRankType ==
    ASSUME NEW gd \in Guilds, NEW n \in Characters, NEW r \in Ranks \cup {"NONE"}
    PROVE  /\ ModifyMemberRank(gd, n, r) \in Guilds
           /\ ModifyMemberRank(gd, n, r).state = gd.state
           /\ ModifyMemberRank(gd, n, r).master = gd.master
           /\ ModifyMemberRank(gd, n, r).rank =
                  IF IsMember(gd, n) THEN [gd.rank EXCEPT ![n] = r] ELSE gd.rank
           /\ Counts(gd) => Counts(ModifyMemberRank(gd, n, r))
  <1>1. CASE IsMember(gd, n)
    BY <1>1, SetRankType, SetRankCounts DEF ModifyMemberRank
  <1>2. CASE ~IsMember(gd, n)
    BY <1>2 DEF ModifyMemberRank
  <1> QED  BY <1>1, <1>2

\* What ChangeMaster makes of the ranks, with two SetRank.
LEMMA ChangeMasterType ==
    ASSUME NEW gd \in Guilds, NEW n \in Characters, IsMember(gd, n)
    PROVE  /\ ChangeMaster(gd, n) \in Guilds
           /\ ChangeMaster(gd, n).state = gd.state
           /\ ChangeMaster(gd, n).master = n
           /\ ChangeMaster(gd, n).rank =
                  [ (IF IsMember(gd, gd.master)
                     THEN [gd.rank EXCEPT ![gd.master] = gd.rank[n]] ELSE gd.rank)
                    EXCEPT ![n] = "MASTER"]
           /\ Counts(gd) => Counts(ChangeMaster(gd, n))
  <1> DEFINE one == ModifyMemberRank(gd, gd.master, gd.rank[n])
             two == ModifyMemberRank(one, n, "MASTER")
  <1>1. gd.master \in Characters /\ gd.rank[n] \in Ranks \cup {"NONE"}
        /\ gd.rank \in [Characters -> Ranks \cup {"NONE"}]
    BY DEF Guilds
  <1>2. /\ one \in Guilds /\ one.state = gd.state
        /\ one.rank = IF IsMember(gd, gd.master)
                      THEN [gd.rank EXCEPT ![gd.master] = gd.rank[n]] ELSE gd.rank
        /\ Counts(gd) => Counts(one)
    BY <1>1, ModifyRankType
  <1>3. IsMember(one, n)
    <2> HIDE DEF one
    <2> QED  BY <1>1, <1>2 DEF IsMember
  <1>4. "MASTER" \in Ranks \cup {"NONE"}
    BY DEF Ranks, Counted
  <1>5. /\ two \in Guilds /\ two.state = gd.state /\ two.rank = [one.rank EXCEPT ![n] = "MASTER"]
        /\ Counts(gd) => Counts(two)
    <2> HIDE DEF one
    <2> QED  BY <1>2, <1>3, <1>4, ModifyRankType
  <1> HIDE DEF two
  <1>6. ChangeMaster(gd, n) = [two EXCEPT !.master = n]
    BY DEF ChangeMaster, two, one
  <1>7. [two EXCEPT !.master = n] \in Guilds
    BY <1>5 DEF Guilds
  <1>8. /\ [two EXCEPT !.master = n].state = two.state /\ [two EXCEPT !.master = n].master = n
        /\ [two EXCEPT !.master = n].rank = two.rank /\ [two EXCEPT !.master = n].active = two.active
        /\ [two EXCEPT !.master = n].waiting = two.waiting
    BY <1>5 DEF Guilds
  <1>9. Counts(two) => Counts(ChangeMaster(gd, n))
    BY <1>6, <1>8 DEF Counts
  <1> QED  BY <1>2, <1>5, <1>6, <1>7, <1>8, <1>9

\* A guild that becomes active.
LEMMA ActivateType ==
    ASSUME NEW gd \in Guilds
    PROVE  /\ [gd EXCEPT !.state = "ACTIVE"] \in Guilds
           /\ [gd EXCEPT !.state = "ACTIVE"].state = "ACTIVE"
           /\ [gd EXCEPT !.state = "ACTIVE"].master = gd.master
           /\ [gd EXCEPT !.state = "ACTIVE"].rank = gd.rank
           /\ Counts(gd) => Counts([gd EXCEPT !.state = "ACTIVE"])
  <1>1. /\ [gd EXCEPT !.state = "ACTIVE"] \in Guilds
        /\ [gd EXCEPT !.state = "ACTIVE"].state = "ACTIVE"
        /\ [gd EXCEPT !.state = "ACTIVE"].master = gd.master
        /\ [gd EXCEPT !.state = "ACTIVE"].rank = gd.rank
        /\ [gd EXCEPT !.state = "ACTIVE"].active = gd.active
        /\ [gd EXCEPT !.state = "ACTIVE"].waiting = gd.waiting
    BY DEF Guilds
  <1> QED  BY <1>1 DEF Counts

\* The handler of each packet.
LEMMA ApplyOf ==
    ASSUME NEW p, NEW v
    PROVE  /\ p.op = "GuildInfo" => Apply(p, v) = p.table
           /\ p.op = "AddGuildOK" => Apply(p, v) = AddGuildOK(v, p)
           /\ p.op = "AddGuildMemberOK" => Apply(p, v) = AddGuildMemberOK(v, p)
           /\ p.op = "ModifyGuildOK" => Apply(p, v) = ModifyGuildOK(v, p)
           /\ p.op = "DeleteGuildOK" => Apply(p, v) = DeleteGuildOK(v, p)
           /\ p.op = "GuildMemberGoneOK" => Apply(p, v) = GuildMemberGoneOK(v, p)
           /\ p.op = "ModifyGuildMemberOK" => Apply(p, v) = ModifyGuildMemberOK(v, p)
  BY DEF Apply, GuildInfo

\* A handler that does not throw leaves a table, whose counts are right if they were.
LEMMA ApplyKeeps ==
    ASSUME NEW p \in Packets, NEW v \in Tables, Apply(p, v) # Failed
    PROVE  /\ Apply(p, v) \in Tables
           /\ Consistent(v) /\ (p.op = "GuildInfo" => Consistent(p.table))
              => Consistent(Apply(p, v))
  <1> DEFINE good(that) == that \in Guilds \cup {NoGuild}
                           /\ (Consistent(v) /\ that # NoGuild => Counts(that))
  <1>0. ASSUME NEW g \in GuildIDs, NEW that, good(that)
        PROVE  Put(v, g, that) \in Tables /\ (Consistent(v) => Consistent(Put(v, g, that)))
    BY <1>0, PutType, PutConsistent
  <1>a. \A g \in GuildIDs : v[g] # NoGuild => v[g] \in Guilds /\ (Consistent(v) => Counts(v[g]))
    BY GuildOf DEF Consistent
  <1>1. CASE p \in [op : {"GuildInfo"}, table : Tables]
    BY <1>1, ApplyOf
  <1>2. CASE p \in [op : {"AddGuildOK"}, guild : GuildIDs, name : Characters]
    <2>1. good(NewGuild(p.name))
      BY <1>2, NewGuildCounts
    <2>2. Apply(p, v) = Put(v, p.guild, NewGuild(p.name))
      BY <1>2, ApplyOf DEF AddGuildOK
    <2> HIDE DEF good
    <2> QED  BY <1>0, <1>2, <2>1, <2>2
  <1>3. CASE p \in [op : {"GuildMemberGoneOK"}, guild : GuildIDs, name : Characters]
    <2>1. ASSUME v[p.guild] # NoGuild
          PROVE  good(DeleteMember(v[p.guild], p.name))
      BY <1>3, <2>1, <1>a, SetRankType, SetRankCounts DEF DeleteMember
    <2>2. Apply(p, v) = IF v[p.guild] = NoGuild THEN v
                        ELSE Put(v, p.guild, DeleteMember(v[p.guild], p.name))
      BY <1>3, ApplyOf DEF GuildMemberGoneOK
    <2> HIDE DEF good
    <2> QED  BY <1>0, <1>3, <2>1, <2>2
  <1>4. CASE p \in [op : {"AddGuildMemberOK"}, guild : GuildIDs, name : Characters, rank : Ranks]
    <2>1. ASSUME v[p.guild] # NoGuild
          PROVE  good(SetRank(v[p.guild], p.name, p.rank))
      BY <1>4, <2>1, <1>a, SetRankType, SetRankCounts
    <2>2. \/ Apply(p, v) = v
          \/ /\ v[p.guild] # NoGuild
             /\ Apply(p, v) = Put(v, p.guild, SetRank(v[p.guild], p.name, p.rank))
      BY <1>4, ApplyOf DEF AddGuildMemberOK
    <2> HIDE DEF good
    <2> QED  BY <1>0, <1>4, <2>1, <2>2
  <1>5. CASE p \in [op : {"ModifyGuildMemberOK"}, guild : GuildIDs, name : Characters, rank : Ranks]
    <2>1. ASSUME v[p.guild] # NoGuild
          PROVE  good(ModifyMemberRank(v[p.guild], p.name, p.rank))
      BY <1>5, <2>1, <1>a, ModifyRankType
    <2>2. ASSUME v[p.guild] # NoGuild, IsMember(v[p.guild], p.name)
          PROVE  good(ChangeMaster(v[p.guild], p.name))
      BY <1>5, <2>2, <1>a, ChangeMasterType
    <2>3. \/ Apply(p, v) = v
          \/ /\ v[p.guild] # NoGuild
             /\ Apply(p, v) = Put(v, p.guild, ModifyMemberRank(v[p.guild], p.name, p.rank))
          \/ /\ v[p.guild] # NoGuild /\ IsMember(v[p.guild], p.name)
             /\ Apply(p, v) = Put(v, p.guild, ChangeMaster(v[p.guild], p.name))
      BY <1>5, ApplyOf DEF ModifyGuildMemberOK
    <2> HIDE DEF good
    <2> QED  BY <1>0, <1>5, <2>1, <2>2, <2>3
  <1>6. CASE p \in [op : {"ModifyGuildOK"}, guild : GuildIDs]
    <2>1. v[p.guild] # NoGuild /\ Apply(p, v) = Put(v, p.guild, [v[p.guild] EXCEPT !.state = "ACTIVE"])
      BY <1>6, ApplyOf DEF ModifyGuildOK
    <2>2. good([v[p.guild] EXCEPT !.state = "ACTIVE"])
      BY <1>6, <2>1, <1>a, ActivateType
    <2> HIDE DEF good
    <2> QED  BY <1>0, <1>6, <2>1, <2>2
  <1>7. CASE p \in [op : {"DeleteGuildOK"}, guild : GuildIDs]
    BY <1>0, <1>7, ApplyOf DEF DeleteGuildOK
  <1> QED  BY <1>1, <1>2, <1>3, <1>4, <1>5, <1>6, <1>7 DEF Packets

-----------------------------------------------------------------------------
(* Part 2. Connections. *)

\* A packet that changes one guild.
Updates == {p \in Packets : p.op # "GuildInfo"}

\* The tables of a server that follows, after o.
Grown(t, y, o) == IF y \/ t # <<>> THEN Append(t, o) ELSE t

\* What an element of a longer sequence, and of the rest of one, is.
LEMMA AppendAt ==
    ASSUME NEW S, NEW q \in Seq(S), NEW p \in S
    PROVE  /\ Append(q, p) \in Seq(S) /\ Len(Append(q, p)) = Len(q) + 1
           /\ Append(q, p)[Len(q) + 1] = p
           /\ \A i \in 1 .. Len(q) : Append(q, p)[i] = q[i]
           /\ Append(q, p) # <<>>
  OBVIOUS

\* What an element of the rest of a sequence is.
LEMMA TailAt ==
    ASSUME NEW S, NEW q \in Seq(S), q # <<>>
    PROVE  /\ Tail(q) \in Seq(S) /\ Len(Tail(q)) = Len(q) - 1 /\ Len(q) \in Nat \ {0}
           /\ \A i \in 1 .. Len(q) - 1 : Tail(q)[i] = q[i + 1]
           /\ Head(q) = q[1] /\ Head(q) \in S
  OBVIOUS

\* The sequence without elements.
LEMMA LenZero ==
    ASSUME NEW S, NEW q \in Seq(S)
    PROVE  q = <<>> <=> Len(q) = 0
  OBVIOUS

\* An update that is sent while the original follows it.
LEMMA LineGrows ==
    ASSUME NEW q \in Seq(Packets), NEW t \in Seq(Tables), NEW v, NEW y \in BOOLEAN,
           NEW o \in Tables, NEW p \in Updates, Apply(p, o) \in Tables, Line(q, t, v, y, o)
    PROVE  Line(Append(q, p), Grown(t, y, Apply(p, o)), v, y, Apply(p, o))
  <1> DEFINE w == Apply(p, o)
             r == Append(q, p)
             u == Append(t, w)
  <1>0. w \in Tables /\ p \in Packets /\ p.op # "GuildInfo"
    BY DEF Updates
  <1>1. /\ r \in Seq(Packets) /\ Len(r) = Len(q) + 1 /\ r[Len(q) + 1] = p
        /\ \A i \in 1 .. Len(q) : r[i] = q[i]
    BY <1>0, AppendAt
  <1>2. /\ u \in Seq(Tables) /\ Len(u) = Len(t) + 1 /\ u[Len(t) + 1] = w /\ u # <<>>
        /\ \A i \in 1 .. Len(t) : u[i] = t[i]
    BY <1>0, AppendAt
  <1>3. Len(q) \in Nat /\ Len(t) \in Nat /\ (t = <<>> <=> Len(t) = 0)
    OBVIOUS
  <1>4. CASE ~y /\ t = <<>>
    <2>1. Len(t) = 0
      BY <1>4
    <2>2. \A j \in 1 .. Len(r) : r[j].op # "GuildInfo"
      BY <1>0, <1>1, <1>3, <1>4 DEF Line
    <2> HIDE DEF r, w
    <2>3. Line(r, t, v, y, w)
      BY <1>1, <1>3, <1>4, <2>1, <2>2 DEF Line
    <2> QED  BY <1>4, <2>3 DEF Grown, r, w
  <1>5. CASE y \/ t # <<>>
    <2>1. Len(t) <= Len(q) /\ (y => Len(t) = Len(q)) /\ Reached(v, t) = o
      BY <1>5 DEF Line
    <2>2. ASSUME NEW i \in 1 .. Len(u)
          PROVE  u[i] = Apply(r[Len(r) - Len(u) + i], IF i = 1 THEN v ELSE u[i - 1])
      <3>1. CASE i \in 1 .. Len(t)
        <4>1. t[i] = Apply(q[Len(q) - Len(t) + i], IF i = 1 THEN v ELSE t[i - 1])
          BY <3>1 DEF Line
        <4>2. Len(q) - Len(t) + i \in 1 .. Len(q)
          BY <1>3, <2>1, <3>1
        <4>3. r[Len(r) - Len(u) + i] = q[Len(q) - Len(t) + i]
          BY <1>1, <1>2, <1>3, <3>1, <4>2
        <4>4. i # 1 => u[i - 1] = t[i - 1]
          BY <1>2, <1>3, <3>1
        <4>5. u[i] = t[i]
          BY <1>2, <3>1
        <4> HIDE DEF r, u
        <4> QED  BY <4>1, <4>3, <4>4, <4>5
      <3>2. CASE i = Len(t) + 1
        <4>1. Len(r) - Len(u) + i = Len(q) + 1
          BY <1>1, <1>2, <1>3, <3>2
        <4>2. u[i] = w /\ r[Len(r) - Len(u) + i] = p
          BY <1>1, <1>2, <3>2, <4>1
        <4>3. (IF i = 1 THEN v ELSE u[i - 1]) = o
          BY <1>2, <1>3, <2>1, <3>2 DEF Reached
        <4> QED  BY <4>2, <4>3
      <3>3. i \in 1 .. Len(t) \/ i = Len(t) + 1
        BY <1>2, <1>3
      <3> QED  BY <3>1, <3>2, <3>3
    <2>3. ASSUME NEW j \in 1 .. Len(r)
          PROVE  r[j].op = "GuildInfo" <=> ~y /\ u # <<>> /\ j = Len(r) - Len(u) + 1
      <3>1. CASE j \in 1 .. Len(q)
        BY <1>1, <1>2, <1>3, <1>5, <3>1 DEF Line
      <3>2. CASE j = Len(q) + 1
        <4>1. ~y => j # Len(r) - Len(u) + 1
          BY <1>1, <1>2, <1>3, <1>5, <3>2
        <4> QED  BY <1>0, <1>1, <3>2, <4>1
      <3> QED  BY <1>1, <1>3, <3>1, <3>2
    <2>4. Reached(v, u) = w
      BY <1>2 DEF Reached
    <2>5. Len(u) <= Len(r) /\ (y => Len(u) = Len(r))
      BY <1>1, <1>2, <1>3, <2>1
    <2> HIDE DEF r, u, w
    <2>6. Line(r, u, v, y, w)
      BY <2>2, <2>3, <2>4, <2>5 DEF Line
    <2> QED  BY <1>5, <2>6 DEF Grown, r, u, w
  <1> QED  BY <1>4, <1>5

\* A connection without packets, whose server does not follow.
LEMMA LineEmpty ==
    ASSUME NEW v, NEW o
    PROVE  Line(<<>>, <<>>, v, FALSE, o)
  BY DEF Line

\* All guilds are sent to a server that does not follow.
LEMMA LineGiven ==
    ASSUME NEW q \in Seq(Packets), NEW v, NEW o \in Tables, Line(q, <<>>, v, FALSE, o)
    PROVE  Line(Append(q, [op |-> "GuildInfo", table |-> o]), <<o>>, v, FALSE, o)
  <1> DEFINE p == [op |-> "GuildInfo", table |-> o]
             r == Append(q, p)
  <1>1. p \in Packets /\ p.op = "GuildInfo" /\ p.table = o
    BY DEF Packets
  <1> HIDE DEF p
  <1>2. /\ r \in Seq(Packets) /\ Len(r) = Len(q) + 1 /\ r[Len(q) + 1] = p
        /\ \A i \in 1 .. Len(q) : r[i] = q[i]
    BY <1>1, AppendAt
  <1>3. Len(q) \in Nat /\ Len(<<o>>) = 1 /\ <<o>>[1] = o /\ <<o>> # <<>>
    OBVIOUS
  <1>4. \A j \in 1 .. Len(q) : q[j].op # "GuildInfo"
    BY DEF Line
  <1>5. Apply(p, v) = o
    BY <1>1, ApplyOf
  <1> HIDE DEF r
  <1>6. \A i \in 1 .. Len(<<o>>) :
            <<o>>[i] = Apply(r[Len(r) - Len(<<o>>) + i], IF i = 1 THEN v ELSE <<o>>[i - 1])
    BY <1>2, <1>3, <1>5
  <1>7. \A j \in 1 .. Len(r) : r[j].op = "GuildInfo" <=> j = Len(r) - Len(<<o>>) + 1
    BY <1>1, <1>2, <1>3, <1>4
  <1>8. Reached(v, <<o>>) = o
    BY <1>3 DEF Reached
  <1>9. Line(r, <<o>>, v, FALSE, o)
    BY <1>2, <1>3, <1>6, <1>7, <1>8 DEF Line
  <1> QED  BY <1>9 DEF r, p

\* The next packet is handled.
LEMMA LineDelivered ==
    ASSUME NEW q \in Seq(Packets), NEW t \in Seq(Tables), NEW v, NEW y \in BOOLEAN, NEW o,
           q # <<>>, Line(q, t, v, y, o),
           NEW w, w = Apply(Head(q), v), NEW z \in BOOLEAN, z <=> y \/ Head(q).op = "GuildInfo"
    PROVE  /\ z => t # <<>> /\ w = Head(t)
           /\ Line(Tail(q), IF z THEN Tail(t) ELSE t, w, z, o)
  <1>1. /\ Tail(q) \in Seq(Packets) /\ Len(Tail(q)) = Len(q) - 1 /\ Len(q) \in Nat \ {0}
        /\ \A i \in 1 .. Len(q) - 1 : Tail(q)[i] = q[i + 1]
        /\ Head(q) = q[1]
    BY TailAt
  <1>2. Len(t) \in Nat /\ (t = <<>> <=> Len(t) = 0)
    OBVIOUS
  <1>3. Head(q).op = "GuildInfo" <=> ~y /\ t # <<>> /\ Len(q) = Len(t)
    BY <1>1, <1>2 DEF Line
  <1>4. CASE z
    <2>1. Len(t) = Len(q) /\ t # <<>>
      BY <1>1, <1>2, <1>3, <1>4 DEF Line
    <2>2. /\ Len(Tail(t)) = Len(t) - 1 /\ Tail(t) \in Seq(Tables) /\ Head(t) = t[1]
          /\ \A i \in 1 .. Len(t) - 1 : Tail(t)[i] = t[i + 1]
      BY <2>1, TailAt
    <2>3. t[1] = w
      BY <1>1, <1>2, <2>1 DEF Line
    <2> DEFINE r == Tail(q)
               u == Tail(t)
    <2>4. ASSUME NEW i \in 1 .. Len(u)
          PROVE  u[i] = Apply(r[Len(r) - Len(u) + i], IF i = 1 THEN w ELSE u[i - 1])
      <3>1. i + 1 \in 1 .. Len(t) /\ i \in 1 .. Len(t) - 1 /\ i \in Nat \ {0}
        BY <1>2, <2>2
      <3>2. t[i + 1] = Apply(q[Len(q) - Len(t) + (i + 1)], t[i])
        <4>1. t[i + 1] = Apply(q[Len(q) - Len(t) + (i + 1)], IF i + 1 = 1 THEN v ELSE t[(i + 1) - 1])
          BY <3>1 DEF Line
        <4> QED  BY <3>1, <4>1
      <3>3. r[Len(r) - Len(u) + i] = q[Len(q) - Len(t) + (i + 1)]
        BY <1>1, <1>2, <2>1, <2>2, <3>1
      <3>4. u[i] = t[i + 1] /\ (IF i = 1 THEN w ELSE u[i - 1]) = t[i]
        BY <1>2, <2>2, <2>3, <3>1
      <3> HIDE DEF r, u
      <3> QED  BY <3>2, <3>3, <3>4
    <2>5. \A j \in 1 .. Len(r) : r[j].op # "GuildInfo"
      BY <1>1, <1>2, <2>1 DEF Line
    <2>6. Reached(w, u) = o
      <3>1. t[Len(t)] = o
        BY <2>1 DEF Line, Reached
      <3>2. CASE Len(t) = 1
        <4>1. u = <<>>
          <5>1. Len(u) = 0 /\ u \in Seq(Tables)
            BY <2>2, <3>2
          <5> HIDE DEF u
          <5> QED  BY <5>1, LenZero
        <4> QED  BY <2>3, <3>1, <3>2, <4>1 DEF Reached
      <3>3. CASE Len(t) # 1
        <4>1. Len(u) \in 1 .. Len(t) - 1 /\ Len(u) + 1 = Len(t) /\ u # <<>>
          BY <1>2, <2>1, <2>2, <3>3
        <4>2. u[Len(u)] = t[Len(t)]
          BY <2>2, <4>1
        <4> HIDE DEF u
        <4> QED  BY <3>1, <4>1, <4>2 DEF Reached
      <3> QED  BY <3>2, <3>3
    <2>7. Len(u) = Len(r)
      BY <1>1, <2>1, <2>2
    <2>8. Len(r) \in Nat
      BY <1>1
    <2> HIDE DEF r, u
    <2>9. Line(r, u, w, z, o)
      BY <1>4, <2>4, <2>5, <2>6, <2>7, <2>8 DEF Line
    <2> QED  BY <1>4, <2>1, <2>2, <2>3, <2>9 DEF r, u
  <1>5. CASE ~z
    <2> DEFINE r == Tail(q)
    <2>1. Head(q).op # "GuildInfo" /\ ~y
      BY <1>5
    <2>2. Len(t) < Len(q)
      BY <1>1, <1>2, <1>3, <2>1 DEF Line
    <2>3. ASSUME NEW i \in 1 .. Len(t)
          PROVE  t[i] = Apply(r[Len(r) - Len(t) + i], IF i = 1 THEN w ELSE t[i - 1])
      <3>1. t[i] = Apply(q[Len(q) - Len(t) + i], IF i = 1 THEN v ELSE t[i - 1])
        BY DEF Line
      <3>2. r[Len(r) - Len(t) + i] = q[Len(q) - Len(t) + i]
        BY <1>1, <1>2, <2>2
      <3>3. CASE i = 1
        <4>1. q[Len(q) - Len(t) + 1].op = "GuildInfo"
          BY <1>1, <1>2, <2>1, <2>2, <3>3 DEF Line
        <4>2. \A x : Apply(q[Len(q) - Len(t) + 1], x) = q[Len(q) - Len(t) + 1].table
          BY <4>1, ApplyOf
        <4> QED  BY <3>1, <3>2, <3>3, <4>2
      <3>4. CASE i # 1
        BY <3>1, <3>2, <3>4
      <3> QED  BY <3>3, <3>4
    <2>4. \A j \in 1 .. Len(r) : r[j].op = "GuildInfo" <=> t # <<>> /\ j = Len(r) - Len(t) + 1
      <3> SUFFICES ASSUME NEW j \in 1 .. Len(r)
                   PROVE  r[j].op = "GuildInfo" <=> t # <<>> /\ j = Len(r) - Len(t) + 1
        OBVIOUS
      <3>1. j + 1 \in 1 .. Len(q) /\ r[j] = q[j + 1] /\ j \in Int
        BY <1>1
      <3>2. q[j + 1].op = "GuildInfo" <=> t # <<>> /\ j + 1 = Len(q) - Len(t) + 1
        BY <2>1, <3>1 DEF Line
      <3>3. j + 1 = Len(q) - Len(t) + 1 <=> j = Len(r) - Len(t) + 1
        <4>1. Len(r) = Len(q) - 1 /\ Len(q) \in Int /\ Len(t) \in Int
          BY <1>1, <1>2
        <4> HIDE DEF r
        <4> QED  BY <3>1, <4>1
      <3> QED  BY <3>1, <3>2, <3>3
    <2>5. t # <<>> => Reached(w, t) = o
      BY DEF Line, Reached
    <2>6. Len(t) <= Len(r)
      BY <1>1, <1>2, <2>2
    <2> HIDE DEF r
    <2>7. Line(r, t, w, z, o)
      BY <1>5, <2>3, <2>4, <2>5, <2>6 DEF Line
    <2> QED  BY <1>5, <2>7 DEF r
  <1> QED  BY <1>4, <1>5

\* Requests are served and sent.
LEMMA AskedTail ==
    ASSUME NEW r \in Seq(Requests), r # <<>>, NEW t, NEW y, AskedOnce(r, t, y)
    PROVE  /\ AskedOnce(Tail(r), t, y)
           /\ Head(r).op = "RequestGuildInfo" =>
                 ~y /\ t = <<>> /\ \A i \in 1 .. Len(Tail(r)) : Tail(r)[i].op # "RequestGuildInfo"
  <1>1. /\ Tail(r) \in Seq(Requests) /\ Len(Tail(r)) = Len(r) - 1 /\ Len(r) \in Nat \ {0}
        /\ \A i \in 1 .. Len(r) - 1 : Tail(r)[i] = r[i + 1]
        /\ Head(r) = r[1]
    BY TailAt
  <1> QED  BY <1>1 DEF AskedOnce

\* A request is sent.
LEMMA AskedAppend ==
    ASSUME NEW r \in Seq(Requests), NEW p \in Requests, NEW t, NEW y, AskedOnce(r, t, y),
           p.op = "RequestGuildInfo" =>
               ~y /\ t = <<>> /\ \A i \in 1 .. Len(r) : r[i].op # "RequestGuildInfo"
    PROVE  AskedOnce(Append(r, p), t, y)
  <1>1. /\ Append(r, p) \in Seq(Requests) /\ Len(Append(r, p)) = Len(r) + 1
        /\ Append(r, p)[Len(r) + 1] = p /\ Len(r) \in Nat
        /\ \A i \in 1 .. Len(r) : Append(r, p)[i] = r[i]
    BY AppendAt
  <1> QED  BY <1>1 DEF AskedOnce

-----------------------------------------------------------------------------
(* Part 3. Records and rows. *)

RowRecords == [guild : GuildIDs, rank : Ranks \cup {"DENY", "LEAVE"}, expired : BOOLEAN]

\* The ranks, and what is not a record.
LEMMA RankSets ==
    /\ Ranks = {"MASTER", "SUBMASTER", "NORMAL", "WAIT"}
    /\ NoRow \notin RowRecords
    /\ NoGuild \notin [state : {"WAIT", "ACTIVE"}, master : Characters]
    /\ Rows = [Characters -> RowRecords \cup {NoRow}]
  BY TablesAssumption DEF Ranks, Counted, RowRecords, Rows

\* What each operator makes of the rows, as the next start will read them.
LEMMA RowCreated ==
    ASSUME NEW rows \in Rows, NEW n \in Characters, NEW g \in GuildIDs, NEW r \in Ranks
    PROVE  /\ Created(rows, n, g, r) \in Rows
           /\ \A h \in GuildIDs, m \in Characters :
                 RankOf(Created(rows, n, g, r), h, m) =
                     IF m = n THEN IF h = g THEN r ELSE "NONE" ELSE RankOf(rows, h, m)
  <1> DEFINE rec == [guild |-> g, rank |-> r, expired |-> FALSE]
             new == Created(rows, n, g, r)
  <1>1. rec \in RowRecords /\ rec # NoRow /\ rec.guild = g /\ rec.rank = r
    <2>1. rec \in RowRecords /\ rec.guild = g /\ rec.rank = r
      BY DEF RowRecords
    <2> HIDE DEF rec
    <2> QED  BY <2>1, RankSets
  <1> HIDE DEF rec
  <1>2. new = [rows EXCEPT ![n] = rec]
    BY DEF Created, rec
  <1>3. new \in Rows /\ new[n] = rec /\ \A m \in Characters \ {n} : new[m] = rows[m]
    BY <1>1, <1>2, RankSets
  <1> HIDE DEF new
  <1>4. \A h \in GuildIDs, m \in Characters :
           RankOf(new, h, m) = IF m = n THEN IF h = g THEN r ELSE "NONE" ELSE RankOf(rows, h, m)
    BY <1>1, <1>3 DEF RankOf
  <1> QED  BY <1>3, <1>4 DEF new

\* A row that has expired makes its name nothing at the next start.
LEMMA RowExpired ==
    ASSUME NEW rows \in Rows, NEW n \in Characters, NEW r \in {"DENY", "LEAVE"}
    PROVE  /\ Expired(rows, n, r) \in Rows
           /\ \A h \in GuildIDs, m \in Characters :
                 RankOf(Expired(rows, n, r), h, m) = IF m = n THEN "NONE" ELSE RankOf(rows, h, m)
  <1> DEFINE new == Expired(rows, n, r)
  <1>1. CASE rows[n] = NoRow
    BY <1>1 DEF Expired, RankOf
  <1>2. CASE rows[n] # NoRow
    <2>1. rows[n] \in RowRecords
      BY <1>2, RankSets
    <2> DEFINE rec == [rows[n] EXCEPT !.rank = r, !.expired = TRUE]
    <2>2. rec \in RowRecords /\ rec.rank = r
      BY <2>1 DEF RowRecords
    <2>3. new = [rows EXCEPT ![n] = rec]
      BY <1>2, RankSets DEF Expired
    <2> HIDE DEF rec
    <2>4. new \in Rows /\ new[n] = rec /\ \A m \in Characters \ {n} : new[m] = rows[m]
      BY <2>2, <2>3, RankSets
    <2>5. r \notin Ranks
      BY RankSets
    <2> HIDE DEF new
    <2>6. \A h \in GuildIDs, m \in Characters :
             RankOf(new, h, m) = IF m = n THEN "NONE" ELSE RankOf(rows, h, m)
      BY <2>2, <2>4, <2>5 DEF RankOf
    <2> QED  BY <2>4, <2>6 DEF new
  <1> QED  BY <1>1, <1>2

\* A row that is saved has the guild and the rank, where there is a row.
LEMMA RowSaved ==
    ASSUME NEW rows \in Rows, NEW gd, NEW n \in Characters, NEW g \in GuildIDs, NEW r \in Ranks
    PROVE  /\ Saved(rows, gd, g, n, r) \in Rows
           /\ \A m \in Characters : Saved(rows, gd, g, n, r)[m] = NoRow <=> rows[m] = NoRow
           /\ \A h \in GuildIDs, m \in Characters :
                 RankOf(Saved(rows, gd, g, n, r), h, m) =
                     IF m # n \/ rows[n] = NoRow \/ gd.rank[n] \in {"NONE", r}
                     THEN RankOf(rows, h, m)
                     ELSE IF h = g THEN r ELSE "NONE"
  <1> DEFINE new == Saved(rows, gd, g, n, r)
  <1>1. CASE rows[n] = NoRow \/ gd.rank[n] \in {"NONE", r}
    BY <1>1 DEF Saved
  <1>2. CASE ~(rows[n] = NoRow \/ gd.rank[n] \in {"NONE", r})
    <2>1. rows[n] \in RowRecords
      BY <1>2, RankSets
    <2> DEFINE rec == [rows[n] EXCEPT !.guild = g, !.rank = r]
    <2>2. rec \in RowRecords /\ rec.rank = r /\ rec.guild = g /\ rec # NoRow
      BY <2>1, RankSets DEF RowRecords
    <2>3. new = [rows EXCEPT ![n] = rec]
      BY <1>2, RankSets DEF Saved
    <2> HIDE DEF rec
    <2>4. new \in Rows /\ new[n] = rec /\ \A m \in Characters \ {n} : new[m] = rows[m]
      BY <2>2, <2>3, RankSets
    <2> HIDE DEF new
    <2>5. \A h \in GuildIDs, m \in Characters :
             RankOf(new, h, m) = IF m # n THEN RankOf(rows, h, m)
                                 ELSE IF h = g THEN r ELSE "NONE"
      BY <2>2, <2>4 DEF RankOf
    <2>6. \A m \in Characters : new[m] = NoRow <=> rows[m] = NoRow
      BY <1>2, <2>2, <2>4
    <2> QED  BY <1>2, <2>4, <2>5, <2>6 DEF new
  <1> QED  BY <1>1, <1>2

\* No row of a guild that has ended is read.
LEMMA RowDissolved ==
    ASSUME NEW rows \in Rows, NEW names, NEW g \in GuildIDs
    PROVE  /\ Dissolved(rows, names, g) \in Rows
           /\ \A h \in GuildIDs, m \in Characters :
                 RankOf(Dissolved(rows, names, g), h, m) =
                     IF h = g \/ m \in names THEN "NONE" ELSE RankOf(rows, h, m)
  <1> DEFINE new == Dissolved(rows, names, g)
  <1>1. \A m \in Characters :
           new[m] = IF rows[m] # NoRow /\ rows[m].guild = g THEN NoRow
                    ELSE IF m \in names THEN Expired(rows, m, "DENY")[m] ELSE rows[m]
    BY DEF Dissolved
  <1>2. \A m \in Characters : /\ Expired(rows, m, "DENY")[m] \in RowRecords \cup {NoRow}
                              /\ \A h \in GuildIDs : RankOf(Expired(rows, m, "DENY"), h, m) = "NONE"
    BY RowExpired, RankSets
  <1>3. new \in Rows
    <2>1. \A m \in Characters : new[m] \in RowRecords \cup {NoRow}
      BY <1>1, <1>2, RankSets
    <2>2. new = [m \in Characters |-> new[m]]
      BY DEF Dissolved
    <2> HIDE DEF new
    <2> QED  BY <2>1, <2>2, RankSets
  <1> HIDE DEF new
  <1>4. ASSUME NEW h \in GuildIDs, NEW m \in Characters
        PROVE  RankOf(new, h, m) = IF h = g \/ m \in names THEN "NONE" ELSE RankOf(rows, h, m)
    <2>1. CASE rows[m] # NoRow /\ rows[m].guild = g
      <3>1. new[m] = NoRow
        BY <1>1, <2>1
      <3> QED  BY <2>1, <3>1 DEF RankOf
    <2>2. CASE ~(rows[m] # NoRow /\ rows[m].guild = g) /\ m \in names
      <3>1. new[m] = Expired(rows, m, "DENY")[m]
        BY <1>1, <2>2
      <3>2. RankOf(new, h, m) = RankOf(Expired(rows, m, "DENY"), h, m)
        BY <3>1 DEF RankOf
      <3> QED  BY <1>2, <2>2, <3>2
    <2>3. CASE ~(rows[m] # NoRow /\ rows[m].guild = g) /\ m \notin names
      <3>1. new[m] = rows[m]
        BY <1>1, <2>3
      <3> QED  BY <2>3, <3>1 DEF RankOf
    <2> QED  BY <2>1, <2>2, <2>3
  <1> QED  BY <1>3, <1>4 DEF new

\* A row that CGRegistGuild removes is not read.
LEMMA RowRemoved ==
    ASSUME NEW rows \in Rows, NEW n \in Characters
    PROVE  /\ [rows EXCEPT ![n] = NoRow] \in Rows
           /\ \A h \in GuildIDs, m \in Characters :
                 RankOf([rows EXCEPT ![n] = NoRow], h, m) =
                     IF m = n THEN "NONE" ELSE RankOf(rows, h, m)
  BY RankSets DEF RankOf

\* TablesInv after a step that touches guild g, what the step leaves of it given.
LEMMA RecordsKept ==
    ASSUME TypeOK, TablesInv, up, up', maxID' \in Int, maxID <= maxID', NEW g \in GuildIDs,
           \A h \in GuildIDs \ {g} : guilds'[h] = guilds[h] /\ info'[h] = info[h],
           \A h \in GuildIDs \ {g}, m \in Characters :
               RankOf(row', h, m) \in {"MASTER", "NORMAL"} =>
                   RankOf(row', h, m) = RankOf(row, h, m),
           guilds'[g] = NoGuild <=> info'[g] = NoGuild,
           guilds'[g] # NoGuild => /\ guilds'[g].master = info'[g].master
                                   /\ guilds'[g].state = info'[g].state
                                   /\ g <= maxID',
           \A m \in Characters : guilds'[g] # NoGuild /\ guilds'[g].rank[m] = "MASTER"
                                    => guilds'[g].master = m,
           \A m \in Characters : RankOf(row', g, m) \in {"MASTER", "NORMAL"} =>
                guilds'[g] # NoGuild /\ guilds'[g].rank[m] = RankOf(row', g, m)
    PROVE  TablesInv'
  <1>1. RecordsAgree'
    <2>1. \A h \in GuildIDs : h \in Int /\ maxID \in Int
      BY SentinelAssumption DEF TypeOK
    <2> QED  BY <2>1 DEF TablesInv, RecordsAgree
  <1>2. MastersAgree'
    BY DEF TablesInv, MastersAgree
  <1>3. RestartRaisesNobody'
    BY DEF TablesInv, RestartRaisesNobody
  <1>4. Sound(info, row)'
    BY <1>1, <1>2, <1>3 DEF RecordsAgree, MastersAgree, RestartRaisesNobody, Sound
  <1> QED  BY <1>1, <1>2, <1>3, <1>4 DEF TablesInv

-----------------------------------------------------------------------------
(* Part 4. The steps of the shared server that change a guild. *)

\* The guilds change by what one packet says, or two.
ToldOne ==
    \E p \in Updates : /\ Apply(p, guilds) \in Tables /\ guilds' = Apply(p, guilds)
                       /\ Broadcast(p)

ToldTwo ==
    \E p, q \in Updates : /\ Apply(p, guilds) \in Tables
                          /\ Apply(q, Apply(p, guilds)) \in Tables
                          /\ guilds' = Apply(q, Apply(p, guilds))
                          /\ BroadcastBoth(p, Apply(p, guilds), q)

Told == ToldOne \/ ToldTwo

Recorded == info' \in Infos /\ row' \in Rows /\ maxID' \in GuildIDs \cup {0} /\ TablesInv'

\* What a request has.
LEMMA RequestOf ==
    ASSUME TypeOK, NEW s \in Servers, toShared[s] # <<>>
    PROVE  LET p == Head(toShared[s])
           IN  /\ p \in Requests
               /\ p.op = "AddGuild" => p.name \in Characters
               /\ p.op = "AddGuildMember" =>
                      p.guild \in GuildIDs /\ p.name \in Characters /\ p.rank \in {"SUBMASTER", "WAIT"}
               /\ p.op \in {"ExpelGuildMember", "QuitGuild"} =>
                      p.guild \in GuildIDs /\ p.name \in Characters
               /\ p.op = "ModifyGuildMember" =>
                      /\ p.guild \in GuildIDs /\ p.name \in Characters
                      /\ p.rank \in {"NORMAL", "SUBMASTER", "MASTER"}
  <1>1. toShared[s] \in Seq(Requests)
    BY DEF TypeOK
  <1>2. Head(toShared[s]) \in Requests
    BY <1>1, TailAt
  <1> DEFINE p == Head(toShared[s])
  <1> HIDE DEF p
  <1>3. ASSUME p \in Requests
        PROVE  /\ p.op = "AddGuild" => p.name \in Characters
               /\ p.op = "AddGuildMember" =>
                      p.guild \in GuildIDs /\ p.name \in Characters /\ p.rank \in {"SUBMASTER", "WAIT"}
               /\ p.op \in {"ExpelGuildMember", "QuitGuild"} =>
                      p.guild \in GuildIDs /\ p.name \in Characters
               /\ p.op = "ModifyGuildMember" =>
                      /\ p.guild \in GuildIDs /\ p.name \in Characters
                      /\ p.rank \in {"NORMAL", "SUBMASTER", "MASTER"}
    BY <1>3 DEF Requests
  <1> QED  BY <1>2, <1>3 DEF p

\* The packets that tell of changes.
LEMMA PacketIs ==
    ASSUME NEW g \in GuildIDs, NEW n \in Characters, NEW r \in Ranks
    PROVE  /\ [op |-> "AddGuildOK", guild |-> g, name |-> n] \in Updates
           /\ [op |-> "AddGuildMemberOK", guild |-> g, name |-> n, rank |-> r] \in Updates
           /\ [op |-> "ModifyGuildOK", guild |-> g] \in Updates
           /\ [op |-> "DeleteGuildOK", guild |-> g] \in Updates
           /\ [op |-> "GuildMemberGoneOK", guild |-> g, name |-> n] \in Updates
           /\ [op |-> "ModifyGuildMemberOK", guild |-> g, name |-> n, rank |-> r] \in Updates
  BY DEF Updates, Packets

\* The record of guild g after it was written.
LEMMA InfoPut ==
    ASSUME NEW infos \in Infos, NEW g \in GuildIDs,
           NEW that \in [state : {"WAIT", "ACTIVE"}, master : Characters] \cup {NoGuild}
    PROVE  /\ Put(infos, g, that) \in Infos /\ Put(infos, g, that)[g] = that
           /\ \A h \in GuildIDs \ {g} : Put(infos, g, that)[h] = infos[h]
  BY DEF Put, Infos

\* A new guild, with its master as first member: the two packets and the record.
LEMMA AddGuildStep ==
    ASSUME TypeOK, TablesInv, NEW s \in Servers, AddGuild(s)
    PROVE  Ignored(s) \/ (Served(s) /\ Told /\ Recorded)
  <1> DEFINE n == Head(toShared[s]).name
             g == maxID + 1
             gd == NewGuild(n)
             new == Put(guilds, g, gd)
             p == [op |-> "AddGuildOK", guild |-> g, name |-> n]
             q == [op |-> "AddGuildMemberOK", guild |-> g, name |-> n, rank |-> "MASTER"]
  <1>1. CASE g \notin GuildIDs
    BY <1>1 DEF AddGuild
  <1>2. CASE g \in GuildIDs
    <2>1. /\ up /\ n \in Characters /\ maxID' = g /\ up' = up /\ Served(s)
          /\ info' = Put(info, g, [state |-> "WAIT", master |-> n])
          /\ row' = Created(row, n, g, "MASTER")
          /\ guilds' = Put(new, g, SetRank(new[g], n, "MASTER"))
          /\ BroadcastBoth(p, new, q)
      BY <1>2, RequestOf DEF AddGuild, Asks, Served, Ignored
    <2>2. maxID \in Int /\ GuildIDs \subseteq Int
      BY SentinelAssumption DEF TypeOK
    <2>3. guilds[g] = NoGuild /\ guilds \in Tables /\ info \in Infos /\ row \in Rows
      BY <1>2, <2>1, <2>2 DEF TablesInv, RecordsAgree, TypeOK
    <2>4. gd \in Guilds /\ gd # NoGuild /\ gd.master = n /\ gd.state = "WAIT"
          /\ \A m \in Characters : gd.rank[m] = "NONE"
      BY <2>1, NewGuildCounts, NoGuildIsNone DEF NewGuild
    <2> HIDE DEF n, g, gd
    <2>5. new \in Tables /\ new[g] = gd /\ \A h \in GuildIDs \ {g} : new[h] = guilds[h]
      BY <1>2, <2>3, <2>4, PutType
    <2> HIDE DEF new
    <2> DEFINE one == SetRank(gd, n, "MASTER")
    <2>6. /\ one \in Guilds /\ one.master = n /\ one.state = "WAIT"
          /\ one.rank = [gd.rank EXCEPT ![n] = "MASTER"]
      <3>1. "MASTER" \in Ranks \cup {"NONE"}
        BY RankSets
      <3> QED  BY <2>1, <2>4, <3>1, SetRankType
    <2>7. one # NoGuild /\ one.rank[n] = "MASTER" /\ \A m \in Characters \ {n} : one.rank[m] = "NONE"
      <3>1. gd.rank \in [Characters -> Ranks \cup {"NONE"}]
        BY <2>4 DEF Guilds
      <3> HIDE DEF one
      <3> QED  BY <2>1, <2>4, <2>6, <3>1, NoGuildIsNone
    <2> HIDE DEF one
    <2>8. guilds' = Put(new, g, one)
      BY <2>1, <2>5 DEF one
    <2>9. guilds' \in Tables /\ guilds'[g] = one /\ \A h \in GuildIDs \ {g} : guilds'[h] = guilds[h]
      BY <1>2, <2>5, <2>6, <2>8, PutType
    <2>10. p \in Updates /\ q \in Updates
      BY <1>2, <2>1, PacketIs, RankSets
    <2>11. Apply(p, guilds) = new
      BY <2>3, ApplyOf DEF AddGuildOK, new, gd
    <2>12. Apply(q, new) = guilds'
      <3>1. ~IsMember(new[g], n)
        BY <2>1, <2>4, <2>5 DEF IsMember
      <3> QED  BY <2>4, <2>5, <2>8, <3>1, ApplyOf DEF AddGuildMemberOK, one
    <2>13. Told
      <3> HIDE DEF p, q
      <3> QED  BY <2>1, <2>5, <2>9, <2>10, <2>11, <2>12 DEF Told, ToldTwo
    <2>14. /\ info' \in Infos /\ info'[g] = [state |-> "WAIT", master |-> n]
           /\ \A h \in GuildIDs \ {g} : info'[h] = info[h]
      BY <1>2, <2>1, <2>3, InfoPut
    <2>15. /\ row' \in Rows
           /\ \A h \in GuildIDs, m \in Characters :
                RankOf(row', h, m) = IF m = n THEN IF h = g THEN "MASTER" ELSE "NONE"
                                     ELSE RankOf(row, h, m)
      BY <1>2, <2>1, <2>3, RowCreated, RankSets
    <2>16. TablesInv'
      <3>1. info'[g] # NoGuild /\ info'[g].master = n /\ info'[g].state = "WAIT"
        BY <2>1, <2>14, RankSets
      <3>2. \A m \in Characters : RankOf(row, g, m) \notin {"MASTER", "NORMAL"}
        BY <1>2, <2>1, <2>3 DEF TablesInv, RestartRaisesNobody
      <3>3. maxID' \in Int /\ maxID <= maxID' /\ g <= maxID'
        BY <2>1, <2>2 DEF g
      <3>4. \A h \in GuildIDs \ {g}, m \in Characters :
               RankOf(row', h, m) \in {"MASTER", "NORMAL"} => RankOf(row', h, m) = RankOf(row, h, m)
        BY <2>15
      <3>5. \A m \in Characters : RankOf(row', g, m) \in {"MASTER", "NORMAL"} =>
               m = n /\ RankOf(row', g, m) = "MASTER"
        BY <1>2, <2>15, <3>2
      <3>6. \A m \in Characters : /\ one.rank[m] = "MASTER" => one.master = m
                                  /\ RankOf(row', g, m) \in {"MASTER", "NORMAL"} =>
                                        one.rank[m] = RankOf(row', g, m)
        BY <2>6, <2>7, <3>5
      <3>7. up /\ up'
        BY <2>1
      <3>8. \A h \in GuildIDs \ {g} : guilds'[h] = guilds[h] /\ info'[h] = info[h]
        BY <2>9, <2>14
      <3>9. guilds'[g] # NoGuild /\ info'[g] # NoGuild
        BY <2>7, <2>9, <3>1
      <3>10. guilds'[g].master = info'[g].master /\ guilds'[g].state = info'[g].state
        BY <2>6, <2>9, <3>1
      <3>11. \A m \in Characters : /\ guilds'[g].rank[m] = "MASTER" => guilds'[g].master = m
                                   /\ RankOf(row', g, m) \in {"MASTER", "NORMAL"} =>
                                         guilds'[g].rank[m] = RankOf(row', g, m)
        BY <2>9, <3>6
      <3> HIDE DEF p, q
      <3> QED  BY <1>2, <3>3, <3>4, <3>7, <3>8, <3>9, <3>10, <3>11, RecordsKept
    <2> QED  BY <1>2, <2>1, <2>13, <2>14, <2>15, <2>16 DEF Recorded
  <1> QED  BY <1>1, <1>2

\* What a request other than RequestGuildInfo comes to when it is served.
Serves(s) == Served(s) /\ Recorded /\ (Told \/ UNCHANGED <<guilds, toGame, trail>>)

\* A request that the shared server ignores changes nothing.
LEMMA IgnoredServes ==
    ASSUME TypeOK, TablesInv, NEW s \in Servers, Ignored(s)
    PROVE  Serves(s)
  <1>1. UNCHANGED <<up, guilds, maxID, info, row, toGame, trail>> /\ Served(s)
    BY DEF Ignored, Served
  <1>2. TablesInv'
    BY <1>1 DEF TablesInv, RecordsAgree, MastersAgree, RestartRaisesNobody
  <1> QED  BY <1>1, <1>2 DEF Serves, Recorded, TypeOK

\* Whom the rows make master or member is that, and what guild and record share.
LEMMA RowsTrue ==
    ASSUME TypeOK, TablesInv, up, NEW g \in GuildIDs
    PROVE  /\ \A m \in Characters : RankOf(row, g, m) \in {"MASTER", "NORMAL"} =>
                 guilds[g] # NoGuild /\ guilds[g].rank[m] = RankOf(row, g, m)
           /\ guilds[g] # NoGuild =>
                 /\ guilds[g] \in Guilds /\ info[g] # NoGuild
                 /\ info[g] \in [state : {"WAIT", "ACTIVE"}, master : Characters]
                 /\ info[g].state = guilds[g].state /\ info[g].master = guilds[g].master
                 /\ \A m \in Characters : guilds[g].rank[m] = "MASTER" => guilds[g].master = m
                 /\ g <= maxID
  <1>1. \A m \in Characters : RankOf(row, g, m) \in {"MASTER", "NORMAL"} =>
             guilds[g] # NoGuild /\ guilds[g].rank[m] = RankOf(row, g, m)
    BY DEF TablesInv, RestartRaisesNobody
  <1>2. ASSUME guilds[g] # NoGuild
        PROVE  /\ info[g] # NoGuild /\ g <= maxID
               /\ info[g].state = guilds[g].state /\ info[g].master = guilds[g].master
    BY <1>2 DEF TablesInv, RecordsAgree
  <1>3. guilds[g] # NoGuild =>
            \A m \in Characters : guilds[g].rank[m] = "MASTER" => guilds[g].master = m
    BY DEF TablesInv, MastersAgree
  <1>4. guilds[g] # NoGuild => guilds[g] \in Guilds
    BY GuildOf DEF TypeOK
  <1>5. info[g] # NoGuild => info[g] \in [state : {"WAIT", "ACTIVE"}, master : Characters]
    BY DEF TypeOK, Infos
  <1> QED  BY <1>1, <1>2, <1>3, <1>4, <1>5

\* A guild that stays has changed, its record with it.
LEMMA GuildKept ==
    ASSUME TypeOK, TablesInv, up, up', maxID' = maxID, NEW g \in GuildIDs, NEW that \in Guilds,
           guilds[g] # NoGuild, guilds'[g] = that, info' \in Infos, row' \in Rows,
           \A h \in GuildIDs \ {g} : guilds'[h] = guilds[h] /\ info'[h] = info[h],
           info'[g] # NoGuild, info'[g].state = that.state, info'[g].master = that.master,
           \A m \in Characters : that.rank[m] = "MASTER" => that.master = m,
           \A m \in Characters : RankOf(row', g, m) \in {"MASTER", "NORMAL"} =>
                                     that.rank[m] = RankOf(row', g, m),
           \A h \in GuildIDs \ {g}, m \in Characters :
               RankOf(row', h, m) \in {"MASTER", "NORMAL"} => RankOf(row', h, m) = RankOf(row, h, m)
    PROVE  Recorded
  <1>1. maxID \in GuildIDs \cup {0} /\ maxID' \in Int /\ maxID <= maxID' /\ g <= maxID'
    <2>1. maxID \in GuildIDs \cup {0} /\ g <= maxID
      BY RowsTrue DEF TypeOK
    <2> QED  BY <2>1, SentinelAssumption
  <1>2. that # NoGuild
    BY NoGuildIsNone
  <1>3. TablesInv'
    BY <1>1, <1>2, RecordsKept
  <1> QED  BY <1>1, <1>3 DEF Recorded

\* A guild has ended.
LEMMA GuildEnded ==
    ASSUME TypeOK, TablesInv, up, up', maxID' = maxID, NEW g \in GuildIDs, NEW rows \in Rows,
           NEW names, DeleteGuild(g, rows, names),
           \A h \in GuildIDs, m \in Characters :
               RankOf(rows, h, m) \in {"MASTER", "NORMAL"} => RankOf(rows, h, m) = RankOf(row, h, m)
    PROVE  Recorded /\ guilds' \in Tables
  <1>1. guilds' = Put(guilds, g, NoGuild) /\ info' = Put(info, g, NoGuild)
        /\ row' = Dissolved(rows, names, g)
    BY DEF DeleteGuild
  <1>2. guilds' \in Tables /\ guilds'[g] = NoGuild /\ \A h \in GuildIDs \ {g} : guilds'[h] = guilds[h]
    BY <1>1, PutType DEF TypeOK
  <1>3. info' \in Infos /\ info'[g] = NoGuild /\ \A h \in GuildIDs \ {g} : info'[h] = info[h]
    BY <1>1, InfoPut DEF TypeOK
  <1>4. /\ row' \in Rows
        /\ \A h \in GuildIDs, m \in Characters :
              RankOf(row', h, m) = IF h = g \/ m \in names THEN "NONE" ELSE RankOf(rows, h, m)
    BY <1>1, RowDissolved
  <1>5. maxID' \in GuildIDs \cup {0} /\ maxID' \in Int /\ maxID <= maxID'
    BY SentinelAssumption DEF TypeOK
  <1>6. \A h \in GuildIDs \ {g}, m \in Characters :
           RankOf(row', h, m) \in {"MASTER", "NORMAL"} => RankOf(row', h, m) = RankOf(row, h, m)
    BY <1>4
  <1>7. \A m \in Characters : RankOf(row', g, m) \notin {"MASTER", "NORMAL"}
    BY <1>4
  <1>8. TablesInv'
    BY <1>2, <1>3, <1>5, <1>6, <1>7, RecordsKept
  <1> QED  BY <1>2, <1>3, <1>4, <1>5, <1>8 DEF Recorded

\* A member has gone from a guild that stays.
LEMMA MemberLeft ==
    ASSUME TypeOK, TablesInv, up, up', maxID' = maxID, info' = info, NEW g \in GuildIDs,
           NEW n \in Characters, NEW r \in {"DENY", "LEAVE"}, guilds[g] # NoGuild,
           guilds' = Put(guilds, g, DeleteMember(guilds[g], n)), row' = Expired(row, n, r)
    PROVE  Recorded /\ guilds' \in Tables
  <1> DEFINE rest == DeleteMember(guilds[g], n)
  <1>1. /\ guilds[g] \in Guilds /\ info[g] # NoGuild
        /\ info[g].state = guilds[g].state /\ info[g].master = guilds[g].master
        /\ \A m \in Characters : guilds[g].rank[m] = "MASTER" => guilds[g].master = m
        /\ \A m \in Characters : RankOf(row, g, m) \in {"MASTER", "NORMAL"} =>
                 guilds[g].rank[m] = RankOf(row, g, m)
    BY RowsTrue
  <1>2. /\ rest \in Guilds /\ rest.rank = [guilds[g].rank EXCEPT ![n] = "NONE"]
        /\ rest.state = guilds[g].state /\ rest.master = guilds[g].master
    BY <1>1, SetRankType DEF DeleteMember
  <1> HIDE DEF rest
  <1>3. rest.rank[n] = "NONE" /\ \A m \in Characters \ {n} : rest.rank[m] = guilds[g].rank[m]
    BY <1>1, <1>2 DEF Guilds
  <1>4. guilds' \in Tables /\ guilds'[g] = rest /\ \A h \in GuildIDs \ {g} : guilds'[h] = guilds[h]
    BY <1>2, PutType DEF TypeOK, rest
  <1>5. /\ row' \in Rows
        /\ \A h \in GuildIDs, m \in Characters :
              RankOf(row', h, m) = IF m = n THEN "NONE" ELSE RankOf(row, h, m)
    BY RowExpired DEF TypeOK
  <1>6. \A m \in Characters : RankOf(row', g, m) \in {"MASTER", "NORMAL"} =>
                                  rest.rank[m] = RankOf(row', g, m)
    BY <1>1, <1>3, <1>5
  <1>7. \A h \in GuildIDs \ {g}, m \in Characters :
           RankOf(row', h, m) \in {"MASTER", "NORMAL"} => RankOf(row', h, m) = RankOf(row, h, m)
    BY <1>5
  <1>8. \A m \in Characters : rest.rank[m] = "MASTER" => rest.master = m
    BY <1>1, <1>2, <1>3
  <1>9. /\ info' \in Infos /\ info'[g] # NoGuild
        /\ info'[g].state = rest.state /\ info'[g].master = rest.master
        /\ \A h \in GuildIDs \ {g} : guilds'[h] = guilds[h] /\ info'[h] = info[h]
    BY <1>1, <1>2, <1>4 DEF TypeOK
  <1> QED  BY <1>2, <1>4, <1>5, <1>6, <1>7, <1>8, <1>9, GuildKept

\* What the packet that a member has gone does.
LEMMA ApplyGone ==
    ASSUME TypeOK, NEW g \in GuildIDs, NEW n \in Characters, guilds[g] # NoGuild
    PROVE  LET p == [op |-> "GuildMemberGoneOK", guild |-> g, name |-> n]
           IN  /\ p \in Updates
               /\ Apply(p, guilds) = Put(guilds, g, DeleteMember(guilds[g], n))
               /\ Apply(p, guilds) \in Tables
  <1> DEFINE p == [op |-> "GuildMemberGoneOK", guild |-> g, name |-> n]
  <1>1. p \in Updates
    BY PacketIs, RankSets
  <1>2. Apply(p, guilds) = Put(guilds, g, DeleteMember(guilds[g], n))
    BY ApplyOf DEF GuildMemberGoneOK
  <1>3. guilds[g] \in Guilds
    BY GuildOf DEF TypeOK
  <1>4. DeleteMember(guilds[g], n) \in Guilds
    BY <1>3, SetRankType DEF DeleteMember
  <1>5. Put(guilds, g, DeleteMember(guilds[g], n)) \in Tables
    BY <1>4, PutType DEF TypeOK
  <1> QED  BY <1>1, <1>2, <1>5

\* A member goes, perhaps the guild with him.
LEMMA MemberGoesStep ==
    ASSUME TypeOK, TablesInv, up, up', maxID' = maxID, NEW g \in GuildIDs,
           NEW n \in Characters, NEW r \in {"DENY", "LEAVE"}, guilds[g] # NoGuild,
           MemberGoes(g, n, r)
    PROVE  Told /\ Recorded
  <1> DEFINE rest == DeleteMember(guilds[g], n)
             rows == Expired(row, n, r)
             p == [op |-> "GuildMemberGoneOK", guild |-> g, name |-> n]
             q == [op |-> "DeleteGuildOK", guild |-> g]
             left == Put(guilds, g, rest)
  <1>1. p \in Updates /\ Apply(p, guilds) = left /\ left \in Tables
    BY ApplyGone
  <1>2. CASE rest.state = "ACTIVE" /\ rest.active < MinMembers
    <2>1. DeleteGuild(g, rows, Members(rest)) /\ BroadcastBoth(p, left, q)
      BY <1>2 DEF MemberGoes
    <2>2. rows \in Rows /\ \A h \in GuildIDs, m \in Characters :
               RankOf(rows, h, m) \in {"MASTER", "NORMAL"} => RankOf(rows, h, m) = RankOf(row, h, m)
      BY RowExpired DEF TypeOK
    <2>3. Recorded /\ guilds' \in Tables
      <3> HIDE DEF rest, rows
      <3> QED  BY <2>1, <2>2, GuildEnded
    <2>4. q \in Updates /\ q.op = "DeleteGuildOK" /\ q.guild = g
      BY PacketIs, RankSets
    <2>5. Apply(q, left) = Put(left, g, NoGuild)
      <3> HIDE DEF left, q
      <3> QED  BY <2>4, ApplyOf DEF DeleteGuildOK
    <2>6. Put(left, g, NoGuild) = Put(guilds, g, NoGuild)
      BY DEF Put, TypeOK, Tables
    <2>7. guilds' = Apply(q, left)
      BY <2>1, <2>5, <2>6 DEF DeleteGuild
    <2> HIDE DEF p, q, left
    <2> QED  BY <1>1, <2>1, <2>3, <2>4, <2>7 DEF Told, ToldTwo
  <1>3. CASE ~(rest.state = "ACTIVE" /\ rest.active < MinMembers)
    <2>1. guilds' = left /\ row' = rows /\ info' = info /\ Broadcast(p)
      BY <1>3 DEF MemberGoes
    <2>2. Recorded
      BY <2>1, MemberLeft
    <2> HIDE DEF p, left
    <2> QED  BY <1>1, <2>1, <2>2 DEF Told, ToldOne
  <1> QED  BY <1>2, <1>3

\* A member is expelled, by his master or as an applicant.
LEMMA ExpelStep ==
    ASSUME TypeOK, TablesInv, NEW s \in Servers, ExpelGuildMember(s)
    PROVE  Serves(s)
  <1> DEFINE p == Head(toShared[s])
  <1>1. up /\ p.guild \in GuildIDs /\ p.name \in Characters
    BY RequestOf DEF ExpelGuildMember, Asks
  <1>2. \/ Ignored(s)
        \/ Present(p) /\ MemberGoes(p.guild, p.name, "DENY") /\ Served(s) /\ UNCHANGED maxID
    BY DEF ExpelGuildMember
  <1>3. CASE Present(p) /\ MemberGoes(p.guild, p.name, "DENY") /\ Served(s) /\ UNCHANGED maxID
    <2>1. up' /\ guilds[p.guild] # NoGuild
      BY <1>1, <1>3 DEF Served, Present
    <2> HIDE DEF p
    <2>2. Told /\ Recorded
      BY <1>1, <1>3, <2>1, MemberGoesStep
    <2> QED  BY <1>3, <2>2 DEF Serves
  <1> QED  BY <1>2, <1>3, IgnoredServes

\* A member leaves, or the master cancels a guild that waits.
LEMMA QuitStep ==
    ASSUME TypeOK, TablesInv, NEW s \in Servers, QuitGuild(s)
    PROVE  Serves(s)
  <1> DEFINE p == Head(toShared[s])
             q == [op |-> "DeleteGuildOK", guild |-> p.guild]
  <1>1. up /\ p.guild \in GuildIDs /\ p.name \in Characters
    BY RequestOf DEF QuitGuild, Asks
  <1>2. \/ Ignored(s)
        \/ \E r \in {"DENY", "LEAVE"} :
              Present(p) /\ MemberGoes(p.guild, p.name, r) /\ Served(s) /\ UNCHANGED maxID
        \/ /\ Present(p) /\ DeleteGuild(p.guild, row, Members(guilds[p.guild]))
           /\ Broadcast(q) /\ Served(s) /\ UNCHANGED maxID
    BY DEF QuitGuild
  <1>3. ASSUME NEW r \in {"DENY", "LEAVE"}, Present(p), MemberGoes(p.guild, p.name, r),
               Served(s), UNCHANGED maxID
        PROVE  Serves(s)
    <2>1. up' /\ guilds[p.guild] # NoGuild
      BY <1>1, <1>3 DEF Served, Present
    <2> HIDE DEF p
    <2>2. Told /\ Recorded
      BY <1>1, <1>3, <2>1, MemberGoesStep
    <2> QED  BY <1>3, <2>2 DEF Serves
  <1>4. ASSUME DeleteGuild(p.guild, row, Members(guilds[p.guild])), Broadcast(q),
               Served(s), UNCHANGED maxID
        PROVE  Serves(s)
    <2>1. up' /\ row \in Rows /\ q \in Updates
      BY <1>1, <1>4, PacketIs, RankSets DEF Served, TypeOK
    <2>2. Apply(q, guilds) = Put(guilds, p.guild, NoGuild)
      BY ApplyOf DEF DeleteGuildOK
    <2>3. Recorded /\ guilds' \in Tables
      <3> HIDE DEF p
      <3> QED  BY <1>1, <1>4, <2>1, GuildEnded
    <2>4. guilds' = Apply(q, guilds)
      BY <1>4, <2>2 DEF DeleteGuild
    <2> HIDE DEF q
    <2> QED  BY <1>4, <2>1, <2>3, <2>4 DEF Serves, Told, ToldOne
  <1> QED  BY <1>2, <1>3, <1>4, IgnoredServes

\* A name joins a guild, and may be the one on whom it becomes active.
LEMMA Joined ==
    ASSUME TypeOK, TablesInv, up, NEW g \in GuildIDs, NEW n \in Characters,
           NEW r \in {"SUBMASTER", "WAIT"}, guilds[g] # NoGuild, ~IsMember(guilds[g], n),
           NEW STATE one, one = SetRank(guilds[g], n, r),
           NEW STATE p, p = [op |-> "AddGuildMemberOK", guild |-> g, name |-> n, rank |-> r]
    PROVE  /\ one \in Guilds /\ one.state = guilds[g].state /\ one.master = guilds[g].master
           /\ one.rank[n] = r /\ \A m \in Characters \ {n} : one.rank[m] = guilds[g].rank[m]
           /\ Put(guilds, g, one) \in Tables /\ Put(guilds, g, one)[g] = one
           /\ \A h \in GuildIDs \ {g} : Put(guilds, g, one)[h] = guilds[h]
           /\ p \in Updates /\ Apply(p, guilds) = Put(guilds, g, one)
  <1>1. guilds[g] \in Guilds /\ r \in Ranks /\ r \in Ranks \cup {"NONE"}
    BY RowsTrue, RankSets
  <1>2. /\ one \in Guilds /\ one.rank = [guilds[g].rank EXCEPT ![n] = r]
        /\ one.state = guilds[g].state /\ one.master = guilds[g].master
    BY <1>1, SetRankType
  <1>3. p \in Updates
    BY <1>1, PacketIs
  <1>4. Apply(p, guilds) = Put(guilds, g, one)
    BY ApplyOf DEF AddGuildMemberOK
  <1>5. one.rank[n] = r /\ \A m \in Characters \ {n} : one.rank[m] = guilds[g].rank[m]
    BY <1>1, <1>2 DEF Guilds
  <1>6. /\ Put(guilds, g, one) \in Tables /\ Put(guilds, g, one)[g] = one
        /\ \A h \in GuildIDs \ {g} : Put(guilds, g, one)[h] = guilds[h]
    BY <1>2, PutType DEF TypeOK
  <1> QED  BY <1>2, <1>3, <1>4, <1>5, <1>6

\* The shared server has ended.
LEMMA EndsKeeps ==
    ASSUME TypeOK, SharedServerEnds, Sound(info', row'), row' \in Rows
    PROVE  Recorded
  <1>1. up' = FALSE /\ guilds' = NoGuilds /\ maxID' = 0 /\ info' = info
    BY DEF SharedServerEnds
  <1>2. \A g \in GuildIDs : guilds'[g] = NoGuild
    BY <1>1 DEF NoGuilds
  <1>3. RecordsAgree' /\ MastersAgree' /\ RestartRaisesNobody' /\ Sound(info, row)'
    BY <1>1, <1>2 DEF RecordsAgree, MastersAgree, RestartRaisesNobody, NoGuilds
  <1> QED  BY <1>1, <1>3 DEF Recorded, TablesInv, TypeOK

\* A name joins; the one who already is a member ends the shared server.
LEMMA AddMemberStep ==
    ASSUME TypeOK, TablesInv, NEW s \in Servers, AddGuildMember(s)
    PROVE  Serves(s) \/ (SharedServerEnds /\ UNCHANGED faults /\ Recorded)
  <1> DEFINE g == Head(toShared[s]).guild
             n == Head(toShared[s]).name
             r == Head(toShared[s]).rank
             one == SetRank(guilds[g], n, r)
             joined == Put(guilds, g, one)
             act == [joined[g] EXCEPT !.state = "ACTIVE"]
             p == [op |-> "AddGuildMemberOK", guild |-> g, name |-> n, rank |-> r]
             q == [op |-> "ModifyGuildOK", guild |-> g]
  <1>1. up /\ g \in GuildIDs /\ n \in Characters /\ r \in {"SUBMASTER", "WAIT"} /\ r \in Ranks
    BY RequestOf, RankSets DEF AddGuildMember, Asks
  <1>2. row' = Created(row, n, g, r)
    BY DEF AddGuildMember
  <1>3. \/ /\ guilds[g] = NoGuild
           /\ Served(s) /\ UNCHANGED <<guilds, maxID, info, toGame, trail>>
        \/ SharedServerEnds /\ UNCHANGED faults
        \/ /\ guilds[g] # NoGuild /\ ~IsMember(guilds[g], n) /\ Served(s) /\ UNCHANGED maxID
           /\ \/ /\ guilds' = Put(joined, g, act)
                 /\ info' = Put(info, g, [info[g] EXCEPT !.state = "ACTIVE"])
                 /\ BroadcastBoth(p, joined, q)
              \/ guilds' = joined /\ UNCHANGED info /\ Broadcast(p)
    BY DEF AddGuildMember
  <1> HIDE DEF g, n, r
  <1>4. /\ row' \in Rows
        /\ \A h \in GuildIDs, m \in Characters :
              RankOf(row', h, m) = IF m = n THEN IF h = g THEN r ELSE "NONE" ELSE RankOf(row, h, m)
    BY <1>1, <1>2, RowCreated DEF TypeOK
  <1>5. \A h \in GuildIDs, m \in Characters :
           RankOf(row', h, m) \in {"MASTER", "NORMAL"} =>
               m # n /\ RankOf(row', h, m) = RankOf(row, h, m)
    BY <1>1, <1>4
  <1>6. CASE guilds[g] = NoGuild /\ Served(s) /\ UNCHANGED <<guilds, maxID, info, toGame, trail>>
    <2>1. up' /\ maxID' = maxID
      BY <1>1, <1>6 DEF Served
    <2>2. maxID' \in GuildIDs \cup {0} /\ maxID' \in Int /\ maxID <= maxID' /\ info' \in Infos
      BY <1>6, SentinelAssumption DEF TypeOK
    <2>3. guilds'[g] = NoGuild /\ info'[g] = NoGuild
      BY <1>1, <1>6 DEF TablesInv, RecordsAgree
    <2>4. \A m \in Characters : RankOf(row', g, m) \notin {"MASTER", "NORMAL"}
      BY <1>1, <1>5, <1>6, RowsTrue
    <2>5. \A h \in GuildIDs \ {g} : guilds'[h] = guilds[h] /\ info'[h] = info[h]
      BY <1>6
    <2>6. TablesInv'
      BY <1>1, <1>5, <2>1, <2>2, <2>3, <2>4, <2>5, RecordsKept
    <2> QED  BY <1>4, <1>6, <2>2, <2>6 DEF Serves, Recorded
  <1>7. CASE SharedServerEnds /\ UNCHANGED faults
    <2>1. info' = info /\ Sound(info, row)
      BY <1>7 DEF SharedServerEnds, TablesInv
    <2>2. Sound(info', row')
      BY <1>5, <2>1 DEF Sound
    <2> QED  BY <1>4, <1>7, <2>2, EndsKeeps
  <1>8. ASSUME guilds[g] # NoGuild, ~IsMember(guilds[g], n), Served(s), UNCHANGED maxID
        PROVE  /\ (guilds' = joined /\ UNCHANGED info /\ Broadcast(p)) => Serves(s)
               /\ (/\ guilds' = Put(joined, g, act) /\ BroadcastBoth(p, joined, q)
                   /\ info' = Put(info, g, [info[g] EXCEPT !.state = "ACTIVE"])) => Serves(s)
    <2>1. /\ info[g] # NoGuild /\ info[g].state = guilds[g].state
          /\ info[g] \in [state : {"WAIT", "ACTIVE"}, master : Characters]
          /\ info[g].master = guilds[g].master
          /\ \A m \in Characters : guilds[g].rank[m] = "MASTER" => guilds[g].master = m
          /\ \A m \in Characters : RankOf(row, g, m) \in {"MASTER", "NORMAL"} =>
                   guilds[g].rank[m] = RankOf(row, g, m)
      BY <1>1, <1>8, RowsTrue
    <2>2. /\ one \in Guilds /\ one.state = guilds[g].state /\ one.master = guilds[g].master
          /\ one.rank[n] = r /\ \A m \in Characters \ {n} : one.rank[m] = guilds[g].rank[m]
          /\ joined \in Tables /\ joined[g] = one
          /\ \A h \in GuildIDs \ {g} : joined[h] = guilds[h]
          /\ p \in Updates /\ Apply(p, guilds) = joined
      <3>1. up /\ g \in GuildIDs /\ n \in Characters /\ r \in {"SUBMASTER", "WAIT"}
            /\ guilds[g] # NoGuild /\ ~IsMember(guilds[g], n)
        BY <1>1, <1>8
      <3> HIDE DEF one, joined, p
      <3>2. one = SetRank(guilds[g], n, r) /\ joined = Put(guilds, g, one)
        BY DEF one, joined
      <3>3. p = [op |-> "AddGuildMemberOK", guild |-> g, name |-> n, rank |-> r]
        BY DEF p
      <3> QED  BY <3>1, <3>2, <3>3, Joined
    <2>3. up' /\ maxID' = maxID
      BY <1>1, <1>8 DEF Served
    <2>4. q \in Updates
      BY <1>1, PacketIs, RankSets
    <2>5. /\ act \in Guilds /\ act.state = "ACTIVE" /\ act.master = one.master
          /\ act.rank = one.rank
      <3> HIDE DEF joined, one
      <3> QED  BY <2>2, ActivateType
    <2>6. Apply(q, joined) = Put(joined, g, act)
      <3>1. joined[g] # NoGuild
        BY <2>2, NoGuildIsNone
      <3> HIDE DEF joined
      <3> QED  BY <3>1, ApplyOf DEF ModifyGuildOK
    <2> HIDE DEF one, joined, act, p, q
    <2>7. /\ Put(joined, g, act) \in Tables /\ Put(joined, g, act)[g] = act
          /\ \A h \in GuildIDs \ {g} : Put(joined, g, act)[h] = guilds[h]
      BY <1>1, <2>2, <2>5, PutType
    <2>8. /\ \A m \in Characters : one.rank[m] = "MASTER" => one.master = m
          /\ \A m \in Characters : RankOf(row', g, m) \in {"MASTER", "NORMAL"} =>
                                       one.rank[m] = RankOf(row', g, m)
      BY <1>1, <1>5, <2>1, <2>2
    <2>9. ASSUME guilds' = joined, UNCHANGED info, Broadcast(p)
          PROVE  Serves(s)
      <3>1. /\ info' \in Infos /\ info'[g] # NoGuild
            /\ info'[g].state = one.state /\ info'[g].master = one.master
            /\ guilds'[g] = one
            /\ \A h \in GuildIDs \ {g} : guilds'[h] = guilds[h] /\ info'[h] = info[h]
        BY <2>1, <2>2, <2>9 DEF TypeOK
      <3>2. Recorded
        BY <1>1, <1>4, <1>5, <1>8, <2>2, <2>3, <2>8, <3>1, GuildKept
      <3> QED  BY <1>8, <2>2, <2>9, <3>2 DEF Serves, Told, ToldOne
    <2>10. ASSUME guilds' = Put(joined, g, act), BroadcastBoth(p, joined, q),
                  info' = Put(info, g, [info[g] EXCEPT !.state = "ACTIVE"])
           PROVE  Serves(s)
      <3> DEFINE that == [info[g] EXCEPT !.state = "ACTIVE"]
      <3>1. /\ that \in [state : {"WAIT", "ACTIVE"}, master : Characters]
            /\ that.state = "ACTIVE" /\ that.master = info[g].master
        BY <2>1
      <3>2. info' = Put(info, g, that)
        BY <2>10
      <3> HIDE DEF that
      <3>3. that # NoGuild
        BY <3>1, RankSets
      <3>4. info' \in Infos /\ info'[g] = that /\ \A h \in GuildIDs \ {g} : info'[h] = info[h]
        BY <1>1, <3>1, <3>2, InfoPut DEF TypeOK
      <3>5. /\ info'[g] # NoGuild /\ info'[g].state = act.state /\ info'[g].master = act.master
            /\ guilds'[g] = act
            /\ \A h \in GuildIDs \ {g} : guilds'[h] = guilds[h] /\ info'[h] = info[h]
        BY <2>1, <2>2, <2>5, <2>7, <2>10, <3>1, <3>3, <3>4
      <3>6. /\ \A m \in Characters : act.rank[m] = "MASTER" => act.master = m
            /\ \A m \in Characters : RankOf(row', g, m) \in {"MASTER", "NORMAL"} =>
                                         act.rank[m] = RankOf(row', g, m)
        BY <2>5, <2>8
      <3>7. Recorded
        BY <1>1, <1>4, <1>5, <1>8, <2>3, <2>5, <3>4, <3>5, <3>6, GuildKept
      <3> QED  BY <1>8, <2>2, <2>4, <2>6, <2>7, <2>10, <3>7 DEF Serves, Told, ToldTwo
    <2> QED  BY <2>9, <2>10 DEF joined, one, act, p, q
  <1> QED  BY <1>3, <1>6, <1>7, <1>8

\* A member of guild gd gets a rank below MASTER, or becomes its master.
LEMMA Promoted ==
    ASSUME TypeOK, TablesInv, up, up', maxID' = maxID, info' = info, NEW g \in GuildIDs,
           NEW n \in Characters, NEW r \in {"NORMAL", "SUBMASTER"}, guilds[g] # NoGuild,
           IsMember(guilds[g], n), guilds[g].rank[n] # r,
           guilds' = Put(guilds, g, ModifyMemberRank(guilds[g], n, r)),
           row' = Saved(row, guilds[g], g, n, r)
    PROVE  Recorded /\ guilds' \in Tables
  <1> DEFINE gd == guilds[g]
             new == ModifyMemberRank(gd, n, r)
  <1>1. /\ gd \in Guilds /\ info[g] # NoGuild
        /\ info[g].state = gd.state /\ info[g].master = gd.master
        /\ \A m \in Characters : gd.rank[m] = "MASTER" => gd.master = m
        /\ \A m \in Characters : RankOf(row, g, m) \in {"MASTER", "NORMAL"} =>
                 gd.rank[m] = RankOf(row, g, m)
    BY RowsTrue
  <1>2. r \in Ranks /\ r \in Ranks \cup {"NONE"} /\ r # "MASTER" /\ gd.rank[n] # "NONE"
    BY RankSets DEF IsMember
  <1>3. /\ new \in Guilds /\ new.rank = [gd.rank EXCEPT ![n] = r]
        /\ new.state = gd.state /\ new.master = gd.master
    <2> HIDE DEF gd
    <2> QED  BY <1>1, <1>2, ModifyRankType DEF gd
  <1> HIDE DEF new
  <1>4. new.rank[n] = r /\ \A m \in Characters \ {n} : new.rank[m] = gd.rank[m]
    BY <1>1, <1>3 DEF Guilds
  <1>5. guilds' \in Tables /\ guilds'[g] = new /\ \A h \in GuildIDs \ {g} : guilds'[h] = guilds[h]
    BY <1>3, PutType DEF TypeOK, new
  <1>6. /\ row' \in Rows
        /\ \A h \in GuildIDs, m \in Characters :
              RankOf(row', h, m) = IF m # n \/ row[n] = NoRow THEN RankOf(row, h, m)
                                   ELSE IF h = g THEN r ELSE "NONE"
    <2>1. ~(gd.rank[n] \in {"NONE", r}) /\ row \in Rows
      BY <1>2 DEF TypeOK
    <2>2. row' = Saved(row, gd, g, n, r)
      OBVIOUS
    <2> HIDE DEF gd
    <2> QED  BY <1>2, <2>1, <2>2, RowSaved
  <1>7. row[n] = NoRow => \A h \in GuildIDs : RankOf(row, h, n) = "NONE"
    BY DEF RankOf
  <1>8. \A m \in Characters : RankOf(row', g, m) \in {"MASTER", "NORMAL"} =>
                                  new.rank[m] = RankOf(row', g, m)
    BY <1>1, <1>4, <1>6, <1>7
  <1>9. \A h \in GuildIDs \ {g}, m \in Characters :
           RankOf(row', h, m) \in {"MASTER", "NORMAL"} => RankOf(row', h, m) = RankOf(row, h, m)
    BY <1>6
  <1>10. \A m \in Characters : new.rank[m] = "MASTER" => new.master = m
    BY <1>1, <1>2, <1>3, <1>4
  <1>11. /\ info' \in Infos /\ info'[g] # NoGuild
         /\ info'[g].state = new.state /\ info'[g].master = new.master
         /\ \A h \in GuildIDs \ {g} : guilds'[h] = guilds[h] /\ info'[h] = info[h]
    BY <1>1, <1>3, <1>5 DEF TypeOK
  <1> QED  BY <1>3, <1>5, <1>6, <1>8, <1>9, <1>10, <1>11, GuildKept

\* The old master gets the rank of the new one, in his row too.
LEMMA Succeeded ==
    ASSUME TypeOK, TablesInv, up, up', maxID' = maxID, NEW g \in GuildIDs, NEW n \in Characters,
           guilds[g] # NoGuild, IsMember(guilds[g], n), guilds[g].rank[n] # "MASTER",
           guilds' = Put(guilds, g, ChangeMaster(guilds[g], n)),
           row' = Saved(Saved(row, guilds[g], g, guilds[g].master, guilds[g].rank[n]),
                        guilds[g], g, n, "MASTER"),
           info' = Put(info, g, [info[g] EXCEPT !.master = n])
    PROVE  Recorded /\ guilds' \in Tables
  <1> DEFINE gd == guilds[g]
             om == gd.master
             r == gd.rank[n]
             new == ChangeMaster(gd, n)
             mid == Saved(row, gd, g, om, r)
             that == [info[g] EXCEPT !.master = n]
  <1>1. /\ gd \in Guilds /\ info[g] # NoGuild
        /\ info[g] \in [state : {"WAIT", "ACTIVE"}, master : Characters]
        /\ info[g].state = gd.state /\ info[g].master = om
        /\ \A m \in Characters : gd.rank[m] = "MASTER" => om = m
        /\ \A m \in Characters : RankOf(row, g, m) \in {"MASTER", "NORMAL"} =>
                 gd.rank[m] = RankOf(row, g, m)
    BY RowsTrue
  <1>2. om \in Characters /\ r \in Ranks /\ r # "MASTER" /\ r # "NONE" /\ "MASTER" \in Ranks
        /\ gd.rank \in [Characters -> Ranks \cup {"NONE"}]
    BY <1>1, RankSets DEF IsMember, Guilds
  <1>3. /\ new \in Guilds /\ new.state = gd.state /\ new.master = n
        /\ new.rank = [ (IF IsMember(gd, om) THEN [gd.rank EXCEPT ![om] = r] ELSE gd.rank)
                        EXCEPT ![n] = "MASTER"]
    BY <1>1, ChangeMasterType
  <1>4. row' = Saved(mid, gd, g, n, "MASTER")
    OBVIOUS
  <1>5. info' = Put(info, g, that)
    OBVIOUS
  <1>6. that.state = gd.state /\ that.master = n
        /\ that \in [state : {"WAIT", "ACTIVE"}, master : Characters]
    BY <1>1
  <1> HIDE DEF that
  <1>7. that # NoGuild
    BY <1>6, RankSets
  <1>8. info' \in Infos /\ info'[g] = that /\ \A h \in GuildIDs \ {g} : info'[h] = info[h]
    <2>1. that \in [state : {"WAIT", "ACTIVE"}, master : Characters] \cup {NoGuild}
      BY <1>6
    <2>2. info \in Infos
      BY DEF TypeOK
    <2> HIDE DEF gd, om, r, new, mid
    <2>3. /\ Put(info, g, that) \in Infos /\ Put(info, g, that)[g] = that
          /\ \A h \in GuildIDs \ {g} : Put(info, g, that)[h] = info[h]
      BY <2>1, <2>2, InfoPut
    <2> QED  BY <1>5, <2>3
  <1>9. guilds' = Put(guilds, g, new)
    OBVIOUS
  <1> HIDE DEF new
  <1>10. guilds' \in Tables /\ guilds'[g] = new /\ \A h \in GuildIDs \ {g} : guilds'[h] = guilds[h]
    BY <1>3, <1>9, PutType DEF TypeOK
  <1>11. /\ new.rank[n] = "MASTER"
         /\ om # n => new.rank[om] = IF IsMember(gd, om) THEN r ELSE gd.rank[om]
         /\ \A m \in Characters \ {n, om} : new.rank[m] = gd.rank[m]
    <2> HIDE DEF gd, om, r
    <2> QED  BY <1>2, <1>3
  <1>12. /\ mid \in Rows /\ \A m \in Characters : mid[m] = NoRow <=> row[m] = NoRow
         /\ \A h \in GuildIDs, m \in Characters :
               RankOf(mid, h, m) = IF m # om \/ row[om] = NoRow \/ gd.rank[om] \in {"NONE", r}
                                   THEN RankOf(row, h, m)
                                   ELSE IF h = g THEN r ELSE "NONE"
    <2> HIDE DEF gd, om, r
    <2>1. row \in Rows
      BY DEF TypeOK
    <2> QED  BY <1>2, <2>1, RowSaved
  <1> HIDE DEF mid
  <1>13. /\ row' \in Rows
         /\ \A h \in GuildIDs, m \in Characters :
               RankOf(row', h, m) = IF m # n \/ row[n] = NoRow THEN RankOf(mid, h, m)
                                    ELSE IF h = g THEN "MASTER" ELSE "NONE"
    <2>1. \A m \in Characters : mid[m] = NoRow <=> row[m] = NoRow
      BY <1>12
    <2>2. ~(gd.rank[n] \in {"NONE", "MASTER"})
      BY <1>2
    <2> HIDE DEF gd, om, r
    <2>3. /\ Saved(mid, gd, g, n, "MASTER") \in Rows
          /\ \A h \in GuildIDs, m \in Characters :
                RankOf(Saved(mid, gd, g, n, "MASTER"), h, m) =
                    IF m # n \/ mid[n] = NoRow \/ gd.rank[n] \in {"NONE", "MASTER"}
                    THEN RankOf(mid, h, m)
                    ELSE IF h = g THEN "MASTER" ELSE "NONE"
      BY <1>2, <1>12, RowSaved
    <2> QED  BY <1>4, <2>1, <2>2, <2>3
  <1>14. \A m \in Characters : row[m] = NoRow => \A h \in GuildIDs : RankOf(row, h, m) = "NONE"
    BY DEF RankOf
  <1>15. \A m \in Characters : mid[m] = NoRow => \A h \in GuildIDs : RankOf(mid, h, m) = "NONE"
    BY DEF RankOf
  <1>16. IsMember(gd, om) <=> gd.rank[om] # "NONE"
    BY DEF IsMember
  <1>17. r = gd.rank[n]
    OBVIOUS
  <1> HIDE DEF gd, om, r
  <1>18. ASSUME NEW m \in Characters, RankOf(row', g, m) \in {"MASTER", "NORMAL"}
         PROVE  new.rank[m] = RankOf(row', g, m)
    <2>1. CASE m = n
      BY <1>11, <1>12, <1>13, <1>15, <1>18, <2>1
    <2>2. CASE m # n /\ m = om
      <3>1. RankOf(row', g, om) = RankOf(mid, g, om) /\ row[om] # NoRow
        BY <1>2, <1>12, <1>13, <1>15, <1>18, <2>2
      <3>2. CASE gd.rank[om] \in {"NONE", r}
        <4>1. RankOf(row', g, om) = RankOf(row, g, om)
          BY <1>2, <1>12, <3>1, <3>2
        <4>2. gd.rank[om] = RankOf(row, g, om)
          BY <1>1, <1>2, <1>18, <2>2, <4>1
        <4> QED  BY <1>11, <1>16, <1>18, <2>2, <3>2, <4>1, <4>2
      <3>3. CASE gd.rank[om] \notin {"NONE", r}
        <4>1. RankOf(row', g, om) = r
          BY <1>2, <1>12, <3>1, <3>3
        <4> QED  BY <1>11, <1>16, <2>2, <3>3, <4>1
      <3> QED  BY <3>2, <3>3
    <2>3. CASE m # n /\ m # om
      <3>1. RankOf(row', g, m) = RankOf(row, g, m)
        BY <1>12, <1>13, <2>3
      <3> QED  BY <1>1, <1>11, <1>18, <2>3, <3>1
    <2> QED  BY <2>1, <2>2, <2>3
  <1>19. ASSUME NEW h \in GuildIDs \ {g}, NEW m \in Characters,
                RankOf(row', h, m) \in {"MASTER", "NORMAL"}
         PROVE  RankOf(row', h, m) = RankOf(row, h, m)
    <2>1. RankOf(row', h, m) \in {RankOf(mid, h, m), "NONE"}
      BY <1>13
    <2>2. RankOf(mid, h, m) \in {RankOf(row, h, m), "NONE"}
      BY <1>12
    <2> QED  BY <1>19, <2>1, <2>2
  <1>20. ASSUME NEW m \in Characters, new.rank[m] = "MASTER", m # n
         PROVE  FALSE
    <2>1. CASE m = om
      BY <1>2, <1>11, <1>16, <1>20, <2>1
    <2>2. CASE m # om
      BY <1>1, <1>11, <1>20, <2>2
    <2> QED  BY <2>1, <2>2
  <1>21. /\ info'[g] # NoGuild /\ info'[g].state = new.state /\ info'[g].master = new.master
         /\ \A h \in GuildIDs \ {g} : guilds'[h] = guilds[h] /\ info'[h] = info[h]
    BY <1>3, <1>6, <1>7, <1>8, <1>10
  <1>22. \A m \in Characters : new.rank[m] = "MASTER" => new.master = m
    BY <1>3, <1>20
  <1>23. row' \in Rows /\ guilds[g] # NoGuild /\ new \in Guilds /\ guilds'[g] = new
    BY <1>3, <1>10, <1>13
  <1>24. Recorded
    <2> HIDE DEF mid
    <2> QED  BY <1>8, <1>18, <1>19, <1>21, <1>22, <1>23, GuildKept, SMTT(20)
  <1> QED  BY <1>10, <1>24

\* A rank is given, or the master's place.
LEMMA ModifyStep ==
    ASSUME TypeOK, TablesInv, NEW s \in Servers, ModifyGuildMember(s)
    PROVE  Serves(s)
  <1> DEFINE g == Head(toShared[s]).guild
             n == Head(toShared[s]).name
             r == Head(toShared[s]).rank
             p == [op |-> "ModifyGuildMemberOK", guild |-> g, name |-> n, rank |-> r]
  <1>1. /\ up /\ g \in GuildIDs /\ n \in Characters /\ r \in {"NORMAL", "SUBMASTER", "MASTER"}
        /\ r \in Ranks
    BY RequestOf, RankSets DEF ModifyGuildMember, Asks
  <1>2. \/ Ignored(s)
        \/ /\ guilds[g] # NoGuild /\ IsMember(guilds[g], n) /\ IsPromotion(guilds[g].rank[n], r)
           /\ guilds' = Put(guilds, g, ModifyMemberRank(guilds[g], n, r))
           /\ row' = Saved(row, guilds[g], g, n, r)
           /\ Broadcast(p) /\ Served(s) /\ UNCHANGED <<maxID, info>>
        \/ /\ guilds[g] # NoGuild /\ IsMember(guilds[g], n)
           /\ guilds[g].rank[n] # "MASTER" /\ r = "MASTER"
           /\ guilds' = Put(guilds, g, ChangeMaster(guilds[g], n))
           /\ row' = Saved(Saved(row, guilds[g], g, guilds[g].master, guilds[g].rank[n]),
                           guilds[g], g, n, "MASTER")
           /\ info' = Put(info, g, [info[g] EXCEPT !.master = n])
           /\ Broadcast(p) /\ Served(s) /\ UNCHANGED maxID
    BY DEF ModifyGuildMember, Present
  <1> HIDE DEF g, n, r
  <1>3. p \in Updates /\ p.op = "ModifyGuildMemberOK" /\ p.guild = g /\ p.name = n /\ p.rank = r
    BY <1>1, PacketIs
  <1> HIDE DEF p
  <1>4. ASSUME guilds[g] # NoGuild, IsMember(guilds[g], n), IsPromotion(guilds[g].rank[n], r),
               guilds' = Put(guilds, g, ModifyMemberRank(guilds[g], n, r)),
               row' = Saved(row, guilds[g], g, n, r),
               Broadcast(p), Served(s), UNCHANGED <<maxID, info>>
        PROVE  Serves(s)
    <2>1. r \in {"NORMAL", "SUBMASTER"} /\ guilds[g].rank[n] # r /\ r # "MASTER" /\ up'
      BY <1>1, <1>4 DEF IsPromotion, Served
    <2>2. Recorded /\ guilds' \in Tables
      BY <1>1, <1>4, <2>1, Promoted
    <2>3. Apply(p, guilds) = guilds'
      BY <1>3, <1>4, <2>1, ApplyOf DEF ModifyGuildMemberOK
    <2> QED  BY <1>3, <1>4, <2>2, <2>3 DEF Serves, Told, ToldOne
  <1>5. ASSUME guilds[g] # NoGuild, IsMember(guilds[g], n),
               guilds[g].rank[n] # "MASTER", r = "MASTER",
               guilds' = Put(guilds, g, ChangeMaster(guilds[g], n)),
               row' = Saved(Saved(row, guilds[g], g, guilds[g].master, guilds[g].rank[n]),
                            guilds[g], g, n, "MASTER"),
               info' = Put(info, g, [info[g] EXCEPT !.master = n]),
               Broadcast(p), Served(s), UNCHANGED maxID
        PROVE  Serves(s)
    <2>1. up' /\ maxID' = maxID
      BY <1>1, <1>5 DEF Served
    <2>2. Recorded /\ guilds' \in Tables
      BY <1>1, <1>5, <2>1, Succeeded
    <2>3. Apply(p, guilds) = guilds'
      BY <1>3, <1>5, ApplyOf DEF ModifyGuildMemberOK
    <2> QED  BY <1>3, <1>5, <2>2, <2>3 DEF Serves, Told, ToldOne
  <1> QED  BY <1>2, <1>4, <1>5, IgnoredServes

\* The applicant whose seven days are over goes like one who is denied.
LEMMA ExpireStep ==
    ASSUME TypeOK, TablesInv, NEW g \in GuildIDs, NEW n \in Characters, ExpireApplicant(g, n)
    PROVE  Told /\ Recorded
  <1> DEFINE p == [op |-> "GuildMemberGoneOK", guild |-> g, name |-> n]
  <1>1. /\ up /\ up' /\ guilds[g] # NoGuild /\ maxID' = maxID /\ info' = info
        /\ guilds' = Put(guilds, g, DeleteMember(guilds[g], n))
        /\ row' = Expired(row, n, "DENY") /\ Broadcast(p)
    BY DEF ExpireApplicant
  <1>2. Recorded
    BY <1>1, MemberLeft
  <1>3. p \in Updates /\ Apply(p, guilds) = guilds' /\ Apply(p, guilds) \in Tables
    BY <1>1, ApplyGone
  <1> HIDE DEF p
  <1> QED  BY <1>1, <1>2, <1>3 DEF Told, ToldOne

-----------------------------------------------------------------------------
(* Part 5. The invariant. *)

\* The packets of a server carry right counts.
CountsSent(q) == \A i \in 1 .. Len(q) : q[i].op = "GuildInfo" => Consistent(q[i].table)

\* An update is sent over a connection, unless that is down.
LEMMA SentAnother ==
    ASSUME NEW q \in Seq(Packets), NEW t \in Seq(Tables), NEW v, NEW y \in BOOLEAN,
           NEW o \in Tables, NEW p \in Updates, NEW w \in Tables, w = Apply(p, o),
           Line(q, t, v, y, o), CountsSent(q), NEW r,
           r = Append(q, p) \/ (r = q /\ q = <<>> /\ t = <<>> /\ ~y)
    PROVE  /\ r \in Seq(Packets) /\ Grown(t, y, w) \in Seq(Tables)
           /\ Line(r, Grown(t, y, w), v, y, w)
           /\ CountsSent(r)
  <1>1. Grown(t, y, w) \in Seq(Tables)
    BY AppendAt DEF Grown
  <1>2. CASE r = q /\ q = <<>> /\ t = <<>> /\ ~y
    <2>1. Grown(t, y, w) = <<>> /\ y = FALSE
      BY <1>2 DEF Grown
    <2> QED  BY <1>1, <1>2, <2>1, LineEmpty
  <1>3. CASE r = Append(q, p)
    <2>1. Line(r, Grown(t, y, w), v, y, w)
      BY <1>3, LineGrows
    <2>2. p \in Packets /\ p.op # "GuildInfo"
      BY DEF Updates
    <2>3. /\ r \in Seq(Packets) /\ Len(r) = Len(q) + 1 /\ r[Len(q) + 1] = p
          /\ \A i \in 1 .. Len(q) : r[i] = q[i]
      BY <1>3, <2>2, AppendAt
    <2>4. Len(q) \in Nat
      OBVIOUS
    <2>5. CountsSent(r)
      BY <2>2, <2>3, <2>4 DEF CountsSent
    <2> QED  BY <1>1, <2>1, <2>3, <2>5
  <1> QED  BY <1>2, <1>3

\* The connection of s is as LinesInv and CountsInv say.
LEMMA LineNow ==
    ASSUME TypeOK, LinesInv, CountsInv, NEW s \in Servers
    PROVE  /\ toGame[s] \in Seq(Packets) /\ trail[s] \in Seq(Tables) /\ synced[s] \in BOOLEAN
           /\ toShared[s] \in Seq(Requests) /\ copy[s] \in Tables /\ Consistent(copy[s])
           /\ guilds \in Tables /\ CountsSent(toGame[s])
           /\ Line(toGame[s], trail[s], copy[s], synced[s], guilds)
           /\ AskedOnce(toShared[s], trail[s], synced[s])
           /\ link[s] = "down" =>
                 toShared[s] = <<>> /\ toGame[s] = <<>> /\ trail[s] = <<>> /\ ~synced[s]
           /\ link[s] # "up" =>
                 /\ ~synced[s] /\ trail[s] = <<>>
                 /\ \A i \in 1 .. Len(toShared[s]) : toShared[s][i].op # "RequestGuildInfo"
           /\ ~up => link[s] = "down"
  BY DEF TypeOK, LinesInv, CountsInv, CountsSent, LinkFits

\* Guilds that have changed, and what the server s then has of them.
LEMMA ToldLine ==
    ASSUME TypeOK, LinesInv, CountsInv, Told, NEW s \in Servers
    PROVE  /\ guilds' \in Tables /\ Consistent(guilds')
           /\ toGame'[s] \in Seq(Packets) /\ trail'[s] \in Seq(Tables)
           /\ Line(toGame'[s], trail'[s], copy[s], synced[s], guilds')
           /\ CountsSent(toGame'[s])
           /\ link[s] = "down" => toGame'[s] = <<>>
           /\ ~synced[s] /\ trail[s] = <<>> => trail'[s] = <<>>
  <1> DEFINE t == trail[s]
             y == synced[s]
  <1>1. /\ toGame[s] \in Seq(Packets) /\ t \in Seq(Tables) /\ y \in BOOLEAN
        /\ guilds \in Tables /\ CountsSent(toGame[s])
        /\ Line(toGame[s], t, copy[s], y, guilds)
        /\ link[s] = "down" => toGame[s] = <<>> /\ t = <<>> /\ ~y
        /\ Consistent(guilds)
    BY LineNow DEF CountsInv
  <1>2. ASSUME NEW p \in Updates, NEW w \in Tables, w = Apply(p, guilds), guilds' = w, Broadcast(p)
        PROVE  /\ Consistent(guilds')
               /\ toGame'[s] \in Seq(Packets) /\ trail'[s] \in Seq(Tables)
               /\ Line(toGame'[s], trail'[s], copy[s], y, guilds')
               /\ CountsSent(toGame'[s])
               /\ link[s] = "down" => toGame'[s] = <<>>
               /\ ~y /\ t = <<>> => trail'[s] = <<>>
    <2>1. /\ toGame'[s] = IF link[s] # "down" THEN Append(toGame[s], p) ELSE toGame[s]
          /\ trail'[s] = Grown(t, y, w)
      BY <1>2 DEF Broadcast, Grown, Follows
    <2>2. Consistent(w)
      BY <1>1, <1>2, ApplyKeeps, NoGuildIsNone DEF Updates
    <2>3. ~y /\ t = <<>> => trail'[s] = <<>>
      BY <2>1 DEF Grown
    <2> HIDE DEF t, y
    <2>4. /\ toGame'[s] \in Seq(Packets) /\ Grown(t, y, w) \in Seq(Tables)
          /\ Line(toGame'[s], Grown(t, y, w), copy[s], y, w)
          /\ CountsSent(toGame'[s])
      <3>1. \/ toGame'[s] = Append(toGame[s], p)
            \/ toGame'[s] = toGame[s] /\ toGame[s] = <<>> /\ t = <<>> /\ ~y
        BY <1>1, <2>1
      <3> DEFINE sent == toGame'[s]
      <3>2. sent = Append(toGame[s], p) \/ (sent = toGame[s] /\ toGame[s] = <<>> /\ t = <<>> /\ ~y)
        BY <3>1
      <3> HIDE DEF sent
      <3>3. /\ sent \in Seq(Packets) /\ Grown(t, y, w) \in Seq(Tables)
            /\ Line(sent, Grown(t, y, w), copy[s], y, w) /\ CountsSent(sent)
        BY <1>1, <1>2, <3>2, SentAnother
      <3> QED  BY <3>3 DEF sent
    <2>5. link[s] = "down" => toGame'[s] = <<>>
      BY <1>1, <2>1
    <2> QED  BY <1>2, <2>1, <2>2, <2>3, <2>4, <2>5
  <1>3. ASSUME NEW p \in Updates, NEW q \in Updates, NEW w \in Tables, w = Apply(p, guilds),
               NEW z \in Tables, z = Apply(q, w), guilds' = z, BroadcastBoth(p, w, q)
        PROVE  /\ Consistent(guilds')
               /\ toGame'[s] \in Seq(Packets) /\ trail'[s] \in Seq(Tables)
               /\ Line(toGame'[s], trail'[s], copy[s], y, guilds')
               /\ CountsSent(toGame'[s])
               /\ link[s] = "down" => toGame'[s] = <<>>
               /\ ~y /\ t = <<>> => trail'[s] = <<>>
    <2> DEFINE one == IF link[s] # "down" THEN Append(toGame[s], p) ELSE toGame[s]
               u == Grown(t, y, w)
    <2>1. toGame'[s] = IF link[s] # "down" THEN Append(one, q) ELSE one
      BY <1>3 DEF BroadcastBoth
    <2>2. trail'[s] = Grown(u, y, z)
      <3>1. CASE y \/ t # <<>>
        <4>1. u = Append(t, w) /\ u # <<>>
          BY <1>1, <3>1, AppendAt DEF Grown
        <4>2. trail'[s] = Append(Append(t, w), z)
          BY <1>3, <3>1 DEF BroadcastBoth, Follows
        <4> HIDE DEF u
        <4> QED  BY <4>1, <4>2 DEF Grown
      <3>2. CASE ~(y \/ t # <<>>)
        BY <1>3, <3>2 DEF BroadcastBoth, Follows, Grown
      <3> QED  BY <3>1, <3>2
    <2>3. ~y /\ t = <<>> => trail'[s] = <<>>
      BY <2>2 DEF Grown
    <2>4. Consistent(w) /\ Consistent(z)
      <3>1. Consistent(w)
        BY <1>1, <1>3, ApplyKeeps, NoGuildIsNone DEF Updates
      <3>2. q \in Packets /\ q.op # "GuildInfo" /\ Apply(q, w) # Failed
        BY <1>3, NoGuildIsNone DEF Updates
      <3>3. Consistent(Apply(q, w))
        BY <3>1, <3>2, ApplyKeeps
      <3> QED  BY <1>3, <3>1, <3>3
    <2> HIDE DEF t, y
    <2>5. link[s] = "down" => one = <<>> /\ u = <<>> /\ ~y /\ toGame'[s] = <<>>
      BY <1>1, <2>1 DEF Grown
    <2>6. one \in Seq(Packets) /\ u \in Seq(Tables) /\ Line(one, u, copy[s], y, w) /\ CountsSent(one)
      <3>1. \/ one = Append(toGame[s], p)
            \/ one = toGame[s] /\ toGame[s] = <<>> /\ t = <<>> /\ ~y
        BY <1>1
      <3> HIDE DEF one
      <3> QED  BY <1>1, <1>3, <3>1, SentAnother
    <2> HIDE DEF one, u
    <2>7. /\ toGame'[s] \in Seq(Packets) /\ Grown(u, y, z) \in Seq(Tables)
          /\ Line(toGame'[s], Grown(u, y, z), copy[s], y, z)
          /\ CountsSent(toGame'[s])
      <3>1. toGame'[s] = Append(one, q) \/ (toGame'[s] = one /\ one = <<>> /\ u = <<>> /\ ~y)
        BY <2>1, <2>5
      <3> DEFINE sent == toGame'[s]
      <3>2. sent = Append(one, q) \/ (sent = one /\ one = <<>> /\ u = <<>> /\ ~y)
        BY <3>1
      <3> HIDE DEF sent
      <3>3. /\ sent \in Seq(Packets) /\ Grown(u, y, z) \in Seq(Tables)
            /\ Line(sent, Grown(u, y, z), copy[s], y, z) /\ CountsSent(sent)
        BY <1>1, <1>3, <2>6, <3>2, SentAnother
      <3> QED  BY <3>3 DEF sent
    <2> QED  BY <1>3, <2>2, <2>3, <2>4, <2>5, <2>7
  <1> HIDE DEF t, y
  <1>4. CASE ToldOne
    <2> PICK p \in Updates : Apply(p, guilds) \in Tables /\ guilds' = Apply(p, guilds) /\ Broadcast(p)
      BY <1>4 DEF ToldOne
    <2> QED  BY <1>2 DEF t, y
  <1>5. CASE ToldTwo
    <2> PICK p \in Updates, q \in Updates :
            /\ Apply(p, guilds) \in Tables /\ Apply(q, Apply(p, guilds)) \in Tables
            /\ guilds' = Apply(q, Apply(p, guilds))
            /\ BroadcastBoth(p, Apply(p, guilds), q)
      BY <1>5 DEF ToldTwo
    <2> QED  BY <1>3 DEF t, y
  <1> QED  BY <1>4, <1>5 DEF Told

\* Guilds and records stay as they are.
LEMMA TablesSame ==
    ASSUME TypeOK, TablesInv, UNCHANGED <<up, guilds, maxID, info, row>>
    PROVE  Recorded /\ guilds' \in Tables
  <1>1. TablesInv'
    BY DEF TablesInv, RecordsAgree, MastersAgree, RestartRaisesNobody
  <1> QED  BY <1>1 DEF Recorded, TypeOK

\* The next request of s is taken.
LEMMA SharedTail ==
    ASSUME TypeOK, LinesInv, CountsInv, NEW s \in Servers, toShared[s] # <<>>,
           toShared' = [toShared EXCEPT ![s] = Tail(@)]
    PROVE  /\ toShared' \in [Servers -> Seq(Requests)]
           /\ \A x \in Servers :
                 /\ AskedOnce(toShared'[x], trail[x], synced[x])
                 /\ link[x] = "down" => toShared'[x] = <<>>
                 /\ link[x] # "up" =>
                       \A i \in 1 .. Len(toShared'[x]) : toShared'[x][i].op # "RequestGuildInfo"
  <1>1. toShared \in [Servers -> Seq(Requests)] /\ toShared[s] \in Seq(Requests)
    BY DEF TypeOK
  <1>2. /\ Tail(toShared[s]) \in Seq(Requests) /\ Len(Tail(toShared[s])) = Len(toShared[s]) - 1
        /\ Len(toShared[s]) \in Nat \ {0}
        /\ \A i \in 1 .. Len(toShared[s]) - 1 : Tail(toShared[s])[i] = toShared[s][i + 1]
    BY <1>1, TailAt
  <1>3. AskedOnce(Tail(toShared[s]), trail[s], synced[s])
    BY <1>1, LineNow, AskedTail
  <1>4. toShared'[s] = Tail(toShared[s]) /\ \A x \in Servers \ {s} : toShared'[x] = toShared[x]
    BY <1>1
  <1>5. toShared' \in [Servers -> Seq(Requests)]
    BY <1>1, <1>2
  <1>6. ASSUME NEW x \in Servers
        PROVE  /\ AskedOnce(toShared'[x], trail[x], synced[x])
               /\ link[x] = "down" => toShared'[x] = <<>>
               /\ link[x] # "up" =>
                     \A i \in 1 .. Len(toShared'[x]) : toShared'[x][i].op # "RequestGuildInfo"
    <2>1. CASE x = s
      <3>1. link[s] # "down"
        BY LineNow
      <3>2. ASSUME link[s] # "up"
            PROVE  \A i \in 1 .. Len(Tail(toShared[s])) :
                       Tail(toShared[s])[i].op # "RequestGuildInfo"
        <4>1. \A i \in 1 .. Len(toShared[s]) : toShared[s][i].op # "RequestGuildInfo"
          BY <3>2, LineNow
        <4> QED  BY <1>2, <4>1
      <3> QED  BY <1>3, <1>4, <2>1, <3>1, <3>2
    <2>2. CASE x # s
      BY <1>4, <2>2, LineNow
    <2> QED  BY <2>1, <2>2
  <1> QED  BY <1>5, <1>6

\* What the parts of the invariant come to.
LEMMA Together ==
    ASSUME Recorded, up' \in BOOLEAN, guilds' \in Tables, Consistent(guilds'),
           copy' \in [Servers -> Tables], link' \in [Servers -> {"down", "new", "up"}],
           synced' \in [Servers -> BOOLEAN], toShared' \in [Servers -> Seq(Requests)],
           toGame' \in [Servers -> Seq(Packets)], trail' \in [Servers -> Seq(Tables)],
           requests' \in Nat, faults' \in Nat,
           \A s \in Servers : /\ Consistent(copy'[s]) /\ CountsSent(toGame'[s])
                              /\ Line(toGame'[s], trail'[s], copy'[s], synced'[s], guilds')
                              /\ AskedOnce(toShared'[s], trail'[s], synced'[s])
                              /\ LinkFits(s)'
    PROVE  GuildInv'
  <1>1. TypeOK'
    BY DEF TypeOK, Recorded
  <1>2. CountsInv'
    BY DEF CountsInv, CountsSent
  <1>3. TablesInv'
    BY DEF Recorded
  <1>4. LinesInv'
    BY DEF LinesInv
  <1> QED  BY <1>1, <1>2, <1>3, <1>4 DEF GuildInv

\* A step that tells of changed guilds.
LEMMA ToldKeeps ==
    ASSUME GuildInv, Told, Recorded, UNCHANGED <<up, copy, link, synced, requests, faults>>,
           toShared' \in [Servers -> Seq(Requests)],
           \A x \in Servers :
              /\ AskedOnce(toShared'[x], trail[x], synced[x])
              /\ link[x] = "down" => toShared'[x] = <<>>
              /\ link[x] # "up" =>
                    \A i \in 1 .. Len(toShared'[x]) : toShared'[x][i].op # "RequestGuildInfo"
    PROVE  GuildInv'
  <1>1. TypeOK /\ CountsInv /\ LinesInv
    BY DEF GuildInv
  <1>2. toGame' = [s \in Servers |-> toGame'[s]] /\ trail' = [s \in Servers |-> trail'[s]]
    BY DEF Told, ToldOne, ToldTwo, Broadcast, BroadcastBoth
  <1>3. toGame' \in [Servers -> Seq(Packets)] /\ trail' \in [Servers -> Seq(Tables)]
    BY <1>1, <1>2, ToldLine
  <1>4. guilds' \in Tables /\ Consistent(guilds')
    <2>1. guilds' \in Tables
      BY DEF Told, ToldOne, ToldTwo
    <2>2. Consistent(guilds')
      <3>1. guilds \in Tables /\ Consistent(guilds)
        BY <1>1 DEF TypeOK, CountsInv
      <3>2. \A p \in Updates, v \in Tables :
               Apply(p, v) \in Tables /\ Consistent(v) => Consistent(Apply(p, v))
        BY ApplyKeeps, NoGuildIsNone DEF Updates
      <3>3. CASE ToldOne
        BY <3>1, <3>2, <3>3 DEF ToldOne
      <3>4. CASE ToldTwo
        BY <3>1, <3>2, <3>4 DEF ToldTwo
      <3> QED  BY <3>3, <3>4 DEF Told
    <2> QED  BY <2>1, <2>2
  <1>5. ASSUME NEW s \in Servers
        PROVE  /\ Consistent(copy'[s]) /\ CountsSent(toGame'[s])
               /\ Line(toGame'[s], trail'[s], copy'[s], synced'[s], guilds')
               /\ AskedOnce(toShared'[s], trail'[s], synced'[s])
               /\ LinkFits(s)'
    <2>1. /\ Line(toGame'[s], trail'[s], copy[s], synced[s], guilds') /\ CountsSent(toGame'[s])
          /\ link[s] = "down" => toGame'[s] = <<>>
          /\ ~synced[s] /\ trail[s] = <<>> => trail'[s] = <<>>
      BY <1>1, ToldLine
    <2>2. Consistent(copy[s]) /\ (link[s] # "up" => ~synced[s] /\ trail[s] = <<>>)
          /\ (~up => link[s] = "down")
      BY <1>1, LineNow
    <2>3. AskedOnce(toShared'[s], trail'[s], synced[s])
      BY <2>1 DEF AskedOnce
    <2>4. LinkFits(s)'
      BY <2>1, <2>2 DEF LinkFits
    <2> QED  BY <2>1, <2>2, <2>3, <2>4
  <1>6. /\ up' \in BOOLEAN /\ copy' \in [Servers -> Tables]
        /\ link' \in [Servers -> {"down", "new", "up"}] /\ synced' \in [Servers -> BOOLEAN]
        /\ requests' \in Nat /\ faults' \in Nat
    BY <1>1 DEF TypeOK
  <1> QED  BY <1>3, <1>4, <1>5, <1>6, Together

\* A request other than RequestGuildInfo keeps the invariant.
LEMMA ServesKeeps ==
    ASSUME GuildInv, NEW s \in Servers, toShared[s] # <<>>, Serves(s)
    PROVE  GuildInv'
  <1>1. TypeOK /\ CountsInv /\ LinesInv
    BY DEF GuildInv
  <1>2. /\ toShared' = [toShared EXCEPT ![s] = Tail(@)]
        /\ UNCHANGED <<up, copy, link, synced, requests, faults>> /\ Recorded
        /\ Told \/ UNCHANGED <<guilds, toGame, trail>>
    BY DEF Serves, Served
  <1>3. /\ toShared' \in [Servers -> Seq(Requests)]
        /\ \A x \in Servers :
              /\ AskedOnce(toShared'[x], trail[x], synced[x])
              /\ link[x] = "down" => toShared'[x] = <<>>
              /\ link[x] # "up" =>
                    \A i \in 1 .. Len(toShared'[x]) : toShared'[x][i].op # "RequestGuildInfo"
    BY <1>1, <1>2, SharedTail
  <1>4. CASE Told
    BY <1>2, <1>3, <1>4, ToldKeeps
  <1>5. CASE UNCHANGED <<guilds, toGame, trail>>
    <2>1. ASSUME NEW x \in Servers
          PROVE  /\ Consistent(copy'[x]) /\ CountsSent(toGame'[x])
                 /\ Line(toGame'[x], trail'[x], copy'[x], synced'[x], guilds')
                 /\ AskedOnce(toShared'[x], trail'[x], synced'[x])
                 /\ LinkFits(x)'
      <3>1. LinkFits(x)'
        BY <1>1, <1>2, <1>3, <1>5, LineNow DEF LinkFits
      <3> QED  BY <1>1, <1>2, <1>3, <1>5, <3>1, LineNow
    <2>2. guilds' \in Tables /\ Consistent(guilds')
      BY <1>1, <1>5 DEF TypeOK, CountsInv
    <2>3. /\ up' \in BOOLEAN /\ copy' \in [Servers -> Tables]
          /\ link' \in [Servers -> {"down", "new", "up"}] /\ synced' \in [Servers -> BOOLEAN]
          /\ toGame' \in [Servers -> Seq(Packets)] /\ trail' \in [Servers -> Seq(Tables)]
          /\ requests' \in Nat /\ faults' \in Nat
      BY <1>1, <1>2, <1>5 DEF TypeOK
    <2> QED  BY <1>2, <1>3, <2>1, <2>2, <2>3, Together
  <1> QED  BY <1>2, <1>4, <1>5

\* The connections of lost have ended, and the guilds are as they were or gone.
LEMMA CutKeeps ==
    ASSUME GuildInv, NEW lost, lost \subseteq Servers, Cut(lost), Recorded, up' \in BOOLEAN,
           ~up' => lost = Servers, up' => up, guilds' = guilds \/ (lost = Servers /\ guilds' = NoGuilds),
           copy' = copy, requests' \in Nat, faults' \in Nat
    PROVE  GuildInv'
  <1>1. TypeOK /\ CountsInv /\ LinesInv
    BY DEF GuildInv
  <1>2. /\ link' \in [Servers -> {"down", "new", "up"}] /\ synced' \in [Servers -> BOOLEAN]
        /\ toShared' \in [Servers -> Seq(Requests)] /\ toGame' \in [Servers -> Seq(Packets)]
        /\ trail' \in [Servers -> Seq(Tables)] /\ copy' \in [Servers -> Tables]
    <2>1. \A S : <<>> \in Seq(S)
      OBVIOUS
    <2> QED  BY <1>1, <2>1 DEF Cut, TypeOK
  <1>3. guilds' \in Tables /\ Consistent(guilds')
    <2>1. NoGuilds \in Tables /\ Consistent(NoGuilds)
      BY DEF NoGuilds, Tables, Consistent
    <2> QED  BY <1>1, <2>1 DEF TypeOK, CountsInv
  <1>4. ASSUME NEW s \in Servers
        PROVE  /\ Consistent(copy'[s]) /\ CountsSent(toGame'[s])
               /\ Line(toGame'[s], trail'[s], copy'[s], synced'[s], guilds')
               /\ AskedOnce(toShared'[s], trail'[s], synced'[s])
               /\ LinkFits(s)'
    <2>1. Consistent(copy'[s])
      BY <1>1, LineNow
    <2>2. CASE s \in lost
      <3>1. /\ link'[s] = "down" /\ synced'[s] = FALSE
            /\ toShared'[s] = <<>> /\ toGame'[s] = <<>> /\ trail'[s] = <<>>
        BY <2>2 DEF Cut
      <3>2. CountsSent(<<>>) /\ AskedOnce(<<>>, <<>>, FALSE)
        BY DEF CountsSent, AskedOnce
      <3>3. LinkFits(s)'
        BY <3>1 DEF LinkFits
      <3>4. CountsSent(toGame'[s]) /\ AskedOnce(toShared'[s], trail'[s], synced'[s])
        BY <3>1, <3>2
      <3>5. Line(toGame'[s], trail'[s], copy'[s], synced'[s], guilds')
        BY <3>1, LineEmpty
      <3> QED  BY <2>1, <3>3, <3>4, <3>5
    <2>3. CASE s \notin lost
      <3>1. /\ link'[s] = link[s] /\ synced'[s] = synced[s] /\ toShared'[s] = toShared[s]
            /\ toGame'[s] = toGame[s] /\ trail'[s] = trail[s] /\ guilds' = guilds /\ up /\ up'
        BY <1>1, <2>3 DEF Cut, TypeOK
      <3> QED  BY <1>1, <2>1, <3>1, LineNow DEF LinkFits
    <2> QED  BY <2>2, <2>3
  <1> QED  BY <1>2, <1>3, <1>4, Together

\* The shared server has ended, or a connection.
LEMMA EndsKeepsInv ==
    ASSUME GuildInv, SharedServerEnds, Recorded, faults' \in Nat
    PROVE  GuildInv'
  <1>1. /\ up' = FALSE /\ guilds' = NoGuilds /\ Cut(Servers) /\ copy' = copy /\ requests' = requests
        /\ requests \in Nat
    BY DEF SharedServerEnds, GuildInv, TypeOK
  <1> QED  BY <1>1, CutKeeps

\* A lost connection keeps the invariant.
LEMMA LinkDownKeeps ==
    ASSUME GuildInv, NEW s \in Servers, LinkDown(s)
    PROVE  GuildInv'
  <1>1. /\ link[s] # "down" /\ Cut({s}) /\ UNCHANGED <<up, guilds, maxID, info, row, copy, requests>>
        /\ faults' = faults + 1
    BY DEF LinkDown
  <1>2. TypeOK /\ TablesInv /\ LinesInv
    BY DEF GuildInv
  <1>3. up' \in BOOLEAN /\ requests' \in Nat /\ faults' \in Nat
    BY <1>1, <1>2 DEF TypeOK
  <1>4. up /\ up'
    BY <1>1, <1>2 DEF LinesInv, LinkFits, TypeOK
  <1>5. Recorded
    BY <1>1, <1>2, TablesSame
  <1> QED  BY <1>1, <1>3, <1>4, <1>5, CutKeeps

\* A step in which only the connection of s changes, the server still running.
LEMMA LinkKeeps ==
    ASSUME GuildInv, UNCHANGED <<up, guilds>>, Recorded, NEW s \in Servers,
           copy' \in [Servers -> Tables], link' \in [Servers -> {"down", "new", "up"}],
           synced' \in [Servers -> BOOLEAN], toShared' \in [Servers -> Seq(Requests)],
           toGame' \in [Servers -> Seq(Packets)], trail' \in [Servers -> Seq(Tables)],
           requests' \in Nat, faults' \in Nat,
           \A x \in Servers \ {s} :
              /\ copy'[x] = copy[x] /\ link'[x] = link[x] /\ synced'[x] = synced[x]
              /\ toShared'[x] = toShared[x] /\ toGame'[x] = toGame[x] /\ trail'[x] = trail[x],
           Consistent(copy'[s]), CountsSent(toGame'[s]),
           Line(toGame'[s], trail'[s], copy'[s], synced'[s], guilds),
           AskedOnce(toShared'[s], trail'[s], synced'[s]), LinkFits(s)'
    PROVE  GuildInv'
  <1>1. TypeOK /\ CountsInv /\ LinesInv
    BY DEF GuildInv
  <1>2. /\ guilds' = guilds /\ up' = up /\ up' \in BOOLEAN /\ Consistent(guilds')
        /\ guilds' \in Tables
    BY <1>1 DEF TypeOK, CountsInv
  <1>3. ASSUME NEW x \in Servers \ {s}
        PROVE  /\ Consistent(copy'[x]) /\ CountsSent(toGame'[x])
               /\ Line(toGame'[x], trail'[x], copy'[x], synced'[x], guilds')
               /\ AskedOnce(toShared'[x], trail'[x], synced'[x])
               /\ LinkFits(x)'
    <2>1. /\ copy'[x] = copy[x] /\ link'[x] = link[x] /\ synced'[x] = synced[x]
          /\ toShared'[x] = toShared[x] /\ toGame'[x] = toGame[x] /\ trail'[x] = trail[x]
      OBVIOUS
    <2>2. LinkFits(x)
      BY <1>1 DEF LinesInv
    <2>3. LinkFits(x)'
      BY <1>2, <2>1, <2>2 DEF LinkFits
    <2> QED  BY <1>1, <1>2, <2>1, <2>3, LineNow
  <1> QED  BY <1>2, <1>3, Together

\* A new connection has nothing on it and keeps the invariant.
LEMMA ConnectKeeps ==
    ASSUME GuildInv, NEW s \in Servers, Connect(s)
    PROVE  GuildInv'
  <1>1. TypeOK /\ LinesInv /\ CountsInv
    BY DEF GuildInv
  <1>2. /\ up /\ link[s] = "down" /\ link' = [link EXCEPT ![s] = "new"]
        /\ UNCHANGED <<up, guilds, maxID, info, row, copy, synced, toShared, toGame, trail,
                       requests, faults>>
    BY DEF Connect
  <1>3. LinkFits(s)'
    <2>1. link'[s] = "new"
      BY <1>1, <1>2 DEF TypeOK
    <2>2. ~synced[s] /\ trail[s] = <<>> /\ toShared[s] = <<>>
      BY <1>1, <1>2, LineNow
    <2> QED  BY <1>2, <2>1, <2>2 DEF LinkFits
  <1>4. link' \in [Servers -> {"down", "new", "up"}] /\ \A x \in Servers \ {s} : link'[x] = link[x]
    BY <1>1, <1>2 DEF TypeOK
  <1>5. /\ copy' \in [Servers -> Tables] /\ synced' \in [Servers -> BOOLEAN]
        /\ toShared' \in [Servers -> Seq(Requests)]
        /\ toGame' \in [Servers -> Seq(Packets)] /\ trail' \in [Servers -> Seq(Tables)]
        /\ requests' \in Nat /\ faults' \in Nat
    BY <1>1, <1>2 DEF TypeOK
  <1>6. /\ Consistent(copy'[s]) /\ CountsSent(toGame'[s])
        /\ Line(toGame'[s], trail'[s], copy'[s], synced'[s], guilds)
        /\ AskedOnce(toShared'[s], trail'[s], synced'[s])
    BY <1>1, <1>2, LineNow
  <1>7. Recorded
    BY <1>2, TablesSame DEF GuildInv
  <1> QED  BY <1>2, <1>3, <1>4, <1>5, <1>6, <1>7, LinkKeeps

\* The request for all guilds, the first of its connection, keeps the invariant.
LEMMA AskKeeps ==
    ASSUME GuildInv, NEW s \in Servers, Ask(s)
    PROVE  GuildInv'
  <1> DEFINE p == [op |-> "RequestGuildInfo"]
  <1>1. TypeOK /\ LinesInv /\ CountsInv
    BY DEF GuildInv
  <1>2. /\ link[s] = "new" /\ link' = [link EXCEPT ![s] = "up"]
        /\ toShared' = [toShared EXCEPT ![s] = Append(@, p)]
        /\ UNCHANGED <<up, guilds, maxID, info, row, copy, synced, toGame, trail, requests, faults>>
    BY DEF Ask
  <1>3. p \in Requests
    BY DEF Requests
  <1> HIDE DEF p
  <1>4. /\ toShared[s] \in Seq(Requests) /\ AskedOnce(toShared[s], trail[s], synced[s])
        /\ ~synced[s] /\ trail[s] = <<>> /\ up
        /\ \A i \in 1 .. Len(toShared[s]) : toShared[s][i].op # "RequestGuildInfo"
    BY <1>1, <1>2, LineNow
  <1>5. Append(toShared[s], p) \in Seq(Requests) /\ AskedOnce(Append(toShared[s], p), trail[s], synced[s])
    BY <1>3, <1>4, AskedAppend, AppendAt
  <1>6. /\ toShared'[s] = Append(toShared[s], p) /\ toShared' \in [Servers -> Seq(Requests)]
        /\ \A x \in Servers \ {s} : toShared'[x] = toShared[x]
    BY <1>1, <1>2, <1>5 DEF TypeOK
  <1>7. /\ link' \in [Servers -> {"down", "new", "up"}] /\ link'[s] = "up"
        /\ \A x \in Servers \ {s} : link'[x] = link[x]
    BY <1>1, <1>2 DEF TypeOK
  <1>8. LinkFits(s)'
    BY <1>2, <1>4, <1>7 DEF LinkFits
  <1>9. /\ copy' \in [Servers -> Tables] /\ synced' \in [Servers -> BOOLEAN]
        /\ toGame' \in [Servers -> Seq(Packets)] /\ trail' \in [Servers -> Seq(Tables)]
        /\ requests' \in Nat /\ faults' \in Nat
    BY <1>1, <1>2 DEF TypeOK
  <1>10. /\ Consistent(copy'[s]) /\ CountsSent(toGame'[s])
         /\ Line(toGame'[s], trail'[s], copy'[s], synced'[s], guilds)
         /\ AskedOnce(toShared'[s], trail'[s], synced'[s])
    BY <1>1, <1>2, <1>5, <1>6, LineNow
  <1>11. Recorded
    BY <1>2, TablesSame DEF GuildInv
  <1> QED  BY <1>2, <1>6, <1>7, <1>8, <1>9, <1>10, <1>11, LinkKeeps

\* All guilds are given, to a server that did not follow: the invariant holds.
LEMMA GiveKeeps ==
    ASSUME GuildInv, NEW s \in Servers, RequestGuildInfo(s)
    PROVE  GuildInv' /\ ~synced[s] /\ trail[s] = <<>>
  <1> DEFINE p == [op |-> "GuildInfo", table |-> guilds]
             r == Tail(toShared[s])
  <1>1. TypeOK /\ LinesInv /\ CountsInv
    BY DEF GuildInv
  <1>2. /\ up /\ toShared[s] # <<>> /\ Head(toShared[s]).op = "RequestGuildInfo"
        /\ toGame' = [toGame EXCEPT ![s] = Append(@, p)] /\ trail' = [trail EXCEPT ![s] = <<guilds>>]
        /\ toShared' = [toShared EXCEPT ![s] = r]
        /\ UNCHANGED <<up, guilds, maxID, info, row, copy, link, synced, requests, faults>>
    BY DEF RequestGuildInfo, Asks, Served
  <1>3. /\ toShared[s] \in Seq(Requests) /\ toGame[s] \in Seq(Packets) /\ guilds \in Tables
        /\ AskedOnce(toShared[s], trail[s], synced[s]) /\ synced[s] \in BOOLEAN
        /\ Line(toGame[s], trail[s], copy[s], synced[s], guilds)
        /\ CountsSent(toGame[s]) /\ Consistent(copy[s])
    BY <1>1, LineNow
  <1>4. /\ ~synced[s] /\ trail[s] = <<>>
        /\ \A i \in 1 .. Len(r) : r[i].op # "RequestGuildInfo"
    BY <1>2, <1>3, AskedTail
  <1>5. r \in Seq(Requests) /\ AskedOnce(r, <<guilds>>, synced[s])
    BY <1>2, <1>3, <1>4, TailAt DEF AskedOnce
  <1>6. synced[s] = FALSE
    BY <1>3, <1>4
  <1>7. Line(Append(toGame[s], p), <<guilds>>, copy[s], synced[s], guilds)
    BY <1>3, <1>4, <1>6, LineGiven
  <1>8. p \in Packets /\ p.table = guilds /\ Consistent(guilds)
    BY <1>1, <1>3 DEF Packets, CountsInv
  <1>9. <<guilds>> \in Seq(Tables)
    BY <1>3
  <1> HIDE DEF p, r
  <1>10. /\ Append(toGame[s], p) \in Seq(Packets) /\ Len(Append(toGame[s], p)) = Len(toGame[s]) + 1
         /\ Append(toGame[s], p)[Len(toGame[s]) + 1] = p /\ Len(toGame[s]) \in Nat
         /\ \A i \in 1 .. Len(toGame[s]) : Append(toGame[s], p)[i] = toGame[s][i]
    BY <1>3, <1>8, AppendAt
  <1>11. CountsSent(Append(toGame[s], p))
    BY <1>3, <1>8, <1>10 DEF CountsSent
  <1>12. /\ toGame'[s] = Append(toGame[s], p) /\ trail'[s] = <<guilds>> /\ toShared'[s] = r
         /\ toGame' \in [Servers -> Seq(Packets)] /\ trail' \in [Servers -> Seq(Tables)]
         /\ toShared' \in [Servers -> Seq(Requests)]
         /\ \A x \in Servers \ {s} : /\ toShared'[x] = toShared[x] /\ toGame'[x] = toGame[x]
                                     /\ trail'[x] = trail[x]
    BY <1>1, <1>2, <1>5, <1>9, <1>10 DEF TypeOK
  <1>13. link[s] = "up"
    <2>1. 1 \in 1 .. Len(toShared[s]) /\ toShared[s][1].op = "RequestGuildInfo"
      BY <1>2, <1>3, TailAt
    <2> QED  BY <1>1, <2>1, LineNow
  <1>14. LinkFits(s)'
    BY <1>2, <1>13 DEF LinkFits
  <1>15. /\ copy' \in [Servers -> Tables] /\ synced' \in [Servers -> BOOLEAN]
         /\ link' \in [Servers -> {"down", "new", "up"}] /\ requests' \in Nat /\ faults' \in Nat
    BY <1>1, <1>2 DEF TypeOK
  <1>16. Recorded
    BY <1>1, <1>2, TablesSame DEF GuildInv
  <1>17. /\ CountsSent(toGame'[s]) /\ Consistent(copy'[s])
         /\ Line(toGame'[s], trail'[s], copy'[s], synced'[s], guilds)
         /\ AskedOnce(toShared'[s], trail'[s], synced'[s])
    BY <1>2, <1>3, <1>5, <1>7, <1>11, <1>12
  <1>18. /\ \A x \in Servers \ {s} :
              /\ copy'[x] = copy[x] /\ link'[x] = link[x] /\ synced'[x] = synced[x]
              /\ toShared'[x] = toShared[x] /\ toGame'[x] = toGame[x] /\ trail'[x] = trail[x]
         /\ UNCHANGED <<up, guilds>>
    BY <1>2, <1>12
  <1>19. GuildInv'
    BY <1>12, <1>14, <1>15, <1>16, <1>17, <1>18, LinkKeeps
  <1> QED  BY <1>4, <1>19

\* The handler of a packet that is due does not throw.
LEMMA DueIsTaken ==
    ASSUME GuildInv, NEW s \in Servers, toGame[s] # <<>>,
           synced[s] \/ Head(toGame[s]).op = "GuildInfo"
    PROVE  /\ trail[s] # <<>> /\ Apply(Head(toGame[s]), copy[s]) = Head(trail[s])
           /\ Apply(Head(toGame[s]), copy[s]) # Failed
  <1>1. /\ toGame[s] \in Seq(Packets) /\ trail[s] \in Seq(Tables) /\ synced[s] \in BOOLEAN
        /\ Line(toGame[s], trail[s], copy[s], synced[s], guilds)
    BY LineNow DEF GuildInv
  <1>2. trail[s] # <<>> /\ Apply(Head(toGame[s]), copy[s]) = Head(trail[s])
    <2> DEFINE w == Apply(Head(toGame[s]), copy[s])
               v == copy[s]
               z == synced[s] \/ Head(toGame[s]).op = "GuildInfo"
    <2>1. /\ w = Apply(Head(toGame[s]), v) /\ Line(toGame[s], trail[s], v, synced[s], guilds)
          /\ z \in BOOLEAN /\ (z <=> synced[s] \/ Head(toGame[s]).op = "GuildInfo")
      BY <1>1
    <2> HIDE DEF w, v, z
    <2>2. /\ z => trail[s] # <<>> /\ w = Head(trail[s])
          /\ Line(Tail(toGame[s]), IF z THEN Tail(trail[s]) ELSE trail[s], w, z, guilds)
      BY <1>1, <2>1, LineDelivered
    <2> QED  BY <2>2 DEF w, z
  <1>3. Head(trail[s]) \in Tables
    BY <1>1, <1>2, TailAt
  <1> QED  BY <1>2, <1>3, NoGuildIsNone

\* A packet that is handled, or ends the connection, keeps the invariant.
LEMMA DeliverKeeps ==
    ASSUME GuildInv, NEW s \in Servers, Deliver(s)
    PROVE  GuildInv'
  <1> DEFINE p == Head(toGame[s])
             w == Apply(p, copy[s])
             z == synced[s] \/ p.op = "GuildInfo"
             t == IF z THEN Tail(trail[s]) ELSE trail[s]
  <1>1. TypeOK /\ LinesInv /\ CountsInv /\ TablesInv
    BY DEF GuildInv
  <1>2. /\ link[s] = "up" /\ toGame[s] # <<>>
        /\ UNCHANGED <<up, guilds, maxID, info, row, requests, faults>>
    BY DEF Deliver
  <1>3. Recorded
    BY <1>1, <1>2, TablesSame
  <1>4. /\ up /\ up' \in BOOLEAN /\ requests' \in Nat /\ faults' \in Nat
    BY <1>1, <1>2, LineNow DEF TypeOK
  <1>5. CASE w = Failed
    <2>1. Cut({s}) /\ copy' = copy
      BY <1>5 DEF Deliver
    <2> QED  BY <1>2, <1>3, <1>4, <2>1, CutKeeps
  <1>6. CASE w # Failed
    <2>1. /\ toGame[s] \in Seq(Packets) /\ trail[s] \in Seq(Tables) /\ synced[s] \in BOOLEAN
          /\ copy[s] \in Tables /\ Consistent(copy[s]) /\ CountsSent(toGame[s])
          /\ Line(toGame[s], trail[s], copy[s], synced[s], guilds)
          /\ AskedOnce(toShared[s], trail[s], synced[s])
      BY <1>1, LineNow
    <2>2. /\ Tail(toGame[s]) \in Seq(Packets) /\ Len(Tail(toGame[s])) = Len(toGame[s]) - 1
          /\ Len(toGame[s]) \in Nat \ {0} /\ p = toGame[s][1] /\ p \in Packets
          /\ \A i \in 1 .. Len(toGame[s]) - 1 : Tail(toGame[s])[i] = toGame[s][i + 1]
      BY <1>2, <2>1, TailAt
    <2>3. CountsSent(Tail(toGame[s])) /\ (p.op = "GuildInfo" => Consistent(p.table))
      BY <2>1, <2>2 DEF CountsSent
    <2>4. z => trail[s] # <<>>
      BY <1>2, DueIsTaken
    <2>5. t \in Seq(Tables)
      <3>1. CASE z
        BY <2>1, <2>4, <3>1, TailAt
      <3>2. CASE ~z
        BY <2>1, <3>2
      <3> QED  BY <3>1, <3>2
    <2>6. /\ copy' = [copy EXCEPT ![s] = w] /\ toGame' = [toGame EXCEPT ![s] = Tail(@)]
          /\ synced' = [synced EXCEPT ![s] = z] /\ UNCHANGED <<link, toShared>>
          /\ trail' = IF synced'[s] THEN [trail EXCEPT ![s] = Tail(@)] ELSE trail
      BY <1>6 DEF Deliver
    <2>7. z \in BOOLEAN
      OBVIOUS
    <2>8. synced'[s] = z
      BY <1>1, <2>6 DEF TypeOK
    <2>9. trail' = [trail EXCEPT ![s] = t]
      BY <1>1, <2>6, <2>8 DEF TypeOK
    <2>10. w \in Tables /\ Consistent(w)
      <3> HIDE DEF p
      <3> QED  BY <1>6, <2>1, <2>2, <2>3, ApplyKeeps
    <2>11. Line(Tail(toGame[s]), t, w, z, guilds)
      <3>1. w = Apply(Head(toGame[s]), copy[s]) /\ (z <=> synced[s] \/ Head(toGame[s]).op = "GuildInfo")
        OBVIOUS
      <3>2. t = IF z THEN Tail(trail[s]) ELSE trail[s]
        OBVIOUS
      <3> HIDE DEF p, w, z, t
      <3> DEFINE v == copy[s]
      <3>3. w = Apply(Head(toGame[s]), v) /\ Line(toGame[s], trail[s], v, synced[s], guilds)
        BY <2>1, <3>1
      <3> HIDE DEF v
      <3>4. Line(Tail(toGame[s]), IF z THEN Tail(trail[s]) ELSE trail[s], w, z, guilds)
        BY <1>2, <2>1, <2>7, <3>1, <3>3, LineDelivered
      <3> QED  BY <3>2, <3>4
    <2>12. AskedOnce(toShared[s], t, z)
      <3>1. CASE z
        BY <2>1, <2>4, <3>1 DEF AskedOnce
      <3>2. CASE ~z
        <4>1. t = trail[s] /\ z = synced[s]
          BY <2>1, <3>2
        <4> HIDE DEF t, z
        <4> QED  BY <2>1, <4>1
      <3> QED  BY <3>1, <3>2
    <2> HIDE DEF p, w, z, t
    <2>13. /\ copy' \in [Servers -> Tables] /\ toGame' \in [Servers -> Seq(Packets)]
           /\ synced' \in [Servers -> BOOLEAN] /\ trail' \in [Servers -> Seq(Tables)]
           /\ link' \in [Servers -> {"down", "new", "up"}] /\ toShared' \in [Servers -> Seq(Requests)]
      BY <1>1, <2>2, <2>5, <2>6, <2>7, <2>9, <2>10 DEF TypeOK
    <2>14. /\ copy'[s] = w /\ toGame'[s] = Tail(toGame[s]) /\ synced'[s] = z /\ trail'[s] = t
           /\ toShared'[s] = toShared[s] /\ link'[s] = "up"
      BY <1>1, <1>2, <2>6, <2>8, <2>9 DEF TypeOK
    <2>15. \A x \in Servers \ {s} :
              /\ copy'[x] = copy[x] /\ link'[x] = link[x] /\ synced'[x] = synced[x]
              /\ toShared'[x] = toShared[x] /\ toGame'[x] = toGame[x] /\ trail'[x] = trail[x]
      BY <1>1, <2>6, <2>9 DEF TypeOK
    <2>16. LinkFits(s)'
      BY <1>2, <1>4, <2>14 DEF LinkFits
    <2>17. /\ Consistent(copy'[s]) /\ CountsSent(toGame'[s])
           /\ Line(toGame'[s], trail'[s], copy'[s], synced'[s], guilds)
           /\ AskedOnce(toShared'[s], trail'[s], synced'[s])
      BY <2>3, <2>10, <2>11, <2>12, <2>14
    <2> QED  BY <1>2, <1>3, <1>4, <2>13, <2>15, <2>16, <2>17, LinkKeeps
  <1> QED  BY <1>5, <1>6

\* What players do: a packet to the shared server, a row that goes, or both.
LEMMA PlayersDo ==
    ASSUME TypeOK, NEW s \in Servers, PlayerActs(s)
    PROVE  /\ UNCHANGED <<up, guilds, maxID, info, copy, link, synced, toGame, trail, faults>>
           /\ requests' \in Nat
           /\ row' = row \/ \E n \in Characters : row' = [row EXCEPT ![n] = NoRow]
           /\ \/ toShared' = toShared
              \/ \E p \in Requests : /\ p.op # "RequestGuildInfo" /\ link[s] # "down"
                                     /\ toShared' = [toShared EXCEPT ![s] = Append(@, p)]
  <1> DEFINE Done == /\ UNCHANGED <<up, guilds, maxID, info, copy, link, synced, toGame, trail, faults>>
                     /\ requests' \in Nat
             Sent == \E p \in Requests : /\ p.op # "RequestGuildInfo" /\ link[s] # "down"
                                         /\ toShared' = [toShared EXCEPT ![s] = Append(@, p)]
  <1>1. Act => Done
    BY DEF Act, TypeOK
  <1>2. ASSUME NEW p \in Requests, p.op # "RequestGuildInfo", Send(s, p)
        PROVE  Done /\ Sent
    BY <1>1, <1>2 DEF Send
  <1> HIDE DEF Done, Sent
  <1>3. ASSUME NEW g \in GuildIDs, NEW n \in Characters, NEW m \in Characters
        PROVE  /\ \A r \in {"SUBMASTER", "WAIT"} :
                     LET p == [op |-> "AddGuildMember", guild |-> g, name |-> n, rank |-> r]
                     IN  p \in Requests /\ p.op # "RequestGuildInfo"
               /\ \A o \in {"ExpelGuildMember", "QuitGuild"} :
                     LET p == [op |-> o, guild |-> g, name |-> n]
                     IN  p \in Requests /\ p.op # "RequestGuildInfo"
               /\ \A r \in {"NORMAL", "SUBMASTER", "MASTER"} :
                     LET p == [op |-> "ModifyGuildMember", guild |-> g, name |-> n, rank |-> r,
                               sender |-> m]
                     IN  p \in Requests /\ p.op # "RequestGuildInfo"
               /\ LET p == [op |-> "AddGuild", name |-> n]
                  IN  p \in Requests /\ p.op # "RequestGuildInfo"
    BY DEF Requests
  <1>4. ASSUME NEW g \in GuildIDs, NEW n \in Characters, NEW r \in {"SUBMASTER", "WAIT"},
               JoinGuild(s, n, g, r)
        PROVE  Done /\ row' = row /\ Sent
    BY <1>2, <1>3, <1>4 DEF JoinGuild
  <1>5. ASSUME NEW n \in Characters, RegistGuild(s, n), GuildIDs # {}
        PROVE  Done /\ row' = [row EXCEPT ![n] = NoRow] /\ (toShared' = toShared \/ Sent)
    BY <1>1, <1>2, <1>3, <1>5 DEF RegistGuild
  <1>6. ASSUME NEW n \in Characters, LeaveGuild(s, n)
        PROVE  Done /\ row' = row /\ Sent
    <2>1. row[n].guild \in GuildIDs
      <3>1. row[n] \in RowRecords
        BY <1>6, RankSets DEF LeaveGuild, TypeOK
      <3> QED  BY <3>1 DEF RowRecords
    <2> QED  BY <1>2, <1>3, <1>6, <2>1 DEF LeaveGuild
  <1>7. ASSUME NEW g \in GuildIDs, NEW n \in Characters, NEW m \in Characters,
               \/ DenyMember(s, m, g, n)
               \/ \E r \in {"NORMAL", "SUBMASTER", "MASTER"} : ModifyMember(s, m, g, n, r)
               \/ AppointSubmaster(s, m, g, n) \/ ChangeGuildMaster(s, m, g, n)
        PROVE  Done /\ row' = row /\ Sent
    BY <1>2, <1>3, <1>7 DEF DenyMember, ModifyMember, AppointSubmaster, ChangeGuildMaster
  <1>8. Done /\ (row' = row \/ \E n \in Characters : row' = [row EXCEPT ![n] = NoRow])
        /\ (toShared' = toShared \/ Sent)
    BY <1>4, <1>5, <1>6, <1>7 DEF PlayerActs
  <1> QED  BY <1>8 DEF Done, Sent

\* What players do keeps the invariant.
LEMMA ActsKeep ==
    ASSUME GuildInv, NEW s \in Servers, PlayerActs(s)
    PROVE  GuildInv'
  <1>1. TypeOK /\ LinesInv /\ CountsInv /\ TablesInv
    BY DEF GuildInv
  <1>2. /\ UNCHANGED <<up, guilds, maxID, info, copy, link, synced, toGame, trail, faults>>
        /\ requests' \in Nat
        /\ row' = row \/ \E n \in Characters : row' = [row EXCEPT ![n] = NoRow]
        /\ \/ toShared' = toShared
           \/ \E p \in Requests : /\ p.op # "RequestGuildInfo" /\ link[s] # "down"
                                  /\ toShared' = [toShared EXCEPT ![s] = Append(@, p)]
    BY <1>1, PlayersDo
  <1>3. Recorded
    <2>1. CASE row' = row
      BY <1>1, <1>2, <2>1, TablesSame
    <2>2. ASSUME NEW n \in Characters, row' = [row EXCEPT ![n] = NoRow]
          PROVE  Recorded
      <3>1. /\ row' \in Rows
            /\ \A h \in GuildIDs, m \in Characters :
                 RankOf(row', h, m) \in {"MASTER", "NORMAL"} => RankOf(row', h, m) = RankOf(row, h, m)
        <4>1. row \in Rows
          BY <1>1 DEF TypeOK
        <4>2. /\ [row EXCEPT ![n] = NoRow] \in Rows
              /\ \A h \in GuildIDs, m \in Characters :
                   RankOf([row EXCEPT ![n] = NoRow], h, m) =
                       IF m = n THEN "NONE" ELSE RankOf(row, h, m)
          BY <4>1, RowRemoved
        <4>3. \A h \in GuildIDs, m \in Characters :
                 RankOf(row', h, m) = IF m = n THEN "NONE" ELSE RankOf(row, h, m)
          BY <2>2, <4>2
        <4>4. row' \in Rows
          BY <2>2, <4>2
        <4> QED  BY <4>3, <4>4
      <3>2. Sound(info, row)'
        BY <1>1, <1>2, <3>1 DEF TablesInv, Sound
      <3>3. RestartRaisesNobody'
        BY <1>1, <1>2, <3>1 DEF TablesInv, RestartRaisesNobody
      <3>4. RecordsAgree' /\ MastersAgree'
        BY <1>1, <1>2 DEF TablesInv, RecordsAgree, MastersAgree
      <3> QED  BY <1>1, <1>2, <3>1, <3>2, <3>3, <3>4 DEF Recorded, TablesInv, TypeOK
    <2> QED  BY <1>2, <2>1, <2>2
  <1>4. /\ toShared' \in [Servers -> Seq(Requests)]
        /\ \A x \in Servers \ {s} : toShared'[x] = toShared[x]
        /\ AskedOnce(toShared'[s], trail[s], synced[s])
        /\ link[s] = "down" => toShared'[s] = <<>>
        /\ link[s] # "up" =>
              \A i \in 1 .. Len(toShared'[s]) : toShared'[s][i].op # "RequestGuildInfo"
    <2>1. CASE toShared' = toShared
      BY <1>1, <2>1, LineNow DEF TypeOK
    <2>2. ASSUME NEW p \in Requests, p.op # "RequestGuildInfo", link[s] # "down",
                 toShared' = [toShared EXCEPT ![s] = Append(@, p)]
          PROVE  /\ toShared' \in [Servers -> Seq(Requests)]
                 /\ \A x \in Servers \ {s} : toShared'[x] = toShared[x]
                 /\ AskedOnce(toShared'[s], trail[s], synced[s])
                 /\ link[s] = "down" => toShared'[s] = <<>>
                 /\ link[s] # "up" =>
                       \A i \in 1 .. Len(toShared'[s]) : toShared'[s][i].op # "RequestGuildInfo"
      <3>1. toShared[s] \in Seq(Requests) /\ AskedOnce(toShared[s], trail[s], synced[s])
        BY <1>1, LineNow
      <3>2. /\ Append(toShared[s], p) \in Seq(Requests) /\ Len(toShared[s]) \in Nat
            /\ Len(Append(toShared[s], p)) = Len(toShared[s]) + 1
            /\ Append(toShared[s], p)[Len(toShared[s]) + 1] = p
            /\ \A i \in 1 .. Len(toShared[s]) : Append(toShared[s], p)[i] = toShared[s][i]
        BY <3>1, AppendAt
      <3>3. AskedOnce(Append(toShared[s], p), trail[s], synced[s])
        BY <2>2, <3>1, AskedAppend
      <3>4. /\ toShared'[s] = Append(toShared[s], p) /\ toShared' \in [Servers -> Seq(Requests)]
            /\ \A x \in Servers \ {s} : toShared'[x] = toShared[x]
        BY <1>1, <2>2, <3>2 DEF TypeOK
      <3>5. ASSUME link[s] # "up"
            PROVE  \A i \in 1 .. Len(toShared'[s]) : toShared'[s][i].op # "RequestGuildInfo"
        <4>1. \A i \in 1 .. Len(toShared[s]) : toShared[s][i].op # "RequestGuildInfo"
          BY <1>1, <3>5, LineNow
        <4> QED  BY <2>2, <3>2, <3>4, <4>1
      <3> QED  BY <2>2, <3>3, <3>4, <3>5
    <2> QED  BY <1>2, <2>1, <2>2
  <1>5. LinkFits(s)'
    BY <1>1, <1>2, <1>4, LineNow DEF LinkFits
  <1>6. /\ copy' \in [Servers -> Tables] /\ synced' \in [Servers -> BOOLEAN]
        /\ link' \in [Servers -> {"down", "new", "up"}]
        /\ toGame' \in [Servers -> Seq(Packets)] /\ trail' \in [Servers -> Seq(Tables)]
        /\ faults' \in Nat
    BY <1>1, <1>2 DEF TypeOK
  <1>7. /\ Consistent(copy'[s]) /\ CountsSent(toGame'[s])
        /\ Line(toGame'[s], trail'[s], copy'[s], synced'[s], guilds)
        /\ AskedOnce(toShared'[s], trail'[s], synced'[s])
    BY <1>1, <1>2, <1>4, LineNow
  <1>8. \A x \in Servers \ {s} :
           /\ copy'[x] = copy[x] /\ link'[x] = link[x] /\ synced'[x] = synced[x]
           /\ toShared'[x] = toShared[x] /\ toGame'[x] = toGame[x] /\ trail'[x] = trail[x]
    BY <1>2, <1>4
  <1> QED  BY <1>2, <1>3, <1>4, <1>5, <1>6, <1>7, <1>8, LinkKeeps

\* What a start reads.
LEMMA LoadedType ==
    ASSUME NEW infos \in Infos, NEW rows \in Rows
    PROVE  /\ Loaded(infos, rows) \in Tables /\ Consistent(Loaded(infos, rows))
           /\ \A g \in GuildIDs :
                 /\ infos[g] = NoGuild => Loaded(infos, rows)[g] = NoGuild
                 /\ infos[g] # NoGuild =>
                       /\ Loaded(infos, rows)[g] # NoGuild
                       /\ Loaded(infos, rows)[g].state = infos[g].state
                       /\ Loaded(infos, rows)[g].master = infos[g].master
                       /\ \A n \in Characters :
                             Loaded(infos, rows)[g].rank[n] = RankOf(rows, g, n)
  <1> DEFINE v == Loaded(infos, rows)
  <1>1. \A g \in GuildIDs : infos[g] = NoGuild => v[g] = NoGuild
    BY DEF Loaded
  <1>2. ASSUME NEW g \in GuildIDs, infos[g] # NoGuild
        PROVE  /\ v[g] \in Guilds /\ v[g] # NoGuild /\ Counts(v[g])
               /\ v[g].state = infos[g].state /\ v[g].master = infos[g].master
               /\ \A n \in Characters : v[g].rank[n] = RankOf(rows, g, n)
    <2> DEFINE rank == [n \in Characters |-> RankOf(rows, g, n)]
               S == {n \in Characters : RankOf(rows, g, n) \in Counted}
               U == {n \in Characters : RankOf(rows, g, n) = "WAIT"}
               gd == [state |-> infos[g].state, master |-> infos[g].master, rank |-> rank,
                      active |-> Cardinality(S), waiting |-> Cardinality(U)]
    <2>1. v[g] = gd
      BY <1>2 DEF Loaded
    <2>2. IsFiniteSet(S) /\ IsFiniteSet(U)
      BY SentinelAssumption, FS_Subset
    <2>3. Cardinality(S) \in Int /\ Cardinality(U) \in Int
      BY <2>2, FS_CardinalityType
    <2>4. rank \in [Characters -> Ranks \cup {"NONE"}]
      BY DEF RankOf
    <2>5. infos[g].state \in {"WAIT", "ACTIVE"} /\ infos[g].master \in Characters
      BY <1>2 DEF Infos
    <2>6. /\ gd \in Guilds
          /\ gd.state = infos[g].state /\ gd.master = infos[g].master /\ gd.rank = rank
          /\ gd.active = Cardinality(S) /\ gd.waiting = Cardinality(U)
      <3> HIDE DEF rank, S, U
      <3> QED  BY <2>3, <2>4, <2>5 DEF Guilds
    <2> HIDE DEF gd
    <2>7. \A n \in Characters : gd.rank[n] = RankOf(rows, g, n)
      BY <2>6
    <2>8. /\ {n \in Characters : gd.rank[n] \in Counted} = S
          /\ {n \in Characters : gd.rank[n] = "WAIT"} = U
      BY <2>7
    <2>9. Counts(gd)
      <3> HIDE DEF S, U, rank
      <3> QED  BY <2>6, <2>8 DEF Counts
    <2> HIDE DEF v
    <2> QED  BY <2>1, <2>6, <2>7, <2>9, NoGuildIsNone
  <1>3. v = [g \in GuildIDs |-> v[g]]
    BY DEF Loaded
  <1> HIDE DEF v
  <1>4. v \in Tables /\ Consistent(v)
    BY <1>1, <1>2, <1>3 DEF Tables, Consistent
  <1> QED  BY <1>1, <1>2, <1>4 DEF v

\* The tables as a start reads them keep the invariant.
LEMMA RestartKeeps ==
    ASSUME GuildInv, Restart
    PROVE  GuildInv'
  <1>1. TypeOK /\ LinesInv /\ CountsInv /\ TablesInv
    BY DEF GuildInv
  <1>2. /\ ~up /\ up' = TRUE /\ guilds' = Loaded(info, row)
        /\ maxID' \in GuildIDs \cup {0} /\ IsLastID(info, maxID')
        /\ UNCHANGED <<info, row, copy, link, synced, toShared, toGame, trail, requests, faults>>
    BY DEF Restart
  <1>3. info \in Infos /\ row \in Rows /\ Sound(info, row)
    BY <1>1 DEF TypeOK, TablesInv
  <1>4. /\ guilds' \in Tables /\ Consistent(guilds')
        /\ \A g \in GuildIDs :
              /\ info[g] = NoGuild => guilds'[g] = NoGuild
              /\ info[g] # NoGuild =>
                    /\ guilds'[g] # NoGuild
                    /\ guilds'[g].state = info[g].state
                    /\ guilds'[g].master = info[g].master
                    /\ \A n \in Characters : guilds'[g].rank[n] = RankOf(row, g, n)
    BY <1>2, <1>3, LoadedType
  <1>5. RecordsAgree'
    <2>1. \A g \in GuildIDs : info[g] # NoGuild => g <= maxID'
      BY <1>2 DEF IsLastID
    <2> QED  BY <1>2, <1>4, <2>1 DEF RecordsAgree
  <1>6. MastersAgree'
    BY <1>2, <1>3, <1>4 DEF MastersAgree, Sound
  <1>7. RestartRaisesNobody'
    BY <1>2, <1>3, <1>4 DEF RestartRaisesNobody, Sound
  <1>8. Recorded
    BY <1>2, <1>3, <1>5, <1>6, <1>7 DEF Recorded, TablesInv
  <1>9. ASSUME NEW s \in Servers
        PROVE  /\ Consistent(copy'[s]) /\ CountsSent(toGame'[s])
               /\ Line(toGame'[s], trail'[s], copy'[s], synced'[s], guilds')
               /\ AskedOnce(toShared'[s], trail'[s], synced'[s])
               /\ LinkFits(s)'
    <2>1. /\ toGame[s] = <<>> /\ trail[s] = <<>> /\ synced[s] = FALSE /\ toShared[s] = <<>>
          /\ Consistent(copy[s]) /\ CountsSent(toGame[s])
          /\ AskedOnce(toShared[s], trail[s], synced[s])
      BY <1>1, <1>2, LineNow
    <2>2. LinkFits(s)'
      BY <1>1, <1>2 DEF LinkFits, LinesInv
    <2>3. Line(toGame'[s], trail'[s], copy'[s], synced'[s], guilds')
      BY <1>2, <2>1, LineEmpty
    <2> QED  BY <1>2, <2>1, <2>2, <2>3
  <1>10. /\ up' \in BOOLEAN /\ copy' \in [Servers -> Tables]
         /\ link' \in [Servers -> {"down", "new", "up"}] /\ synced' \in [Servers -> BOOLEAN]
         /\ toShared' \in [Servers -> Seq(Requests)]
         /\ toGame' \in [Servers -> Seq(Packets)] /\ trail' \in [Servers -> Seq(Tables)]
         /\ requests' \in Nat /\ faults' \in Nat
    BY <1>1, <1>2 DEF TypeOK
  <1> QED  BY <1>4, <1>8, <1>9, <1>10, Together

\* The invariant holds at first, for tables that are sound.
LEMMA InitGuild == Init => GuildInv
  <1> SUFFICES ASSUME Init
               PROVE  GuildInv
    OBVIOUS
  <1>1. info \in Infos /\ row \in Rows /\ Sound(info, row)
    <2> PICK t \in InitTables : info = t.info /\ row = t.row
      BY DEF Init
    <2> QED  BY TablesAssumption
  <1>2. /\ up = FALSE /\ guilds = NoGuilds /\ maxID = 0 /\ copy = [s \in Servers |-> NoGuilds]
        /\ link = [s \in Servers |-> "down"] /\ synced = [s \in Servers |-> FALSE]
        /\ toShared = [s \in Servers |-> <<>>] /\ toGame = [s \in Servers |-> <<>>]
        /\ trail = [s \in Servers |-> <<>>] /\ requests = 0 /\ faults = 0
    BY DEF Init
  <1>3. NoGuilds \in Tables /\ Consistent(NoGuilds)
    BY DEF NoGuilds, Tables, Consistent
  <1>4. TypeOK
    <2>1. \A S : <<>> \in Seq(S)
      OBVIOUS
    <2> QED  BY <1>1, <1>2, <1>3, <2>1 DEF TypeOK
  <1>5. CountsInv
    BY <1>2, <1>3 DEF CountsInv
  <1>6. TablesInv
    BY <1>1, <1>2 DEF TablesInv, RecordsAgree, MastersAgree, RestartRaisesNobody, NoGuilds
  <1>7. LinesInv
    <2> SUFFICES ASSUME NEW s \in Servers
                 PROVE  /\ Line(toGame[s], trail[s], copy[s], synced[s], guilds)
                        /\ AskedOnce(toShared[s], trail[s], synced[s])
                        /\ LinkFits(s)
      BY DEF LinesInv
    <2>1. /\ toGame[s] = <<>> /\ trail[s] = <<>> /\ synced[s] = FALSE
          /\ toShared[s] = <<>> /\ link[s] = "down"
      BY <1>2
    <2>2. Line(toGame[s], trail[s], copy[s], synced[s], guilds)
      BY <2>1, LineEmpty
    <2>3. AskedOnce(toShared[s], trail[s], synced[s]) /\ LinkFits(s)
      BY <2>1 DEF AskedOnce, LinkFits
    <2> QED  BY <2>2, <2>3
  <1> QED  BY <1>4, <1>5, <1>6, <1>7 DEF GuildInv

\* What a request comes to.
LEMMA RequestStep ==
    ASSUME GuildInv, NEW s \in Servers, HandleRequest(s)
    PROVE  /\ up /\ toShared[s] # <<>>
           /\ \/ RequestGuildInfo(s) \/ Serves(s) \/ Ignored(s)
              \/ SharedServerEnds /\ UNCHANGED faults /\ Recorded
  <1>1. TypeOK /\ TablesInv
    BY DEF GuildInv
  <1>2. up /\ toShared[s] # <<>>
    BY DEF HandleRequest, RequestGuildInfo, AddGuild, AddGuildMember, ExpelGuildMember, QuitGuild,
           ModifyGuildMember, Asks
  <1>3. CASE RequestGuildInfo(s)
    BY <1>2, <1>3
  <1>4. CASE AddGuild(s)
    BY <1>1, <1>2, <1>4, AddGuildStep DEF Serves
  <1>5. CASE AddGuildMember(s)
    BY <1>1, <1>2, <1>5, AddMemberStep
  <1>6. CASE ExpelGuildMember(s)
    BY <1>1, <1>2, <1>6, ExpelStep
  <1>7. CASE QuitGuild(s)
    BY <1>1, <1>2, <1>7, QuitStep
  <1>8. CASE ModifyGuildMember(s)
    BY <1>1, <1>2, <1>8, ModifyStep
  <1> QED  BY <1>3, <1>4, <1>5, <1>6, <1>7, <1>8 DEF HandleRequest

\* A stop of the shared server leaves the tables as they are.
LEMMA CrashStep ==
    ASSUME GuildInv, Crash
    PROVE  SharedServerEnds /\ Recorded /\ up /\ faults' = faults + 1 /\ faults' \in Nat
  <1>1. TypeOK /\ TablesInv
    BY DEF GuildInv
  <1>2. SharedServerEnds /\ up /\ row' = row /\ faults' = faults + 1
    BY DEF Crash
  <1>3. info' = info /\ Sound(info', row') /\ row' \in Rows
    BY <1>1, <1>2 DEF SharedServerEnds, TablesInv, TypeOK
  <1>4. Recorded
    BY <1>1, <1>2, <1>3, EndsKeeps
  <1> QED  BY <1>1, <1>2, <1>4 DEF TypeOK

\* Every step keeps the invariant.
LEMMA NextGuild == GuildInv /\ [Next]_vars => GuildInv'
  <1> SUFFICES ASSUME GuildInv, [Next]_vars
               PROVE  GuildInv'
    OBVIOUS
  <1>1. TypeOK /\ TablesInv
    BY DEF GuildInv
  <1>2. CASE Crash
    BY <1>2, CrashStep, EndsKeepsInv
  <1>3. CASE Restart
    BY <1>3, RestartKeeps
  <1>4. ASSUME NEW g \in GuildIDs, NEW n \in Characters, ExpireApplicant(g, n)
        PROVE  GuildInv'
    <2>1. Told /\ Recorded
      BY <1>1, <1>4, ExpireStep
    <2>2. UNCHANGED <<up, copy, link, synced, toShared, requests, faults>>
      BY <1>4 DEF ExpireApplicant
    <2>3. /\ toShared' \in [Servers -> Seq(Requests)]
          /\ \A x \in Servers :
                /\ AskedOnce(toShared'[x], trail[x], synced[x])
                /\ link[x] = "down" => toShared'[x] = <<>>
                /\ link[x] # "up" =>
                      \A i \in 1 .. Len(toShared'[x]) : toShared'[x][i].op # "RequestGuildInfo"
      <3>1. toShared' = toShared /\ TypeOK /\ LinesInv /\ CountsInv
        BY <2>2 DEF GuildInv
      <3> QED  BY <3>1, LineNow DEF TypeOK
    <2> QED  BY <2>1, <2>2, <2>3, ToldKeeps
  <1>5. ASSUME NEW s \in Servers, HandleRequest(s)
        PROVE  GuildInv'
    <2>1. CASE RequestGuildInfo(s)
      BY <2>1, GiveKeeps
    <2>2. CASE Serves(s)
      BY <1>5, <2>2, RequestStep, ServesKeeps
    <2>3. CASE Ignored(s)
      BY <1>1, <1>5, <2>3, RequestStep, IgnoredServes, ServesKeeps
    <2>4. CASE SharedServerEnds /\ UNCHANGED faults /\ Recorded
      BY <1>1, <2>4, EndsKeepsInv DEF TypeOK
    <2> QED  BY <1>5, <2>1, <2>2, <2>3, <2>4, RequestStep
  <1>6. ASSUME NEW s \in Servers, Connect(s) \/ Ask(s) \/ Deliver(s) \/ LinkDown(s) \/ PlayerActs(s)
        PROVE  GuildInv'
    BY <1>6, ConnectKeeps, AskKeeps, DeliverKeeps, LinkDownKeeps, ActsKeep
  <1>7. CASE UNCHANGED vars
    <2>1. UNCHANGED <<up, guilds, maxID, info, row, copy, link, synced, toShared, toGame, trail,
                      requests, faults>>
      BY <1>7 DEF vars
    <2>2. Recorded /\ guilds' \in Tables
      BY <1>1, <2>1, TablesSame
    <2>3. TypeOK'
      BY <1>1, <2>1 DEF TypeOK
    <2>4. CountsInv' /\ LinesInv'
      BY <2>1 DEF GuildInv, CountsInv, LinesInv, LinkFits
    <2> QED  BY <2>2, <2>3, <2>4 DEF GuildInv, Recorded
  <1> QED  BY <1>2, <1>3, <1>4, <1>5, <1>6, <1>7 DEF Next

\* In every reachable state.
THEOREM GuildInvariant == Spec => []GuildInv
  <1> QED  BY InitGuild, NextGuild, PTL DEF Spec

-----------------------------------------------------------------------------
(* Part 6. The theorems. *)

\* Every variable has its type, whatever requests and packets are on their way.
THEOREM GuildTypeOK == Spec => []TypeOK
  <1>1. GuildInv => TypeOK
    BY DEF GuildInv
  <1> QED  BY <1>1, GuildInvariant, PTL

\* The counts on which a guild becomes active and ends are the numbers of its
\* members, in the shared server and in every copy.
THEOREM GuildCounts == Spec => []CountsAgree
  <1>1. GuildInv => CountsAgree
    <2> SUFFICES ASSUME GuildInv
                 PROVE  CountsAgree
      OBVIOUS
    <2>1. Consistent(guilds) /\ \A s \in Servers : Consistent(copy[s])
      BY DEF GuildInv, CountsInv
    <2> QED  BY <2>1 DEF CountsAgree, Consistent
  <1> QED  BY <1>1, GuildInvariant, PTL

\* Nobody but the one whom the guild and its record name has the rank MASTER, in
\* memory and in the rows, over every change of the master, end and restart.
THEOREM GuildHasOneMaster == Spec => []OneMaster
  <1>1. GuildInv => OneMaster
    BY DEF GuildInv, TablesInv, MastersAgree, Sound, OneMaster
  <1> QED  BY <1>1, GuildInvariant, PTL

\* A restart makes nobody a member or master who was not that before.
THEOREM GuildRestarts == Spec => []RestartRaisesNobody
  <1>1. GuildInv => RestartRaisesNobody
    BY DEF GuildInv, TablesInv
  <1> QED  BY <1>1, GuildInvariant, PTL

\* A game server that was given the guilds and has nothing more to take has the
\* guilds as they are: what is under way is all that keeps a copy behind.
THEOREM GuildQuietCopies == Spec => []QuietCopyIsCurrent
  <1>1. GuildInv => QuietCopyIsCurrent
    <2> SUFFICES ASSUME GuildInv, NEW s \in Servers, synced[s], toGame[s] = <<>>
                 PROVE  copy[s] = guilds
      BY DEF QuietCopyIsCurrent
    <2>1. Line(<<>>, trail[s], copy[s], TRUE, guilds) /\ trail[s] \in Seq(Tables)
      BY DEF GuildInv, LinesInv, TypeOK
    <2>2. trail[s] = <<>>
      BY <2>1 DEF Line
    <2> QED  BY <2>1, <2>2 DEF Line, Reached
  <1> QED  BY <1>1, GuildInvariant, PTL

\* A packet of the shared server never makes a game server that has been given
\* the guilds throw: it loses its connection only by a fault or an end.
THEOREM GuildLinkHolds == Spec => SyncedLinkHolds
  <1> DEFINE Held == \A s \in Servers :
                 synced[s] /\ link'[s] = "down" => (up /\ ~up') \/ faults' = faults + 1
  <1>1. GuildInv /\ [Next]_vars => Held
    <2> SUFFICES ASSUME GuildInv, [Next]_vars, NEW x \in Servers, synced[x], link'[x] = "down"
                 PROVE  (up /\ ~up') \/ faults' = faults + 1
      OBVIOUS
    <2>1. TypeOK /\ LinesInv /\ TablesInv
      BY DEF GuildInv
    <2>2. link[x] = "up" /\ link[x] # "down"
      BY <2>1 DEF LinesInv, LinkFits
    <2>3. link' # link
      BY <2>2
    <2>4. CASE Crash
      BY <2>4, CrashStep
    <2>5. CASE Restart
      BY <2>3, <2>5 DEF Restart
    <2>6. ASSUME NEW g \in GuildIDs, NEW n \in Characters, ExpireApplicant(g, n)
          PROVE  FALSE
      BY <2>3, <2>6 DEF ExpireApplicant
    <2>7. ASSUME NEW s \in Servers, HandleRequest(s)
          PROVE  up /\ ~up'
      <3>1. CASE RequestGuildInfo(s)
        BY <2>3, <3>1 DEF RequestGuildInfo, Served
      <3>2. CASE Serves(s) \/ Ignored(s)
        BY <2>3, <3>2 DEF Serves, Ignored, Served
      <3>3. CASE SharedServerEnds
        BY <2>7, <3>3, RequestStep DEF SharedServerEnds
      <3> QED  BY <2>7, <3>1, <3>2, <3>3, RequestStep
    <2>8. ASSUME NEW s \in Servers, Connect(s) \/ Ask(s)
          PROVE  FALSE
      BY <2>1, <2>2, <2>8 DEF Connect, Ask, TypeOK
    <2>9. ASSUME NEW s \in Servers, Deliver(s)
          PROVE  FALSE
      <3>1. Apply(Head(toGame[s]), copy[s]) = Failed /\ Cut({s}) /\ toGame[s] # <<>>
        BY <2>3, <2>9 DEF Deliver
      <3>2. s = x
        BY <2>2, <3>1 DEF Cut
      <3> QED  BY <3>1, <3>2, DueIsTaken
    <2>10. ASSUME NEW s \in Servers, LinkDown(s)
           PROVE  faults' = faults + 1
      BY <2>10 DEF LinkDown
    <2>11. ASSUME NEW s \in Servers, PlayerActs(s)
           PROVE  FALSE
      BY <2>1, <2>3, <2>11, PlayersDo
    <2>12. CASE UNCHANGED vars
      BY <2>3, <2>12 DEF vars
    <2> QED  BY <2>4, <2>5, <2>6, <2>7, <2>8, <2>9, <2>10, <2>11, <2>12 DEF Next
  <1>2. Held => [\A s \in Servers :
                    synced[s] /\ link'[s] = "down" => (up /\ ~up') \/ faults' = faults + 1]_vars
    OBVIOUS
  <1> QED  BY <1>1, <1>2, GuildInvariant, PTL DEF Spec, SyncedLinkHolds

-----------------------------------------------------------------------------
(* Part 7. The promise. *)

\* Who follows for the promise follows here.
LEMMA PromiseFollows ==
    ASSUME TypeOK, NEW s \in Servers
    PROVE  Promise!Follows(s) <=> Follows(s)
  <1>1. copy[s] # Unknown
    BY TablesAssumption DEF TypeOK
  <1> QED  BY <1>1 DEF Promise!Follows, Follows

\* What the guilds have become is due to all who follow.
LEMMA ToldChanges ==
    ASSUME TypeOK, Told, UNCHANGED <<copy, synced>>
    PROVE  Promise!Change
  <1>1. \A s \in Servers : Promise!Follows(s) <=> Follows(s)
    BY PromiseFollows
  <1>2. CASE ToldOne
    <2>1. \A s \in Servers : /\ ~Follows(s) => trail'[s] = trail[s]
                             /\ Follows(s) => trail'[s] = Append(trail[s], guilds')
      BY <1>2 DEF ToldOne, Broadcast
    <2> QED  BY <1>1, <2>1 DEF Promise!Change
  <1>3. CASE ToldTwo
    <2>1. PICK p \in Updates, q \in Updates :
              Apply(p, guilds) \in Tables /\ BroadcastBoth(p, Apply(p, guilds), q)
      BY <1>3 DEF ToldTwo
    <2> DEFINE w == Apply(p, guilds)
    <2>2. \A s \in Servers : /\ ~Follows(s) => trail'[s] = trail[s]
                             /\ Follows(s) => trail'[s] = Append(Append(trail[s], w), guilds')
      BY <2>1 DEF BroadcastBoth
    <2>3. guilds' \in Tables /\ w \in Tables
      BY <1>3, <2>1 DEF ToldTwo
    <2> HIDE DEF w
    <2>4. ASSUME NEW s \in Servers, Follows(s)
          PROVE  /\ Len(trail'[s]) = Len(trail[s]) + 2
                 /\ trail'[s][Len(trail[s]) + 1] = w
                 /\ trail'[s] = Append(Append(trail[s], w), guilds')
      <3>1. trail[s] \in Seq(Tables)
        BY DEF TypeOK
      <3>2. /\ Append(trail[s], w) \in Seq(Tables) /\ Len(Append(trail[s], w)) = Len(trail[s]) + 1
            /\ Append(trail[s], w)[Len(trail[s]) + 1] = w /\ Len(trail[s]) \in Nat
        BY <2>3, <3>1, AppendAt
      <3> DEFINE u == Append(trail[s], w)
      <3> HIDE DEF u
      <3>3. /\ u \in Seq(Tables) /\ Len(u) = Len(trail[s]) + 1 /\ u[Len(trail[s]) + 1] = w
            /\ trail'[s] = Append(u, guilds')
        BY <2>2, <2>4, <3>2 DEF u
      <3>4. Len(Append(u, guilds')) = Len(u) + 1 /\ \A i \in 1 .. Len(u) : Append(u, guilds')[i] = u[i]
        BY <2>3, <3>3, AppendAt
      <3> QED  BY <3>2, <3>3, <3>4 DEF u
    <2>5. \A s \in Servers : Promise!Follows(s) =>
              /\ Len(trail'[s]) = Len(trail[s]) + 2
              /\ trail'[s] = Append(Append(trail[s], trail'[s][Len(trail[s]) + 1]), guilds')
              /\ \A t \in Servers : Promise!Follows(t) =>
                     trail'[t][Len(trail[t]) + 1] = trail'[s][Len(trail[s]) + 1]
      BY <1>1, <2>4
    <2> QED  BY <1>1, <2>2, <2>5 DEF Promise!Change
  <1> QED  BY <1>2, <1>3 DEF Told

\* The connections of lost end.
LEMMA CutLoses ==
    ASSUME TypeOK, NEW s \in Servers, Cut({s}), UNCHANGED <<copy, guilds>>
    PROVE  Promise!Lose(s)
  <1>1. trail' = [trail EXCEPT ![s] = <<>>]
    BY DEF Cut, TypeOK
  <1>2. [x \in Servers |-> IF synced'[x] THEN copy'[x] ELSE Unknown] =
        [[x \in Servers |-> IF synced[x] THEN copy[x] ELSE Unknown] EXCEPT ![s] = Unknown]
    BY DEF Cut, TypeOK
  <1> QED  BY <1>1, <1>2 DEF Promise!Lose

\* When the shared server ends, nobody follows it.
LEMMA EndsResets ==
    ASSUME SharedServerEnds
    PROVE  Promise!Reset
  <1>1. trail' = [s \in Servers |-> <<>>] /\ \A s \in Servers : ~synced'[s]
    BY DEF SharedServerEnds, Cut
  <1> QED  BY <1>1 DEF Promise!Reset

\* When it starts, nobody follows it yet.
LEMMA RestartResets ==
    ASSUME GuildInv, Restart
    PROVE  Promise!Reset
  <1>1. UNCHANGED <<copy, synced, trail>> /\ TypeOK
    BY DEF Restart, GuildInv
  <1>2. \A s \in Servers : ~synced[s] /\ trail[s] = <<>>
    BY LineNow DEF Restart, GuildInv
  <1>3. trail' = [s \in Servers |-> <<>>]
    BY <1>1, <1>2 DEF TypeOK
  <1> QED  BY <1>1, <1>2, <1>3 DEF Promise!Reset

\* A packet that is handled is the value due, or comes before all guilds are given.
LEMMA DeliverTakes ==
    ASSUME GuildInv, NEW s \in Servers, Deliver(s)
    PROVE  [Promise!Next]_(Promise!vars)
  <1> DEFINE p == Head(toGame[s])
             w == Apply(p, copy[s])
             z == synced[s] \/ p.op = "GuildInfo"
  <1>1. TypeOK /\ guilds' = guilds /\ toGame[s] # <<>>
    BY DEF GuildInv, Deliver
  <1>2. CASE w = Failed
    <2>1. Cut({s}) /\ copy' = copy
      BY <1>2 DEF Deliver
    <2> QED  BY <1>1, <2>1, CutLoses DEF Promise!Next
  <1>3. CASE w # Failed
    <2>1. /\ copy' = [copy EXCEPT ![s] = w] /\ synced' = [synced EXCEPT ![s] = z]
          /\ trail' = IF synced'[s] THEN [trail EXCEPT ![s] = Tail(@)] ELSE trail
      BY <1>3 DEF Deliver
    <2>2. synced'[s] = z /\ copy'[s] = w
      BY <1>1, <2>1 DEF TypeOK
    <2>3. CASE z
      <3>1. trail[s] # <<>> /\ w = Head(trail[s])
        BY <1>1, <2>3, DueIsTaken
      <3>2. trail' = [trail EXCEPT ![s] = Tail(trail[s])]
        BY <2>1, <2>2, <2>3
      <3>3. synced' = [synced EXCEPT ![s] = TRUE]
        BY <2>1, <2>3
      <3> HIDE DEF w, z, p
      <3>4. [x \in Servers |-> IF synced'[x] THEN copy'[x] ELSE Unknown] =
            [[x \in Servers |-> IF synced[x] THEN copy[x] ELSE Unknown] EXCEPT ![s] = w]
        BY <1>1, <2>1, <3>3 DEF TypeOK
      <3>5. Promise!Take(s)
        BY <1>1, <3>1, <3>2, <3>4 DEF Promise!Take
      <3> QED  BY <3>5 DEF Promise!Next
    <2>4. CASE ~z
      <3>1. trail' = trail /\ ~synced[s] /\ ~synced'[s]
        BY <2>1, <2>2, <2>4
      <3> HIDE DEF w, z, p
      <3>2. [x \in Servers |-> IF synced'[x] THEN copy'[x] ELSE Unknown] =
            [x \in Servers |-> IF synced[x] THEN copy[x] ELSE Unknown]
        BY <1>1, <2>1, <3>1 DEF TypeOK
      <3> QED  BY <1>1, <3>1, <3>2 DEF Promise!vars
    <2> QED  BY <2>3, <2>4
  <1> QED  BY <1>2, <1>3

\* All guilds are given to a server that does not follow.
LEMMA GiveGives ==
    ASSUME GuildInv, NEW s \in Servers, RequestGuildInfo(s)
    PROVE  Promise!Give(s)
  <1>1. ~synced[s] /\ trail[s] = <<>>
    BY GiveKeeps
  <1>2. trail' = [trail EXCEPT ![s] = <<guilds>>] /\ UNCHANGED <<guilds, copy, synced>>
    BY DEF RequestGuildInfo, Served
  <1>3. ~Promise!Follows(s)
    BY <1>1, PromiseFollows DEF Follows, GuildInv
  <1> QED  BY <1>2, <1>3 DEF Promise!Give

\* Nothing of the promise changes.
LEMMA PromiseStays ==
    ASSUME UNCHANGED <<guilds, copy, synced, trail>>
    PROVE  UNCHANGED Promise!vars
  BY DEF Promise!vars

\* From the packet with all guilds on, a copy takes the values the guilds had, in
\* their order and none left out, whatever is lost, ends and restarts around it.
THEOREM GuildImplementsReplica == Spec => ImplementsReplica
  <1>1. Init => Promise!Init
    BY DEF Init, Promise!Init
  <1>2. GuildInv /\ [Next]_vars => [Promise!Next]_(Promise!vars)
    <2> SUFFICES ASSUME GuildInv, [Next]_vars
                 PROVE  [Promise!Next]_(Promise!vars)
      OBVIOUS
    <2>1. TypeOK /\ TablesInv
      BY DEF GuildInv
    <2>2. CASE Crash
      BY <2>2, CrashStep, EndsResets DEF Promise!Next
    <2>3. CASE Restart
      BY <2>3, RestartResets DEF Promise!Next
    <2>4. ASSUME NEW g \in GuildIDs, NEW n \in Characters, ExpireApplicant(g, n)
          PROVE  Promise!Next
      <3>1. UNCHANGED <<copy, synced>>
        BY <2>4 DEF ExpireApplicant
      <3> QED  BY <2>1, <2>4, <3>1, ExpireStep, ToldChanges DEF Promise!Next
    <2>5. ASSUME NEW s \in Servers, HandleRequest(s)
          PROVE  [Promise!Next]_(Promise!vars)
      <3>1. CASE RequestGuildInfo(s)
        BY <3>1, GiveGives DEF Promise!Next
      <3>2. CASE Serves(s) \/ Ignored(s)
        <4>1. Serves(s)
          BY <2>1, <3>2, IgnoredServes
        <4>2. UNCHANGED <<copy, synced>> /\ (Told \/ UNCHANGED <<guilds, toGame, trail>>)
          BY <4>1 DEF Serves, Served
        <4>3. CASE Told
          BY <2>1, <4>2, <4>3, ToldChanges DEF Promise!Next
        <4>4. CASE UNCHANGED <<guilds, toGame, trail>>
          BY <4>2, <4>4, PromiseStays
        <4> QED  BY <4>2, <4>3, <4>4
      <3>3. CASE SharedServerEnds
        BY <3>3, EndsResets DEF Promise!Next
      <3> QED  BY <2>5, <3>1, <3>2, <3>3, RequestStep
    <2>6. ASSUME NEW s \in Servers, Connect(s) \/ Ask(s)
          PROVE  UNCHANGED Promise!vars
      BY <2>6, PromiseStays DEF Connect, Ask
    <2>7. ASSUME NEW s \in Servers, Deliver(s)
          PROVE  [Promise!Next]_(Promise!vars)
      BY <2>7, DeliverTakes
    <2>8. ASSUME NEW s \in Servers, LinkDown(s)
          PROVE  Promise!Next
      <3>1. Cut({s}) /\ UNCHANGED <<copy, guilds>>
        BY <2>8 DEF LinkDown
      <3> QED  BY <2>1, <3>1, CutLoses DEF Promise!Next
    <2>9. ASSUME NEW s \in Servers, PlayerActs(s)
          PROVE  UNCHANGED Promise!vars
      BY <2>1, <2>9, PlayersDo, PromiseStays
    <2>10. CASE UNCHANGED vars
      BY <2>10, PromiseStays DEF vars
    <2> QED  BY <2>2, <2>3, <2>4, <2>5, <2>6, <2>7, <2>8, <2>9, <2>10 DEF Next
  <1> QED  BY <1>1, <1>2, GuildInvariant, PTL DEF Spec, ImplementsReplica, Promise!Spec

=============================================================================
