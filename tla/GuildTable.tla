------------------------------- MODULE GuildTable ------------------------------
(***************************************************************************)
(* The guilds a program holds: the classes GuildManager and Guild, which   *)
(* the shared server and the game servers are both built with, and what    *)
(* each SG...OK packet does to the guilds of the game server it reaches.   *)
(***************************************************************************)
EXTENDS Integers, FiniteSets

CONSTANTS Characters, GuildIDs,
          NoGuild,  \* an ID without a guild
          Failed    \* a handler has thrown

\* The ranks that getActiveMemberCount counts, and the rank of an applicant.
Counted == {"MASTER", "SUBMASTER", "NORMAL"}
Ranks == Counted \cup {"WAIT"}

Guilds == [state : {"WAIT", "ACTIVE"}, master : Characters,
           rank : [Characters -> Ranks \cup {"NONE"}], active : Int, waiting : Int]

Tables == [GuildIDs -> Guilds \cup {NoGuild}]

ASSUME SentinelAssumption ==
    /\ NoGuild \notin Guilds /\ Failed \notin Tables
    /\ GuildIDs \subseteq Nat \ {0} /\ IsFiniteSet(Characters)

NewGuild(n) == [state |-> "WAIT", master |-> n,
                rank |-> [m \in Characters |-> "NONE"], active |-> 0, waiting |-> 0]

One(holds) == IF holds THEN 1 ELSE 0

\* Mutant: modifyMemberRank that forgets the applicants.
SetRank_ActiveOnly(g, n, r) ==
    [g EXCEPT !.rank[n] = r,
              !.active = @ - One(g.rank[n] \in Counted) + One(r \in Counted)]

\* The rank of n becomes r, and m_ActiveMemberCount and m_WaitMemberCount follow.
SetRank(g, n, r) ==
    [g EXCEPT !.rank[n] = r,
              !.active = @ - One(g.rank[n] \in Counted) + One(r \in Counted),
              !.waiting = @ - One(g.rank[n] = "WAIT") + One(r = "WAIT")]

IsMember(g, n) == g.rank[n] # "NONE"

\* Mutant: a member who is only marked.
DeleteMember_Marks(g, n) == SetRank(g, n, "DENY")

DeleteMember(g, n) == SetRank(g, n, "NONE")

ModifyMemberRank(g, n, r) == IF IsMember(g, n) THEN SetRank(g, n, r) ELSE g

\* Mutant: the old master keeps his rank.
ChangeMaster_KeepsRank(g, n) == [ModifyMemberRank(g, n, "MASTER") EXCEPT !.master = n]

\* The master gets the rank of n, who takes his place.
ChangeMaster(g, n) ==
    [ModifyMemberRank(ModifyMemberRank(g, g.master, g.rank[n]), n, "MASTER")
        EXCEPT !.master = n]

\* In the table v, guild g becomes that.
Put(v, g, that) == [v EXCEPT ![g] = that]

-----------------------------------------------------------------------------
(* The handlers of a game server: the table that each makes of table v. *)

\* Mutant: without clear_NOBLOCKED.
GuildInfo_Keeps(v, p) == [g \in GuildIDs |-> IF p.table[g] = NoGuild THEN v[g] ELSE p.table[g]]

GuildInfo(v, p) == p.table

AddGuildOK(v, p) == IF v[p.guild] = NoGuild THEN Put(v, p.guild, NewGuild(p.name)) ELSE Failed

AddGuildMemberOK(v, p) ==
    IF v[p.guild] = NoGuild THEN v
    ELSE IF IsMember(v[p.guild], p.name) THEN Failed
    ELSE Put(v, p.guild, SetRank(v[p.guild], p.name, p.rank))

ModifyGuildOK(v, p) ==
    IF v[p.guild] = NoGuild THEN Failed
    ELSE Put(v, p.guild, [v[p.guild] EXCEPT !.state = "ACTIVE"])

DeleteGuildOK(v, p) == Put(v, p.guild, NoGuild)

\* Mutant: applicants stay.
GuildMemberGoneOK_NotApplicants(v, p) ==
    IF v[p.guild] = NoGuild \/ v[p.guild].rank[p.name] = "WAIT" THEN v
    ELSE Put(v, p.guild, DeleteMember(v[p.guild], p.name))

\* SGExpelGuildMemberOK and SGQuitGuildOK.
GuildMemberGoneOK(v, p) ==
    IF v[p.guild] = NoGuild THEN v ELSE Put(v, p.guild, DeleteMember(v[p.guild], p.name))

ModifyGuildMemberOK(v, p) ==
    IF v[p.guild] = NoGuild \/ ~IsMember(v[p.guild], p.name) THEN v
    ELSE IF p.rank = "MASTER" /\ v[p.guild].rank[p.name] # "MASTER"
         THEN Put(v, p.guild, ChangeMaster(v[p.guild], p.name))
         ELSE Put(v, p.guild, ModifyMemberRank(v[p.guild], p.name, p.rank))

Apply(p, v) ==
    CASE p.op = "GuildInfo" -> GuildInfo(v, p)
      [] p.op = "AddGuildOK" -> AddGuildOK(v, p)
      [] p.op = "AddGuildMemberOK" -> AddGuildMemberOK(v, p)
      [] p.op = "ModifyGuildOK" -> ModifyGuildOK(v, p)
      [] p.op = "DeleteGuildOK" -> DeleteGuildOK(v, p)
      [] p.op = "GuildMemberGoneOK" -> GuildMemberGoneOK(v, p)
      [] p.op = "ModifyGuildMemberOK" -> ModifyGuildMemberOK(v, p)

Packets ==
    [op : {"GuildInfo"}, table : Tables] \cup
    [op : {"AddGuildOK", "GuildMemberGoneOK"}, guild : GuildIDs, name : Characters] \cup
    [op : {"AddGuildMemberOK", "ModifyGuildMemberOK"},
     guild : GuildIDs, name : Characters, rank : Ranks] \cup
    [op : {"ModifyGuildOK", "DeleteGuildOK"}, guild : GuildIDs]
=============================================================================
