--------------------------------- MODULE MCGuild -------------------------------
(***************************************************************************)
(* Guild for TLC: what the tables may hold at the start.                   *)
(***************************************************************************)
EXTENDS Guild, TLC

CONSTANTS a, b, c

Of(state, n) == [state |-> state, master |-> n]
Holds(g, r) == [guild |-> g, rank |-> r, expired |-> FALSE]

\* An active guild with an applicant, one that waits for members, and both.
MCInitTables ==
    {[info |-> <<Of("ACTIVE", a), NoGuild>>,
      row |-> (a :> Holds(1, "MASTER") @@ b :> Holds(1, "NORMAL") @@ c :> Holds(1, "WAIT"))],
     [info |-> <<Of("WAIT", a), NoGuild>>,
      row |-> (a :> Holds(1, "MASTER") @@ b :> NoRow @@ c :> NoRow)],
     [info |-> <<Of("ACTIVE", a), Of("WAIT", c)>>,
      row |-> (a :> Holds(1, "MASTER") @@ b :> Holds(1, "SUBMASTER")
               @@ c :> Holds(2, "MASTER"))]}
=============================================================================
