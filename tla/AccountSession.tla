---------------------------- MODULE AccountSession ----------------------------
(***************************************************************************)
(* What the login and game servers promise about an account, with the      *)
(* login sessions, the datagrams, the keys and the player managers taken   *)
(* away: the LogOn row goes from one holder to the next, and a character   *)
(* is played by one game connection at a time.                             *)
(***************************************************************************)
EXTENDS FiniteSets

CONSTANTS Accounts, Connections, Nobody

VARIABLES row,    \* the LogOn column of each account
          owner,  \* the account each game connection was let in for, or Nobody
          player  \* the connection that plays each character, or Nobody

sessionVars == <<row, owner, player>>

SessionInit ==
    /\ row = [a \in Accounts |-> "LOGOFF"]
    /\ owner = [c \in Connections |-> Nobody]
    /\ player = [a \in Accounts |-> Nobody]

\* The row changes hands; nobody enters or leaves the game.
RowMoves(a, from, to) ==
    /\ row[a] = from
    /\ row' = [row EXCEPT ![a] = to]
    /\ UNCHANGED <<owner, player>>

LogIn(a) == RowMoves(a, "LOGOFF", "LOGON")
LogOut(a) == RowMoves(a, "LOGON", "LOGOFF")

\* A second login takes the row of a character that is in the game.
TakeOver(a) == RowMoves(a, "GAME", "LOGON")

\* A connection that is turned away takes the row of another with it.
Refuse(a) == RowMoves(a, "GAME", "LOGOFF")

\* A game connection is let in: it takes the free row.
Connect(a, c) ==
    /\ row[a] = "LOGOFF"
    /\ owner[c] = Nobody
    /\ row' = [row EXCEPT ![a] = "GAME"]
    /\ owner' = [owner EXCEPT ![c] = a]
    /\ UNCHANGED player

\* ... and its character is put into the game, unless it is there already.
Enter(a, c) ==
    /\ owner[c] = a
    /\ player[a] = Nobody
    /\ player' = [player EXCEPT ![a] = c]
    /\ UNCHANGED <<row, owner>>

\* A game connection ends.  A GAME row is freed.
Leave(a, c) ==
    /\ owner[c] = a
    /\ owner' = [owner EXCEPT ![c] = Nobody]
    /\ row' = [row EXCEPT ![a] = IF @ = "GAME" THEN "LOGOFF" ELSE @]
    /\ player' = [player EXCEPT ![a] = IF @ = c THEN Nobody ELSE @]

\* A second connection that finds its character in the game goes, and leaves
\* the row to the first.
Bounce(a, c) ==
    /\ owner[c] = a
    /\ player[a] \notin {Nobody, c}
    /\ owner' = [owner EXCEPT ![c] = Nobody]
    /\ UNCHANGED <<row, player>>

LoginRestart ==
    /\ row' = [a \in Accounts |-> IF row[a] = "LOGON" THEN "LOGOFF" ELSE row[a]]
    /\ UNCHANGED <<owner, player>>

GameRestart ==
    /\ row' = [a \in Accounts |-> IF row[a] = "GAME" THEN "LOGOFF" ELSE row[a]]
    /\ owner' = [c \in Connections |-> Nobody]
    /\ player' = [a \in Accounts |-> Nobody]

SessionNext ==
    \/ \E a \in Accounts :
          \/ LogIn(a) \/ LogOut(a) \/ TakeOver(a) \/ Refuse(a)
          \/ \E c \in Connections : Connect(a, c) \/ Enter(a, c) \/ Leave(a, c) \/ Bounce(a, c)
    \/ LoginRestart
    \/ GameRestart

SessionSpec == SessionInit /\ [][SessionNext]_sessionVars
=============================================================================
