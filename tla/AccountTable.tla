----------------------------- MODULE AccountTable -----------------------------
(***************************************************************************)
(* What the login server and the game server share: the LogOn and LoginIP  *)
(* columns of the Player table, the datagrams they exchange over UDP, and  *)
(* the reconnect keys clients carry from one server to the other.          *)
(*                                                                         *)
(* An account has one character, named like it: PlayerID and PCName range  *)
(* over Accounts.  The SQL statements the servers run are one operator     *)
(* each, with the WHERE clause they have.                                  *)
(***************************************************************************)
EXTENDS Naturals, FiniteSets

CONSTANTS Accounts,    \* PlayerID, and the name of the account's character
          Hosts,       \* client IP addresses
          LoginSockets, \* descriptors of the login server's connections
          GameSockets, \* descriptors of the game server's, numbered from the same range
          Keys,        \* values of the reconnect keys drawn with rand()
          MaxInFlight, \* datagrams the UDP receive queues hold before they drop
          MaxTickets,  \* reconnect packets clients hold at one time
          Nobody       \* no account: m_ID is "NONE" or "", no character name, no creature

\* What the ID field of a kick datagram may hold.
Sockets == LoginSockets \cup GameSockets

ASSUME NobodyAssumption == Nobody \notin Accounts \cup Hosts \cup Sockets \cup Keys
ASSUME BoundAssumption == MaxInFlight \in Nat /\ MaxTickets \in Nat

VARIABLES logon,    \* Player.LogOn
          loginIP,  \* Player.LoginIP
          net,      \* datagrams in flight
          tickets   \* LCReconnect and GCReconnectLogin packets clients hold

dbVars == <<logon, loginIP>>
linkVars == <<net, tickets>>

LogOnValues == {"LOGOFF", "LOGON", "GAME"}

-----------------------------------------------------------------------------
(* Datagrams between the servers. *)

\* LGIncomingConnection and GLIncomingConnection: let this client in.
IncomingRequests ==
    [type : {"LGIncoming", "GLIncoming"}, host : Hosts, id : Accounts]

\* GLIncomingConnectionOK and LGIncomingConnectionOK: it may come, with this key.
IncomingReplies ==
    [type : {"GLIncomingOK", "LGIncomingOK"}, id : Accounts, key : Keys]

\* LGIncomingConnectionError: there is an entry for that host already.
IncomingErrors == [type : {"LGIncomingError"}, id : Accounts]

\* LGKickCharacter and its answer GLKickVerify; sock is the packet's ID field.
\* try tells the retransmissions of one session apart, which are separate datagrams.
KickDatagrams ==
    [type : {"LGKick", "GLKickVerify"}, sock : Sockets, name : Accounts, try : Nat]

Datagrams == IncomingRequests \cup IncomingReplies \cup IncomingErrors \cup KickDatagrams

(***************************************************************************)
(* Handling one datagram and sending others.  UDP loses what it likes, and *)
(* a full receive queue drops; sendPacket reports neither.                 *)
(***************************************************************************)
Exchange(received, sent) ==
    LET rest == net \ received
    IN  net' \in {rest} \cup {n \in {rest \cup sent} : Cardinality(n) <= MaxInFlight}

Send(sent) == Exchange({}, sent)
Receive(m) == Exchange({m}, {})

-----------------------------------------------------------------------------
(* Reconnect packets: a client told to change servers carries id and key. *)

Tickets == [to : {"game", "login"}, host : Hosts, id : Accounts, key : Keys]

\* The client may be gone, or give up before it uses the packet.
Hand(ts) == {t \in {tickets \cup ts} : Cardinality(t) <= MaxTickets} \cup {tickets}

\* A client throws its reconnect packet away: it quits instead of reconnecting.
ClientGivesUp(t) ==
    /\ t \in tickets
    /\ tickets' = tickets \ {t}
    /\ UNCHANGED <<dbVars, net>>

-----------------------------------------------------------------------------
(* The UPDATE statements on Player, as the value of LogOn after them. *)

\* ... SET LogOn = new WHERE PlayerID = id AND LogOn = old
UpdateWhere(id, old, new) ==
    [a \in Accounts |-> IF a = id /\ logon[a] = old THEN new ELSE logon[a]]

\* ... SET LogOn = new WHERE LogOn = old (a server's own rows, when it starts)
UpdateAllWhere(old, new) ==
    [a \in Accounts |-> IF logon[a] = old THEN new ELSE logon[a]]

\* Mutant: whoever asks may have the row.
RowFree_Always(a) == TRUE

\* The row a guarded UPDATE may take.
RowFree(a) == logon[a] = "LOGOFF"

TableTypeOK ==
    /\ logon \in [Accounts -> LogOnValues]
    /\ loginIP \in [Accounts -> Hosts \cup {Nobody}]

LinkTypeOK ==
    /\ net \subseteq Datagrams
    /\ tickets \subseteq Tickets

TableInit ==
    /\ logon = [a \in Accounts |-> "LOGOFF"]
    /\ loginIP = [a \in Accounts |-> Nobody]

LinkInit ==
    /\ net = {}
    /\ tickets = {}
=============================================================================
