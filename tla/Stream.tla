--------------------------------- MODULE Stream --------------------------------
(***************************************************************************)
(* One direction of a connection: the SocketOutputStream of the program    *)
(* that writes packets, TCP, and the SocketInputStream and processCommand  *)
(* of the one that reads them.  Both run in a loop of their own thread.    *)
(*                                                                         *)
(* A byte is its place in all that was written.  A packet is its header,   *)
(* whose first byte tells which packet it is, and its body.                *)
(***************************************************************************)
EXTENDS Ring

CONSTANTS OutputBufferLen, InputBufferLen,
          HeaderLen,    \* szPacketHeader
          BodyLens,     \* sizes of packets
          Modulus,      \* 256: m_Sequence is a BYTE
          MaxPackets    \* bound: packets written

ASSUME BufferAssumption ==
    /\ OutputBufferLen \in Nat \ {0} /\ InputBufferLen \in Nat \ {0}
    /\ HeaderLen \in 1 .. InputBufferLen - 1 /\ BodyLens \subseteq Nat
    /\ Modulus \in Nat \ {0} /\ MaxPackets \in Nat

VARIABLES out,      \* the output buffer
          packets,  \* history: where each packet begins, and its size
          tcp,      \* history: the bytes the socket has taken
          received, \* how many of them receive has handed out
          in,       \* the input buffer
          reader,   \* GamePlayer checks sequence numbers, the others do not
          sequence, \* m_Sequence of the reader
          turn,     \* of the reader's loop: processInput, or within processCommand
          conn,     \* open, or why the reader disconnected
          got       \* history: the packets read

vars == <<out, packets, tcp, received, in, reader, sequence, turn, conn, got>>

Packets == [first : Nat \ {0}, len : BodyLens]

\* Where the packet after packet k begins.
NextFirst(k) == packets[k].first + HeaderLen + packets[k].len

\* All that was written.
Written == IF packets = <<>> THEN 0 ELSE NextFirst(Len(packets)) - 1

\* m_Sequence of the writer when it wrote packet k.
SequenceOf(k) == (k - 1) % Modulus

Bytes(first, n) == [i \in 1 .. n |-> first + i - 1]

PacketBytes(k) == Bytes(packets[k].first, HeaderLen + packets[k].len)

Init ==
    /\ out = NewRing(OutputBufferLen)
    /\ packets = <<>> /\ tcp = <<>> /\ received = 0
    /\ in = NewRing(InputBufferLen)
    /\ reader \in {"GamePlayer", "LoginPlayer"}
    /\ sequence = 0 /\ turn = "input" /\ conn = "open" /\ got = <<>>

-----------------------------------------------------------------------------
(* The writer. *)

\* writePacket: the header, then the body.
WritePacket(len) ==
    /\ Len(packets) < MaxPackets
    /\ packets' = Append(packets, [first |-> Written + 1, len |-> len])
    /\ out' = Write(Write(out, Bytes(Written + 1, HeaderLen)),
                    Bytes(Written + 1 + HeaderLen, len))
    /\ UNCHANGED <<tcp, received, in, reader, sequence, turn, conn, got>>

\* flush: the socket takes n bytes before it takes none.
Flush(n) ==
    /\ n <= Length(out)
    /\ tcp' = tcp \o Peek(out, n)
    /\ out' = Flushed(out, n)
    /\ UNCHANGED <<packets, received, in, reader, sequence, turn, conn, got>>

-----------------------------------------------------------------------------
(* The reader: processInput, which calls fill. *)

\* n bytes from the i-th on, of those that have arrived.
Arrived(i, n) == [j \in 1 .. n |-> tcp[i + j]]

InFlight == Len(tcp) - received

Reading(bytes) ==
    /\ turn = "input" /\ conn = "open"
    /\ bytes <= InFlight
    /\ received' = received + bytes
    /\ UNCHANGED <<out, packets, tcp, reader, sequence, got>>

\* The first receive gets n, and no more has arrived if it asked for just that.
FillOnce(n) ==
    /\ n <= Room(in)
    /\ Reading(n)
    /\ in' = Received(in, Arrived(received, n))
    /\ turn' = "command" /\ conn' = conn

\* The first receive reached the end of the array, and a second gets n at its start.
ToTheEnd == Received(in, Arrived(received, Room(in)))

FillAround(n) ==
    /\ RunsToEnd(in)
    /\ n <= in.head - 1
    /\ Reading(Room(in) + n)
    /\ in' = Received(ToTheEnd, Arrived(received + Room(in), n))
    /\ turn' = "command" /\ conn' = conn

\* The buffer filled up, n more bytes are available, and it grows for them.
FillAndGrow(n) ==
    LET room == IF RunsToEnd(in) THEN Room(in) + in.head - 1 ELSE Room(in)
        full == IF RunsToEnd(in)
                THEN Received(ToTheEnd, Arrived(received + Room(in), in.head - 1))
                ELSE ToTheEnd
    IN  /\ n > 0 /\ Room(in) > 0 /\ (RunsToEnd(in) => in.head > 1)
        /\ Reading(room + n)
        /\ in' = Received(Resize(full, n + 1), Arrived(received + room, n))
        /\ turn' = "command" /\ conn' = conn

\* A receive that asks for nothing while there is something gets 0: "connect closed.".
FillBlind ==
    /\ IF RunsToEnd(in) THEN in.head = 1 ELSE Room(in) = 0
    /\ Room(in) < InFlight
    /\ Reading(Room(in))
    /\ in' = ToTheEnd
    /\ turn' = "command" /\ conn' = "blind"

-----------------------------------------------------------------------------
(* The reader: processCommand, one turn of its loop. *)

\* The packet whose header is peeked.
Peeked(k) ==
    /\ turn = "command" /\ conn = "open"
    /\ HeaderLen <= Length(in)
    /\ packets[k].first = Peek(in, HeaderLen)[1]

PeekFails ==
    /\ turn = "command" /\ conn = "open"
    /\ Length(in) < HeaderLen
    /\ turn' = "input"
    /\ UNCHANGED <<out, packets, tcp, received, in, reader, sequence, conn, got>>

InSequence(k) == reader = "GamePlayer" => sequence = SequenceOf(k)

\* Mutant: a byte more than the packet has is waited for.
IsWhole_OneMore(k) == HeaderLen + packets[k].len < Length(in)

IsWhole(k) == HeaderLen + packets[k].len <= Length(in)

\* GamePlayer counts the packet as soon as it has seen its header.
CountsPacket ==
    sequence' = IF reader = "GamePlayer" THEN (sequence + 1) % Modulus ELSE sequence

WrongSequence(k) ==
    /\ Peeked(k) /\ ~InSequence(k)
    /\ conn' = "sequence"
    /\ UNCHANGED <<out, packets, tcp, received, in, reader, sequence, turn, got>>

\* The rest of the packet is waited for.
NotWhole(k) ==
    /\ Peeked(k) /\ InSequence(k) /\ ~IsWhole(k)
    /\ CountsPacket
    /\ turn' = "input"
    /\ UNCHANGED <<out, packets, tcp, received, in, reader, conn, got>>

\* Mutant: the header, which was peeked, is not skipped.
ReadPacket_KeepsHeader(k) ==
    LET len == HeaderLen + packets[k].len
    IN  /\ Peeked(k) /\ InSequence(k) /\ IsWhole(k)
        /\ CountsPacket
        /\ got' = Append(got, Peek(in, len))
        /\ in' = Skip(in, packets[k].len)
        /\ UNCHANGED <<out, packets, tcp, received, reader, turn, conn>>

\* readPacket; then the loop looks for another.
ReadPacket(k) ==
    LET len == HeaderLen + packets[k].len
    IN  /\ Peeked(k) /\ InSequence(k) /\ IsWhole(k)
        /\ CountsPacket
        /\ got' = Append(got, Peek(in, len))
        /\ in' = Skip(in, len)
        /\ UNCHANGED <<out, packets, tcp, received, reader, turn, conn>>

-----------------------------------------------------------------------------
Fill ==
    \/ \E n \in 0 .. InFlight : FillOnce(n) \/ FillAround(n) \/ FillAndGrow(n)
    \/ FillBlind

Command ==
    \/ PeekFails
    \/ \E k \in DOMAIN packets : WrongSequence(k) \/ NotWhole(k) \/ ReadPacket(k)

Next ==
    \/ \E len \in BodyLens : WritePacket(len)
    \/ \E n \in 1 .. Length(out) : Flush(n)
    \/ Fill
    \/ Command

Spec == Init /\ [][Next]_vars

\* Both loops go round, and TCP delivers: a turn may find nothing, but not every turn.
Fairness ==
    /\ WF_vars(\E n \in 1 .. Length(out) : Flush(n))
    /\ WF_vars(Fill)
    /\ SF_vars(Fill /\ (received' # received \/ conn' # conn))
    /\ WF_vars(Command)

FairSpec == Spec /\ Fairness

-----------------------------------------------------------------------------
(* Properties. *)

Arrays(size) == [0 .. size - 1 -> Nat]

IsRing(r) ==
    /\ r.size \in Nat \ {0}
    /\ r.head \in 0 .. r.size - 1
    /\ r.tail \in 0 .. r.size - 1
    /\ r = [cells |-> r.cells, size |-> r.size, head |-> r.head, tail |-> r.tail]
    /\ r.cells \in Arrays(r.size)

TypeOK ==
    /\ IsRing(out) /\ IsRing(in)
    /\ packets \in Seq(Packets)
    /\ tcp \in Seq(Nat)
    /\ received \in 0 .. Len(tcp)
    /\ reader \in {"GamePlayer", "LoginPlayer"}
    /\ sequence \in 0 .. Modulus - 1
    /\ turn \in {"input", "command"}
    /\ conn \in {"open", "sequence", "blind"}
    /\ got \in Seq(Seq(Nat))

\* The bytes of a ring, from its head, are those from place first on.
Holds(r, first) ==
    \A i \in 0 .. Length(r) - 1 : r.cells[Wrap(r.head + i, r.size)] = first + i

\* Through partial sends, receives of any size, wraps and growth of both buffers, no byte is
\* lost, repeated or moved: the three of them hold consecutive bytes that meet.
InOrder ==
    /\ \A i \in 1 .. Len(tcp) : tcp[i] = i
    /\ Holds(out, Len(tcp) + 1) /\ Len(tcp) + Length(out) = Written
    /\ Length(in) <= received /\ Holds(in, received - Length(in) + 1)

\* The packet the reader stands at is smaller than its buffer.
PacketFits == Len(got) < Len(packets) => HeaderLen + packets[Len(got) + 1].len < in.size

\* A turn of the reader begins with room in the buffer, unless the packet does not fit.
RoomAtTurn == turn = "input" /\ conn = "open" /\ PacketFits => Room(in) > 0

\* Packets lie one behind the other.
Framed ==
    /\ packets # <<>> => packets[1].first = 1
    /\ \A k \in 1 .. Len(packets) - 1 : packets[k + 1].first = NextFirst(k)
    /\ \A j, k \in 1 .. Len(packets) : j < k => NextFirst(j) <= packets[k].first

\* After any number of turns that read several packets, one, or a part that was put off, the
\* reader stands where the packet after those it got begins, and it got those as they were.
AtPacketStart ==
    /\ Len(got) <= Len(packets)
    /\ \A k \in 1 .. Len(got) : got[k] = PacketBytes(k)
    /\ received - Length(in) + 1 =
           IF Len(got) < Len(packets) THEN packets[Len(got) + 1].first ELSE Written + 1

\* Nobody here closes a connection.  The reader takes it for closed in two cases only: its buffer
\* begins at the second place of the array and has just been filled up to the end of it, or the
\* buffer is full of a part of a packet that does not fit.  No other way to fill it, wrap it or
\* grow it leads to a receive that asks for nothing while there is something.
TakenForClosed ==
    [][conn = "open" /\ conn' = "blind" => (in.head = 1 /\ in'.tail = 0) \/ ~PacketFits]_vars

StreamInv ==
    TypeOK /\ InOrder /\ RoomAtTurn /\ Framed /\ AtPacketStart /\ in.size >= InputBufferLen

ThePipe ==
    INSTANCE Pipe WITH sent <- [k \in 1 .. Len(packets) |-> PacketBytes(k)], delivered <- got

\* Packets come out as they were put in.
ImplementsPipe == ThePipe!Spec

\* Every packet is read in the end, unless the reader has closed the connection.
PacketsArrive ==
    \A k \in 1 .. MaxPackets : Len(packets) >= k ~> Len(got) >= k \/ conn # "open"

\* A reader never disconnects a writer whose packets it got in order.
KeepsSequence == conn # "sequence"

\* A GamePlayer never has to put off a packet whose header it has seen.
PacketsAreWhole ==
    [][\A k \in DOMAIN packets : reader = "GamePlayer" => ~NotWhole(k)]_vars
=============================================================================
