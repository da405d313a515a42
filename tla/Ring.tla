---------------------------------- MODULE Ring ---------------------------------
(***************************************************************************)
(* The buffer of SocketInputStream and SocketOutputStream: bytes lie from  *)
(* m_Head up to m_Tail, around the end of the array if need be, and one    *)
(* place stays free, since m_Head = m_Tail means empty.                    *)
(***************************************************************************)
EXTENDS Integers, Sequences

\* memcpy into the buffer.  Bytes past its end would show as cells it does not have.
Store(cells, at, bytes) ==
    LET written == at .. at + Len(bytes) - 1
    IN  [i \in DOMAIN cells \cup written |->
            IF i \in written THEN bytes[i - at + 1] ELSE cells[i]]

\* memcpy out of the buffer.
Slice(cells, at, n) == [i \in 1 .. n |-> cells[at + i - 1]]

\* n % size, for an n that is at most once around.
Wrap(n, size) == IF n >= size THEN n - size ELSE n

NewRing(size) == [cells |-> [i \in 0 .. size - 1 |-> 0], size |-> size, head |-> 0, tail |-> 0]

\* length
Length(r) ==
    IF r.head < r.tail THEN r.tail - r.head
    ELSE IF r.head > r.tail THEN r.size - r.head + r.tail ELSE 0

\* peek: the first n bytes, in one piece or in two.
Peek(r, n) ==
    LET right == r.size - r.head
    IN  IF r.head < r.tail \/ n <= right THEN Slice(r.cells, r.head, n)
        ELSE Slice(r.cells, r.head, right) \o Slice(r.cells, 0, n - right)

\* skip
Skip(r, n) == [r EXCEPT !.head = Wrap(@ + n, r.size)]

\* Mutant: resize that copies the array as it lies.
Resize_AsItLies(r, extra) ==
    LET size == r.size + (IF extra > r.size \div 2 THEN extra ELSE r.size \div 2)
    IN  [cells |-> [i \in 0 .. size - 1 |-> IF i < r.size THEN r.cells[i] ELSE 0],
         size |-> size, head |-> 0, tail |-> Length(r)]

\* resize: by half at least, and the bytes are unwrapped to the front of the new array.
Resize(r, extra) ==
    LET size == r.size + (IF extra > r.size \div 2 THEN extra ELSE r.size \div 2)
        kept == Peek(r, Length(r))
    IN  [cells |-> [i \in 0 .. size - 1 |-> IF i < Length(r) THEN kept[i + 1] ELSE 0],
         size |-> size, head |-> 0, tail |-> Length(r)]

-----------------------------------------------------------------------------
(* SocketOutputStream. *)

Free(r) ==
    IF r.head <= r.tail THEN r.size - r.tail + r.head - 1 ELSE r.head - r.tail - 1

\* write: at the tail, or up to the end of the array and on from its start.
Write(r, bytes) ==
    LET len == Len(bytes)
        to == IF len >= Free(r) THEN Resize(r, len - Free(r) + 1) ELSE r
        right == to.size - to.tail
        around == to.head # 0 /\ to.head <= to.tail /\ len > right
        first == IF around THEN SubSeq(bytes, 1, right) ELSE bytes
        rest == IF around THEN SubSeq(bytes, right + 1, len) ELSE <<>>
    IN  [cells |-> Store(Store(to.cells, to.tail, first), 0, rest),
         size |-> to.size, head |-> to.head, tail |-> Wrap(to.tail + len, to.size)]

\* Mutant: m_Head does not move before all is sent.
Flushed_AllOrNothing(r, n) == IF n = Length(r) THEN [r EXCEPT !.head = 0, !.tail = 0] ELSE r

\* What flush leaves when the socket took the first n bytes.
Flushed(r, n) ==
    IF n = Length(r) THEN [r EXCEPT !.head = 0, !.tail = 0] ELSE Skip(r, n)

-----------------------------------------------------------------------------
(* SocketInputStream. *)

\* In normal order off the start: a receive may fill the array up to its end, and wrap.
RunsToEnd(r) == r.head # 0 /\ r.head <= r.tail

\* Mutant: a receive at the start of the array that may fill all of it.
Room_All(r) ==
    IF RunsToEnd(r) \/ r.head = 0 THEN r.size - r.tail ELSE r.head - r.tail - 1

\* nFree: what one receive of fill asks for.
Room(r) ==
    IF RunsToEnd(r) THEN r.size - r.tail
    ELSE IF r.head = 0 THEN r.size - r.tail - 1 ELSE r.head - r.tail - 1

\* One receive of fill, which moves the tail.
Received(r, bytes) ==
    LET tail == r.tail + Len(bytes)
    IN  [cells |-> Store(r.cells, r.tail, bytes), size |-> r.size, head |-> r.head,
         tail |-> IF RunsToEnd(r) THEN Wrap(tail, r.size) ELSE tail]
=============================================================================
