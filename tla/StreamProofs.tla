---------------------------- MODULE StreamProofs ----------------------------
(***************************************************************************)
(* Stream for buffers, packets and receives of any size: its inductive     *)
(* invariant, that it implements Pipe, and that a packet which is put off  *)
(* is all that breaks the sequence.                                        *)
(***************************************************************************)
EXTENDS Stream, SequenceTheorems, TLAPS

-----------------------------------------------------------------------------
(* A ring and the bytes it holds. *)

\* A ring never holds as many bytes as it has cells.
LEMMA LengthBound ==
    ASSUME NEW r, IsRing(r)
    PROVE  Length(r) \in 0 .. r.size - 1
BY DEF IsRing, Length

\* Once around is enough for a place of the array and fewer bytes than it has.
LEMMA WrapBound ==
    ASSUME NEW size \in Nat, NEW at \in 0 .. size - 1, NEW n \in 0 .. size - 1
    PROVE  Wrap(at + n, size) \in 0 .. size - 1
<1>1. CASE at + n >= size
  BY <1>1 DEF Wrap
<1>2. CASE ~(at + n >= size)
  BY <1>2 DEF Wrap
<1>. QED BY <1>1, <1>2

\* Going around in two steps comes to the same place.
LEMMA WrapTwice ==
    ASSUME NEW size \in Nat, NEW at \in 0 .. size - 1, NEW n \in Nat, NEW i \in Nat,
           n + i <= size - 1
    PROVE  Wrap(Wrap(at + n, size) + i, size) = Wrap(at + (n + i), size)
<1>1. CASE at + n >= size
  BY <1>1 DEF Wrap
<1>2. CASE ~(at + n >= size)
  <2>1. Wrap(at + n, size) = at + n
    BY <1>2 DEF Wrap
  <2>2. (at + n) + i = at + (n + i)
    OBVIOUS
  <2>. QED BY <2>1, <2>2
<1>. QED BY <1>1, <1>2

\* Every byte a ring holds is in a cell it has.
LEMMA PlaceBound ==
    ASSUME NEW r, IsRing(r), NEW i \in 0 .. Length(r) - 1
    PROVE  Wrap(r.head + i, r.size) \in 0 .. r.size - 1
BY LengthBound DEF IsRing, Length, Wrap

\* A constructor's arguments make it a ring.
LEMMA RingOf ==
    ASSUME NEW size \in Nat \ {0}, NEW head \in 0 .. size - 1, NEW tail \in 0 .. size - 1,
           NEW cells \in Arrays(size)
    PROVE  IsRing([cells |-> cells, size |-> size, head |-> head, tail |-> tail])
BY DEF IsRing

\* Bytes are a sequence.
LEMMA BytesSeq ==
    ASSUME NEW first \in Nat, NEW n \in Nat
    PROVE  /\ Bytes(first + 1, n) \in Seq(Nat)
           /\ Len(Bytes(first + 1, n)) = n
           /\ \A i \in 1 .. n : Bytes(first + 1, n)[i] = first + i
<1>1. \A i \in 1 .. n : first + 1 + i - 1 \in Nat
  OBVIOUS
<1>. QED BY <1>1 DEF Bytes

\* Two runs of consecutive bytes that meet are one.
LEMMA BytesMeet ==
    ASSUME NEW first \in Nat, NEW m \in Nat, NEW n \in Nat
    PROVE  Bytes(first + 1, m) \o Bytes(first + m + 1, n) = Bytes(first + 1, m + n)
<1>1. /\ Bytes(first + 1, m) \in Seq(Nat)
      /\ Len(Bytes(first + 1, m)) = m
      /\ \A i \in 1 .. m : Bytes(first + 1, m)[i] = first + i
  BY BytesSeq
<1>2. /\ Bytes(first + m + 1, n) \in Seq(Nat)
      /\ Len(Bytes(first + m + 1, n)) = n
      /\ \A i \in 1 .. n : Bytes(first + m + 1, n)[i] = first + m + i
  <2>1. first + m \in Nat
    OBVIOUS
  <2>. QED BY <2>1, BytesSeq
<1>3. /\ Bytes(first + 1, m + n) \in Seq(Nat)
      /\ Len(Bytes(first + 1, m + n)) = m + n
      /\ \A i \in 1 .. m + n : Bytes(first + 1, m + n)[i] = first + i
  <2>1. m + n \in Nat
    OBVIOUS
  <2>. QED BY <2>1, BytesSeq
<1>4. /\ Bytes(first + 1, m) \o Bytes(first + m + 1, n) \in Seq(Nat)
      /\ Len(Bytes(first + 1, m) \o Bytes(first + m + 1, n)) = m + n
      /\ \A i \in 1 .. m + n :
             (Bytes(first + 1, m) \o Bytes(first + m + 1, n))[i] =
                 IF i <= m THEN Bytes(first + 1, m)[i] ELSE Bytes(first + m + 1, n)[i - m]
  <2>. DEFINE a == Bytes(first + 1, m)  b == Bytes(first + m + 1, n)
  <2>1. /\ a \in Seq(Nat) /\ Len(a) = m
        /\ b \in Seq(Nat) /\ Len(b) = n
    BY <1>1, <1>2
  <2>. HIDE DEF a, b
  <2>2. /\ a \o b \in Seq(Nat)
        /\ Len(a \o b) = Len(a) + Len(b)
        /\ \A i \in 1 .. Len(a) + Len(b) :
               (a \o b)[i] = IF i <= Len(a) THEN a[i] ELSE b[i - Len(a)]
    BY <2>1, ConcatProperties, Zenon
  <2>3. /\ a \o b \in Seq(Nat)
        /\ Len(a \o b) = m + n
        /\ \A i \in 1 .. m + n : (a \o b)[i] = IF i <= m THEN a[i] ELSE b[i - m]
    BY <2>1, <2>2, Zenon
  <2>. QED BY <2>3 DEF a, b
<1>5. ASSUME NEW i \in 1 .. m + n
      PROVE  (Bytes(first + 1, m) \o Bytes(first + m + 1, n))[i] = Bytes(first + 1, m + n)[i]
  <2>1. CASE i <= m
    BY <1>1, <1>3, <1>4, <2>1
  <2>2. CASE ~(i <= m)
    <3>1. i - m \in 1 .. n /\ ~(i <= m)
      BY <2>2
    <3>2. (Bytes(first + 1, m) \o Bytes(first + m + 1, n))[i] = Bytes(first + m + 1, n)[i - m]
      BY <1>4, <3>1
    <3>3. Bytes(first + m + 1, n)[i - m] = first + m + (i - m)
      BY <1>2, <3>1
    <3>4. first + m + (i - m) = first + i
      OBVIOUS
    <3>5. Bytes(first + 1, m + n)[i] = first + i
      BY <1>3
    <3>. QED BY <3>2, <3>3, <3>4, <3>5
  <2>. QED BY <2>1, <2>2
<1>. QED BY <1>3, <1>4, <1>5, SeqEqual

\* peek gives the bytes a ring holds, from the first on.
LEMMA PeekGives ==
    ASSUME NEW r, IsRing(r), NEW first \in Nat, Holds(r, first + 1), NEW n \in 0 .. Length(r)
    PROVE  Peek(r, n) = Bytes(first + 1, n)
<1>1. Length(r) \in 0 .. r.size - 1
  BY LengthBound
<1>2. CASE r.head < r.tail \/ n <= r.size - r.head
  <2>1. \A i \in 1 .. n : r.cells[r.head + i - 1] = first + 1 + i - 1
    <3>. SUFFICES ASSUME NEW i \in 1 .. n
                  PROVE  r.cells[r.head + i - 1] = first + 1 + i - 1
      OBVIOUS
    <3>1. i - 1 \in 0 .. Length(r) - 1
      BY <1>1
    <3>2. r.cells[Wrap(r.head + (i - 1), r.size)] = first + 1 + (i - 1)
      BY <3>1 DEF Holds
    <3>3. Wrap(r.head + (i - 1), r.size) = r.head + i - 1
      BY <1>2, <1>1 DEF IsRing, Length, Wrap
    <3>. QED BY <3>2, <3>3
  <2>. QED BY <1>2, <2>1 DEF Peek, Slice, Bytes
<1>3. CASE ~(r.head < r.tail \/ n <= r.size - r.head)
  <2>. DEFINE right == r.size - r.head
  <2>1. right \in Nat /\ n - right \in Nat /\ right < Length(r) /\ n - right <= r.tail
    BY <1>3, <1>1 DEF IsRing, Length
  <2>2. \A i \in 1 .. right : r.cells[r.head + i - 1] = first + 1 + i - 1
    <3>. SUFFICES ASSUME NEW i \in 1 .. right
                  PROVE  r.cells[r.head + i - 1] = first + 1 + i - 1
      OBVIOUS
    <3>1. i - 1 \in 0 .. Length(r) - 1
      BY <1>1, <2>1
    <3>2. r.cells[Wrap(r.head + (i - 1), r.size)] = first + 1 + (i - 1)
      BY <3>1 DEF Holds
    <3>3. Wrap(r.head + (i - 1), r.size) = r.head + i - 1
      BY <2>1 DEF IsRing, Wrap
    <3>. QED BY <3>2, <3>3
  <2>3. Slice(r.cells, r.head, right) = Bytes(first + 1, right)
    BY <2>2 DEF Slice, Bytes
  <2>4. \A i \in 1 .. n - right : r.cells[0 + i - 1] = first + right + 1 + i - 1
    <3>. SUFFICES ASSUME NEW i \in 1 .. n - right
                  PROVE  r.cells[0 + i - 1] = first + right + 1 + i - 1
      OBVIOUS
    <3>1. right + i - 1 \in 0 .. Length(r) - 1
      BY <1>1, <2>1
    <3>2. r.cells[Wrap(r.head + (right + i - 1), r.size)] = first + 1 + (right + i - 1)
      BY <3>1 DEF Holds
    <3>3. Wrap(r.size + (i - 1), r.size) = 0 + i - 1
      BY DEF IsRing, Wrap
    <3>4. r.head + (right + i - 1) = r.size + (i - 1)
      BY <2>1 DEF IsRing
    <3>. QED BY <3>2, <3>3, <3>4, <2>1
  <2>5. Slice(r.cells, 0, n - right) = Bytes(first + right + 1, n - right)
    BY <2>4 DEF Slice, Bytes
  <2>6. Peek(r, n) = Bytes(first + 1, right) \o Bytes(first + right + 1, n - right)
    BY <1>3, <2>3, <2>5 DEF Peek
  <2>7. Peek(r, n) = Bytes(first + 1, right + (n - right))
    BY <2>6, <2>1, BytesMeet
  <2>. QED BY <2>7, <2>1
<1>. QED BY <1>2, <1>3

\* skip gives up the first n bytes and keeps the rest.
LEMMA SkipKeeps ==
    ASSUME NEW r, IsRing(r), NEW first \in Nat, Holds(r, first + 1), NEW n \in 0 .. Length(r)
    PROVE  /\ IsRing(Skip(r, n))
           /\ Length(Skip(r, n)) = Length(r) - n
           /\ Holds(Skip(r, n), first + n + 1)
           /\ Skip(r, n).size = r.size
<1>. DEFINE s == Skip(r, n)
<1>1. Length(r) \in 0 .. r.size - 1
  BY LengthBound
<1>2. Wrap(r.head + n, r.size) \in 0 .. r.size - 1
  BY <1>1, WrapBound DEF IsRing
<1>3. s = [cells |-> r.cells, size |-> r.size, head |-> Wrap(r.head + n, r.size), tail |-> r.tail]
  BY DEF IsRing, Skip
<1>4. IsRing(s)
  BY <1>2, <1>3, RingOf DEF IsRing
<1>5. Length(s) = Length(r) - n
  BY <1>1, <1>3 DEF IsRing, Length, Wrap
<1>6. Holds(s, first + n + 1)
  <2>. SUFFICES ASSUME NEW i \in 0 .. Length(s) - 1
                PROVE  s.cells[Wrap(s.head + i, s.size)] = first + n + 1 + i
    BY DEF Holds
  <2>1. n + i \in 0 .. Length(r) - 1
    BY <1>1, <1>5
  <2>2. r.cells[Wrap(r.head + (n + i), r.size)] = first + 1 + (n + i)
    BY <2>1 DEF Holds
  <2>3. Wrap(s.head + i, s.size) = Wrap(r.head + (n + i), r.size)
    <3>1. /\ r.size \in Nat /\ r.head \in 0 .. r.size - 1
          /\ s.head = Wrap(r.head + n, r.size) /\ s.size = r.size
          /\ i \in Nat /\ n \in Nat /\ n + i <= r.size - 1
      BY <1>1, <1>3, <1>5, <2>1 DEF IsRing
    <3>2. Wrap(Wrap(r.head + n, r.size) + i, r.size) = Wrap(r.head + (n + i), r.size)
      BY <3>1 DEF Wrap
    <3>. QED BY <3>1, <3>2
  <2>. QED BY <2>2, <2>3, <1>3
<1>. QED BY <1>3, <1>4, <1>5, <1>6

\* flush gives up the bytes that were sent and keeps the rest.
LEMMA FlushKeeps ==
    ASSUME NEW r, IsRing(r), NEW first \in Nat, Holds(r, first + 1), NEW n \in 0 .. Length(r)
    PROVE  /\ IsRing(Flushed(r, n))
           /\ Length(Flushed(r, n)) = Length(r) - n
           /\ Holds(Flushed(r, n), first + n + 1)
<1>1. CASE n = Length(r)
  <2>1. Flushed(r, n) = [cells |-> r.cells, size |-> r.size, head |-> 0, tail |-> 0]
    BY <1>1 DEF IsRing, Flushed
  <2>2. IsRing(Flushed(r, n))
    BY <2>1, RingOf DEF IsRing
  <2>3. Length(Flushed(r, n)) = 0
    BY <2>1 DEF Length
  <2>. QED BY <1>1, <2>2, <2>3 DEF Holds
<1>2. CASE n # Length(r)
  BY <1>2, SkipKeeps DEF Flushed
<1>. QED BY <1>1, <1>2

\* The fields of a ring.
LEMMA Fields ==
    ASSUME NEW r, IsRing(r)
    PROVE  /\ r.size \in Nat /\ r.head \in Nat /\ r.tail \in Nat
           /\ r.head < r.size /\ r.tail < r.size
BY DEF IsRing

\* The array of a ring.
LEMMA CellsType ==
    ASSUME NEW r, IsRing(r)
    PROVE  r.cells \in Arrays(r.size)
BY DEF IsRing

\* What one memcpy leaves in the array.
LEMMA StoreIs ==
    ASSUME NEW size \in Nat, NEW cells \in Arrays(size),
           NEW at \in Nat, NEW first \in Nat, NEW n \in Nat, at + n <= size
    PROVE  /\ Store(cells, at, Bytes(first + 1, n)) \in Arrays(size)
           /\ \A i \in 0 .. size - 1 :
                  Store(cells, at, Bytes(first + 1, n))[i] =
                      IF at <= i /\ i < at + n THEN first + 1 + (i - at) ELSE cells[i]
<1>. DEFINE bytes == Bytes(first + 1, n)
<1>1. Len(bytes) = n /\ \A i \in 1 .. n : bytes[i] = first + i
  BY BytesSeq
<1>. HIDE DEF bytes
<1>2. DOMAIN cells \cup at .. at + Len(bytes) - 1 = 0 .. size - 1
  BY <1>1 DEF Arrays
<1>3. Store(cells, at, bytes) =
          [i \in 0 .. size - 1 |-> IF i \in at .. at + Len(bytes) - 1
                                      THEN bytes[i - at + 1] ELSE cells[i]]
  BY <1>2 DEF Store
<1>4. ASSUME NEW i \in 0 .. size - 1
      PROVE  /\ Store(cells, at, bytes)[i] =
                    IF at <= i /\ i < at + n THEN first + 1 + (i - at) ELSE cells[i]
             /\ Store(cells, at, bytes)[i] \in Nat
  <2>1. CASE at <= i /\ i < at + n
    <3>1. i - at + 1 \in 1 .. n /\ i \in at .. at + Len(bytes) - 1
      BY <1>1, <2>1
    <3>2. bytes[i - at + 1] = first + (i - at + 1)
      BY <1>1, <3>1
    <3>. QED BY <1>3, <2>1, <3>1, <3>2
  <2>2. CASE ~(at <= i /\ i < at + n)
    <3>1. i \notin at .. at + Len(bytes) - 1
      BY <1>1, <2>2
    <3>2. cells[i] \in Nat
      BY DEF Arrays
    <3>. QED BY <1>3, <2>2, <3>1, <3>2
  <2>. QED BY <2>1, <2>2
<1>5. Store(cells, at, bytes) \in Arrays(size)
  BY <1>3, <1>4 DEF Arrays
<1>. QED BY <1>4, <1>5 DEF bytes

\* What two memcpys leave in the array, the second of them at its start.
LEMMA StoreTwice ==
    ASSUME NEW size \in Nat, NEW cells \in Arrays(size),
           NEW at \in Nat, NEW first \in Nat, NEW n \in Nat, at + n <= size,
           NEW next \in Nat, NEW rest \in Nat, rest <= at
    PROVE  LET both == Store(Store(cells, at, Bytes(first + 1, n)), 0, Bytes(next + 1, rest))
           IN  /\ both \in Arrays(size)
               /\ \A i \in 0 .. size - 1 :
                      both[i] = IF i < rest THEN next + 1 + i
                                ELSE IF at <= i /\ i < at + n THEN first + 1 + (i - at)
                                ELSE cells[i]
<1>. DEFINE once == Store(cells, at, Bytes(first + 1, n))
            both == Store(once, 0, Bytes(next + 1, rest))
<1>1. /\ once \in Arrays(size)
      /\ \A i \in 0 .. size - 1 :
             once[i] = IF at <= i /\ i < at + n THEN first + 1 + (i - at) ELSE cells[i]
  BY StoreIs
<1>. HIDE DEF once
<1>2. ASSUME NEW to \in Nat, to + rest <= size
      PROVE  /\ Store(once, to, Bytes(next + 1, rest)) \in Arrays(size)
             /\ \A i \in 0 .. size - 1 :
                    Store(once, to, Bytes(next + 1, rest))[i] =
                        IF to <= i /\ i < to + rest THEN next + 1 + (i - to) ELSE once[i]
  <2>1. once \in Arrays(size)
    BY <1>1
  <2>. QED BY <1>2, <2>1, StoreIs
<1>3. /\ both \in Arrays(size)
      /\ \A i \in 0 .. size - 1 :
             both[i] = IF 0 <= i /\ i < 0 + rest THEN next + 1 + (i - 0) ELSE once[i]
  <2>1. 0 \in Nat /\ 0 + rest <= size
    OBVIOUS
  <2>. QED BY <1>2, <2>1
<1>. HIDE DEF both
<1>4. ASSUME NEW i \in 0 .. size - 1
      PROVE  both[i] = IF i < rest THEN next + 1 + i
                       ELSE IF at <= i /\ i < at + n THEN first + 1 + (i - at)
                       ELSE cells[i]
  <2>1. both[i] = IF i < rest THEN next + 1 + i ELSE once[i]
    BY <1>3
  <2>. QED BY <1>1, <2>1
<1>. QED BY <1>3, <1>4 DEF both, once

\* The tail is where the next byte goes.
LEMMA TailPlace ==
    ASSUME NEW r, IsRing(r)
    PROVE  Wrap(r.head + Length(r), r.size) = r.tail
<1>1. CASE r.head < r.tail
  BY <1>1, Fields DEF Length, Wrap
<1>2. CASE r.head = r.tail
  BY <1>2, Fields DEF Length, Wrap
<1>3. CASE r.head > r.tail
  BY <1>3, Fields DEF Length, Wrap
<1>. QED BY <1>1, <1>2, <1>3, Fields

\* An array has the bytes a ring holds, in the same places.
SameBytes(r, cells) ==
    \A i \in 0 .. Length(r) - 1 :
        cells[Wrap(r.head + i, r.size)] = r.cells[Wrap(r.head + i, r.size)]

\* An array has n bytes, the first of them at a place, and around its end if need be.
HasAt(cells, size, at, first, n) == \A j \in 0 .. n - 1 : cells[Wrap(at + j, size)] = first + j

\* n bytes put after the last, with one cell still free, leave a ring that holds them too.
LEMMA PutKeeps ==
    ASSUME NEW r, IsRing(r), NEW first \in Nat, Holds(r, first + 1),
           NEW n \in Nat, Length(r) + n <= r.size - 1,
           NEW cells \in Arrays(r.size),
           SameBytes(r, cells),
           HasAt(cells, r.size, r.tail, first + Length(r) + 1, n),
           NEW s, s = [cells |-> cells, size |-> r.size, head |-> r.head,
                       tail |-> Wrap(r.tail + n, r.size)]
    PROVE  /\ IsRing(s)
           /\ Length(s) = Length(r) + n
           /\ Holds(s, first + 1)
           /\ s.size = r.size /\ s.head = r.head
<1>1. Length(r) \in 0 .. r.size - 1
  BY LengthBound
<1>2. n \in 0 .. r.size - 1
  BY <1>1, Fields
<1>3. Wrap(r.tail + n, r.size) \in 0 .. r.size - 1
  BY <1>2, WrapBound, Fields
<1>4. s.cells = cells /\ s.size = r.size /\ s.head = r.head /\ s.tail = Wrap(r.tail + n, r.size)
  OBVIOUS
<1>5. IsRing(s)
  BY <1>3, <1>4, RingOf, Fields
<1>6. Length(s) = Length(r) + n
  <2>1. CASE r.tail + n >= r.size
    BY <1>1, <1>4, <2>1, Fields DEF Length, Wrap
  <2>2. CASE ~(r.tail + n >= r.size)
    BY <1>1, <1>4, <2>2, Fields DEF Length, Wrap
  <2>. QED BY <2>1, <2>2
<1>7. Holds(s, first + 1)
  <2>. SUFFICES ASSUME NEW i \in 0 .. Length(s) - 1
                PROVE  cells[Wrap(r.head + i, r.size)] = first + 1 + i
    BY <1>4 DEF Holds
  <2>1. CASE i < Length(r)
    <3>1. i \in 0 .. Length(r) - 1
      BY <1>1, <2>1
    <3>. QED BY <3>1 DEF Holds, SameBytes
  <2>2. CASE ~(i < Length(r))
    <3>1. i - Length(r) \in 0 .. n - 1
      BY <1>1, <1>6, <2>2
    <3>2. cells[Wrap(r.tail + (i - Length(r)), r.size)] = first + Length(r) + 1 + (i - Length(r))
      BY <3>1 DEF HasAt
    <3>3. /\ r.size \in Nat /\ r.head \in 0 .. r.size - 1
          /\ Length(r) \in Nat /\ i - Length(r) \in Nat
          /\ Length(r) + (i - Length(r)) <= r.size - 1
      BY <1>1, <3>1, Fields
    <3>4. Wrap(Wrap(r.head + Length(r), r.size) + (i - Length(r)), r.size)
              = Wrap(r.head + (Length(r) + (i - Length(r))), r.size)
      BY <3>3, WrapTwice
    <3>5. /\ Length(r) + (i - Length(r)) = i
          /\ first + Length(r) + 1 + (i - Length(r)) = first + 1 + i
      BY <1>1
    <3>. QED BY <3>2, <3>4, <3>5, TailPlace
  <2>. QED BY <2>1, <2>2
<1>. QED BY <1>4, <1>5, <1>6, <1>7

\* Bytes that a ring holds are not in the cells from the tail on that a memcpy of n writes.
LEMMA PlacesApart ==
    ASSUME NEW r, IsRing(r), NEW n \in Nat, Length(r) + n <= r.size - 1,
           NEW i \in 0 .. Length(r) - 1
    PROVE  ~(r.tail <= Wrap(r.head + i, r.size) /\ Wrap(r.head + i, r.size) < r.tail + n)
<1>1. CASE r.head < r.tail
  BY <1>1, Fields DEF Length, Wrap
<1>2. CASE r.head = r.tail
  BY <1>2, Fields DEF Length
<1>3. CASE r.head > r.tail
  <2>1. /\ r.size \in Nat /\ r.head \in Nat /\ r.tail \in Nat /\ r.head < r.size
        /\ Length(r) = r.size - r.head + r.tail
    BY <1>3, Fields DEF Length
  <2>2. r.head + i \in Nat /\ n < r.head - r.tail
    BY <1>3, <2>1
  <2>3. CASE r.head + i >= r.size
    BY <1>3, <2>1, <2>2, <2>3 DEF Wrap
  <2>4. CASE ~(r.head + i >= r.size)
    BY <1>3, <2>1, <2>2, <2>4 DEF Wrap
  <2>. QED BY <2>3, <2>4
<1>4. r.head \in Int /\ r.tail \in Int
  BY Fields
<1>. QED BY <1>1, <1>2, <1>3, <1>4

\* What a memcpy from the tail on leaves in the cells of a ring.
LEMMA StoreAtTail ==
    ASSUME NEW r, IsRing(r), NEW first \in Nat, NEW n \in Nat, r.tail + n <= r.size
    PROVE  LET cells == Store(r.cells, r.tail, Bytes(first + 1, n))
           IN  /\ cells \in Arrays(r.size)
               /\ \A i \in 0 .. r.size - 1 :
                      cells[i] = IF r.tail <= i /\ i < r.tail + n
                                 THEN first + 1 + (i - r.tail) ELSE r.cells[i]
<1>. DEFINE c == r.cells
            size == r.size
            at == r.tail
<1>1. size \in Nat /\ c \in Arrays(size) /\ at \in Nat /\ at + n <= size
  BY Fields, CellsType
<1>. HIDE DEF c, size, at
<1>2. LET cells == Store(c, at, Bytes(first + 1, n))
      IN  /\ cells \in Arrays(size)
          /\ \A i \in 0 .. size - 1 :
                 cells[i] = IF at <= i /\ i < at + n
                            THEN first + 1 + (i - at) ELSE c[i]
  BY <1>1, StoreIs, SMTT(60)
<1>. QED BY <1>2 DEF c, size, at

\* Bytes put in one piece.
LEMMA PutOnce ==
    ASSUME NEW r, IsRing(r), NEW first \in Nat, Holds(r, first + 1),
           NEW n \in Nat, Length(r) + n <= r.size - 1, r.tail + n <= r.size,
           NEW s, s = [cells |-> Store(r.cells, r.tail, Bytes(first + Length(r) + 1, n)),
                       size |-> r.size, head |-> r.head, tail |-> Wrap(r.tail + n, r.size)]
    PROVE  /\ IsRing(s)
           /\ Length(s) = Length(r) + n
           /\ Holds(s, first + 1)
           /\ s.size = r.size /\ s.head = r.head
<1>. DEFINE cells == Store(r.cells, r.tail, Bytes(first + Length(r) + 1, n))
<1>1. Length(r) \in 0 .. r.size - 1
  BY LengthBound
<1>2. /\ r.size \in Nat /\ r.cells \in Arrays(r.size)
      /\ r.tail \in Nat /\ first + Length(r) \in Nat
  BY <1>1, Fields, CellsType
<1>3. /\ cells \in Arrays(r.size)
      /\ \A i \in 0 .. r.size - 1 :
             cells[i] = IF r.tail <= i /\ i < r.tail + n
                        THEN first + Length(r) + 1 + (i - r.tail) ELSE r.cells[i]
  BY <1>2, StoreAtTail
<1>. HIDE DEF cells
<1>4. ASSUME NEW i \in 0 .. Length(r) - 1
      PROVE  cells[Wrap(r.head + i, r.size)] = r.cells[Wrap(r.head + i, r.size)]
  BY <1>3, PlaceBound, PlacesApart
<1>5. ASSUME NEW j \in 0 .. n - 1
      PROVE  cells[Wrap(r.tail + j, r.size)] = first + Length(r) + 1 + j
  <2>1. /\ Wrap(r.tail + j, r.size) = r.tail + j
        /\ r.tail + j \in 0 .. r.size - 1
        /\ r.tail <= r.tail + j /\ r.tail + j < r.tail + n
        /\ (r.tail + j) - r.tail = j
    BY <1>2 DEF Wrap
  <2>2. cells[r.tail + j] = first + Length(r) + 1 + (r.tail + j - r.tail)
    BY <1>2, <1>3, <2>1
  <2>. QED BY <1>2, <2>1, <2>2
<1>6. s = [cells |-> cells, size |-> r.size, head |-> r.head, tail |-> Wrap(r.tail + n, r.size)]
  BY DEF cells
<1>7. SameBytes(r, cells)
  BY <1>4 DEF SameBytes
<1>8. HasAt(cells, r.size, r.tail, first + Length(r) + 1, n)
  BY <1>5 DEF HasAt
<1>. QED BY <1>3, <1>6, <1>7, <1>8, PutKeeps

\* A ring with bytes put in two pieces, up to the end of the array and on from its start.
TwoPieces(r, first, right, rest) ==
    [cells |-> Store(Store(r.cells, r.tail, Bytes(first + Length(r) + 1, right)),
                     0, Bytes(first + Length(r) + right + 1, rest)),
     size |-> r.size, head |-> r.head, tail |-> Wrap(r.tail + (right + rest), r.size)]

\* Bytes put in two pieces.
LEMMA PutAround ==
    ASSUME NEW r, IsRing(r), NEW first \in Nat, Holds(r, first + 1), r.head <= r.tail,
           NEW right \in Nat, NEW rest \in Nat,
           r.tail + right = r.size, Length(r) + (right + rest) <= r.size - 1
    PROVE  /\ IsRing(TwoPieces(r, first, right, rest))
           /\ Length(TwoPieces(r, first, right, rest)) = Length(r) + (right + rest)
           /\ Holds(TwoPieces(r, first, right, rest), first + 1)
<1>. DEFINE next == first + Length(r)
            cells == Store(Store(r.cells, r.tail, Bytes(next + 1, right)),
                           0, Bytes(next + right + 1, rest))
<1>1. Length(r) \in 0 .. r.size - 1 /\ Length(r) = r.tail - r.head
  BY LengthBound, Fields DEF Length
<1>2. /\ r.size \in Nat /\ r.tail \in Nat /\ r.head \in Nat
      /\ next \in Nat /\ next + right \in Nat
      /\ r.tail + right <= r.size /\ rest < r.head /\ rest <= r.tail /\ right + rest \in Nat
  BY <1>1, Fields
<1>3. r.cells \in Arrays(r.size)
  BY CellsType
<1>. DEFINE c == r.cells  size == r.size  at == r.tail  last == next + right
<1>. HIDE DEF next
<1>4. /\ cells \in Arrays(r.size)
      /\ \A i \in 0 .. r.size - 1 :
             cells[i] = IF i < rest THEN next + right + 1 + i
                        ELSE IF r.tail <= i /\ i < r.tail + right THEN next + 1 + (i - r.tail)
                        ELSE r.cells[i]
  <2>1. /\ size \in Nat /\ c \in Arrays(size) /\ at \in Nat /\ last \in Nat
        /\ at + right <= size /\ rest <= at /\ next \in Nat
    BY <1>2, <1>3
  <2>. HIDE DEF c, size, at, last
  <2>2. LET both == Store(Store(c, at, Bytes(next + 1, right)), 0, Bytes(last + 1, rest))
        IN  /\ both \in Arrays(size)
            /\ \A i \in 0 .. size - 1 :
                   both[i] = IF i < rest THEN last + 1 + i
                             ELSE IF at <= i /\ i < at + right THEN next + 1 + (i - at)
                             ELSE c[i]
    BY <2>1, StoreTwice, SMTT(120)
  <2>. QED BY <2>2 DEF c, size, at, last
<1>. HIDE DEF cells
<1>5. ASSUME NEW i \in 0 .. Length(r) - 1
      PROVE  cells[Wrap(r.head + i, r.size)] = r.cells[Wrap(r.head + i, r.size)]
  <2>1. /\ Wrap(r.head + i, r.size) = r.head + i
        /\ r.head + i \in 0 .. r.size - 1
        /\ r.head + i < r.tail /\ ~(r.head + i < rest)
    BY <1>1, <1>2 DEF Wrap
  <2>. QED BY <1>2, <1>4, <2>1
<1>6. ASSUME NEW j \in 0 .. right + rest - 1
      PROVE  cells[Wrap(r.tail + j, r.size)] = next + 1 + j
  <2>1. CASE j < right
    <3>1. /\ Wrap(r.tail + j, r.size) = r.tail + j
          /\ r.tail + j \in 0 .. r.size - 1
          /\ ~(r.tail + j < rest)
          /\ r.tail <= r.tail + j /\ r.tail + j < r.tail + right
          /\ (r.tail + j) - r.tail = j
      BY <1>1, <1>2, <2>1 DEF Wrap
    <3>2. cells[r.tail + j] = next + 1 + ((r.tail + j) - r.tail)
      BY <1>2, <1>4, <3>1
    <3>. QED BY <1>2, <3>1, <3>2
  <2>2. CASE ~(j < right)
    <3>1. /\ Wrap(r.tail + j, r.size) = j - right
          /\ j - right \in 0 .. r.size - 1 /\ j - right < rest
      BY <1>1, <1>2, <2>2 DEF Wrap
    <3>2. cells[j - right] = next + right + 1 + (j - right)
      BY <1>4, <3>1
    <3>3. next + right + 1 + (j - right) = next + 1 + j
      BY <1>2
    <3>. QED BY <3>1, <3>2, <3>3
  <2>. QED BY <2>1, <2>2
<1>7. SameBytes(r, cells)
  BY <1>5 DEF SameBytes
<1>8. HasAt(cells, r.size, r.tail, first + Length(r) + 1, right + rest)
  BY <1>6 DEF HasAt, next
<1>9. TwoPieces(r, first, right, rest) =
          [cells |-> cells, size |-> r.size, head |-> r.head,
           tail |-> Wrap(r.tail + (right + rest), r.size)]
  BY DEF TwoPieces, cells, next
<1>. QED BY <1>2, <1>4, <1>7, <1>8, <1>9, PutKeeps

\* resize keeps what a ring holds and makes room for extra bytes more.
LEMMA ResizeKeeps ==
    ASSUME NEW r, IsRing(r), NEW first \in Nat, Holds(r, first + 1), NEW extra \in Nat \ {0}
    PROVE  /\ IsRing(Resize(r, extra))
           /\ Length(Resize(r, extra)) = Length(r)
           /\ Holds(Resize(r, extra), first + 1)
           /\ Resize(r, extra).head = 0 /\ Resize(r, extra).tail = Length(r)
           /\ Resize(r, extra).size >= r.size + extra
<1>. DEFINE size == r.size + (IF extra > r.size \div 2 THEN extra ELSE r.size \div 2)
            kept == Peek(r, Length(r))
            cells == [i \in 0 .. size - 1 |-> IF i < Length(r) THEN kept[i + 1] ELSE 0]
            s == Resize(r, extra)
<1>1. Length(r) \in 0 .. r.size - 1
  BY LengthBound
<1>2. /\ size \in Nat \ {0} /\ size >= r.size + extra
      /\ Length(r) \in 0 .. size - 1 /\ 0 \in 0 .. size - 1
  BY <1>1, Fields
<1>3. \A i \in 1 .. Length(r) : kept[i] = first + i
  <2>1. Length(r) \in Nat /\ Length(r) \in 0 .. Length(r)
    BY <1>1
  <2>2. kept = Bytes(first + 1, Length(r))
    BY <2>1, PeekGives
  <2>. QED BY <2>1, <2>2, BytesSeq
<1>4. s = [cells |-> cells, size |-> size, head |-> 0, tail |-> Length(r)]
  BY DEF Resize
<1>. HIDE DEF size, kept, s
<1>5. ASSUME NEW i \in 0 .. size - 1
      PROVE  /\ cells[i] \in Nat
             /\ i < Length(r) => cells[i] = first + 1 + i
  <2>1. CASE i < Length(r)
    <3>1. i + 1 \in 1 .. Length(r)
      BY <1>1, <1>2, <2>1
    <3>2. kept[i + 1] = first + (i + 1)
      BY <1>3, <3>1
    <3>. QED BY <2>1, <3>2
  <2>2. CASE ~(i < Length(r))
    BY <2>2
  <2>. QED BY <2>1, <2>2
<1>6. cells \in Arrays(size)
  BY <1>5 DEF Arrays
<1>. HIDE DEF cells
<1>7. IsRing(s)
  BY <1>2, <1>4, <1>6, RingOf
<1>8. Length(s) = Length(r)
  BY <1>1, <1>4 DEF Length
<1>9. Holds(s, first + 1)
  <2>. SUFFICES ASSUME NEW i \in 0 .. Length(s) - 1
                PROVE  cells[Wrap(0 + i, size)] = first + 1 + i
    BY <1>4 DEF Holds
  <2>1. i \in 0 .. size - 1 /\ i < Length(r) /\ Wrap(0 + i, size) = i
    BY <1>1, <1>2, <1>8 DEF Wrap
  <2>. QED BY <1>5, <2>1
<1>. QED BY <1>2, <1>4, <1>7, <1>8, <1>9 DEF s

\* What write takes to be free is what is.
LEMMA FreeIs ==
    ASSUME NEW r, IsRing(r)
    PROVE  Free(r) = r.size - 1 - Length(r)
BY Fields DEF Free, Length

\* What is left of a run of bytes.
LEMMA BytesRest ==
    ASSUME NEW first \in Nat, NEW n \in Nat, NEW a \in 0 .. n
    PROVE  SubSeq(Bytes(first + 1, n), a + 1, n) = Bytes(first + a + 1, n - a)
<1>. DEFINE all == Bytes(first + 1, n)  rest == Bytes(first + a + 1, n - a)
<1>1. /\ all \in Seq(Nat) /\ Len(all) = n
      /\ \A i \in 1 .. n : all[i] = first + i
  BY BytesSeq
<1>2. /\ rest \in Seq(Nat) /\ Len(rest) = n - a
      /\ \A i \in 1 .. n - a : rest[i] = first + a + i
  <2>1. first + a \in Nat /\ n - a \in Nat
    OBVIOUS
  <2>. QED BY <2>1, BytesSeq
<1>. HIDE DEF all, rest
<1>3. /\ SubSeq(all, a + 1, n) \in Seq(Nat)
      /\ Len(SubSeq(all, a + 1, n)) = n - a
      /\ \A i \in 1 .. n - a : SubSeq(all, a + 1, n)[i] = all[a + 1 + i - 1]
  <2>1. a + 1 \in 1 .. Len(all) + 1 /\ n \in a .. Len(all)
    BY <1>1
  <2>. QED BY <1>1, <2>1, SubSeqProperties
<1>4. ASSUME NEW i \in 1 .. n - a
      PROVE  SubSeq(all, a + 1, n)[i] = rest[i]
  <2>1. a + 1 + i - 1 = a + i /\ a + i \in 1 .. n
    OBVIOUS
  <2>2. all[a + i] = first + (a + i) /\ first + (a + i) = first + a + i
    BY <1>1, <2>1
  <2>. QED BY <1>2, <1>3, <2>1, <2>2
<1>5. SubSeq(all, a + 1, n) = rest
  BY <1>2, <1>3, <1>4, SeqEqual
<1>. QED BY <1>5 DEF all, rest

\* write puts its bytes after those a ring holds.
LEMMA WriteKeeps ==
    ASSUME NEW r, IsRing(r), NEW first \in Nat, Holds(r, first + 1), NEW n \in Nat
    PROVE  LET s == Write(r, Bytes(first + Length(r) + 1, n))
           IN  /\ IsRing(s)
               /\ Length(s) = Length(r) + n
               /\ Holds(s, first + 1)
<1>. DEFINE bytes == Bytes(first + Length(r) + 1, n)
            to == IF n >= Free(r) THEN Resize(r, n - Free(r) + 1) ELSE r
            right == to.size - to.tail
            s == Write(r, bytes)
<1>1. Length(r) \in 0 .. r.size - 1 /\ first + Length(r) \in Nat
  BY LengthBound, Fields
<1>2. Len(bytes) = n /\ bytes \in Seq(Nat) /\ \A i \in 1 .. n : bytes[i] = first + Length(r) + i
  BY <1>1, BytesSeq
<1>3. /\ IsRing(to) /\ Length(to) = Length(r) /\ Holds(to, first + 1)
      /\ Length(r) + n <= to.size - 1
  <2>1. CASE n >= Free(r)
    <3>1. n - Free(r) + 1 \in Nat \ {0}
      BY <1>1, <2>1, FreeIs, Fields
    <3>2. /\ IsRing(Resize(r, n - Free(r) + 1))
          /\ Length(Resize(r, n - Free(r) + 1)) = Length(r)
          /\ Holds(Resize(r, n - Free(r) + 1), first + 1)
          /\ Resize(r, n - Free(r) + 1).size >= r.size + (n - Free(r) + 1)
      BY <3>1, ResizeKeeps
    <3>3. to = Resize(r, n - Free(r) + 1)
      BY <2>1
    <3>4. to.size >= r.size + (n - (r.size - 1 - Length(r)) + 1) /\ to.size \in Nat
      BY <3>2, <3>3, FreeIs, Fields
    <3>5. Length(r) + n <= to.size - 1
      BY <1>1, <3>4, Fields
    <3>. QED BY <3>2, <3>3, <3>5
  <2>2. CASE ~(n >= Free(r))
    BY <1>1, <2>2, FreeIs, Fields
  <2>. QED BY <2>1, <2>2
<1>4. right \in Nat /\ right = to.size - to.tail
  BY <1>3, Fields
<1>5. CASE to.head # 0 /\ to.head <= to.tail /\ n > right
  <2>1. SubSeq(bytes, 1, right) = Bytes(first + Length(r) + 1, right)
    BY <1>1, <1>2, <1>4, <1>5 DEF Bytes
  <2>. DEFINE rest == n - right
  <2>2. SubSeq(bytes, right + 1, n) = Bytes(first + Length(r) + right + 1, rest)
    <3>. HIDE DEF to, right
    <3>1. right \in 0 .. n
      BY <1>4, <1>5
    <3>. QED BY <1>1, <3>1, BytesRest
  <2>. HIDE DEF to, right, bytes
  <2>6. rest \in Nat /\ right + rest = n
    BY <1>4, <1>5
  <2>3. s = [cells |-> Store(Store(to.cells, to.tail, SubSeq(bytes, 1, right)),
                             0, SubSeq(bytes, right + 1, n)),
             size |-> to.size, head |-> to.head, tail |-> Wrap(to.tail + n, to.size)]
    BY <1>2, <1>5 DEF Write, to, right
  <2>4. s = [cells |-> Store(Store(to.cells, to.tail, Bytes(first + Length(r) + 1, right)),
                             0, Bytes(first + Length(r) + right + 1, rest)),
             size |-> to.size, head |-> to.head, tail |-> Wrap(to.tail + (right + rest), to.size)]
    BY <2>1, <2>2, <2>3, <2>6
  <2>. HIDE DEF s
  <2>7. to.tail + right = to.size
    BY <1>3, <1>4, Fields
  <2>. HIDE DEF rest
  <2>8. /\ Length(to) + (right + rest) <= to.size - 1 /\ to.head <= to.tail
        /\ right \in Nat /\ IsRing(to) /\ Holds(to, first + 1)
    BY <1>3, <1>4, <1>5, <2>6
  <2>9. s = TwoPieces(to, first, right, rest)
    BY <1>3, <2>4 DEF TwoPieces
  <2>5. IsRing(s) /\ Length(s) = Length(to) + (right + rest) /\ Holds(s, first + 1)
    BY <2>6, <2>7, <2>8, <2>9, PutAround
  <2>. QED BY <1>3, <2>5, <2>6 DEF s, bytes
<1>6. CASE ~(to.head # 0 /\ to.head <= to.tail /\ n > right)
  <2>1. to.tail + n <= to.size
    BY <1>1, <1>3, <1>6, Fields DEF Length
  <2>2. to.size \in Nat /\ to.cells \in Arrays(to.size) /\ to.tail \in Nat
    BY <1>3, Fields, CellsType
  <2>. HIDE DEF to, right
  <2>3. Store(to.cells, to.tail, bytes) \in Arrays(to.size)
    BY <1>1, <2>1, <2>2, StoreIs
  <2>. HIDE DEF bytes
  <2>4. Store(Store(to.cells, to.tail, bytes), 0, <<>>) = Store(to.cells, to.tail, bytes)
    BY <2>3 DEF Store, Arrays
  <2>5. s = [cells |-> Store(Store(to.cells, to.tail, bytes), 0, <<>>),
             size |-> to.size, head |-> to.head, tail |-> Wrap(to.tail + n, to.size)]
    BY <1>2, <1>6 DEF Write, to, right
  <2>6. s = [cells |-> Store(to.cells, to.tail, bytes),
             size |-> to.size, head |-> to.head, tail |-> Wrap(to.tail + n, to.size)]
    BY <2>4, <2>5
  <2>. HIDE DEF s
  <2>7. IsRing(s) /\ Length(s) = Length(to) + n /\ Holds(s, first + 1)
    BY <1>3, <2>1, <2>6, PutOnce DEF bytes
  <2>. QED BY <1>3, <2>7 DEF s, bytes
<1>. QED BY <1>5, <1>6

\* A receive asks for no more than there is room for.
LEMMA RoomIs ==
    ASSUME NEW r, IsRing(r)
    PROVE  /\ Room(r) \in Nat
           /\ Length(r) + Room(r) <= r.size - 1
           /\ r.tail + Room(r) <= r.size
           /\ ~RunsToEnd(r) => Length(r) + Room(r) = r.size - 1 /\ r.tail + Room(r) < r.size
           /\ Length(r) < r.size - 1 => Room(r) > 0
BY Fields DEF Room, RunsToEnd, Length

\* A receive puts its bytes after those a ring holds.
LEMMA ReceiveKeeps ==
    ASSUME NEW r, IsRing(r), NEW first \in Nat, Holds(r, first + 1), NEW n \in 0 .. Room(r)
    PROVE  LET s == Received(r, Bytes(first + Length(r) + 1, n))
           IN  /\ IsRing(s)
               /\ Length(s) = Length(r) + n
               /\ Holds(s, first + 1)
               /\ s.size = r.size /\ s.head = r.head
               /\ s.tail = Wrap(r.tail + n, r.size)
<1>. DEFINE bytes == Bytes(first + Length(r) + 1, n)
            s == Received(r, bytes)
<1>1. n \in Nat /\ Length(r) + n <= r.size - 1 /\ r.tail + n <= r.size
  BY RoomIs, LengthBound, Fields
<1>2. first + Length(r) \in Nat
  BY LengthBound, Fields
<1>3. Len(bytes) = n
  BY <1>1, <1>2, BytesSeq
<1>4. (IF RunsToEnd(r) THEN Wrap(r.tail + n, r.size) ELSE r.tail + n) = Wrap(r.tail + n, r.size)
  BY <1>1, RoomIs, Fields DEF Wrap
<1>5. s = [cells |-> Store(r.cells, r.tail, bytes), size |-> r.size, head |-> r.head,
           tail |-> Wrap(r.tail + n, r.size)]
  <2>. HIDE DEF bytes
  <2>. QED BY <1>3, <1>4 DEF Received
<1>6. s.tail = Wrap(r.tail + n, r.size)
  BY <1>5, Fields
<1>. HIDE DEF s
<1>. QED BY <1>1, <1>5, <1>6, PutOnce DEF s

-----------------------------------------------------------------------------
(* The invariant. *)

\* What the steps read off the type invariant.
LEMMA Types ==
    ASSUME TypeOK
    PROVE  /\ IsRing(out) /\ IsRing(in)
           /\ packets \in Seq(Packets) /\ Len(packets) \in Nat
           /\ \A k \in 1 .. Len(packets) :
                  /\ packets[k].first \in Nat \ {0}
                  /\ packets[k].len \in BodyLens /\ packets[k].len \in Nat
           /\ tcp \in Seq(Nat) /\ Len(tcp) \in Nat
           /\ received \in Nat /\ received <= Len(tcp)
           /\ HeaderLen \in Nat \ {0}
<1>1. packets \in Seq(Packets) /\ \A k \in 1 .. Len(packets) : packets[k] \in Packets
  BY DEF TypeOK
<1>2. \A k \in 1 .. Len(packets) :
          packets[k].first \in Nat \ {0} /\ packets[k].len \in BodyLens /\ packets[k].len \in Nat
  BY <1>1, BufferAssumption DEF Packets
<1>3. tcp \in Seq(Nat) /\ Len(tcp) \in Nat /\ received \in 0 .. Len(tcp) /\ Len(packets) \in Nat
  BY <1>1 DEF TypeOK
<1>. QED BY <1>1, <1>2, <1>3, BufferAssumption DEF TypeOK

\* A new ring is empty.
LEMMA NewRingIs ==
    ASSUME NEW size \in Nat \ {0}, NEW first
    PROVE  /\ IsRing(NewRing(size)) /\ Length(NewRing(size)) = 0
           /\ Holds(NewRing(size), first) /\ NewRing(size).size = size
<1>1. NewRing(size) = [cells |-> [i \in 0 .. size - 1 |-> 0], size |-> size,
                       head |-> 0, tail |-> 0]
  BY DEF NewRing
<1>2. IsRing(NewRing(size))
  BY <1>1, RingOf DEF Arrays
<1>3. Length(NewRing(size)) = 0 /\ NewRing(size).size = size
  BY <1>1 DEF Length
<1>. QED BY <1>2, <1>3 DEF Holds

\* The invariant holds at first.
LEMMA InitInv == Init => StreamInv
<1>. SUFFICES ASSUME Init PROVE StreamInv
  OBVIOUS
<1>. USE DEF Init
<1>1. /\ IsRing(out) /\ Length(out) = 0 /\ Holds(out, 1)
      /\ IsRing(in) /\ Length(in) = 0 /\ Holds(in, 1) /\ in.size = InputBufferLen
  BY NewRingIs, BufferAssumption
<1>2. /\ packets = <<>> /\ tcp = <<>> /\ got = <<>> /\ received = 0
      /\ Len(packets) = 0 /\ Len(tcp) = 0 /\ Len(got) = 0 /\ Written = 0
  BY DEF Written
<1>3. TypeOK
  <2>1. packets \in Seq(Packets) /\ tcp \in Seq(Nat) /\ got \in Seq(Seq(Nat))
    BY <1>2
  <2>2. sequence \in 0 .. Modulus - 1
    BY BufferAssumption
  <2>. QED BY <1>1, <1>2, <2>1, <2>2 DEF TypeOK
<1>4. InOrder
  BY <1>1, <1>2 DEF InOrder
<1>5. Room(in) > 0
  <2>1. Length(in) < in.size - 1
    BY <1>1, BufferAssumption
  <2>. QED BY <1>1, <2>1, RoomIs
<1>6. Framed /\ AtPacketStart
  BY <1>1, <1>2 DEF Framed, AtPacketStart
<1>7. in.size >= InputBufferLen
  BY <1>1, BufferAssumption
<1>. QED BY <1>3, <1>4, <1>5, <1>6, <1>7 DEF StreamInv, RoomAtTurn

\* Where packets begin.
LEMMA PacketsApart ==
    ASSUME TypeOK, Framed
    PROVE  \A k \in 1 .. Len(packets) :
               /\ packets[k].first <= Written
               /\ NextFirst(k) - 1 <= Written
               /\ k = Len(packets) => NextFirst(k) - 1 = Written
<1>. SUFFICES ASSUME NEW k \in 1 .. Len(packets)
              PROVE  /\ packets[k].first <= Written
                     /\ NextFirst(k) - 1 <= Written
                     /\ k = Len(packets) => NextFirst(k) - 1 = Written
  OBVIOUS
<1>. DEFINE n == Len(packets)
<1>1. /\ n \in Nat /\ n \in 1 .. n /\ k \in 1 .. n /\ packets # <<>>
      /\ packets[k].first \in Nat /\ packets[k].len \in Nat
      /\ packets[n].first \in Nat /\ packets[n].len \in Nat
      /\ HeaderLen \in Nat \ {0}
  BY Types
<1>2. Written = NextFirst(n) - 1
  BY <1>1 DEF Written
<1>0. ASSUME NEW j \in 1 .. n
      PROVE  packets[j].first < NextFirst(j) /\ NextFirst(j) \in Nat
  <2>. DEFINE a == packets[j].first  b == packets[j].len
  <2>1. a \in Nat /\ b \in Nat /\ HeaderLen \in Nat /\ HeaderLen > 0
    BY Types
  <2>2. NextFirst(j) = a + HeaderLen + b
    BY DEF NextFirst
  <2>. HIDE DEF a, b
  <2>3. a < a + HeaderLen + b /\ a + HeaderLen + b \in Nat
    BY <2>1
  <2>. QED BY <2>2, <2>3 DEF a
<1>. HIDE DEF n
<1>3. /\ packets[k].first < NextFirst(k) /\ packets[n].first < NextFirst(n)
      /\ NextFirst(k) \in Nat /\ NextFirst(n) \in Nat
  BY <1>0, <1>1
<1>4. NextFirst(k) <= NextFirst(n)
  <2>1. CASE k = n
    BY <1>3, <2>1
  <2>2. CASE k # n
    <3>1. k < n
      BY <1>1, <2>2
    <3>2. NextFirst(k) <= packets[n].first
      BY <1>1, <3>1 DEF Framed, n
    <3>. QED BY <1>1, <1>3, <3>2
  <2>. QED BY <2>1, <2>2
<1>5. packets[k].first <= Written /\ NextFirst(k) - 1 <= Written
  BY <1>1, <1>2, <1>3, <1>4
<1>. QED BY <1>2, <1>5 DEF n

\* A packet that is written follows those that were.
LEMMA WriteStep ==
    ASSUME StreamInv, NEW len \in BodyLens, WritePacket(len)
    PROVE  StreamInv'
<1>. DEFINE n == Len(packets)
            p == [first |-> Written + 1, len |-> len]
<1>. USE DEF StreamInv
<1>1. /\ packets' = Append(packets, p)
      /\ out' = Write(Write(out, Bytes(Written + 1, HeaderLen)),
                      Bytes(Written + 1 + HeaderLen, len))
      /\ UNCHANGED <<tcp, received, in, reader, sequence, turn, conn, got>>
  BY DEF WritePacket
<1>2. /\ Written = Len(tcp) + Length(out) /\ Written \in Nat /\ Len(tcp) \in Nat
      /\ Length(out) \in Nat
      /\ HeaderLen \in Nat /\ len \in Nat /\ n \in Nat /\ IsRing(out) /\ Holds(out, Len(tcp) + 1)
  BY Types, LengthBound, Fields, BufferAssumption DEF InOrder
<1>3. /\ IsRing(out')
      /\ Length(out') = Length(out) + HeaderLen + len
      /\ Holds(out', Len(tcp) + 1)
  <2>. DEFINE head == Write(out, Bytes(Len(tcp) + Length(out) + 1, HeaderLen))
  <2>1. IsRing(head) /\ Length(head) = Length(out) + HeaderLen /\ Holds(head, Len(tcp) + 1)
    BY <1>2, WriteKeeps
  <2>2. out' = Write(head, Bytes(Len(tcp) + Length(head) + 1, len))
    <3>1. Written + 1 + HeaderLen = Len(tcp) + Length(head) + 1
      BY <1>2, <2>1
    <3>. QED BY <1>1, <1>2, <3>1
  <2>. HIDE DEF head
  <2>3. LET s == Write(head, Bytes(Len(tcp) + Length(head) + 1, len))
        IN  IsRing(s) /\ Length(s) = Length(head) + len /\ Holds(s, Len(tcp) + 1)
    BY <1>2, <2>1, WriteKeeps
  <2>. QED BY <2>1, <2>2, <2>3
<1>4. p \in Packets
  BY <1>2 DEF Packets
<1>5. /\ packets' \in Seq(Packets) /\ Len(packets') = n + 1
      /\ packets'[n + 1] = p
      /\ \A k \in 1 .. n : packets'[k] = packets[k]
  BY <1>1, <1>4, Types
<1>6. Written' = Written + HeaderLen + len
  <2>1. packets' # <<>>
    BY <1>2, <1>5
  <2>2. Written' = NextFirst(Len(packets))' - 1
    BY <2>1 DEF Written
  <2>3. NextFirst(Len(packets))' =
            packets'[Len(packets')].first + HeaderLen + packets'[Len(packets')].len
    BY DEF NextFirst
  <2>4. packets'[Len(packets')].first = Written + 1 /\ packets'[Len(packets')].len = len
    BY <1>5
  <2>5. Written \in Nat /\ HeaderLen \in Nat /\ len \in Nat
    BY <1>2
  <2>. QED BY <2>2, <2>3, <2>4, <2>5
<1>7. TypeOK'
  BY <1>1, <1>3, <1>5 DEF TypeOK
<1>8. InOrder'
  <2>1. Len(tcp) + Length(out') = Written'
    BY <1>2, <1>3, <1>6
  <2>. QED BY <1>1, <1>3, <2>1 DEF InOrder
<1>9. RoomAtTurn' /\ (in.size >= InputBufferLen)'
  <2>1. ASSUME PacketFits' PROVE PacketFits
    <3>. SUFFICES ASSUME Len(got) < n PROVE HeaderLen + packets[Len(got) + 1].len < in.size
      BY DEF PacketFits
    <3>1. Len(got) + 1 \in 1 .. n
      BY Types
    <3>. QED BY <1>1, <1>2, <1>5, <2>1, <3>1 DEF PacketFits
  <2>. QED BY <1>1, <2>1 DEF RoomAtTurn
<1>10. Framed'
  <2>1. \A k \in 1 .. n : NextFirst(k)' = NextFirst(k)
    BY <1>5 DEF NextFirst
  <2>2. packets'[1].first = 1
    <3>1. CASE n = 0
      <4>1. packets = <<>>
        BY <3>1, Types
      <4>. QED BY <1>5, <3>1, <4>1 DEF Written
    <3>2. CASE n # 0
      <4>1. 1 \in 1 .. n /\ packets # <<>>
        BY <1>2, <3>2
      <4>. QED BY <1>5, <4>1 DEF Framed
    <3>. QED BY <3>1, <3>2
  <2>3. ASSUME NEW k \in 1 .. n
        PROVE  NextFirst(k) <= Written + 1 /\ (k = n => NextFirst(k) = Written + 1)
    <3>1. NextFirst(k) \in Nat
      BY Types DEF NextFirst
    <3>. QED BY <1>2, <3>1, PacketsApart
  <2>4. ASSUME NEW k \in 1 .. n PROVE packets'[k + 1].first = NextFirst(k)'
    <3>1. CASE k = n
      BY <1>5, <2>1, <2>3, <3>1
    <3>2. CASE k # n
      <4>1. k \in 1 .. n - 1 /\ k + 1 \in 1 .. n
        BY <1>2, <3>2
      <4>. QED BY <1>5, <2>1, <4>1 DEF Framed
    <3>. QED BY <3>1, <3>2
  <2>5. ASSUME NEW j \in 1 .. n + 1, NEW k \in 1 .. n + 1, j < k
        PROVE  NextFirst(j)' <= packets'[k].first
    <3>1. j \in 1 .. n
      BY <1>2, <2>5
    <3>2. CASE k = n + 1
      BY <1>5, <2>1, <2>3, <3>1, <3>2
    <3>3. CASE k # n + 1
      <4>1. k \in 1 .. n
        BY <1>2, <3>3
      <4>. QED BY <1>5, <2>1, <2>5, <3>1, <4>1 DEF Framed
    <3>. QED BY <3>2, <3>3
  <2>6. \A k \in 1 .. Len(packets') - 1 : packets'[k + 1].first = NextFirst(k)'
    <3>1. Len(packets') - 1 = n
      BY <1>2, <1>5
    <3>. QED BY <2>4, <3>1
  <2>7. \A j, k \in 1 .. Len(packets') : j < k => NextFirst(j)' <= packets'[k].first
    BY <1>5, <2>5
  <2>. QED BY <2>2, <2>6, <2>7 DEF Framed
<1>11. AtPacketStart'
  <2>1. Len(got) \in Nat /\ Len(got) <= n
    BY DEF AtPacketStart, TypeOK
  <2>2. ASSUME NEW k \in 1 .. Len(got) PROVE PacketBytes(k)' = PacketBytes(k)
    <3>1. k \in 1 .. n
      BY <1>2, <2>1
    <3>2. packets'[k] = packets[k]
      BY <1>5, <3>1
    <3>. QED BY <3>2 DEF PacketBytes
  <2>3. received - Length(in) + 1 =
            IF Len(got) < n + 1 THEN packets'[Len(got) + 1].first ELSE Written' + 1
    <3>1. CASE Len(got) < n
      <4>1. Len(got) + 1 \in 1 .. n
        BY <1>2, <2>1, <3>1
      <4>2. received - Length(in) + 1 = packets[Len(got) + 1].first
        BY <3>1 DEF AtPacketStart
      <4>3. packets'[Len(got) + 1] = packets[Len(got) + 1]
        BY <1>5, <4>1
      <4>4. Len(got) < n + 1
        BY <1>2, <2>1, <3>1
      <4>. QED BY <4>2, <4>3, <4>4
    <3>2. CASE ~(Len(got) < n)
      <4>1. Len(got) = n /\ Len(got) < n + 1
        BY <1>2, <2>1, <3>2
      <4>. QED BY <1>2, <1>5, <3>2, <4>1 DEF AtPacketStart
    <3>. QED BY <3>1, <3>2
  <2>4. Len(got) <= n + 1
    BY <1>2, <2>1
  <2>. QED BY <1>1, <1>5, <2>2, <2>3, <2>4 DEF AtPacketStart
<1>. QED BY <1>7, <1>8, <1>9, <1>10, <1>11

\* What has not been written or read does not change where packets lie.
LEMMA SamePackets ==
    ASSUME UNCHANGED packets
    PROVE  /\ Written' = Written /\ Framed' = Framed
           /\ \A k : PacketBytes(k)' = PacketBytes(k)
BY DEF Written, Framed, NextFirst, PacketBytes

\* The socket takes bytes in order, and what is left follows them.
LEMMA FlushStep ==
    ASSUME StreamInv, NEW n \in 1 .. Length(out), Flush(n)
    PROVE  StreamInv'
<1>. USE DEF StreamInv
<1>1. /\ tcp' = tcp \o Peek(out, n) /\ out' = Flushed(out, n)
      /\ UNCHANGED <<packets, received, in, reader, sequence, turn, conn, got>>
  BY DEF Flush
<1>2. /\ IsRing(out) /\ Holds(out, Len(tcp) + 1) /\ Len(tcp) \in Nat /\ tcp \in Seq(Nat)
      /\ Length(out) \in Nat /\ n \in Nat /\ n \in 0 .. Length(out)
  BY Types, LengthBound, Fields DEF InOrder
<1>3. Peek(out, n) = Bytes(Len(tcp) + 1, n)
  BY <1>2, PeekGives
<1>4. /\ Peek(out, n) \in Seq(Nat) /\ Len(Peek(out, n)) = n
      /\ \A i \in 1 .. n : Peek(out, n)[i] = Len(tcp) + i
  <2>1. /\ Bytes(Len(tcp) + 1, n) \in Seq(Nat) /\ Len(Bytes(Len(tcp) + 1, n)) = n
        /\ \A i \in 1 .. n : Bytes(Len(tcp) + 1, n)[i] = Len(tcp) + i
    BY <1>2, BytesSeq
  <2>. QED BY <1>3, <2>1, Zenon
<1>5. /\ tcp' \in Seq(Nat) /\ Len(tcp') = Len(tcp) + n
      /\ \A i \in 1 .. Len(tcp) + n :
             tcp'[i] = IF i <= Len(tcp) THEN tcp[i] ELSE Peek(out, n)[i - Len(tcp)]
  <2>. DEFINE b == Peek(out, n)
  <2>1. b \in Seq(Nat) /\ Len(b) = n
    BY <1>4
  <2>. HIDE DEF b
  <2>2. /\ tcp \o b \in Seq(Nat)
        /\ Len(tcp \o b) = Len(tcp) + Len(b)
        /\ \A i \in 1 .. Len(tcp) + Len(b) :
               (tcp \o b)[i] = IF i <= Len(tcp) THEN tcp[i] ELSE b[i - Len(tcp)]
    BY <1>2, <2>1, ConcatProperties, Zenon
  <2>3. tcp' = tcp \o b
    BY <1>1 DEF b
  <2>4. /\ tcp' \in Seq(Nat) /\ Len(tcp') = Len(tcp) + n
        /\ \A i \in 1 .. Len(tcp) + n :
               tcp'[i] = IF i <= Len(tcp) THEN tcp[i] ELSE b[i - Len(tcp)]
    BY <2>1, <2>2, <2>3, Zenon
  <2>. QED BY <2>4 DEF b
<1>6. \A i \in 1 .. Len(tcp) + n : tcp'[i] = i
  <2>. SUFFICES ASSUME NEW i \in 1 .. Len(tcp) + n PROVE tcp'[i] = i
    OBVIOUS
  <2>1. CASE i <= Len(tcp)
    <3>1. i \in 1 .. Len(tcp) /\ tcp[i] = i
      BY <1>2, <2>1 DEF InOrder
    <3>. QED BY <1>5, <2>1, <3>1
  <2>2. CASE ~(i <= Len(tcp))
    <3>1. i - Len(tcp) \in 1 .. n
      BY <1>2, <2>2
    <3>2. Peek(out, n)[i - Len(tcp)] = Len(tcp) + (i - Len(tcp))
      BY <1>4, <3>1
    <3>. QED BY <1>2, <1>5, <2>2, <3>2
  <2>. QED BY <2>1, <2>2
<1>7. /\ IsRing(out') /\ Length(out') = Length(out) - n /\ Holds(out', Len(tcp) + n + 1)
  BY <1>1, <1>2, FlushKeeps
<1>8. TypeOK'
  <2>1. received \in 0 .. Len(tcp')
    BY <1>2, <1>5, Types
  <2>. QED BY <1>1, <1>5, <1>7, <2>1 DEF TypeOK
<1>9. InOrder'
  <2>1. Len(tcp') + Length(out') = Written'
    BY <1>1, <1>2, <1>5, <1>7, SamePackets DEF InOrder
  <2>. QED BY <1>1, <1>5, <1>6, <1>7, <2>1 DEF InOrder
<1>10. RoomAtTurn' /\ (in.size >= InputBufferLen)' /\ Framed'
  BY <1>1, SamePackets DEF RoomAtTurn, PacketFits
<1>11. AtPacketStart'
  BY <1>1, SamePackets DEF AtPacketStart
<1>. QED BY <1>8, <1>9, <1>10, <1>11

\* What has arrived is the next bytes of those written.
LEMMA ArrivedIs ==
    ASSUME TypeOK, InOrder, NEW m \in Nat, NEW n \in Nat, m + n <= InFlight
    PROVE  Arrived(received + m, n) = Bytes(received + m + 1, n)
<1>1. received \in Nat /\ Len(tcp) \in Nat /\ received + (m + n) <= Len(tcp)
  BY Types DEF InFlight
<1>2. \A j \in 1 .. n : tcp[received + m + j] = received + m + 1 + j - 1
  <2>. SUFFICES ASSUME NEW j \in 1 .. n
                PROVE  tcp[received + m + j] = received + m + 1 + j - 1
    OBVIOUS
  <2>1. received + m + j \in 1 .. Len(tcp)
    BY <1>1
  <2>2. tcp[received + m + j] = received + m + j
    BY <2>1 DEF InOrder
  <2>. QED BY <1>1, <2>2
<1>. QED BY <1>2 DEF Arrived, Bytes

\* A fill that adds what has arrived to the ring keeps the invariant.
LEMMA FillKeeps ==
    ASSUME StreamInv, NEW n \in Nat, Reading(n),
           IsRing(in'), Length(in') = Length(in) + n, Holds(in', received - Length(in) + 1),
           in'.size >= in.size, turn' = "command", conn' \in {"open", "blind"}
    PROVE  StreamInv'
<1>. USE DEF StreamInv
<1>1. /\ received' = received + n /\ n <= InFlight
      /\ UNCHANGED <<out, packets, tcp, reader, sequence, got>>
  BY DEF Reading
<1>2. /\ received \in Nat /\ Len(tcp) \in Nat /\ Length(in) \in Nat
      /\ in.size \in Nat /\ in'.size \in Nat
  BY Types, LengthBound, Fields
<1>3. received' - Length(in') = received - Length(in) /\ Length(in') <= received'
  BY <1>1, <1>2 DEF InOrder
<1>4. TypeOK'
  <2>1. received' \in 0 .. Len(tcp')
    BY <1>1, <1>2 DEF InFlight
  <2>2. conn' \in {"open", "sequence", "blind"}
    OBVIOUS
  <2>. QED BY <1>1, <2>1, <2>2 DEF TypeOK
<1>5. InOrder'
  BY <1>1, <1>3, SamePackets DEF InOrder
<1>6. RoomAtTurn'
  BY DEF RoomAtTurn
<1>7. Framed' /\ AtPacketStart'
  BY <1>1, <1>3, SamePackets DEF AtPacketStart
<1>8. in'.size >= InputBufferLen
  BY <1>2, BufferAssumption
<1>. QED BY <1>4, <1>5, <1>6, <1>7, <1>8

\* The ring as fill finds it.
LEMMA InIs ==
    ASSUME StreamInv
    PROVE  /\ IsRing(in) /\ Length(in) = Length(in) + 0 /\ Length(in) \in Nat
           /\ Holds(in, received - Length(in) + 1)
           /\ received \in Nat /\ received + 0 = received /\ InFlight \in Nat
           /\ Room(in) \in Nat /\ in.size \in Nat /\ in.head \in Nat /\ in.tail \in Nat
<1>1. IsRing(in) /\ received \in Nat /\ Len(tcp) \in Nat /\ received <= Len(tcp)
  BY Types DEF StreamInv
<1>2. Length(in) \in Nat /\ Room(in) \in Nat
  BY <1>1, LengthBound, RoomIs, Fields
<1>3. Holds(in, received - Length(in) + 1)
  BY DEF StreamInv, InOrder
<1>. QED BY <1>1, <1>2, <1>3, Fields DEF InFlight

\* One receive.
LEMMA ReceiveArrived ==
    ASSUME StreamInv, NEW r, IsRing(r), NEW m \in Nat, Length(r) = Length(in) + m,
           Holds(r, received - Length(in) + 1), NEW n \in 0 .. Room(r), m + n <= InFlight
    PROVE  LET s == Received(r, Arrived(received + m, n))
           IN  /\ IsRing(s) /\ Length(s) = Length(in) + (m + n)
               /\ Holds(s, received - Length(in) + 1)
               /\ s.size = r.size /\ s.head = r.head
               /\ s.tail = Wrap(r.tail + n, r.size)
<1>. USE DEF StreamInv
<1>. DEFINE first == received - Length(in)
<1>1. /\ received \in Nat /\ Length(in) \in Nat /\ n \in Nat /\ first \in Nat
  <2>1. n \in Nat
    BY RoomIs
  <2>2. received \in Nat /\ Length(in) \in Nat
    BY InIs
  <2>3. Length(in) <= received
    BY DEF InOrder
  <2>. QED BY <2>1, <2>2, <2>3
<1>2. Arrived(received + m, n) = Bytes(received + m + 1, n)
  BY <1>1, ArrivedIs
<1>3. received + m + 1 = first + Length(r) + 1
  BY <1>1
<1>. HIDE DEF first
<1>4. LET s == Received(r, Bytes(first + Length(r) + 1, n))
      IN  /\ IsRing(s) /\ Length(s) = Length(r) + n /\ Holds(s, first + 1)
          /\ s.size = r.size /\ s.head = r.head
          /\ s.tail = Wrap(r.tail + n, r.size)
  BY <1>1, ReceiveKeeps DEF first
<1>5. Length(r) + n = Length(in) + (m + n)
  BY <1>1
<1>. QED BY <1>2, <1>3, <1>4, <1>5 DEF first

\* The first receive of a fill that reaches the end of the array.
LEMMA ToTheEndIs ==
    ASSUME StreamInv, Room(in) <= InFlight
    PROVE  /\ IsRing(ToTheEnd) /\ Length(ToTheEnd) = Length(in) + Room(in)
           /\ Holds(ToTheEnd, received - Length(in) + 1)
           /\ ToTheEnd.size = in.size
           /\ ToTheEnd.tail = Wrap(in.tail + Room(in), in.size)
           /\ RunsToEnd(in) => Room(ToTheEnd) = in.head - 1
           /\ ~RunsToEnd(in) => Length(ToTheEnd) = in.size - 1
<1>. DEFINE s == Received(in, Arrived(received + 0, Room(in)))
<1>1. Room(in) \in 0 .. Room(in) /\ 0 \in Nat /\ 0 + Room(in) <= InFlight /\ 0 + Room(in) = Room(in)
  BY InIs
<1>2. /\ IsRing(s) /\ Length(s) = Length(in) + (0 + Room(in))
      /\ Holds(s, received - Length(in) + 1)
      /\ s.size = in.size /\ s.head = in.head
      /\ s.tail = Wrap(in.tail + Room(in), in.size)
  BY <1>1, InIs, ReceiveArrived
<1>3. s = ToTheEnd
  BY InIs DEF ToTheEnd
<1>. HIDE DEF s
<1>4. RunsToEnd(in) => Room(s) = in.head - 1
  <2>. SUFFICES ASSUME RunsToEnd(in) PROVE Room(s) = in.head - 1
    OBVIOUS
  <2>1. in.head # 0 /\ Room(in) = in.size - in.tail
    BY DEF RunsToEnd, Room
  <2>2. in.tail + Room(in) = in.size
    BY <2>1, InIs
  <2>3. s.tail = 0
    BY <1>2, <2>2, InIs DEF Wrap
  <2>4. ~RunsToEnd(s) /\ s.head # 0
    BY <1>2, <2>1, <2>3, InIs DEF RunsToEnd
  <2>. QED BY <1>2, <2>3, <2>4, InIs DEF Room
<1>5. ~RunsToEnd(in) => Length(s) = in.size - 1
  BY <1>1, <1>2, InIs, RoomIs
<1>. QED BY <1>1, <1>2, <1>3, <1>4, <1>5

\* fill, whatever it receives.
LEMMA FillStep ==
    ASSUME StreamInv, Fill
    PROVE  StreamInv'
<1>1. ASSUME NEW n \in 0 .. InFlight, FillOnce(n) PROVE StreamInv'
  <2>1. /\ n \in Nat /\ n \in 0 .. Room(in) /\ 0 \in Nat /\ 0 + n <= InFlight /\ 0 + n = n
        /\ Reading(n) /\ in' = Received(in, Arrived(received, n))
        /\ turn' = "command" /\ conn' = "open"
    BY <1>1, InIs DEF FillOnce, Reading
  <2>2. LET s == Received(in, Arrived(received + 0, n))
        IN  /\ IsRing(s) /\ Length(s) = Length(in) + (0 + n)
            /\ Holds(s, received - Length(in) + 1) /\ s.size = in.size
    BY <2>1, InIs, ReceiveArrived
  <2>3. /\ IsRing(in') /\ Length(in') = Length(in) + n
        /\ Holds(in', received - Length(in) + 1) /\ in'.size = in.size
    BY <2>1, <2>2, InIs
  <2>4. in'.size >= in.size
    BY <2>3, InIs
  <2>. QED BY <2>1, <2>3, <2>4, FillKeeps
<1>2. ASSUME NEW n \in 0 .. InFlight, FillAround(n) PROVE StreamInv'
  <2>. DEFINE m == Room(in)
  <2>1. /\ RunsToEnd(in) /\ n \in Nat /\ n <= in.head - 1 /\ Reading(m + n)
        /\ in' = Received(ToTheEnd, Arrived(received + m, n))
        /\ turn' = "command" /\ conn' = "open"
    BY <1>2, InIs DEF FillAround, Reading
  <2>2. m \in Nat /\ m + n \in Nat /\ m + n <= InFlight /\ Room(in) <= InFlight
    BY <2>1, InIs DEF Reading
  <2>3. /\ IsRing(ToTheEnd) /\ Length(ToTheEnd) = Length(in) + m
        /\ Holds(ToTheEnd, received - Length(in) + 1)
        /\ ToTheEnd.size = in.size /\ Room(ToTheEnd) = in.head - 1
    BY <2>1, <2>2, ToTheEndIs
  <2>4. n \in 0 .. Room(ToTheEnd)
    BY <2>1, <2>3, InIs
  <2>. HIDE DEF m
  <2>5. LET s == Received(ToTheEnd, Arrived(received + m, n))
        IN  /\ IsRing(s) /\ Length(s) = Length(in) + (m + n)
            /\ Holds(s, received - Length(in) + 1) /\ s.size = ToTheEnd.size
    BY <2>2, <2>3, <2>4, ReceiveArrived
  <2>6. in'.size >= in.size
    BY <2>1, <2>3, <2>5, InIs
  <2>. QED BY <2>1, <2>2, <2>5, <2>6, FillKeeps
<1>3. ASSUME NEW n \in 0 .. InFlight, FillAndGrow(n) PROVE StreamInv'
  <2>. DEFINE m == IF RunsToEnd(in) THEN Room(in) + in.head - 1 ELSE Room(in)
              full == IF RunsToEnd(in)
                      THEN Received(ToTheEnd, Arrived(received + Room(in), in.head - 1))
                      ELSE ToTheEnd
              grown == Resize(full, n + 1)
  <2>1. /\ n \in Nat /\ n > 0 /\ (RunsToEnd(in) => in.head > 1)
        /\ Reading(m + n)
        /\ in' = Received(grown, Arrived(received + m, n))
        /\ turn' = "command" /\ conn' = "open"
    BY <1>3, InIs DEF FillAndGrow, Reading
  <2>2. m \in Nat /\ m + n \in Nat /\ m + n <= InFlight /\ m <= InFlight /\ Room(in) <= InFlight
    BY <2>1, InIs DEF Reading
  <2>3. /\ IsRing(full) /\ Length(full) = Length(in) + m
        /\ Holds(full, received - Length(in) + 1)
        /\ full.size = in.size
    <3>1. CASE RunsToEnd(in)
      <4>1. /\ IsRing(ToTheEnd) /\ Length(ToTheEnd) = Length(in) + Room(in)
            /\ Holds(ToTheEnd, received - Length(in) + 1)
            /\ ToTheEnd.size = in.size /\ Room(ToTheEnd) = in.head - 1
        BY <2>2, <3>1, ToTheEndIs
      <4>2. /\ in.head - 1 \in 0 .. Room(ToTheEnd) /\ Room(in) + (in.head - 1) <= InFlight
            /\ Room(in) \in Nat /\ m = Room(in) + (in.head - 1)
        BY <2>1, <2>2, <3>1, <4>1, InIs
      <4>3. LET s == Received(ToTheEnd, Arrived(received + Room(in), in.head - 1))
            IN  /\ IsRing(s) /\ Length(s) = Length(in) + (Room(in) + (in.head - 1))
                /\ Holds(s, received - Length(in) + 1) /\ s.size = ToTheEnd.size
        BY <4>1, <4>2, ReceiveArrived
      <4>4. full = Received(ToTheEnd, Arrived(received + Room(in), in.head - 1))
        BY <3>1
      <4>. HIDE DEF full, m
      <4>. QED BY <4>1, <4>2, <4>3, <4>4
    <3>2. CASE ~RunsToEnd(in)
      <4>1. full = ToTheEnd /\ m = Room(in)
        BY <3>2
      <4>. HIDE DEF full, m
      <4>. QED BY <2>2, <4>1, ToTheEndIs
    <3>. QED BY <3>1, <3>2
  <2>. HIDE DEF full, m
  <2>. DEFINE first == received - Length(in)
  <2>4. first \in Nat /\ n + 1 \in Nat \ {0} /\ Holds(full, first + 1)
    BY <2>1, <2>3, InIs DEF StreamInv, InOrder
  <2>5. /\ IsRing(grown) /\ Length(grown) = Length(full)
        /\ Holds(grown, first + 1) /\ grown.head = 0 /\ grown.tail = Length(full)
        /\ grown.size >= full.size + (n + 1)
    BY <2>3, <2>4, ResizeKeeps
  <2>. HIDE DEF grown
  <2>6. n \in 0 .. Room(grown)
    <3>1. /\ Length(full) \in Nat /\ full.size \in Nat /\ grown.size \in Nat
          /\ Length(full) <= full.size - 1
      BY <2>3, <2>5, LengthBound, Fields
    <3>2. ~RunsToEnd(grown)
      BY <2>5 DEF RunsToEnd
    <3>3. Room(grown) = grown.size - grown.tail - 1
      BY <2>5, <3>2 DEF Room
    <3>. QED BY <2>1, <2>5, <3>1, <3>3
  <2>7. Length(grown) = Length(in) + m
    BY <2>3, <2>5
  <2>8. LET s == Received(grown, Arrived(received + m, n))
        IN  /\ IsRing(s) /\ Length(s) = Length(in) + (m + n)
            /\ Holds(s, first + 1) /\ s.size = grown.size
    BY <2>2, <2>5, <2>6, <2>7, ReceiveArrived
  <2>9. in'.size >= in.size
    <3>1. grown.size \in Nat /\ full.size \in Nat
      BY <2>3, <2>5, Fields
    <3>. QED BY <2>1, <2>3, <2>5, <2>8, <3>1
  <2>. QED BY <2>1, <2>2, <2>8, <2>9, FillKeeps
<1>4. ASSUME FillBlind PROVE StreamInv'
  <2>1. turn' = "command" /\ conn' = "blind"
    BY <1>4 DEF FillBlind
  <2>2. Room(in) < InFlight /\ Reading(Room(in)) /\ in' = ToTheEnd
    BY <1>4 DEF FillBlind
  <2>3. Room(in) \in Nat /\ Room(in) <= InFlight
    BY <2>2, InIs
  <2>4. in'.size >= in.size
    BY <2>2, <2>3, ToTheEndIs, InIs
  <2>. QED BY <2>1, <2>2, <2>3, <2>4, ToTheEndIs, FillKeeps
<1>. QED BY <1>1, <1>2, <1>3, <1>4 DEF Fill

\* The reader takes no packet for the next but the one after those it got.
LEMMA AtHead ==
    ASSUME StreamInv, NEW k \in 1 .. Len(packets), Peeked(k)
    PROVE  k = Len(got) + 1 /\ Len(got) < Len(packets) /\ Len(got) \in Nat
<1>. USE DEF StreamInv
<1>. DEFINE first == received - Length(in)
            n == Len(got) + 1
<1>1. /\ Len(got) \in Nat /\ Len(got) <= Len(packets) /\ Len(packets) \in Nat
      /\ HeaderLen \in Nat /\ HeaderLen > 0
  <2>1. Len(got) \in Nat /\ Len(packets) \in Nat /\ HeaderLen \in Nat \ {0}
    BY Types DEF TypeOK
  <2>2. Len(got) <= Len(packets)
    BY DEF AtPacketStart
  <2>. QED BY <2>1, <2>2
<1>2. first \in Nat /\ HeaderLen \in 0 .. Length(in) /\ first + 1 <= received
  <2>1. received \in Nat /\ Length(in) \in Nat
    BY InIs
  <2>2. Length(in) <= received
    BY DEF InOrder
  <2>3. HeaderLen <= Length(in)
    BY DEF Peeked
  <2>. QED BY <1>1, <2>1, <2>2, <2>3
<1>3. packets[k].first = first + 1
  <2>1. Peek(in, HeaderLen) = Bytes(first + 1, HeaderLen)
    <3>. HIDE DEF first
    <3>1. IsRing(in) /\ Holds(in, first + 1)
      BY InIs DEF first
    <3>. QED BY <1>2, <3>1, PeekGives
  <2>2. Bytes(first + 1, HeaderLen)[1] = first + 1
    <3>1. 1 \in 1 .. HeaderLen
      BY <1>1
    <3>. HIDE DEF first
    <3>. QED BY <1>1, <1>2, <3>1, BytesSeq
  <2>. QED BY <2>1, <2>2 DEF Peeked
<1>4. received <= Written
  <2>1. Len(tcp) \in Nat /\ Length(out) \in Nat
    BY Types, LengthBound, Fields
  <2>. QED BY <2>1, Types DEF InOrder
<1>5. Len(got) < Len(packets)
  <2>. SUFFICES ASSUME ~(Len(got) < Len(packets)) PROVE FALSE
    BY <1>1
  <2>1. first + 1 = Written + 1
    BY DEF AtPacketStart
  <2>2. Written \in Nat
    BY Types, LengthBound, Fields DEF InOrder
  <2>. HIDE DEF first
  <2>. QED BY <1>2, <1>4, <2>1, <2>2, InIs
<1>6. packets[n].first = first + 1 /\ n \in 1 .. Len(packets)
  BY <1>1, <1>5 DEF AtPacketStart
<1>7. k = n
  <2>. DEFINE size == Len(packets)
  <2>1. ASSUME NEW i \in 1 .. size, NEW j \in 1 .. size, i < j
        PROVE  packets[i].first < packets[j].first
    <3>. DEFINE a == packets[i].first  b == packets[i].len  c == packets[j].first
    <3>1. a \in Nat /\ b \in Nat /\ c \in Nat
      BY Types
    <3>2. a + HeaderLen + b <= c
      BY <2>1 DEF Framed, NextFirst
    <3>. HIDE DEF a, b, c
    <3>3. a < c
      BY <1>1, <3>1, <3>2
    <3>. QED BY <3>3 DEF a, c
  <2>2. packets[k].first = packets[n].first /\ packets[k].first \in Nat
    BY <1>3, <1>6, Types
  <2>3. ~(k < n) /\ ~(n < k)
    BY <1>6, <2>1, <2>2
  <2>. QED BY <1>1, <2>3
<1>. QED BY <1>1, <1>5, <1>7

\* A turn that finds too little for the next packet leaves room for more.
LEMMA RoomLeft ==
    ASSUME StreamInv, NEW need \in Nat, need < in.size, Length(in) < need
    PROVE  Room(in) > 0
<1>1. IsRing(in) /\ Length(in) \in Nat /\ in.size \in Nat
  BY InIs
<1>2. Length(in) < in.size - 1
  BY <1>1
<1>. QED BY <1>1, <1>2, RoomIs

\* A turn of processCommand that leaves the buffer as it is.
LEMMA TurnKeeps ==
    ASSUME StreamInv, UNCHANGED <<out, packets, tcp, received, in, reader, got>>,
           sequence' \in 0 .. Modulus - 1,
           turn' \in {"input", "command"}, conn' \in {"open", "sequence", "blind"},
           turn' = "input" /\ conn' = "open" /\ PacketFits => Room(in) > 0
    PROVE  StreamInv'
<1>. USE DEF StreamInv
<1>1. TypeOK'
  BY DEF TypeOK
<1>2. InOrder' /\ Framed' /\ AtPacketStart'
  BY SamePackets DEF InOrder, AtPacketStart
<1>3. RoomAtTurn'
  BY DEF RoomAtTurn, PacketFits
<1>. QED BY <1>1, <1>2, <1>3

\* The number of the next packet stays a BYTE.
LEMMA CountStep ==
    ASSUME TypeOK, CountsPacket
    PROVE  sequence' \in 0 .. Modulus - 1
<1>1. Modulus \in Nat /\ Modulus > 0 /\ sequence \in 0 .. Modulus - 1
  BY BufferAssumption DEF TypeOK
<1>2. (sequence + 1) % Modulus \in 0 .. Modulus - 1
  BY <1>1
<1>. QED BY <1>1, <1>2 DEF CountsPacket

\* A packet that is read is the next, and the one behind it is then the first in the buffer.
LEMMA ReadIs ==
    ASSUME StreamInv, NEW k \in 1 .. Len(packets), ReadPacket(k)
    PROVE  /\ k = Len(got) + 1 /\ Len(got) \in Nat
           /\ got' = Append(got, PacketBytes(k))
           /\ IsRing(in') /\ in'.size = in.size
           /\ Length(in') \in Nat /\ Length(in') <= Length(in)
           /\ received - Length(in') + 1 = NextFirst(k)
           /\ Holds(in', received - Length(in') + 1)
<1>. USE DEF StreamInv
<1>. DEFINE first == received - Length(in)
            len == HeaderLen + packets[k].len
<1>1. k = Len(got) + 1 /\ Len(got) < Len(packets) /\ Len(got) \in Nat
  BY AtHead DEF ReadPacket
<1>2. packets[k].first = first + 1
  BY <1>1 DEF AtPacketStart
<1>3. /\ first \in Nat /\ IsRing(in) /\ Holds(in, first + 1)
      /\ received \in Nat /\ Length(in) \in Nat /\ received = first + Length(in)
  BY InIs DEF InOrder
<1>4. len \in 0 .. Length(in) /\ len \in Nat
  <2>1. packets[k].len \in Nat /\ HeaderLen \in Nat
    BY Types
  <2>2. len <= Length(in)
    BY <2>1 DEF ReadPacket, IsWhole
  <2>. QED BY <1>3, <2>1, <2>2
<1>5. got' = Append(got, Peek(in, len)) /\ in' = Skip(in, len)
  BY DEF ReadPacket
<1>6. NextFirst(k) = packets[k].first + len
  <2>1. packets[k].len \in Nat /\ HeaderLen \in Nat /\ packets[k].first \in Nat
    BY Types
  <2>. QED BY <2>1 DEF NextFirst
<1>7. PacketBytes(k) = Bytes(packets[k].first, len)
  BY DEF PacketBytes
<1>. HIDE DEF first, len
<1>8. Peek(in, len) = Bytes(first + 1, len)
  BY <1>3, <1>4, PeekGives
<1>9. /\ IsRing(in') /\ Length(in') = Length(in) - len /\ Holds(in', first + len + 1)
      /\ in'.size = in.size
  BY <1>3, <1>4, <1>5, SkipKeeps
<1>10. /\ received - Length(in') + 1 = first + len + 1
       /\ first + len + 1 = first + 1 + len
       /\ Length(in') \in Nat /\ Length(in') <= Length(in)
  BY <1>3, <1>4, <1>9
<1>. QED BY <1>1, <1>2, <1>5, <1>6, <1>7, <1>8, <1>9, <1>10

\* A packet that is read.
LEMMA ReadStep ==
    ASSUME StreamInv, NEW k \in 1 .. Len(packets), ReadPacket(k)
    PROVE  StreamInv'
<1>. USE DEF StreamInv
<1>1. /\ k = Len(got) + 1 /\ Len(got) \in Nat
      /\ got' = Append(got, PacketBytes(k))
      /\ IsRing(in') /\ in'.size = in.size
      /\ Length(in') \in Nat /\ Length(in') <= Length(in)
      /\ received - Length(in') + 1 = NextFirst(k)
      /\ Holds(in', received - Length(in') + 1)
  BY ReadIs
<1>2. /\ turn' = "command" /\ conn' = "open" /\ CountsPacket
      /\ UNCHANGED <<out, packets, tcp, received, reader>>
  BY DEF ReadPacket, Peeked
<1>3. PacketBytes(k) \in Seq(Nat)
  <2>. DEFINE a == packets[k].first - 1  n == HeaderLen + packets[k].len
  <2>1. a \in Nat /\ n \in Nat /\ packets[k].first = a + 1
    BY Types
  <2>2. PacketBytes(k) = Bytes(a + 1, n)
    BY <2>1 DEF PacketBytes
  <2>. HIDE DEF a, n
  <2>. QED BY <2>1, <2>2, BytesSeq
<1>4. /\ got' \in Seq(Seq(Nat)) /\ Len(got') = k
      /\ got'[k] = PacketBytes(k)
      /\ \A i \in 1 .. Len(got) : got'[i] = got[i]
  <2>1. got \in Seq(Seq(Nat))
    BY DEF TypeOK
  <2>. HIDE DEF StreamInv
  <2>. QED BY <1>1, <1>3, <2>1, AppendProperties
<1>5. TypeOK'
  <2>1. sequence' \in 0 .. Modulus - 1
    BY <1>2, CountStep
  <2>. QED BY <1>1, <1>2, <1>4, <2>1 DEF TypeOK
<1>6. InOrder'
  <2>1. Length(in') <= received
    BY <1>1, InIs DEF InOrder
  <2>. QED BY <1>1, <1>2, <2>1, SamePackets DEF InOrder
<1>7. RoomAtTurn' /\ (in.size >= InputBufferLen)'
  BY <1>1, <1>2 DEF RoomAtTurn
<1>8. Framed'
  BY <1>2, SamePackets
<1>9. AtPacketStart'
  <2>1. \A i \in 1 .. k : got'[i] = PacketBytes(i)
    <3>. SUFFICES ASSUME NEW i \in 1 .. k PROVE got'[i] = PacketBytes(i)
      OBVIOUS
    <3>1. CASE i = k
      BY <1>4, <3>1
    <3>2. CASE i # k
      <4>1. i \in 1 .. Len(got)
        BY <1>1, <3>2
      <4>. QED BY <1>4, <4>1 DEF AtPacketStart
    <3>. QED BY <3>1, <3>2
  <2>2. NextFirst(k) = IF k < Len(packets) THEN packets[k + 1].first ELSE Written + 1
    <3>1. k \in Nat /\ Len(packets) \in Nat
      BY Types
    <3>2. CASE k < Len(packets)
      <4>1. k \in 1 .. Len(packets) - 1
        BY <3>1, <3>2
      <4>. QED BY <3>2, <4>1 DEF Framed
    <3>3. CASE ~(k < Len(packets))
      <4>1. k = Len(packets)
        BY <3>1, <3>3
      <4>2. NextFirst(k) - 1 = Written
        BY <4>1, PacketsApart
      <4>3. NextFirst(k) \in Nat
        <5>. DEFINE a == packets[k].first  b == packets[k].len
        <5>1. a \in Nat /\ b \in Nat /\ HeaderLen \in Nat /\ NextFirst(k) = a + HeaderLen + b
          BY Types DEF NextFirst
        <5>. HIDE DEF a, b
        <5>. QED BY <5>1
      <4>. QED BY <3>3, <4>2, <4>3
    <3>. QED BY <3>2, <3>3
  <2>3. k <= Len(packets)
    BY Types
  <2>. QED BY <1>1, <1>2, <1>4, <2>1, <2>2, <2>3, SamePackets DEF AtPacketStart
<1>. QED BY <1>5, <1>6, <1>7, <1>8, <1>9

\* processCommand, whatever it finds.
LEMMA CommandStep ==
    ASSUME StreamInv, Command
    PROVE  StreamInv'
<1>. USE DEF StreamInv
<1>1. ASSUME PeekFails PROVE StreamInv'
  <2>1. /\ Length(in) < HeaderLen /\ turn' = "input" /\ conn' = conn /\ sequence' = sequence
        /\ UNCHANGED <<out, packets, tcp, received, in, reader, got>>
    BY <1>1 DEF PeekFails
  <2>2. HeaderLen \in Nat /\ HeaderLen < in.size
    BY BufferAssumption, InIs
  <2>3. Room(in) > 0
    BY <2>1, <2>2, RoomLeft
  <2>4. sequence' \in 0 .. Modulus - 1 /\ conn' \in {"open", "sequence", "blind"}
    BY <2>1 DEF TypeOK
  <2>. QED BY <2>1, <2>3, <2>4, TurnKeeps
<1>2. ASSUME NEW k \in DOMAIN packets, WrongSequence(k) PROVE StreamInv'
  <2>1. /\ conn' = "sequence" /\ sequence' = sequence /\ turn' = turn
        /\ UNCHANGED <<out, packets, tcp, received, in, reader, got>>
    BY <1>2 DEF WrongSequence
  <2>2. sequence' \in 0 .. Modulus - 1 /\ turn' \in {"input", "command"}
    BY <2>1 DEF TypeOK
  <2>. QED BY <2>1, <2>2, TurnKeeps
<1>3. ASSUME NEW k \in DOMAIN packets, NotWhole(k) PROVE StreamInv'
  <2>1. /\ ~IsWhole(k) /\ CountsPacket /\ turn' = "input" /\ conn' = conn
        /\ UNCHANGED <<out, packets, tcp, received, in, reader, got>>
    BY <1>3 DEF NotWhole
  <2>2. ASSUME PacketFits PROVE Room(in) > 0
    <3>. DEFINE need == HeaderLen + packets[k].len
    <3>1. need \in Nat
      BY Types
    <3>2. k = Len(got) + 1 /\ Len(got) < Len(packets)
      BY <1>3, AtHead DEF NotWhole
    <3>3. need < in.size
      BY <2>2, <3>2 DEF PacketFits
    <3>4. Length(in) < need
      BY <2>1, <3>1, InIs DEF IsWhole
    <3>. HIDE DEF need
    <3>. QED BY <3>1, <3>3, <3>4, RoomLeft
  <2>6. sequence' \in 0 .. Modulus - 1 /\ conn' \in {"open", "sequence", "blind"}
    BY <2>1, CountStep DEF TypeOK
  <2>. QED BY <2>1, <2>2, <2>6, TurnKeeps
<1>4. ASSUME NEW k \in DOMAIN packets, ReadPacket(k) PROVE StreamInv'
  BY <1>4, ReadStep
<1>. QED BY <1>1, <1>2, <1>3, <1>4 DEF Command

-----------------------------------------------------------------------------
(* The theorems. *)

\* Every step keeps the invariant.
LEMMA NextInv == StreamInv /\ [Next]_vars => StreamInv'
<1>. SUFFICES ASSUME StreamInv, [Next]_vars PROVE StreamInv'
  OBVIOUS
<1>1. ASSUME NEW len \in BodyLens, WritePacket(len) PROVE StreamInv'
  BY <1>1, WriteStep
<1>2. ASSUME NEW n \in 1 .. Length(out), Flush(n) PROVE StreamInv'
  BY <1>2, FlushStep
<1>3. CASE Fill
  BY <1>3, FillStep
<1>4. CASE Command
  BY <1>4, CommandStep
<1>5. CASE UNCHANGED vars
  <2>1. /\ UNCHANGED <<out, packets, tcp, received, in, reader, got, sequence, turn, conn>>
        /\ sequence' \in 0 .. Modulus - 1
        /\ turn' \in {"input", "command"} /\ conn' \in {"open", "sequence", "blind"}
        /\ turn' = "input" /\ conn' = "open" /\ PacketFits => Room(in) > 0
    BY <1>5 DEF vars, StreamInv, TypeOK, RoomAtTurn
  <2>. QED BY <2>1, TurnKeeps
<1>. QED BY <1>1, <1>2, <1>3, <1>4, <1>5 DEF Next

\* The inductive invariant: the buffers and TCP hold consecutive bytes, the reader stands where a
\* packet begins, and unless that packet does not fit there is room for more when a turn begins.
\* Packets may be of any size.
THEOREM StreamInvariant == Spec => []StreamInv
<1>. QED BY InitInv, NextInv, PTL DEF Spec

\* The buffers stay well formed, their indices within their arrays.
THEOREM StreamTypeOK == Spec => []TypeOK
<1>1. StreamInv => TypeOK
  BY DEF StreamInv
<1>. QED BY <1>1, StreamInvariant, PTL

\* Whatever the sizes of buffers, packets, sends and receives, no byte is lost or moved.
THEOREM BytesStayInOrder == Spec => []InOrder
<1>1. StreamInv => InOrder
  BY DEF StreamInv
<1>. QED BY <1>1, StreamInvariant, PTL

\* What TakenForClosed says of one step.
ClosedStep ==
    conn = "open" /\ conn' = "blind" => (in.head = 1 /\ in'.tail = 0) \/ ~PacketFits

\* Whatever the sizes of buffers, packets, sends and receives, a reader takes a connection for
\* closed only when it filled the array to its end with one place free at its start, or when a
\* packet that does not fit fills the buffer.
THEOREM ClosedOnlyWhenFull == Spec => TakenForClosed
<1>1. StreamInv /\ [Next]_vars => ClosedStep
  <2>. SUFFICES ASSUME StreamInv, [Next]_vars, conn = "open", conn' = "blind"
                PROVE  (in.head = 1 /\ in'.tail = 0) \/ ~PacketFits
    BY DEF ClosedStep
  <2>1. FillBlind
    BY DEF Next, Fill, Command, vars, WritePacket, Flush, FillOnce, FillAround, FillAndGrow,
           PeekFails, WrongSequence, NotWhole, ReadPacket
  <2>2. turn = "input" /\ Room(in) < InFlight /\ in' = ToTheEnd
    BY <2>1 DEF FillBlind, Reading
  <2>3. CASE RunsToEnd(in)
    <3>1. in.head = 1 /\ Room(in) = in.size - in.tail
      BY <2>1, <2>3 DEF FillBlind, Room
    <3>2. in'.tail = Wrap(in.tail + Room(in), in.size)
      BY <2>2, InIs, ToTheEndIs
    <3>3. in'.tail = 0
      BY <3>1, <3>2, InIs DEF Wrap
    <3>. QED BY <3>1, <3>3
  <2>4. CASE ~RunsToEnd(in)
    <3>1. Room(in) = 0
      BY <2>1, <2>4 DEF FillBlind
    <3>. QED BY <2>2, <3>1 DEF StreamInv, RoomAtTurn
  <2>. QED BY <2>3, <2>4
<1>2. ClosedStep =>
        [conn = "open" /\ conn' = "blind" => (in.head = 1 /\ in'.tail = 0) \/ ~PacketFits]_vars
  BY DEF ClosedStep
<1>. QED BY <1>1, <1>2, StreamInvariant, PTL DEF Spec, TakenForClosed

\* The reader got the packets before the one it stands at, as they were written.
THEOREM ReaderStandsAtPacket == Spec => []AtPacketStart
<1>1. StreamInv => AtPacketStart
  BY DEF StreamInv
<1>. QED BY <1>1, StreamInvariant, PTL

\* The packets, as the pipe has them.
LEMMA SentIs ==
    ASSUME TypeOK
    PROVE  LET sent == [k \in 1 .. Len(packets) |-> PacketBytes(k)]
           IN  Len(sent) = Len(packets) /\ Len(packets) \in Nat
<1>1. Len(packets) \in Nat
  BY Types
<1>. HIDE DEF PacketBytes
<1>. QED BY <1>1

\* A packet that is written is sent.
LEMMA WriteSends ==
    ASSUME StreamInv, StreamInv', NEW len \in BodyLens, WritePacket(len)
    PROVE  ThePipe!Send
<1>. DEFINE n == Len(packets)
            sent == [k \in 1 .. Len(packets) |-> PacketBytes(k)]
            then(k) == PacketBytes(k)'
            new == then(n + 1)
            p == [first |-> Written + 1, len |-> len]
<1>1. packets' = Append(packets, p) /\ got' = got
  BY DEF WritePacket
<1>2. n \in Nat /\ packets \in Seq(Packets) /\ packets' \in Seq(Packets)
  BY Types DEF StreamInv, TypeOK
<1>3. Len(packets') = n + 1 /\ \A k \in 1 .. n : packets'[k] = packets[k]
  BY <1>1, <1>2
<1>4. \A k \in 1 .. n : then(k) = PacketBytes(k)
  BY <1>3 DEF PacketBytes
<1>5. sent' = [k \in 1 .. n + 1 |-> then(k)]
  BY <1>3
<1>6. sent = [k \in 1 .. n |-> PacketBytes(k)]
  OBVIOUS
<1>. HIDE DEF sent, then
<1>7. Len(sent) = n
  BY <1>2, <1>6
<1>8. sent'[n + 1] = new
  <2>1. n + 1 \in 1 .. n + 1
    BY <1>2
  <2>. QED BY <1>5, <2>1
<1>. HIDE DEF n
<1>9. sent' = Append(sent, new)
  <2>1. \A k \in 1 .. n : sent[k] = PacketBytes(k)
    BY <1>6, Zenon
  <2>2. Append(sent, new) = [k \in 1 .. n + 1 |-> IF k = n + 1 THEN new ELSE sent[k]]
    <3>. DEFINE Values == {sent[k] : k \in 1 .. n} \cup {new}
    <3>1. n \in Nat /\ new \in Values /\ \A k \in 1 .. n : sent[k] \in Values
      BY <1>2 DEF n
    <3>2. sent = [k \in 1 .. n |-> sent[k]]
      BY <1>6
    <3>. HIDE DEF Values, new
    <3>3. sent \in Seq(Values)
      BY <3>1, <3>2
    <3>4. /\ Append(sent, new) \in Seq(Values) /\ Len(Append(sent, new)) = n + 1
          /\ Append(sent, new)[n + 1] = new
          /\ \A k \in 1 .. n : Append(sent, new)[k] = sent[k]
      BY <1>7, <3>1, <3>3, AppendProperties
    <3>5. Append(sent, new) = [k \in 1 .. n + 1 |-> Append(sent, new)[k]]
      <4>. DEFINE app == Append(sent, new)
      <4>1. app \in Seq(Values) /\ Len(app) = n + 1
        BY <3>4
      <4>. HIDE DEF app
      <4>2. app \in [1 .. n + 1 -> Values]
        BY <4>1, LenProperties
      <4>3. app = [k \in 1 .. n + 1 |-> app[k]]
        BY <4>2
      <4>. QED BY <4>3 DEF app
    <3>6. \A k \in 1 .. n + 1 :
              Append(sent, new)[k] = IF k = n + 1 THEN new ELSE sent[k]
      BY <3>1, <3>4
    <3>. QED BY <3>5, <3>6, Zenon
  <2>3. \A k \in 1 .. n + 1 : then(k) = IF k = n + 1 THEN new ELSE sent[k]
    <3>. SUFFICES ASSUME NEW k \in 1 .. n + 1
                  PROVE  then(k) = IF k = n + 1 THEN new ELSE sent[k]
      OBVIOUS
    <3>1. k = n + 1 \/ k \in 1 .. n
      BY <1>2
    <3>2. k \in 1 .. n => k # n + 1
      BY <1>2
    <3>. QED BY <1>4, <2>1, <3>1, <3>2, Zenon
  <2>. QED BY <1>5, <2>2, <2>3, Zenon
<1>10. sent' # sent
  <2>1. Len(sent') = n + 1
    BY <1>2, <1>5
  <2>. QED BY <1>2, <1>7, <2>1
<1>11. sent' = Append(sent, sent'[Len(sent) + 1])
  BY <1>7, <1>8, <1>9
<1>. QED BY <1>1, <1>10, <1>11 DEF ThePipe!Send, sent

\* A packet that is read is the next of those that were sent.
LEMMA ReadDelivers ==
    ASSUME StreamInv, NEW k \in 1 .. Len(packets), ReadPacket(k)
    PROVE  ThePipe!Deliver
<1>1. k = Len(got) + 1 /\ got' = Append(got, PacketBytes(k)) /\ Len(got) \in Nat
  BY ReadIs
<1>2. UNCHANGED packets
  BY DEF ReadPacket
<1>3. Len(got) < Len(packets) /\ Len(packets) \in Nat
  BY <1>1, Types DEF StreamInv
<1>. DEFINE sent == [j \in 1 .. Len(packets) |-> PacketBytes(j)]
<1>4. sent' = sent
  BY <1>2, SamePackets
<1>5. Len(sent) = Len(packets) /\ sent[k] = PacketBytes(k)
  BY <1>3
<1>. HIDE DEF sent
<1>6. Len(got) < Len(sent) /\ got' = Append(got, sent[Len(got) + 1])
  BY <1>1, <1>3, <1>5
<1>. QED BY <1>4, <1>6 DEF ThePipe!Deliver, sent

\* Every step is one of the pipe, or none that it sees.
LEMMA StepIsPiped ==
    ASSUME StreamInv, StreamInv', [Next]_vars
    PROVE  [ThePipe!Next]_(ThePipe!vars)
<1>1. ASSUME NEW len \in BodyLens, WritePacket(len) PROVE ThePipe!Next
  BY <1>1, WriteSends DEF ThePipe!Next
<1>2. ASSUME UNCHANGED <<packets, got>> PROVE UNCHANGED ThePipe!vars
  BY <1>2, SamePackets DEF ThePipe!vars
<1>3. ASSUME NEW n \in 1 .. Length(out), Flush(n) PROVE UNCHANGED <<packets, got>>
  BY <1>3 DEF Flush
<1>4. CASE Fill
  <2>1. UNCHANGED <<packets, got>>
    BY <1>4 DEF Fill, FillOnce, FillAround, FillAndGrow, FillBlind, Reading
  <2>. QED BY <1>2, <2>1
<1>5. CASE Command
  <2>1. ASSUME NEW k \in DOMAIN packets, ReadPacket(k) PROVE ThePipe!Next
    <3>1. k \in 1 .. Len(packets)
      BY Types DEF StreamInv
    <3>. QED BY <2>1, <3>1, ReadDelivers DEF ThePipe!Next
  <2>2. ASSUME NEW k \in DOMAIN packets, WrongSequence(k) \/ NotWhole(k)
        PROVE  UNCHANGED <<packets, got>>
    BY <2>2 DEF WrongSequence, NotWhole
  <2>3. PeekFails => UNCHANGED <<packets, got>>
    BY DEF PeekFails
  <2>. QED BY <1>2, <1>5, <2>1, <2>2, <2>3 DEF Command
<1>6. CASE UNCHANGED vars
  BY <1>2, <1>6 DEF vars
<1>. QED BY <1>1, <1>2, <1>3, <1>4, <1>5, <1>6 DEF Next

\* The stream implements the pipe, for every size of buffers, packets, sends and receives.
THEOREM StreamImplementsPipe == Spec => ImplementsPipe
<1>1. Init => ThePipe!Init
  BY DEF Init, ThePipe!Init
<1>2. StreamInv /\ StreamInv' /\ [Next]_vars => [ThePipe!Next]_(ThePipe!vars)
  BY StepIsPiped
<1>. QED BY <1>1, <1>2, StreamInvariant, PTL DEF Spec, ImplementsPipe, ThePipe!Spec

-----------------------------------------------------------------------------
(* The sequence of packets. *)

\* To count one more, modulo m.
LEMMA OneMore ==
    ASSUME NEW m \in Nat \ {0}, NEW n \in Nat
    PROVE  ((n % m) + 1) % m = (n + 1) % m
<1>. DEFINE r == n % m  q == n \div m
<1>1. r \in 0 .. m - 1 /\ q \in Nat /\ n = m * q + r
  OBVIOUS
<1>. HIDE DEF r, q
<1>2. CASE r + 1 < m
  <2>1. (m * q + (r + 1)) % m = r + 1
    BY <1>1, <1>2
  <2>2. (r + 1) % m = r + 1
    BY <1>1, <1>2
  <2>3. n + 1 = m * q + (r + 1)
    BY <1>1
  <2>. QED BY <2>1, <2>2, <2>3 DEF r
<1>3. CASE r + 1 = m
  <2>1. (m * (q + 1)) % m = 0
    BY <1>1
  <2>2. (r + 1) % m = 0
    BY <1>3
  <2>3. n + 1 = m * (q + 1)
    BY <1>1, <1>3
  <2>. QED BY <2>1, <2>2, <2>3 DEF r
<1>. QED BY <1>1, <1>2, <1>3

\* The reader has counted the packets that it got, and no others.
CountsWhatItGot ==
    /\ KeepsSequence
    /\ reader = "GamePlayer" => sequence = Len(got) % Modulus

\* One step in which no packet is put off.
WholeStep == \A k \in DOMAIN packets : reader = "GamePlayer" => ~NotWhole(k)

\* A packet that is read is counted.
LEMMA ReadCounts ==
    ASSUME StreamInv, CountsWhatItGot, NEW k \in DOMAIN packets, ReadPacket(k)
    PROVE  CountsWhatItGot'
<1>1. /\ Len(got) \in Nat /\ Len(got') = Len(got) + 1
  <2>1. /\ k = Len(got) + 1 /\ Len(got) \in Nat
        /\ got' = Append(got, Peek(in, HeaderLen + packets[k].len))
    BY ReadIs, AtHead DEF ReadPacket
  <2>2. got \in Seq(Seq(Nat))
    BY DEF StreamInv, TypeOK
  <2>. QED BY <2>1, <2>2
<1>2. /\ conn' = conn /\ reader' = reader
      /\ sequence' = IF reader = "GamePlayer" THEN (sequence + 1) % Modulus ELSE sequence
  BY DEF ReadPacket, CountsPacket
<1>3. reader = "GamePlayer" => (sequence + 1) % Modulus = (Len(got) + 1) % Modulus
  BY <1>1, OneMore, BufferAssumption DEF CountsWhatItGot
<1>. QED BY <1>1, <1>2, <1>3 DEF CountsWhatItGot, KeepsSequence

\* The packet whose header is peeked has the sequence that was counted.
LEMMA RightSequence ==
    ASSUME StreamInv, CountsWhatItGot, NEW k \in DOMAIN packets
    PROVE  ~WrongSequence(k)
<1>. SUFFICES ASSUME WrongSequence(k) PROVE FALSE
  OBVIOUS
<1>1. k = Len(got) + 1 /\ Len(got) \in Nat
  <2>1. k \in 1 .. Len(packets)
    BY DEF StreamInv, TypeOK
  <2>. QED BY <2>1, AtHead DEF WrongSequence
<1>2. k - 1 = Len(got)
  BY <1>1
<1>. QED BY <1>2 DEF WrongSequence, InSequence, SequenceOf, CountsWhatItGot

\* Every step in which no packet is put off keeps the count.
LEMMA CountStays ==
    StreamInv /\ CountsWhatItGot /\ [Next]_vars /\ [WholeStep]_vars => CountsWhatItGot'
<1>. SUFFICES ASSUME StreamInv, CountsWhatItGot, [Next]_vars, [WholeStep]_vars
              PROVE  CountsWhatItGot'
  OBVIOUS
<1>1. ASSUME UNCHANGED <<reader, sequence, got>>, conn' # "sequence" PROVE CountsWhatItGot'
  BY <1>1 DEF CountsWhatItGot, KeepsSequence
<1>2. ASSUME NEW len \in BodyLens, WritePacket(len) PROVE CountsWhatItGot'
  BY <1>1, <1>2 DEF WritePacket, CountsWhatItGot, KeepsSequence
<1>3. ASSUME NEW n \in 1 .. Length(out), Flush(n) PROVE CountsWhatItGot'
  BY <1>1, <1>3 DEF Flush, CountsWhatItGot, KeepsSequence
<1>4. CASE Fill
  <2>1. UNCHANGED <<reader, sequence, got>> /\ (conn' = conn \/ conn' = "blind")
    BY <1>4 DEF Fill, FillOnce, FillAround, FillAndGrow, FillBlind, Reading
  <2>. QED BY <1>1, <2>1 DEF CountsWhatItGot, KeepsSequence
<1>5. CASE PeekFails
  BY <1>1, <1>5 DEF PeekFails, CountsWhatItGot, KeepsSequence
<1>6. ASSUME NEW k \in DOMAIN packets, WrongSequence(k) PROVE CountsWhatItGot'
  BY <1>6, RightSequence
<1>7. ASSUME NEW k \in DOMAIN packets, NotWhole(k) PROVE CountsWhatItGot'
  <2>1. /\ turn = "command" /\ turn' = "input" /\ UNCHANGED <<reader, got, conn>>
        /\ reader # "GamePlayer" => sequence' = sequence
    BY <1>7 DEF NotWhole, Peeked, CountsPacket
  <2>2. reader # "GamePlayer"
    BY <1>7, <2>1 DEF WholeStep, vars
  <2>. QED BY <1>1, <2>1, <2>2 DEF CountsWhatItGot, KeepsSequence
<1>8. ASSUME NEW k \in DOMAIN packets, ReadPacket(k) PROVE CountsWhatItGot'
  BY <1>8, ReadCounts
<1>9. CASE UNCHANGED vars
  BY <1>1, <1>9 DEF vars, CountsWhatItGot, KeepsSequence
<1>. QED BY <1>2, <1>3, <1>4, <1>5, <1>6, <1>7, <1>8, <1>9 DEF Next, Command

(***************************************************************************)
(* A packet that is put off is all that can break the count: of a writer   *)
(* whose packets are whole whenever their header is seen, no packet is     *)
(* refused, for any number of packets and any modulus of the sequence.     *)
(***************************************************************************)
THEOREM WholePacketsKeepSequence == Spec /\ PacketsAreWhole => []KeepsSequence
<1>1. Init => CountsWhatItGot
  <2>1. 0 % Modulus = 0
    BY BufferAssumption
  <2>. QED BY <2>1 DEF Init, CountsWhatItGot, KeepsSequence
<1>2. CountsWhatItGot => KeepsSequence
  BY DEF CountsWhatItGot
<1>3. [\A k \in DOMAIN packets : reader = "GamePlayer" => ~NotWhole(k)]_vars => [WholeStep]_vars
  BY DEF WholeStep
<1>. QED BY <1>1, <1>2, <1>3, CountStays, StreamInvariant, PTL DEF Spec, PacketsAreWhole
=============================================================================
