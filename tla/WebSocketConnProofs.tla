------------------------- MODULE WebSocketConnProofs -------------------------
(***************************************************************************)
(* Proofs about WebSocketConn: whatever the sizes of the payloads and of   *)
(* the reads, however many pings there are and however small the network,  *)
(* each direction of the connection is a byte pipe.                        *)
(*                                                                         *)
(* The bytes written are numbered: the i-th is i.  The cells under way,    *)
(* followed by the rest of the frame that is being written, are what is    *)
(* left of the frame that is being read and then whole frames; and the     *)
(* cells can be given numbers, base, such that the payload of a data frame *)
(* continues where the frame before it has stopped.  The pongs of the      *)
(* readers, the pings of the front end and its splits keep this, and so a  *)
(* reader who unmasks what it takes gets the next bytes.                   *)
(*                                                                         *)
(* First what the operations on sequences of cells do to such a sequence,  *)
(* then the invariant, then the actions.                                   *)
(***************************************************************************)
EXTENDS WebSocketConn, SequenceTheorems, TLAPS

\* No end writes a close frame.
Opcodes == {"binary", "continuation", "ping", "pong"}

HeaderCells == [opcode : Opcodes, fin : BOOLEAN, length : Nat, key : Nat]
ByteCells == [value : Nat, key : Nat, at : Nat]
Cells == HeaderCells \cup ByteCells

\* The frames whose payload is part of the stream, and how much of it they bring.
IsData(header) == header.opcode \in {"binary", "continuation"}
Width(header) == IF IsData(header) THEN header.length ELSE 0

\* The byte v, at a position of a payload that is masked with the key.
Masked(v, key, at) == [value |-> v, key |-> key, at |-> IF key = 0 THEN 0 ELSE at % maskLength]

\* Between two frames: a header follows, or nothing.
Boundary(D, i) == i = Len(D) + 1 \/ (i \in 1..Len(D) /\ D[i] \in HeaderCells)

\* The payload behind the header at i is masked with its key; if it is data, its
\* bytes are the next ones after base[i].
PayloadAt(D, base, i) ==
  \A j \in 1..D[i].length :
     /\ D[i + j] \in ByteCells
     /\ D[i + j] = Masked(D[i + j].value, D[i].key, j - 1)
     /\ IsData(D[i]) => D[i + j].value = base[i] + j

\* The frame at i is whole, and the next one begins where it ends.
FrameAt(D, base, i, total) ==
  /\ i + D[i].length <= Len(D)
  /\ Boundary(D, i + D[i].length + 1)
  /\ base[i + D[i].length + 1] = base[i] + Width(D[i])
  /\ base[i] + Width(D[i]) <= total
  /\ PayloadAt(D, base, i)

\* The first n cells are the bytes after start, masked from the position at on.
Rest(D, n, key, at, start) ==
  \A j \in 1..n : D[j] = Masked(start + j, key, at + j - 1)

\* The same of the cells after the first c.
RestAt(D, c, n, key, at, start) ==
  \A j \in 1..n : D[c + j] = Masked(start + j, key, at + j - 1)

\* The n bytes that are left of a frame, then whole frames: with them, whoever
\* has read the bytes up to start gets to total.  base[i] is how many bytes have
\* been read when the cell at i is next.
Framed(D, base, n, key, at, start, total) ==
  /\ base \in [1..Len(D) + 1 -> Nat]
  /\ n <= Len(D) /\ Boundary(D, n + 1)
  /\ Rest(D, n, key, at, start)
  /\ base[n + 1] = start + n /\ start + n <= total
  /\ \A i \in 1..Len(D) : D[i] \in HeaderCells => FrameAt(D, base, i, total)
  /\ base[Len(D) + 1] = total

-----------------------------------------------------------------------------

\* The positions of n cells that follow the first c of L.
LEMMA Offsets ==
  ASSUME NEW c \in Nat, NEW n \in Nat, NEW L \in Nat, c + n <= L, NEW j \in 1..n
  PROVE  /\ j \in Nat /\ j >= 1 /\ j <= n /\ j - 1 \in Nat
         /\ j \in 1..L - c /\ c + j \in 1..L /\ j + c = c + j
  OBVIOUS

\* A frame of l bytes at position i, seen from c cells further back.
LEMMA FrameMoves ==
  ASSUME NEW c \in Nat, NEW i \in Nat, NEW l \in Nat, NEW L \in Nat, NEW M \in Nat,
         M = L - c, i >= 1, i + c + l <= L
  PROVE  /\ i + l <= M /\ i \in 1..M + 1 /\ i + l + 1 \in 1..M + 1 /\ (i + l + 1) + c = i + c + l + 1
         /\ \A j \in 1..l : i + j \in 1..M /\ (i + j) + c = i + c + j /\ j \in Nat
  OBVIOUS

\* A header is told from a byte by its fields.
LEMMA CellKinds ==
  /\ \A c \in HeaderCells : IsHeader(c) /\ c.length \in Nat /\ c.key \in Nat /\ c.opcode \in Opcodes
  /\ \A c \in ByteCells : ~IsHeader(c) /\ c.value \in Nat
  /\ \A c \in ByteCells : c \notin HeaderCells
<1>1. \A c \in HeaderCells : IsHeader(c) /\ c.length \in Nat /\ c.key \in Nat /\ c.opcode \in Opcodes
  BY DEF HeaderCells, IsHeader
<1>2. \A c \in ByteCells : ~IsHeader(c) /\ c.value \in Nat
  BY DEF ByteCells, IsHeader
<1> QED
  BY <1>1, <1>2

\* Masking and unmasking with the same key at the same position (applyMask).
LEMMA MaskedByte ==
  ASSUME NEW v \in Nat, NEW key \in Nat, NEW at \in Nat
  PROVE  /\ Masked(v, key, at) \in ByteCells
         /\ Masked(v, key, at).value = v
         /\ Unmask(Masked(v, key, at), key, at) = v
<1>1. at % maskLength \in Nat
  BY SizesAssumption
<1>2. Masked(v, key, at) \in ByteCells
  BY <1>1 DEF Masked, ByteCells
<1>3. ~IsHeader(Masked(v, key, at))
  BY <1>2, CellKinds
<1>4. Masked(v, key, at).value = v
  BY DEF Masked
<1>5. Unmask(Masked(v, key, at), key, at) = v
  BY <1>3 DEF Masked, Unmask
<1> QED
  BY <1>2, <1>4, <1>5

\* The same, for the byte alone.
LEMMA Unmasked ==
  ASSUME NEW v \in Nat, NEW key \in Nat, NEW at \in Nat
  PROVE  Unmask(Masked(v, key, at), key, at) = v
  BY MaskedByte

\* Whatever is taken for a byte, a byte results.
LEMMA UnmaskTyped ==
  ASSUME NEW c \in Cells, NEW key \in Nat, NEW at \in Nat
  PROVE  Unmask(c, key, at) \in Nat
<1>1. CASE IsHeader(c)
  BY <1>1 DEF Unmask, garbage
<1>2. CASE ~IsHeader(c)
  <2>1. c \in ByteCells
    BY <1>2, CellKinds DEF Cells
  <2>2. c.value \in Nat
    BY <2>1, CellKinds
  <2> QED
    BY <1>2, <2>2 DEF Unmask, garbage
<1> QED
  BY <1>1, <1>2

\* applyMask masks byte for byte.
LEMMA MaskTyped ==
  ASSUME NEW payload \in Seq(Nat), NEW key \in Nat
  PROVE  /\ applyMask(payload, key) \in Seq(ByteCells)
         /\ Len(applyMask(payload, key)) = Len(payload)
         /\ \A i \in 1..Len(payload) : applyMask(payload, key)[i] = Masked(payload[i], key, i - 1)
<1> DEFINE masked == applyMask(payload, key)
<1>1. DOMAIN payload = 1..Len(payload) /\ Len(payload) \in Nat
  OBVIOUS
<1>2. masked = [i \in 1..Len(payload) |-> Masked(payload[i], key, i - 1)]
  BY <1>1 DEF applyMask, Masked
<1>3. \A i \in 1..Len(payload) : Masked(payload[i], key, i - 1) \in ByteCells
  <2> TAKE i \in 1..Len(payload)
  <2>1. payload[i] \in Nat /\ i - 1 \in Nat
    BY <1>1
  <2> QED
    BY <2>1, MaskedByte
<1> QED
  BY <1>1, <1>2, <1>3

\* A header that counts the payload, and the masked payload.
IsFrameOf(frame, op, payload, key) ==
  /\ frame \in Seq(Cells) /\ Len(frame) = 1 + Len(payload)
  /\ frame[1] \in HeaderCells
  /\ frame[1].opcode = op /\ frame[1].length = Len(payload) /\ frame[1].key = key
  /\ \A j \in 1..Len(payload) : frame[1 + j] = Masked(payload[j], key, j - 1)

\* writeFrame makes such a frame.
LEMMA FrameTyped ==
  ASSUME NEW payload \in Seq(Nat), NEW key \in Nat, NEW op \in Opcodes
  PROVE  IsFrameOf(Frame(op, payload, key), op, payload, key)
<1> DEFINE header == Header(op, TRUE, Len(payload), key)
           masked == applyMask(payload, key)
<1>1. Len(payload) \in Nat
  OBVIOUS
<1>2. header \in HeaderCells /\ header.opcode = op /\ header.length = Len(payload) /\ header.key = key
  BY <1>1 DEF Header, HeaderCells
<1>3. /\ masked \in Seq(ByteCells) /\ Len(masked) = Len(payload)
      /\ \A i \in 1..Len(payload) : masked[i] = Masked(payload[i], key, i - 1)
  BY MaskTyped
<1>4. Frame(op, payload, key) = <<header>> \o masked
  BY DEF Frame
<1> HIDE DEF header, masked
<1>5. masked \in Seq(Cells) /\ <<header>> \in Seq(Cells)
  BY <1>2, <1>3 DEF Cells
<1> QED
  BY <1>1, <1>2, <1>3, <1>4, <1>5 DEF IsFrameOf

\* s is what is left of D after c cells.
IsLeftOf(s, D, c) ==
  /\ s \in Seq(Cells) /\ Len(s) \in Nat /\ Len(s) = Len(D) - c
  /\ \A i \in 1..Len(s) : s[i] = D[i + c]

\* Taking the first c cells leaves the others.
LEMMA LeftAfter ==
  ASSUME NEW D \in Seq(Cells), NEW c \in Nat, c <= Len(D)
  PROVE  IsLeftOf(SubSeq(D, c + 1, Len(D)), D, c)
<1> DEFINE s == SubSeq(D, c + 1, Len(D))
<1>1. Len(D) \in Nat /\ c + 1 \in 1..Len(D) + 1
  OBVIOUS
<1>2. s \in Seq(Cells)
  BY <1>1
<1>3. Len(s) = Len(D) - c
  BY <1>1
<1>4. \A i \in 1..Len(D) - c : s[i] = D[i + c]
  <2>1. \A i \in 1..Len(D) - c : s[i] = D[i + (c + 1) - 1] /\ i + (c + 1) - 1 = i + c
    BY <1>1
  <2> QED
    BY <2>1
<1> HIDE DEF s
<1>5. IsLeftOf(s, D, c)
  BY <1>2, <1>3, <1>4 DEF IsLeftOf
<1> QED
  BY <1>5 DEF s

\* The first cells are taken; what is left is framed.
LEMMA Dropped ==
  ASSUME NEW D \in Seq(Cells), NEW base,
         NEW n \in Nat, NEW key, NEW at, NEW start, NEW total \in Nat,
         Framed(D, base, n, key, at, start, total),
         NEW c \in 0..Len(D), NEW n2 \in Nat, NEW key2 \in Nat, NEW at2 \in Nat, NEW start2 \in Nat,
         c + n2 <= Len(D), Boundary(D, c + n2 + 1),
         RestAt(D, c, n2, key2, at2, start2),
         base[c + n2 + 1] = start2 + n2, start2 + n2 <= total
  PROVE  \E base2 : Framed(SubSeq(D, c + 1, Len(D)), base2, n2, key2, at2, start2, total)
<1> DEFINE E == SubSeq(D, c + 1, Len(D))
           base2 == [i \in 1..Len(D) - c + 1 |-> base[i + c]]
<1>1. Len(D) \in Nat /\ c \in Nat /\ c <= Len(D)
  OBVIOUS
<1>2. /\ E \in Seq(Cells) /\ Len(E) \in Nat /\ Len(E) = Len(D) - c
      /\ \A i \in 1..Len(E) : E[i] = D[i + c]
  <2>1. c \in Nat /\ c <= Len(D)
    BY <1>1
  <2>2. IsLeftOf(E, D, c)
    BY <2>1, LeftAfter
  <2> HIDE DEF E
  <2> QED
    BY <2>2 DEF IsLeftOf
<1>3. base \in [1..Len(D) + 1 -> Nat] /\ base[Len(D) + 1] = total
  BY DEF Framed
<1>4. base2 \in [1..Len(E) + 1 -> Nat] /\ \A i \in 1..Len(E) + 1 : base2[i] = base[i + c]
  <2> HIDE DEF E
  <2>1. Len(E) + 1 = Len(D) - c + 1
    BY <1>2
  <2>2. \A i \in 1..Len(D) - c + 1 : i + c \in 1..Len(D) + 1
    BY <1>1
  <2>3. \A i \in 1..Len(D) - c + 1 : base[i + c] \in Nat
    BY <1>3, <2>2
  <2> QED
    BY <2>1, <2>3
<1> HIDE DEF E, base2
<1>5. \A i \in 1..Len(E) + 1 : Boundary(D, i + c) => Boundary(E, i)
  <2> SUFFICES ASSUME NEW i \in 1..Len(E) + 1, Boundary(D, i + c) PROVE Boundary(E, i)
    OBVIOUS
  <2>1. CASE i = Len(E) + 1
    BY <2>1 DEF Boundary
  <2>2. CASE i # Len(E) + 1
    <3>1. i \in 1..Len(E) /\ i + c # Len(D) + 1
      <4>1. Len(E) \in Nat /\ Len(E) = Len(D) - c
        BY <1>2
      <4>2. \A x, y, z \in Nat : x = y - z => \A k \in 1..x + 1 : k # x + 1 => k \in 1..x /\ k + z # y + 1
        OBVIOUS
      <4> QED
        BY <1>1, <2>2, <4>1, <4>2
    <3>2. D[i + c] \in HeaderCells
      BY <3>1 DEF Boundary
    <3> QED
      BY <1>2, <3>1, <3>2 DEF Boundary
  <2> QED
    BY <2>1, <2>2
<1>6. Rest(E, n2, key2, at2, start2)
  <2> SUFFICES ASSUME NEW j \in 1..n2
               PROVE  E[j] = Masked(start2 + j, key2, at2 + j - 1)
    BY DEF Rest
  <2>1. j \in 1..Len(E) /\ j + c = c + j
    BY <1>1, <1>2, Offsets
  <2>2. D[c + j] = Masked(start2 + j, key2, at2 + j - 1)
    BY DEF RestAt
  <2> QED
    BY <1>2, <2>1, <2>2
<1>7. base2[n2 + 1] = start2 + n2 /\ base2[Len(E) + 1] = total /\ n2 <= Len(E)
  <2>1. /\ n2 + 1 \in 1..Len(E) + 1 /\ (n2 + 1) + c = c + n2 + 1 /\ n2 <= Len(E)
        /\ Len(E) + 1 \in 1..Len(E) + 1 /\ (Len(E) + 1) + c = Len(D) + 1
    <3>1. Len(E) \in Nat /\ Len(E) = Len(D) - c /\ c + n2 <= Len(D)
      BY <1>2
    <3>2. \A x, y, a, b \in Nat : /\ y = x - a /\ a + b <= x
            => /\ b + 1 \in 1..y + 1 /\ (b + 1) + a = a + b + 1 /\ b <= y
               /\ y + 1 \in 1..y + 1 /\ (y + 1) + a = x + 1
      OBVIOUS
    <3> QED
      BY <1>1, <3>1, <3>2
  <2>2. base2[n2 + 1] = base[c + n2 + 1]
    BY <1>4, <2>1
  <2>3. base2[Len(E) + 1] = base[Len(D) + 1]
    BY <1>4, <2>1
  <2> QED
    BY <1>3, <2>1, <2>2, <2>3
<1>8. ASSUME NEW i \in 1..Len(E), E[i] \in HeaderCells
      PROVE  FrameAt(E, base2, i, total)
  <2>1. i \in Nat /\ i >= 1 /\ i + c \in 1..Len(D)
    BY <1>1, <1>2
  <2>2. D[i + c] \in HeaderCells /\ E[i] = D[i + c] /\ E[i].length \in Nat
    BY <1>2, <1>8, CellKinds
  <2>3. FrameAt(D, base, i + c, total)
    BY <2>1, <2>2 DEF Framed
  <2> DEFINE l == E[i].length
  <2>4. i + c + l <= Len(D) /\ Boundary(D, i + c + l + 1)
    BY <2>2, <2>3 DEF FrameAt
  <2>5. /\ i + l <= Len(E) /\ i \in 1..Len(E) + 1 /\ i + l + 1 \in 1..Len(E) + 1
        /\ (i + l + 1) + c = i + c + l + 1
        /\ \A j \in 1..l : i + j \in 1..Len(E) /\ (i + j) + c = i + c + j /\ j \in Nat
    <3>1. l \in Nat /\ i + c + l <= Len(D) /\ Len(E) \in Nat /\ Len(E) = Len(D) - c
      BY <1>2, <2>2, <2>4
    <3> HIDE DEF l
    <3> QED
      BY <1>1, <2>1, <3>1, FrameMoves
  <2>6. Boundary(E, i + l + 1)
    BY <1>5, <2>4, <2>5
  <2>7. base2[i] = base[i + c] /\ base2[i + l + 1] = base[i + c + l + 1]
    <3> HIDE DEF l
    <3>1. base2[i] = base[i + c]
      BY <1>4, <2>5
    <3>2. base2[i + l + 1] = base[(i + l + 1) + c]
      BY <1>4, <2>5
    <3> QED
      BY <2>5, <3>1, <3>2
  <2>8. /\ base[i + c + l + 1] = base[i + c] + Width(E[i])
        /\ base[i + c] + Width(E[i]) <= total
    BY <2>2, <2>3 DEF FrameAt
  <2>9. PayloadAt(E, base2, i)
    <3> SUFFICES ASSUME NEW j \in 1..l
                 PROVE  /\ E[i + j] \in ByteCells
                        /\ E[i + j] = Masked(E[i + j].value, E[i].key, j - 1)
                        /\ IsData(E[i]) => E[i + j].value = base2[i] + j
      BY DEF PayloadAt
    <3>1. i + j \in 1..Len(E) /\ (i + j) + c = i + c + j
      BY <2>5
    <3>2. E[i + j] = D[i + c + j]
      BY <1>2, <3>1
    <3> QED
      BY <2>2, <2>3, <2>7, <3>2 DEF FrameAt, PayloadAt
  <2> QED
    BY <2>5, <2>6, <2>7, <2>8, <2>9 DEF FrameAt
<1>9. Boundary(E, n2 + 1)
  BY <1>1, <1>2, <1>5, <1>7
<1> QED
  BY <1>4, <1>6, <1>7, <1>8, <1>9 DEF Framed, E

\* A frame is added at the end; what it brings comes after all there is.
LEMMA Added ==
  ASSUME NEW D \in Seq(Cells), NEW base,
         NEW n \in Nat, NEW key, NEW at, NEW start, NEW total \in Nat,
         Framed(D, base, n, key, at, start, total),
         NEW payload \in Seq(Nat), NEW key2 \in Nat, NEW op \in Opcodes, NEW total2 \in Nat,
         op \in {"binary", "continuation"} => /\ total2 = total + Len(payload)
                                           /\ \A j \in 1..Len(payload) : payload[j] = total + j,
         op \notin {"binary", "continuation"} => total2 = total
  PROVE  \E base2 : Framed(D \o Frame(op, payload, key2), base2, n, key, at, start, total2)
<1> DEFINE frame == Frame(op, payload, key2)
           E == D \o frame
           base2 == [i \in 1..Len(E) + 1 |-> IF i <= Len(D) + 1 THEN base[i] ELSE total2]
           l == Len(payload)
<1>1. Len(D) \in Nat /\ l \in Nat
  OBVIOUS
<1>2. /\ frame \in Seq(Cells) /\ Len(frame) = 1 + l /\ frame[1] \in HeaderCells
      /\ frame[1].opcode = op /\ frame[1].length = l /\ frame[1].key = key2
      /\ \A j \in 1..l : frame[1 + j] = Masked(payload[j], key2, j - 1)
  <2>1. IsFrameOf(frame, op, payload, key2)
    BY FrameTyped
  <2> HIDE DEF frame
  <2> QED
    BY <2>1 DEF IsFrameOf
<1> HIDE DEF frame
<1>3. /\ E \in Seq(Cells) /\ Len(E) \in Nat /\ Len(E) = Len(D) + 1 + l
      /\ \A i \in 1..Len(D) : E[i] = D[i]
      /\ E[Len(D) + 1] = frame[1]
      /\ \A j \in 1..l : E[Len(D) + 1 + j] = frame[1 + j]
  <2>1. frame \in Seq(Cells)
    BY <1>2
  <2>2. E \in Seq(Cells) /\ Len(E) = Len(D) + Len(frame)
    BY <2>1
  <2>3. \A i \in 1..Len(D) : E[i] = D[i]
    BY <1>2
  <2>4. \A i \in 1..1 + l : E[Len(D) + i] = frame[i]
    BY <1>1, <1>2
  <2>5. 1 \in 1..1 + l /\ \A j \in 1..l : 1 + j \in 1..1 + l /\ Len(D) + (1 + j) = Len(D) + 1 + j
    BY <1>1
  <2>6. E[Len(D) + 1] = frame[1]
    BY <2>4, <2>5
  <2>7. ASSUME NEW j \in 1..l
        PROVE  E[Len(D) + 1 + j] = frame[1 + j]
    <3>1. 1 + j \in 1..1 + l /\ Len(D) + (1 + j) = Len(D) + 1 + j
      BY <2>5
    <3>2. E[Len(D) + (1 + j)] = frame[1 + j]
      BY <2>4, <3>1
    <3> QED
      BY <3>1, <3>2
  <2>8. Len(E) \in Nat /\ Len(E) = Len(D) + 1 + l
    <3>1. Len(E) = Len(D) + Len(frame) /\ Len(frame) = 1 + l
      BY <1>2, <2>2
    <3> HIDE DEF E, l
    <3> QED
      BY <1>1, <3>1
  <2> HIDE DEF E, l
  <2> QED
    BY <2>2, <2>3, <2>6, <2>7, <2>8
<1>4. base \in [1..Len(D) + 1 -> Nat] /\ base[Len(D) + 1] = total
  BY DEF Framed
<1>5. /\ base2 \in [1..Len(E) + 1 -> Nat]
      /\ \A i \in 1..Len(D) + 1 : base2[i] = base[i]
      /\ base2[Len(E) + 1] = total2
  BY <1>1, <1>3, <1>4
<1>6. total <= total2
  BY <1>1
<1> HIDE DEF E, base2
<1>7. \A i \in 1..Len(D) + 1 : Boundary(D, i) => Boundary(E, i)
  BY <1>1, <1>2, <1>3 DEF Boundary
<1>8. n <= Len(D) /\ base[n + 1] = start + n /\ start + n <= total /\ Rest(D, n, key, at, start) /\ Boundary(D, n + 1)
  BY DEF Framed
<1>9. Rest(E, n, key, at, start)
  BY <1>1, <1>3, <1>8 DEF Rest
<1>10. Boundary(E, n + 1) /\ base2[n + 1] = start + n /\ n <= Len(E)
  BY <1>1, <1>3, <1>5, <1>7, <1>8
<1>11. start + n <= total2
  <2>1. start + n \in Nat
    BY <1>8, <1>4, <1>1
  <2> QED
    BY <1>6, <1>8, <2>1
<1>12. ASSUME NEW i \in 1..Len(E), E[i] \in HeaderCells
       PROVE  FrameAt(E, base2, i, total2)
  <2>1. i \in Nat /\ i >= 1 /\ i <= Len(E)
    BY <1>3
  <2>2. CASE i <= Len(D)
    <3> DEFINE m == D[i].length
    <3>1. i \in 1..Len(D) /\ E[i] = D[i] /\ D[i] \in HeaderCells
      BY <1>1, <1>3, <1>12, <2>2
    <3>2. FrameAt(D, base, i, total)
      BY <3>1 DEF Framed
    <3>3. m \in Nat /\ Width(D[i]) \in Nat
      BY <3>1, CellKinds DEF Width
    <3>4. i + m <= Len(D) /\ Boundary(D, i + m + 1)
      BY <3>2 DEF FrameAt
    <3>5. base[i + m + 1] = base[i] + Width(D[i]) /\ base[i] + Width(D[i]) <= total
      BY <3>2 DEF FrameAt
    <3>6. i + m + 1 \in 1..Len(D) + 1 /\ i + m <= Len(E) /\ i \in 1..Len(D) + 1
      <4> HIDE DEF m
      <4> QED
        BY <1>1, <1>3, <2>1, <3>1, <3>3, <3>4
    <3>7. base2[i + m + 1] = base2[i] + Width(E[i]) /\ base2[i] = base[i]
      BY <1>5, <3>1, <3>5, <3>6
    <3>8. base2[i] + Width(E[i]) <= total2
      <4>1. base[i] + Width(D[i]) \in Nat
        <5>1. base[i] \in Nat
          BY <1>4, <3>6
        <5> QED
          BY <5>1, <3>3
      <4> QED
        BY <1>6, <3>1, <3>5, <3>7, <4>1
    <3>9. PayloadAt(E, base2, i)
      <4> SUFFICES ASSUME NEW j \in 1..m
                   PROVE  /\ E[i + j] \in ByteCells
                          /\ E[i + j] = Masked(E[i + j].value, E[i].key, j - 1)
                          /\ IsData(E[i]) => E[i + j].value = base2[i] + j
        BY <3>1 DEF PayloadAt
      <4>1. i + j \in 1..Len(D)
        <5> HIDE DEF m
        <5>1. j \in Nat /\ j >= 1 /\ j <= m
          BY <3>3
        <5> QED
          BY <1>1, <2>1, <3>3, <3>4, <5>1
      <4>2. E[i + j] = D[i + j]
        BY <1>3, <4>1
      <4> QED
        BY <3>1, <3>2, <3>7, <4>2 DEF FrameAt, PayloadAt
    <3> QED
      BY <1>7, <3>1, <3>4, <3>6, <3>7, <3>8, <3>9 DEF FrameAt
  <2>3. CASE i = Len(D) + 1
    <3>1. E[i].length = l /\ E[i].opcode = op /\ E[i].key = key2
      BY <1>2, <1>3, <2>3
    <3>2. i + l = Len(E) /\ i + l + 1 = Len(E) + 1
      BY <1>1, <1>3, <2>3
    <3>3. base2[i] = total
      BY <1>1, <1>4, <1>5, <2>3
    <3>4. total + Width(E[i]) = total2
      BY <3>1 DEF Width, IsData
    <3>5. PayloadAt(E, base2, i)
      <4> SUFFICES ASSUME NEW j \in 1..l
                   PROVE  /\ E[i + j] \in ByteCells
                          /\ E[i + j] = Masked(E[i + j].value, E[i].key, j - 1)
                          /\ IsData(E[i]) => E[i + j].value = base2[i] + j
        BY <3>1 DEF PayloadAt
      <4>1. E[i + j] = Masked(payload[j], key2, j - 1)
        BY <1>2, <1>3, <2>3
      <4>2. payload[j] \in Nat /\ j - 1 \in Nat
        BY <1>1
      <4>3. Masked(payload[j], key2, j - 1) \in ByteCells /\ Masked(payload[j], key2, j - 1).value = payload[j]
        <5> DEFINE v == payload[j]
                   m == j - 1
        <5>1. v \in Nat /\ m \in Nat
          BY <4>2
        <5> HIDE DEF v, m
        <5>2. Masked(v, key2, m) \in ByteCells /\ Masked(v, key2, m).value = v
          BY <5>1, MaskedByte
        <5> QED
          BY <5>2 DEF v, m
      <4>4. E[i + j] \in ByteCells /\ E[i + j].value = payload[j]
        BY <4>1, <4>3
      <4>5. IsData(E[i]) => payload[j] = total + j
        BY <3>1 DEF IsData
      <4> QED
        BY <3>1, <3>3, <4>1, <4>5, <4>4
    <3>6. Boundary(E, i + l + 1)
      BY <3>2 DEF Boundary
    <3>7. i + l <= Len(E)
      BY <1>3, <3>2
    <3>8. base2[i + l + 1] = base2[i] + Width(E[i]) /\ base2[i] + Width(E[i]) <= total2
      BY <1>5, <3>2, <3>3, <3>4
    <3> QED
      BY <3>1, <3>5, <3>6, <3>7, <3>8 DEF FrameAt
  <2>4. CASE i > Len(D) + 1
    <3> DEFINE j == i - Len(D) - 1
    <3>1. j \in 1..l /\ i = Len(D) + 1 + j
      BY <1>1, <1>3, <2>4
    <3> HIDE DEF j
    <3>2. E[i] = Masked(payload[j], key2, j - 1)
      BY <1>2, <1>3, <3>1
    <3>3. payload[j] \in Nat /\ j - 1 \in Nat
      <4>1. j \in Nat /\ j >= 1
        BY <1>1, <3>1
      <4>2. payload[j] \in Nat
        <5>1. j \in 1..Len(payload)
          BY <3>1
        <5> HIDE DEF l
        <5> QED
          BY <5>1, ElementOfSeq
      <4> QED
        BY <4>1, <4>2
    <3>4. E[i] \in ByteCells
      <4>1. Masked(payload[j], key2, j - 1) \in ByteCells
        BY <3>3, MaskedByte
      <4> QED
        BY <3>2, <4>1
    <3> QED
      BY <1>12, <3>4, CellKinds
  <2>5. i <= Len(D) \/ i = Len(D) + 1 \/ i > Len(D) + 1
    BY <1>1, <2>1
  <2> QED
    BY <2>2, <2>3, <2>4, <2>5
<1> QED
  BY <1>5, <1>9, <1>10, <1>11, <1>12 DEF Framed, E, frame

\* E is D with the frame at k, of l bytes, made two.
IsSplit(D, E, k, l, key) ==
  /\ k \in 1..Len(D) /\ l > 1 /\ k + l <= Len(D)
  /\ E \in Seq(Cells) /\ Len(E) = Len(D) + 1
  /\ \A i \in 1..k - 1 : E[i] = D[i]
  /\ E[k] \in HeaderCells /\ E[k].opcode = "binary" /\ E[k].length = 1 /\ E[k].key = key
  /\ E[k + 1] = Masked(D[k + 1].value, key, 0)
  /\ E[k + 2] \in HeaderCells /\ E[k + 2].opcode = "continuation"
  /\ E[k + 2].length = l - 1 /\ E[k + 2].key = key
  /\ \A j \in 1..l - 1 : E[k + 2 + j] = Masked(D[k + 1 + j].value, key, j - 1)
  /\ \A i \in k + l + 1..Len(D) : E[i + 1] = D[i]

\* The two parts of a message carry what the message does.
LEMMA Divided ==
  ASSUME NEW D \in Seq(Cells), NEW base,
         NEW n \in Nat, NEW key, NEW at, NEW start, NEW total \in Nat,
         Framed(D, base, n, key, at, start, total),
         NEW k \in 1..Len(D), NEW l \in Nat, NEW key2 \in Nat, NEW E,
         D[k] \in HeaderCells, D[k].opcode = "binary", D[k].length = l,
         n < k,
         IsSplit(D, E, k, l, key2)
  PROVE  \E base2 : Framed(E, base2, n, key, at, start, total)
<1> DEFINE base2 == [i \in 1..Len(E) + 1 |->
                       IF i <= k THEN base[i] ELSE IF i = k + 2 THEN base[k] + 1 ELSE base[i - 1]]
<1>1. Len(D) \in Nat /\ k \in Nat /\ k >= 1 /\ k <= Len(D)
  OBVIOUS
<1>2. /\ l > 1 /\ k + l <= Len(D) /\ E \in Seq(Cells) /\ Len(E) = Len(D) + 1
      /\ E[k] \in HeaderCells /\ E[k].opcode = "binary" /\ E[k].length = 1 /\ E[k].key = key2
      /\ E[k + 2] \in HeaderCells /\ E[k + 2].opcode = "continuation"
      /\ E[k + 2].length = l - 1 /\ E[k + 2].key = key2
  BY DEF IsSplit
<1>3. /\ l \in Nat /\ l > 1 /\ k + l <= Len(D) /\ Len(E) = Len(D) + 1 /\ k + l + 1 \in Nat
      /\ k + l + 1 <= Len(E) /\ k + l + 1 \in k + l + 1..Len(D) + 1
  BY <1>1, <1>2
<1>4. \A i \in 1..k - 1 : E[i] = D[i]
  BY DEF IsSplit
<1>5. \A i \in k + l + 1..Len(D) : E[i + 1] = D[i]
  BY DEF IsSplit
<1>6. base \in [1..Len(D) + 1 -> Nat] /\ base[Len(D) + 1] = total /\ n <= Len(D) /\ Boundary(D, n + 1)
      /\ base[n + 1] = start + n /\ start + n <= total /\ Rest(D, n, key, at, start)
  BY DEF Framed
<1>7. FrameAt(D, base, k, total)
  BY DEF Framed
<1>8. /\ Boundary(D, k + l + 1) /\ base[k + l + 1] = base[k] + l /\ base[k] + l <= total
      /\ base[k] \in Nat
  <2>1. Width(D[k]) = l /\ D[k].length = l
    BY DEF Width, IsData
  <2>2. /\ Boundary(D, k + D[k].length + 1) /\ base[k + D[k].length + 1] = base[k] + Width(D[k])
        /\ base[k] + Width(D[k]) <= total
    BY <1>7 DEF FrameAt
  <2>3. k \in 1..Len(D) + 1
    BY <1>1
  <2>4. base[k] \in Nat
    BY <1>6, <2>3
  <2> QED
    BY <2>1, <2>2, <2>4
<1>9. \A j \in 1..l : D[k + j] \in ByteCells /\ D[k + j].value = base[k] + j
  BY <1>7 DEF FrameAt, PayloadAt, IsData
<1>10. /\ base2 \in [1..Len(E) + 1 -> Nat]
       /\ \A i \in 1..k : base2[i] = base[i]
       /\ base2[k + 2] = base[k] + 1
       /\ \A i \in k + l + 1..Len(D) + 1 : base2[i + 1] = base[i]
  <2>1. Len(E) + 1 \in Nat /\ Len(E) + 1 = Len(D) + 2
    BY <1>1, <1>2
  <2>2. ASSUME NEW i \in 1..Len(E) + 1
        PROVE  (IF i <= k THEN base[i] ELSE IF i = k + 2 THEN base[k] + 1 ELSE base[i - 1]) \in Nat
    <3>1. CASE i <= k
      BY <1>1, <1>6, <2>1, <3>1
    <3>2. CASE i > k
      <4>1. i - 1 \in 1..Len(D) + 1
        BY <1>1, <2>1, <3>2
      <4>2. base[i - 1] \in Nat
        BY <1>6, <4>1
      <4>3. base[k] + 1 \in Nat
        BY <1>8
      <4>4. ~(i <= k)
        BY <1>1, <2>1, <3>2
      <4> QED
        BY <4>2, <4>3, <4>4
    <3> QED
      BY <1>1, <2>1, <3>1, <3>2
  <2>3. \A i \in 1..k : i \in 1..Len(E) + 1 /\ i <= k
    BY <1>1, <2>1
  <2>4. k + 2 \in 1..Len(E) + 1 /\ ~(k + 2 <= k)
    BY <1>1, <1>2, <2>1
  <2>5. \A i \in k + l + 1..Len(D) + 1 :
          i + 1 \in 1..Len(E) + 1 /\ ~(i + 1 <= k) /\ i + 1 # k + 2 /\ (i + 1) - 1 = i
    BY <1>1, <1>2, <2>1
  <2> QED
    BY <2>2, <2>3, <2>4, <2>5
<1> HIDE DEF base2
<1>11. \A i \in k + l + 1..Len(D) + 1 : base2[i + 1] = base[i]
  BY <1>10
<1>12. base2[Len(E) + 1] = total
  <2>1. Len(D) + 1 \in k + l + 1..Len(D) + 1 /\ (Len(D) + 1) + 1 = Len(E) + 1
    BY <1>1, <1>2
  <2>2. base2[(Len(D) + 1) + 1] = base[Len(D) + 1]
    BY <1>11, <2>1
  <2> QED
    BY <1>6, <2>1, <2>2
<1>13. \A i \in 1..k : Boundary(D, i) => Boundary(E, i)
  <2> SUFFICES ASSUME NEW i \in 1..k, Boundary(D, i) PROVE Boundary(E, i)
    OBVIOUS
  <2>1. i \in 1..Len(E)
    BY <1>1, <1>2
  <2>2. CASE i = k
    BY <1>2, <2>1, <2>2 DEF Boundary
  <2>3. CASE i # k
    <3>1. i \in 1..k - 1 /\ i # Len(D) + 1
      BY <1>1, <2>3
    <3> QED
      BY <1>4, <2>1, <3>1 DEF Boundary
  <2> QED
    BY <2>2, <2>3
<1>14. \A i \in k + l + 1..Len(D) + 1 : Boundary(D, i) => Boundary(E, i + 1)
  <2> SUFFICES ASSUME NEW i \in k + l + 1..Len(D) + 1, Boundary(D, i) PROVE Boundary(E, i + 1)
    OBVIOUS
  <2>1. i \in Nat /\ i >= 1 /\ i >= k + l + 1 /\ i <= Len(D) + 1
    BY <1>3
  <2>2. i = Len(D) + 1 \/ i \in k + l + 1..Len(D)
    BY <1>3, <2>1, <1>1
  <2>3. CASE i = Len(D) + 1
    BY <1>2, <2>3 DEF Boundary
  <2>4. CASE i \in k + l + 1..Len(D)
    <3>1. i # Len(D) + 1 /\ i + 1 \in 1..Len(E) /\ E[i + 1] = D[i]
      BY <1>3, <1>1, <1>5, <2>1, <2>4
    <3> QED
      BY <3>1 DEF Boundary
  <2> QED
    BY <2>2, <2>3, <2>4
<1>15. Rest(E, n, key, at, start)
  <2> SUFFICES ASSUME NEW j \in 1..n PROVE E[j] = Masked(start + j, key, at + j - 1)
    BY DEF Rest
  <2>1. j \in 1..k - 1
    BY <1>1
  <2> QED
    BY <1>4, <1>6, <2>1 DEF Rest
<1>16. n <= Len(E) /\ Boundary(E, n + 1) /\ base2[n + 1] = start + n
  <2>1. n + 1 \in 1..k
    BY <1>1
  <2> QED
    BY <1>1, <1>2, <1>6, <1>10, <1>13, <2>1
<1>17. ASSUME NEW i \in 1..k - 1, E[i] \in HeaderCells
       PROVE  FrameAt(E, base2, i, total)
  <2> DEFINE m == D[i].length
  <2>1. i \in Nat /\ i >= 1 /\ i < k /\ i \in 1..Len(D) /\ i \in 1..k
    BY <1>1
  <2>2. E[i] = D[i] /\ m \in Nat
    BY <1>4, <1>17, CellKinds
  <2>3. FrameAt(D, base, i, total)
    BY <1>17, <2>1, <2>2 DEF Framed
  <2>4. i + m < k
    <3>1. ASSUME i + m >= k PROVE FALSE
      <4>1. k - i \in 1..m /\ i + (k - i) = k
        <5> HIDE DEF m
        <5> QED
          BY <1>1, <2>1, <2>2, <3>1
      <4>2. D[k] \in ByteCells
        BY <2>3, <4>1 DEF FrameAt, PayloadAt
      <4> QED
        BY <4>2, CellKinds
    <3>2. i + m \in Nat
      BY <2>1, <2>2
    <3> QED
      BY <1>1, <3>1, <3>2
  <2>5. i + m + 1 \in 1..k /\ i + m <= Len(E)
    <3> HIDE DEF m
    <3> QED
      BY <1>1, <1>2, <2>1, <2>2, <2>4
  <2>6. /\ Boundary(D, i + m + 1) /\ base[i + m + 1] = base[i] + Width(D[i])
        /\ base[i] + Width(D[i]) <= total
    BY <2>3 DEF FrameAt
  <2>7. base2[i] = base[i] /\ base2[i + m + 1] = base[i + m + 1] /\ Boundary(E, i + m + 1)
    BY <1>10, <1>13, <2>1, <2>5, <2>6
  <2>8. PayloadAt(E, base2, i)
    <3> SUFFICES ASSUME NEW j \in 1..m
                 PROVE  /\ E[i + j] \in ByteCells
                        /\ E[i + j] = Masked(E[i + j].value, E[i].key, j - 1)
                        /\ IsData(E[i]) => E[i + j].value = base2[i] + j
      BY <2>2 DEF PayloadAt
    <3>1. i + j \in 1..k - 1
      <4>1. m \in Nat /\ i \in Nat /\ k \in Nat
        BY <1>1, <2>1, <2>2
      <4> HIDE DEF m
      <4>2. j \in Nat /\ j >= 1 /\ j <= m
        BY <4>1
      <4> QED
        BY <2>4, <4>1, <4>2
    <3>2. E[i + j] = D[i + j]
      BY <1>4, <3>1
    <3> QED
      BY <2>2, <2>3, <2>7, <3>2 DEF FrameAt, PayloadAt
  <2> QED
    BY <2>2, <2>5, <2>6, <2>7, <2>8 DEF FrameAt
<1>18. FrameAt(E, base2, k, total)
  <2>1. k + 1 <= Len(E) /\ k + 1 + 1 = k + 2 /\ k + 2 <= Len(E) /\ k \in 1..k /\ k + 2 \in 1..Len(E)
    BY <1>1, <1>2
  <2>2. Boundary(E, k + 2)
    BY <1>2, <2>1 DEF Boundary
  <2>3. Width(E[k]) = 1
    BY <1>2 DEF Width, IsData
  <2>4. base2[k] = base[k] /\ base2[k + 2] = base[k] + 1 /\ base[k] + 1 <= total
    <3>1. base2[k] = base[k] /\ base2[k + 2] = base[k] + 1
      BY <1>10, <2>1
    <3>2. l \in Nat /\ l > 1 /\ base[k] \in Nat /\ base[k] + l <= total
      BY <1>3, <1>8
    <3>3. base[k] + 1 <= total
      <4>1. \A x, y, z \in Nat : y > 1 /\ x + y <= z => x + 1 <= z
        OBVIOUS
      <4> QED
        BY <3>2, <4>1
    <3> QED
      BY <3>1, <3>3
  <2>5. PayloadAt(E, base2, k)
    <3> SUFFICES ASSUME NEW j \in 1..1
                 PROVE  /\ E[k + j] \in ByteCells
                        /\ E[k + j] = Masked(E[k + j].value, E[k].key, j - 1)
                        /\ IsData(E[k]) => E[k + j].value = base2[k] + j
      BY <1>2 DEF PayloadAt
    <3>1. j = 1 /\ j - 1 = 0 /\ 1 \in 1..l
      BY <1>2
    <3>2. D[k + 1].value = base[k] + 1 /\ base[k] + 1 \in Nat
      <4>1. D[k + 1].value = base[k] + 1
        BY <1>9, <3>1
      <4>2. base[k] \in Nat
        BY <1>8
      <4> QED
        BY <4>1, <4>2
    <3>3. E[k + 1] = Masked(base[k] + 1, key2, 0)
      BY <3>2 DEF IsSplit
    <3>4. E[k + 1] \in ByteCells /\ E[k + 1].value = base[k] + 1
      <4>1. 0 \in Nat /\ base[k] + 1 \in Nat
        BY <3>2
      <4>2. Masked(base[k] + 1, key2, 0) \in ByteCells /\ Masked(base[k] + 1, key2, 0).value = base[k] + 1
        BY <4>1, MaskedByte
      <4> QED
        BY <3>3, <4>2
    <3> QED
      BY <1>2, <2>4, <3>1, <3>3, <3>4
  <2> QED
    BY <1>2, <2>1, <2>2, <2>3, <2>4, <2>5 DEF FrameAt
<1>19. FrameAt(E, base2, k + 2, total)
  <2>1. /\ k + 2 + (l - 1) = k + l + 1 /\ k + l + 1 <= Len(E)
        /\ k + 2 + (l - 1) + 1 = (k + l + 1) + 1 /\ k + l + 1 \in k + l + 1..Len(D) + 1
    BY <1>3, <1>1
  <2>2. Boundary(E, (k + l + 1) + 1)
    BY <1>8, <1>14, <2>1
  <2>3. Width(E[k + 2]) = l - 1
    BY <1>2 DEF Width, IsData
  <2>4. /\ base2[k + 2] = base[k] + 1 /\ base2[(k + l + 1) + 1] = base[k] + l
        /\ base[k] + l = (base[k] + 1) + (l - 1) /\ (base[k] + 1) + (l - 1) <= total
    <3>1. base[k] + l = (base[k] + 1) + (l - 1)
      <4>1. base[k] \in Nat
        BY <1>8
      <4>2. l \in Nat
        OBVIOUS
      <4> QED
        BY <4>1, <4>2
    <3>2. base[k] + l <= total
      BY <1>8
    <3>3. (base[k] + 1) + (l - 1) <= total
      BY <3>1, <3>2
    <3>4. base2[(k + l + 1) + 1] = base[k + l + 1]
      BY <1>10, <2>1
    <3>5. base2[k + 2] = base[k] + 1
      BY <1>10
    <3>6. base[k + l + 1] = base[k] + l
      BY <1>8
    <3> QED
      BY <3>1, <3>3, <3>4, <3>5, <3>6
  <2>5. PayloadAt(E, base2, k + 2)
    <3> SUFFICES ASSUME NEW j \in 1..l - 1
                 PROVE  /\ E[(k + 2) + j] \in ByteCells
                        /\ E[(k + 2) + j] = Masked(E[(k + 2) + j].value, E[k + 2].key, j - 1)
                        /\ IsData(E[k + 2]) => E[(k + 2) + j].value = base2[k + 2] + j
      BY <1>2 DEF PayloadAt
    <3>1. j \in Nat /\ j >= 1 /\ j - 1 \in Nat /\ 1 + j \in 1..l /\ k + (1 + j) = k + 1 + j
      BY <1>1, <1>2
    <3>2. D[k + 1 + j].value = base[k] + (1 + j) /\ base[k] + (1 + j) \in Nat
      <4>1. D[k + (1 + j)].value = base[k] + (1 + j)
        BY <1>9, <3>1
      <4>2. D[k + 1 + j].value = base[k] + (1 + j)
        BY <3>1, <4>1
      <4>3. base[k] \in Nat /\ 1 + j \in Nat
        BY <1>8, <3>1
      <4>4. base[k] + (1 + j) \in Nat
        BY <4>3
      <4> QED
        BY <4>2, <4>4
    <3>3. E[(k + 2) + j] = Masked(base[k] + (1 + j), key2, j - 1)
      BY <3>2 DEF IsSplit
    <3>4. E[(k + 2) + j] \in ByteCells /\ E[(k + 2) + j].value = base[k] + (1 + j)
      <4>1. j - 1 \in Nat
        BY <3>1
      <4>2. base[k] + (1 + j) \in Nat
        BY <3>2
      <4>3. /\ Masked(base[k] + (1 + j), key2, j - 1) \in ByteCells
            /\ Masked(base[k] + (1 + j), key2, j - 1).value = base[k] + (1 + j)
        BY <4>1, <4>2, MaskedByte
      <4> QED
        BY <3>3, <4>3
    <3>5. base[k] + (1 + j) = (base[k] + 1) + j
      <4>1. base[k] \in Nat /\ j \in Nat
        BY <1>8, <3>1
      <4>2. \A a, b \in Nat : a + (1 + b) = (a + 1) + b
        OBVIOUS
      <4> QED
        BY <4>1, <4>2
    <3> QED
      BY <1>2, <2>4, <3>3, <3>4, <3>5
  <2> QED
    BY <1>2, <2>1, <2>2, <2>3, <2>4, <2>5 DEF FrameAt
<1>20. ASSUME NEW i \in k + l + 1..Len(D), D[i] \in HeaderCells
       PROVE  FrameAt(E, base2, i + 1, total)
  <2> DEFINE m == D[i].length
  <2>1. i \in Nat /\ i \in 1..Len(D) /\ i \in k + l + 1..Len(D) + 1
    BY <1>1, <1>2
  <2>2. E[i + 1] = D[i] /\ m \in Nat
    BY <1>5, <1>20, CellKinds
  <2>3. FrameAt(D, base, i, total)
    BY <1>20, <2>1 DEF Framed
  <2>4. i + m <= Len(D)
    BY <2>3 DEF FrameAt
  <2>5. /\ i + m + 1 \in k + l + 1..Len(D) + 1 /\ (i + m + 1) + 1 = i + 1 + m + 1
        /\ i + 1 + m <= Len(E)
    <3> HIDE DEF m
    <3>1. k + l + 1 \in Nat /\ i >= k + l + 1
      BY <1>1, <1>2
    <3> QED
      BY <1>1, <1>2, <2>1, <2>2, <2>4, <3>1
  <2>6. /\ Boundary(D, i + m + 1) /\ base[i + m + 1] = base[i] + Width(D[i])
        /\ base[i] + Width(D[i]) <= total
    BY <2>3 DEF FrameAt
  <2>7. base2[i + 1] = base[i] /\ base2[(i + m + 1) + 1] = base[i + m + 1] /\ Boundary(E, (i + m + 1) + 1)
    <3> HIDE DEF m
    <3>1. base2[i + 1] = base[i]
      BY <1>11, <2>1
    <3>2. base2[(i + m + 1) + 1] = base[i + m + 1]
      BY <1>11, <2>5
    <3>3. Boundary(E, (i + m + 1) + 1)
      BY <1>14, <2>5, <2>6
    <3> QED
      BY <3>1, <3>2, <3>3
  <2>8. PayloadAt(E, base2, i + 1)
    <3> SUFFICES ASSUME NEW j \in 1..m
                 PROVE  /\ E[(i + 1) + j] \in ByteCells
                        /\ E[(i + 1) + j] = Masked(E[(i + 1) + j].value, E[i + 1].key, j - 1)
                        /\ IsData(E[i + 1]) => E[(i + 1) + j].value = base2[i + 1] + j
      BY <2>2 DEF PayloadAt
    <3>1. i + j \in k + l + 1..Len(D) /\ (i + j) + 1 = (i + 1) + j
      <4> HIDE DEF m
      <4>1. k + l + 1 \in Nat /\ i >= k + l + 1
        BY <1>3
      <4>2. j \in Nat /\ j >= 1 /\ j <= m
        BY <2>2
      <4>3. i + j \in Nat /\ i + j >= k + l + 1 /\ i + j <= Len(D)
        BY <1>1, <2>1, <2>2, <2>4, <4>1, <4>2
      <4> QED
        BY <1>3, <1>1, <2>1, <4>1, <4>2, <4>3
    <3>2. E[(i + 1) + j] = D[i + j]
      BY <1>5, <3>1
    <3> QED
      BY <2>2, <2>3, <2>7, <3>2 DEF FrameAt, PayloadAt
  <2> QED
    BY <2>2, <2>5, <2>6, <2>7, <2>8 DEF FrameAt
<1>21. ASSUME NEW i \in 1..Len(E), E[i] \in HeaderCells
       PROVE  FrameAt(E, base2, i, total)
  <2>1. i \in Nat /\ i >= 1 /\ i <= Len(D) + 1
    BY <1>1, <1>2
  <2>2. CASE i < k
    <3>1. i \in 1..k - 1
      BY <1>1, <2>1, <2>2
    <3> QED
      BY <1>17, <1>21, <3>1
  <2>3. CASE i = k
    BY <1>18, <2>3
  <2>4. CASE i = k + 1
    <3>1. 1 \in 1..l
      BY <1>2
    <3>2. D[k + 1].value = base[k] + 1 /\ base[k] + 1 \in Nat
      <4>1. D[k + 1].value = base[k] + 1
        BY <1>9, <3>1
      <4>2. base[k] \in Nat
        BY <1>8
      <4> QED
        BY <4>1, <4>2
    <3>3. E[k + 1] \in ByteCells
      <4>1. 0 \in Nat /\ base[k] + 1 \in Nat
        BY <3>2
      <4>2. Masked(base[k] + 1, key2, 0) \in ByteCells
        BY <4>1, MaskedByte
      <4> QED
        BY <3>2, <4>2 DEF IsSplit
    <3> QED
      BY <1>21, <2>4, <3>3, CellKinds
  <2>5. CASE i = k + 2
    BY <1>19, <2>5
  <2>6. CASE i > k + 2 /\ i <= k + l + 1
    <3> DEFINE j == i - (k + 2)
    <3>1. j \in 1..l - 1 /\ (k + 2) + j = i /\ j - 1 \in Nat /\ 1 + j \in 1..l /\ k + (1 + j) = k + 1 + j
      BY <1>1, <1>2, <2>1, <2>6
    <3> HIDE DEF j
    <3>2. D[k + 1 + j].value = base[k] + (1 + j) /\ base[k] + (1 + j) \in Nat
      <4>1. D[k + (1 + j)].value = base[k] + (1 + j)
        BY <1>9, <3>1
      <4>2. D[k + 1 + j].value = base[k] + (1 + j)
        BY <3>1, <4>1
      <4>3. base[k] \in Nat /\ 1 + j \in Nat
        BY <1>8, <3>1
      <4> QED
        BY <4>2, <4>3
    <3>3. E[(k + 2) + j] = Masked(base[k] + (1 + j), key2, j - 1)
      BY <3>1, <3>2 DEF IsSplit
    <3>4. E[i] \in ByteCells
      <4>1. Masked(base[k] + (1 + j), key2, j - 1) \in ByteCells
        BY <3>1, <3>2, MaskedByte
      <4> QED
        BY <3>1, <3>3, <4>1
    <3> QED
      BY <1>21, <3>4, CellKinds
  <2>7. CASE i > k + l + 1
    <3> DEFINE p == i - 1
    <3>1. p \in k + l + 1..Len(D) /\ p + 1 = i
      BY <1>1, <1>2, <2>1, <2>7
    <3> HIDE DEF p
    <3>2. D[p] = E[i]
      BY <1>5, <3>1
    <3>3. FrameAt(E, base2, p + 1, total)
      BY <1>20, <1>21, <3>1, <3>2
    <3> QED
      BY <3>1, <3>3
  <2>8. i < k \/ i = k \/ i = k + 1 \/ i = k + 2 \/ (i > k + 2 /\ i <= k + l + 1) \/ i > k + l + 1
    BY <1>1, <1>2, <2>1
  <2> QED
    BY <2>2, <2>3, <2>4, <2>5, <2>6, <2>7, <2>8
<1> QED
  BY <1>6, <1>10, <1>12, <1>15, <1>16, <1>21 DEF Framed

-----------------------------------------------------------------------------

(***************************************************************************)
(* A reader of such a sequence.                                            *)
(***************************************************************************)

\* The i-th byte is i, as Bytes makes them.
Numbered(bytes) == \A i \in 1..Len(bytes) : bytes[i] = i

\* What a reader remembers: readRemaining, readMask, readMaskAt, fragmented.
Positions == [remaining : Nat, key : Nat, at : Nat, fragmented : BOOLEAN]

\* A reader at r who has read the bytes b finds frames that bring it to total.
Sound(D, r, b, total) ==
  Numbered(b) /\ \E base : Framed(D, base, r.remaining, r.key, r.at, Len(b), total)

\* What goes on with the next number is numbered.
LEMMA Continued ==
  ASSUME NEW b \in Seq(Nat), NEW c \in Seq(Nat), Numbered(b), \A j \in 1..Len(c) : c[j] = Len(b) + j
  PROVE  b \o c \in Seq(Nat) /\ Len(b \o c) = Len(b) + Len(c) /\ Numbered(b \o c)
<1> DEFINE u == b \o c
<1>1. Len(b) \in Nat /\ Len(c) \in Nat
  OBVIOUS
<1>2. /\ u \in Seq(Nat) /\ Len(u) = Len(b) + Len(c)
      /\ \A i \in 1..Len(b) : u[i] = b[i]
      /\ \A i \in 1..Len(c) : u[Len(b) + i] = c[i]
  OBVIOUS
<1> HIDE DEF u
<1>3. Numbered(u)
  <2> SUFFICES ASSUME NEW i \in 1..Len(u) PROVE u[i] = i
    BY DEF Numbered
  <2>1. CASE i <= Len(b)
    <3>1. i \in 1..Len(b)
      BY <1>1, <1>2, <2>1
    <3> QED
      BY <1>2, <3>1 DEF Numbered
  <2>2. CASE i > Len(b)
    <3> DEFINE j == i - Len(b)
    <3>1. j \in 1..Len(c) /\ Len(b) + j = i
      BY <1>1, <1>2, <2>2
    <3> HIDE DEF j
    <3> QED
      BY <1>2, <3>1
  <2> QED
    BY <1>1, <1>2, <2>1, <2>2
<1> QED
  BY <1>2, <1>3 DEF u

\* A reader has not read more than there was.
LEMMA SoundBound ==
  ASSUME NEW D, NEW r \in Positions, NEW b \in Seq(Nat), NEW total \in Nat, Sound(D, r, b, total)
  PROVE  Numbered(b) /\ Len(b) <= total
<1>1. PICK base : Framed(D, base, r.remaining, r.key, r.at, Len(b), total)
  BY DEF Sound
<1>2. Len(b) + r.remaining <= total
  BY <1>1 DEF Framed
<1>3. r.remaining \in Nat /\ Len(b) \in Nat
  BY DEF Positions
<1>4. Len(b) <= total
  BY <1>2, <1>3
<1> QED
  BY <1>4 DEF Sound

\* A read within a frame (Read, with readMaskAt) gives the next bytes.
LEMMA SoundTaken ==
  ASSUME NEW D \in Seq(Cells), NEW r \in Positions, NEW b \in Seq(Nat), NEW total \in Nat,
         Sound(D, r, b, total), NEW count \in Nat, count <= r.remaining,
         NEW r2, r2.remaining = r.remaining - count, r2.key = r.key, r2.at = r.at + count,
         NEW read \in Seq(Nat), Len(read) = count,
         \A i \in 1..count : read[i] = Unmask(D[i], r.key, r.at + i - 1)
  PROVE  Sound(SubSeq(D, count + 1, Len(D)), r2, b \o read, total)
<1>1. PICK base : Framed(D, base, r.remaining, r.key, r.at, Len(b), total)
  BY DEF Sound
<1> DEFINE n == r.remaining
           p == r.at
           key == r.key
           L == Len(D)
           start == Len(b)
<1>2. n \in Nat /\ key \in Nat /\ p \in Nat /\ start \in Nat /\ L \in Nat /\ count <= n
  BY DEF Positions
<1>3. /\ n <= L /\ Boundary(D, n + 1) /\ base[n + 1] = start + n /\ start + n <= total
      /\ Rest(D, n, key, p, start)
  BY <1>1 DEF Framed
<1>4. Framed(D, base, n, key, p, start, total)
  BY <1>1
<1>5. \A i \in 1..count : read[i] = Unmask(D[i], key, p + i - 1)
  OBVIOUS
<1>6. r2.remaining = n - count /\ r2.key = key /\ r2.at = p + count
  OBVIOUS
<1>7. start = Len(b) /\ L = Len(D)
  OBVIOUS
<1> HIDE DEF n, p, key, L, start
<1>8. \A i \in 1..count : Unmask(D[i], key, p + i - 1) = start + i
  <2> TAKE i \in 1..count
  <2>1. i \in Nat /\ i >= 1 /\ i <= count
    OBVIOUS
  <2>2. i \in 1..n
    BY <1>2, <2>1
  <2>3. start + i \in Nat /\ p + i - 1 \in Nat
    BY <1>2, <2>1
  <2>4. D[i] = Masked(start + i, key, p + i - 1)
    BY <1>3, <2>2 DEF Rest
  <2>5. Unmask(Masked(start + i, key, p + i - 1), key, p + i - 1) = start + i
    BY <1>2, <2>3, Unmasked
  <2> QED
    BY <2>4, <2>5
<1>9. \A i \in 1..Len(read) : read[i] = Len(b) + i
  BY <1>8, <1>5, <1>7
<1> DEFINE b2 == b \o read
<1>10. Len(b2) = start + count /\ Numbered(b2)
  <2>1. Numbered(b)
    BY DEF Sound
  <2> QED
    BY <1>9, <1>7, <2>1, Continued
<1> HIDE DEF b2
<1> DEFINE n2 == n - count
           at2 == p + count
           start2 == start + count
<1>11. /\ count \in 0..L /\ n2 \in Nat /\ at2 \in Nat /\ start2 \in Nat
       /\ count + n2 = n /\ start2 + n2 = start + n
  BY <1>2, <1>3
<1>12. RestAt(D, count, n2, key, at2, start2)
  <2> SUFFICES ASSUME NEW j \in 1..n2 PROVE D[count + j] = Masked(start2 + j, key, at2 + j - 1)
    BY DEF RestAt
  <2>1. j \in Nat /\ j >= 1 /\ j <= n2
    BY <1>11
  <2>2. count + j \in 1..n
    BY <1>2, <1>11, <2>1
  <2>3. start + (count + j) = start2 + j /\ p + (count + j) - 1 = at2 + j - 1
    BY <1>2, <2>1
  <2>4. D[count + j] = Masked(start + (count + j), key, p + (count + j) - 1)
    BY <1>3, <2>2 DEF Rest
  <2> QED
    BY <2>3, <2>4
<1>13. r2.remaining = n2 /\ r2.key = key /\ r2.at = at2 /\ Len(b2) = start2
  BY <1>10, <1>6
<1> HIDE DEF n2, at2, start2
<1>14. \E base2 : Framed(SubSeq(D, count + 1, Len(D)), base2, n2, key, at2, start2, total)
  <2>1. count + n2 <= Len(D) /\ Boundary(D, count + n2 + 1) /\ count \in 0..Len(D)
    BY <1>3, <1>11, <1>7
  <2>2. base[count + n2 + 1] = start2 + n2 /\ start2 + n2 <= total
    BY <1>3, <1>11
  <2> QED
    BY <1>4, <1>2, <1>11, <1>12, <2>1, <2>2, Dropped
<1>15. \E base2 : Framed(SubSeq(D, count + 1, Len(D)), base2, r2.remaining, r2.key, r2.at, Len(b2), total)
  BY <1>14, <1>13
<1> QED
  BY <1>10, <1>15 DEF Sound, b2

\* A reader between two frames takes a header, or a control frame as a whole.
LEMMA SoundFrameTaken ==
  ASSUME NEW D \in Seq(Cells), NEW r \in Positions, NEW b \in Seq(Nat), NEW total \in Nat,
         Sound(D, r, b, total), r.remaining = 0, D # <<>>, D[1] \in HeaderCells
  PROVE  /\ IsData(D[1]) =>
              \A r2 : /\ r2.remaining = D[1].length /\ r2.key = D[1].key /\ r2.at = 0
                      => Sound(SubSeq(D, 2, Len(D)), r2, b, total)
         /\ ~IsData(D[1]) => /\ 1 + D[1].length <= Len(D)
                             /\ Sound(SubSeq(D, 1 + D[1].length + 1, Len(D)), r, b, total)
<1>1. PICK base : Framed(D, base, r.remaining, r.key, r.at, Len(b), total)
  BY DEF Sound
<1> DEFINE l == D[1].length
<1>2. r.key \in Nat /\ r.at \in Nat /\ Len(b) \in Nat /\ Len(D) \in Nat /\ 1 \in 1..Len(D)
  BY DEF Positions
<1>3. l \in Nat /\ D[1].key \in Nat
  BY CellKinds
<1>4. Framed(D, base, 0, r.key, r.at, Len(b), total)
  BY <1>1
<1>5. FrameAt(D, base, 1, total)
  BY <1>2, <1>4 DEF Framed
<1>6. base[1] = Len(b) /\ Len(b) <= total
  BY <1>2, <1>4 DEF Framed
<1>7. /\ 1 + l <= Len(D) /\ Boundary(D, 1 + l + 1)
      /\ base[1 + l + 1] = Len(b) + Width(D[1]) /\ Len(b) + Width(D[1]) <= total
  BY <1>5, <1>6 DEF FrameAt
<1>8. ASSUME IsData(D[1])
      PROVE  \E base2 : Framed(SubSeq(D, 2, Len(D)), base2, l, D[1].key, 0, Len(b), total)
  <2>1. RestAt(D, 1, l, D[1].key, 0, Len(b))
    <3> SUFFICES ASSUME NEW j \in 1..l PROVE D[1 + j] = Masked(Len(b) + j, D[1].key, 0 + j - 1)
      BY DEF RestAt
    <3>1. D[1 + j] = Masked(D[1 + j].value, D[1].key, j - 1) /\ D[1 + j].value = base[1] + j
      BY <1>5, <1>8 DEF FrameAt, PayloadAt
    <3>2. 0 + j - 1 = j - 1
      BY <1>3
    <3> QED
      BY <1>6, <3>1, <3>2
  <2>2. Width(D[1]) = l
    BY <1>8 DEF Width
  <2>3. 0 \in Nat /\ 1 \in 0..Len(D) /\ 1 + 1 = 2
    BY <1>2
  <2> HIDE DEF l
  <2>4. \E base2 : Framed(SubSeq(D, 1 + 1, Len(D)), base2, l, D[1].key, 0, Len(b), total)
    <3>1. 1 + l <= Len(D) /\ Boundary(D, 1 + l + 1)
      BY <1>7
    <3>2. base[1 + l + 1] = Len(b) + l /\ Len(b) + l <= total
      BY <1>7, <2>2
    <3> QED
      BY <1>2, <1>3, <1>4, <2>1, <2>3, <3>1, <3>2, Dropped
  <2> QED
    BY <2>3, <2>4
<1>9. ASSUME ~IsData(D[1])
      PROVE  \E base2 : Framed(SubSeq(D, 1 + l + 1, Len(D)), base2, 0, r.key, r.at, Len(b), total)
  <2>1. Width(D[1]) = 0
    BY <1>9 DEF Width
  <2> HIDE DEF l
  <2>2. 1 + l \in 0..Len(D) /\ 1 + l + 0 = 1 + l /\ Len(b) + 0 = Len(b) /\ 0 \in Nat
    BY <1>2, <1>3, <1>7
  <2>3. RestAt(D, 1 + l, 0, r.key, r.at, Len(b))
    BY DEF RestAt
  <2>4. base[1 + l + 0 + 1] = Len(b) + 0 /\ Len(b) + 0 <= total
    BY <1>6, <1>7, <2>1, <2>2
  <2>5. 1 + l + 0 <= Len(D) /\ Boundary(D, 1 + l + 0 + 1)
    BY <1>7, <2>2
  <2> QED
    BY <1>2, <1>4, <2>2, <2>3, <2>4, <2>5, Dropped
<1>10. Numbered(b)
  BY DEF Sound
<1> QED
  BY <1>7, <1>8, <1>9, <1>10 DEF Sound

\* Another frame, of the next bytes or of none of the stream's, does not disturb
\* the reader.
LEMMA SoundAdded ==
  ASSUME NEW D \in Seq(Cells), NEW r \in Positions, NEW b \in Seq(Nat), NEW total \in Nat,
         Sound(D, r, b, total),
         NEW payload \in Seq(Nat), NEW key \in Nat, NEW op \in Opcodes, NEW total2 \in Nat,
         op \in {"binary", "continuation"} => /\ total2 = total + Len(payload)
                                           /\ \A j \in 1..Len(payload) : payload[j] = total + j,
         op \notin {"binary", "continuation"} => total2 = total
  PROVE  Sound(D \o Frame(op, payload, key), r, b, total2)
<1>1. PICK base : Framed(D, base, r.remaining, r.key, r.at, Len(b), total)
  BY DEF Sound
<1>2. r.remaining \in Nat
  BY DEF Positions
<1>3. \E base2 : Framed(D \o Frame(op, payload, key), base2, r.remaining, r.key, r.at, Len(b), total2)
  BY <1>1, <1>2, Added
<1> QED
  BY <1>3 DEF Sound

\* Nor does a message that is made two.
LEMMA SoundDivided ==
  ASSUME NEW D \in Seq(Cells), NEW r \in Positions, NEW b \in Seq(Nat), NEW total \in Nat,
         Sound(D, r, b, total),
         NEW k \in 1..Len(D), NEW l \in Nat, NEW key \in Nat, NEW E,
         D[k] \in HeaderCells, D[k].opcode = "binary", D[k].length = l,
         IsSplit(D, E, k, l, key)
  PROVE  Sound(E, r, b, total)
<1>1. PICK base : Framed(D, base, r.remaining, r.key, r.at, Len(b), total)
  BY DEF Sound
<1>2. r.remaining \in Nat /\ r.key \in Nat /\ r.at \in Nat
  BY DEF Positions
<1>3. r.remaining < k
  <2> SUFFICES ASSUME r.remaining >= k PROVE FALSE
    BY <1>2
  <2>1. k \in 1..r.remaining /\ Len(b) + k \in Nat /\ r.at + k - 1 \in Nat
    BY <1>2
  <2>2. D[k] = Masked(Len(b) + k, r.key, r.at + k - 1)
    BY <1>1, <2>1 DEF Framed, Rest
  <2>3. Masked(Len(b) + k, r.key, r.at + k - 1) \in ByteCells
    BY <1>2, <2>1, MaskedByte
  <2> QED
    BY <2>2, <2>3, CellKinds
<1>4. \E base2 : Framed(E, base2, r.remaining, r.key, r.at, Len(b), total)
  BY <1>1, <1>2, <1>3, Divided
<1> QED
  BY <1>4 DEF Sound

-----------------------------------------------------------------------------

(***************************************************************************)
(* The invariant.                                                          *)
(***************************************************************************)

ReadingStates == {"idle", "header", "payload", "lock", "pong", "ended", "stopped"}

TypeOK ==
  /\ stream \in [Ends -> Seq(Cells)] /\ out \in [Ends -> Seq(Cells)]
  /\ sent \in [Ends -> Seq(Nat)] /\ got \in [Ends -> Seq(Nat)]
  /\ failed \in [Ends -> BOOLEAN]
  /\ writeMu \in [Ends -> {"free", "writer", "reader"}]
  /\ wpc \in [Ends -> {"idle", "lock", "frame"}]
  /\ rpc \in [Ends -> ReadingStates]
  /\ reading \in [Ends -> Positions]
  /\ pong \in [Ends -> Seq(Nat)]
  /\ todo \in [Ends -> Seq(Nat \ {0})]
  /\ keys \in [Ends -> Nat] /\ pings \in [Ends -> Nat]
  /\ cut \in [Ends -> {"no", "deadline", "grace", "closing", "closed"}]

\* Who holds the lock, and what is to be written when there is a frame to write.
Locking(e) ==
  /\ writeMu[e] = "free" => out[e] = <<>>
  /\ writeMu[e] = "writer" => wpc[e] = "frame"
  /\ writeMu[e] = "reader" => rpc[e] = "pong"
  /\ wpc[e] = "lock" => todo[e] # <<>> /\ Head(todo[e]) <= Len(sent[e])

\* A header is looked for only where nothing is left of a frame.
Between(e) == rpc[e] \in {"header", "lock", "pong"} => reading[e].remaining = 0

\* What is under way, and what is still to be handed to the network.
Framing(e) == stream[e] \o out[e]

\* How many of the bytes given to Write are in frames already.
InFrames(e) == Len(sent[e]) - (IF wpc[e] = "lock" THEN Head(todo[e]) ELSE 0)

\* Until a write has failed or a read has: the reader of a direction is sound,
\* and all that has been framed is before it.
Piped(e) ==
  ~failed[e] /\ rpc[Peer(e)] # "ended" => Sound(Framing(e), reading[Peer(e)], got[e], InFrames(e))

\* What holds of one direction.
PipeInv(e) == Locking(e) /\ Between(e) /\ Numbered(sent[e]) /\ Piped(e)

\* The inductive invariant.
Inv == TypeOK /\ \A e \in Ends : PipeInv(e)

\* A step of the byte pipe, in the direction of d.
Step(d) ==
  \/ Len(sent'[d]) > Len(sent[d]) /\ sent'[d] = [i \in 1..Len(sent'[d]) |-> i]
     /\ got'[d] = got[d] /\ failed'[d] = failed[d]
  \/ /\ ~failed[d]
     /\ \E n \in Len(got[d])..Len(sent[d]) : got'[d] = SubSeq(sent[d], 1, n)
     /\ sent'[d] = sent[d] /\ failed'[d] = failed[d]
  \/ failed'[d] = TRUE /\ sent'[d] = sent[d]
  \/ failed[d] /\ failed'[d] = failed[d]
  \/ sent'[d] = sent[d] /\ got'[d] = got[d] /\ failed'[d] = failed[d]

-----------------------------------------------------------------------------

(***************************************************************************)
(* Sequences of cells that are joined, shortened and split.                *)
(***************************************************************************)

\* There are two ends.
LEMMA EndsFacts ==
  /\ \A e \in Ends : Peer(e) \in Ends /\ Peer(e) # e /\ Peer(Peer(e)) = e
  /\ \A d, e \in Ends : d = e \/ d = Peer(e)
  BY DEF Ends, Peer

\* u is n cells of s and then m cells of t.
IsJoin(u, s, t, n, m) ==
  /\ u \in Seq(Cells) /\ Len(u) = n + m
  /\ \A i \in 1..n : u[i] = s[i]
  /\ \A i \in 1..m : u[n + i] = t[i]

\* What \o makes of two sequences.
LEMMA Joined ==
  ASSUME NEW s \in Seq(Cells), NEW t \in Seq(Cells)
  PROVE  IsJoin(s \o t, s, t, Len(s), Len(t))
  BY DEF IsJoin

\* Two sequences with the same cells are the same.
LEMMA SameCells ==
  ASSUME NEW s \in Seq(Cells), NEW t \in Seq(Cells), Len(s) = Len(t), \A i \in 1..Len(s) : s[i] = t[i]
  PROVE  s = t
  OBVIOUS

\* Taking from the network takes from the network and what follows it.
LEMMA TakenFrom ==
  ASSUME NEW s \in Seq(Cells), NEW o \in Seq(Cells), NEW n \in Nat, n <= Len(s)
  PROVE  /\ SubSeq(s, n + 1, Len(s)) \in Seq(Cells)
         /\ SubSeq(s, n + 1, Len(s)) \o o = SubSeq(s \o o, n + 1, Len(s \o o))
<1> DEFINE t == SubSeq(s, n + 1, Len(s))
           a == t \o o
           b == SubSeq(s \o o, n + 1, Len(s \o o))
<1>1. Len(s) \in Nat /\ Len(o) \in Nat
  OBVIOUS
<1>2. t \in Seq(Cells) /\ Len(t) = Len(s) - n /\ \A i \in 1..Len(s) - n : t[i] = s[i + n]
  BY <1>1
<1>3. /\ s \o o \in Seq(Cells) /\ Len(s \o o) = Len(s) + Len(o)
      /\ \A i \in 1..Len(s) : (s \o o)[i] = s[i]
      /\ \A i \in 1..Len(o) : (s \o o)[Len(s) + i] = o[i]
  BY <1>1
<1>4. /\ b \in Seq(Cells) /\ Len(b) = Len(s) + Len(o) - n
      /\ \A i \in 1..Len(s) + Len(o) - n : b[i] = (s \o o)[i + n]
  BY <1>1, <1>3
<1> HIDE DEF t
<1>5. /\ a \in Seq(Cells) /\ Len(a) = Len(s) - n + Len(o)
      /\ \A i \in 1..Len(s) - n : a[i] = t[i]
      /\ \A i \in 1..Len(o) : a[Len(s) - n + i] = o[i]
  <2>1. IsJoin(t \o o, t, o, Len(t), Len(o))
    BY <1>2, Joined
  <2> QED
    BY <1>2, <2>1 DEF IsJoin
<1> HIDE DEF a, b
<1>6. ASSUME NEW i \in 1..Len(s) - n + Len(o) PROVE a[i] = b[i]
  <2>1. CASE i <= Len(s) - n
    <3>1. i \in 1..Len(s) - n /\ i + n \in 1..Len(s) /\ i \in 1..Len(s) + Len(o) - n
      BY <1>1, <2>1
    <3> QED
      BY <1>2, <1>3, <1>4, <1>5, <3>1
  <2>2. CASE i > Len(s) - n
    <3> DEFINE j == i - (Len(s) - n)
    <3>1. /\ j \in 1..Len(o) /\ i = Len(s) - n + j /\ i + n = Len(s) + j
          /\ i \in 1..Len(s) + Len(o) - n
      BY <1>1, <2>2
    <3> HIDE DEF j
    <3>2. a[i] = o[j]
      BY <1>5, <3>1
    <3>3. b[i] = o[j]
      BY <1>3, <1>4, <3>1
    <3> QED
      BY <3>2, <3>3
  <2> QED
    BY <1>1, <2>1, <2>2
<1>7. Len(a) = Len(b)
  BY <1>1, <1>4, <1>5
<1>8. a = b
  BY <1>4, <1>5, <1>6, <1>7, SameCells
<1> QED
  BY <1>2, <1>8 DEF a, b, t

\* A cell that goes from the frame being written to the network (WriteCell)
\* changes nothing in the order.
LEMMA Moved ==
  ASSUME NEW s \in Seq(Cells), NEW o \in Seq(Cells), o # <<>>
  PROVE  /\ Append(s, Head(o)) \in Seq(Cells) /\ Tail(o) \in Seq(Cells)
         /\ Append(s, Head(o)) \o Tail(o) = s \o o
<1>1. Head(o) \in Cells /\ Tail(o) \in Seq(Cells) /\ Len(Tail(o)) = Len(o) - 1 /\ Len(o) >= 1
  OBVIOUS
<1>2. Append(s, Head(o)) \in Seq(Cells)
  BY <1>1
<1> QED
  BY <1>1, <1>2

\* What the front end puts in the place of a message is its two parts.
LEMMA SplitMade ==
  ASSUME NEW s \in Seq(Cells), NEW k \in 1..Len(s), NEW l \in Nat, l > 1, k + l <= Len(s),
         NEW key \in Nat, NEW bytes, bytes = [i \in 1..l |-> s[k + i].value],
         \A i \in 1..l : s[k + i] \in ByteCells
  PROVE  LET first == SubSeq(bytes, 1, 1)
             rest == SubSeq(bytes, 2, l)
             s2 == SubSeq(s, 1, k - 1) \o <<Header("binary", FALSE, 1, key)>> \o applyMask(first, key)
                     \o <<Header("continuation", TRUE, Len(rest), key)>> \o applyMask(rest, key)
                     \o SubSeq(s, k + l + 1, Len(s))
         IN  IsSplit(s, s2, k, l, key)
<1> DEFINE first == SubSeq(bytes, 1, 1)
           rest == SubSeq(bytes, 2, l)
           pre == SubSeq(s, 1, k - 1)
           post == SubSeq(s, k + l + 1, Len(s))
           h1 == Header("binary", FALSE, 1, key)
           h2 == Header("continuation", TRUE, Len(rest), key)
           m1 == applyMask(first, key)
           m2 == applyMask(rest, key)
           s2 == pre \o <<h1>> \o m1 \o <<h2>> \o m2 \o post
<1>1. Len(s) \in Nat /\ k \in Nat /\ k >= 1
  OBVIOUS
<1>2. bytes \in Seq(Nat) /\ Len(bytes) = l /\ \A i \in 1..l : bytes[i] = s[k + i].value
  <2>1. \A i \in 1..l : s[k + i].value \in Nat
    BY CellKinds
  <2> QED
    BY <2>1
<1>3. first \in Seq(Nat) /\ Len(first) = 1 /\ first[1] = s[k + 1].value
  BY <1>2
<1>4. rest \in Seq(Nat) /\ Len(rest) = l - 1 /\ \A j \in 1..l - 1 : rest[j] = s[k + 1 + j].value
  <2>1. rest = [j \in 1..l - 1 |-> bytes[2 + j - 1]]
    BY <1>2
  <2>2. \A j \in 1..l - 1 : 2 + j - 1 = 1 + j /\ 1 + j \in 1..l
    OBVIOUS
  <2>3. \A i \in 1..l : bytes[i] \in Nat
    BY <1>2
  <2>4. rest = [j \in 1..l - 1 |-> bytes[1 + j]] /\ \A j \in 1..l - 1 : bytes[1 + j] \in Nat
    BY <2>1, <2>2, <2>3
  <2>5. PICK n \in Nat : n = l - 1
    OBVIOUS
  <2> HIDE DEF rest
  <2>6. rest = [j \in 1..n |-> bytes[1 + j]] /\ \A j \in 1..n : bytes[1 + j] \in Nat
    BY <2>4, <2>5
  <2>7. rest \in Seq(Nat) /\ Len(rest) = n /\ \A j \in 1..n : rest[j] = bytes[1 + j]
    <3>1. \A j \in 1..n : rest[j] = bytes[1 + j]
      BY <2>6
    <3>2. rest \in [1..n -> Nat]
      BY <2>6
    <3>3. rest \in Seq(Nat) /\ Len(rest) = n
      BY <3>2
    <3> QED
      BY <3>1, <3>3
  <2>8. rest \in Seq(Nat) /\ Len(rest) = l - 1 /\ \A j \in 1..l - 1 : rest[j] = bytes[1 + j]
    BY <2>5, <2>7
  <2>9. \A j \in 1..l - 1 : 1 + j \in 1..l /\ k + (1 + j) = k + 1 + j
    BY <1>1
  <2> QED
    BY <1>2, <2>8, <2>9
<1>5. pre \in Seq(Cells) /\ Len(pre) = k - 1 /\ \A i \in 1..k - 1 : pre[i] = s[i]
  BY <1>1
<1>6. /\ post \in Seq(Cells) /\ Len(post) = Len(s) - (k + l)
      /\ \A i \in 1..Len(s) - (k + l) : post[i] = s[i + (k + l)]
  BY <1>1
<1> HIDE DEF first, rest, pre, post
<1>7. h1 \in HeaderCells /\ h1.opcode = "binary" /\ h1.length = 1 /\ h1.key = key
  BY DEF Header, HeaderCells, Opcodes
<1>8. h2 \in HeaderCells /\ h2.opcode = "continuation" /\ h2.length = l - 1 /\ h2.key = key
  BY <1>4 DEF Header, HeaderCells, Opcodes
<1>9. m1 \in Seq(ByteCells) /\ Len(m1) = 1 /\ m1[1] = Masked(s[k + 1].value, key, 0)
  <2>1. m1 \in Seq(ByteCells) /\ Len(m1) = 1 /\ \A i \in 1..1 : m1[i] = Masked(first[i], key, i - 1)
    BY <1>3, MaskTyped
  <2>2. 1 \in 1..1 /\ 1 - 1 = 0
    OBVIOUS
  <2>3. m1[1] = Masked(first[1], key, 1 - 1)
    BY <2>1, <2>2
  <2> QED
    BY <1>3, <2>1, <2>2, <2>3
<1>10. /\ m2 \in Seq(ByteCells) /\ Len(m2) = l - 1
       /\ \A j \in 1..l - 1 : m2[j] = Masked(s[k + 1 + j].value, key, j - 1)
  <2>1. m2 \in Seq(ByteCells) /\ Len(m2) = l - 1 /\ \A j \in 1..l - 1 : m2[j] = Masked(rest[j], key, j - 1)
    BY <1>4, MaskTyped
  <2> QED
    BY <1>4, <2>1
<1> HIDE DEF h1, h2, m1, m2
<1>11. m1 \in Seq(Cells) /\ m2 \in Seq(Cells) /\ <<h1>> \in Seq(Cells) /\ <<h2>> \in Seq(Cells)
  BY <1>7, <1>8, <1>9, <1>10 DEF Cells
<1> DEFINE a == pre \o <<h1>>
           b == a \o m1
           c == b \o <<h2>>
           d == c \o m2
<1>12. a \in Seq(Cells) /\ Len(a) = k /\ (\A i \in 1..k - 1 : a[i] = s[i]) /\ a[k] = h1
  BY <1>1, <1>5, <1>11
<1> HIDE DEF a
<1>13. b \in Seq(Cells) /\ Len(b) = k + 1 /\ (\A i \in 1..k : b[i] = a[i]) /\ b[k + 1] = m1[1]
  <2>1. /\ b \in Seq(Cells) /\ Len(b) = k + 1 /\ (\A i \in 1..k : b[i] = a[i])
        /\ \A i \in 1..1 : b[k + i] = m1[i]
    <3>1. k = Len(a) /\ 1 = Len(m1)
      BY <1>9, <1>12
    <3>2. IsJoin(a \o m1, a, m1, Len(a), Len(m1))
      BY <1>11, <1>12, Joined
    <3> QED
      BY <3>1, <3>2 DEF IsJoin
  <2> HIDE DEF b
  <2>2. 1 \in 1..1
    OBVIOUS
  <2> QED
    BY <2>1, <2>2
<1> HIDE DEF b
<1>14. c \in Seq(Cells) /\ Len(c) = k + 2 /\ (\A i \in 1..k + 1 : c[i] = b[i]) /\ c[k + 2] = h2
  BY <1>1, <1>11, <1>13
<1> HIDE DEF c
<1>15. /\ d \in Seq(Cells) /\ Len(d) = k + l + 1 /\ (\A i \in 1..k + 2 : d[i] = c[i])
       /\ \A j \in 1..l - 1 : d[k + 2 + j] = m2[j]
  <2>1. /\ d \in Seq(Cells) /\ Len(d) = k + 2 + (l - 1) /\ (\A i \in 1..k + 2 : d[i] = c[i])
        /\ \A j \in 1..l - 1 : d[k + 2 + j] = m2[j]
    <3>1. k + 2 = Len(c) /\ l - 1 = Len(m2)
      BY <1>10, <1>14
    <3>2. IsJoin(c \o m2, c, m2, Len(c), Len(m2))
      BY <1>11, <1>14, Joined
    <3> QED
      BY <3>1, <3>2 DEF IsJoin
  <2> HIDE DEF d
  <2>2. k + 2 + (l - 1) = k + l + 1
    BY <1>1
  <2> QED
    BY <2>1, <2>2
<1> HIDE DEF d
<1>16. /\ s2 \in Seq(Cells) /\ Len(s2) = Len(s) + 1 /\ (\A i \in 1..k + l + 1 : s2[i] = d[i])
       /\ \A i \in 1..Len(s) - (k + l) : s2[k + l + 1 + i] = post[i]
  <2>1. s2 = d \o post
    BY DEF a, b, c, d
  <2> QED
    <3>1. /\ s2 \in Seq(Cells) /\ Len(s2) = k + l + 1 + (Len(s) - (k + l))
          /\ (\A i \in 1..k + l + 1 : s2[i] = d[i])
          /\ \A i \in 1..Len(s) - (k + l) : s2[k + l + 1 + i] = post[i]
      <4>1. k + l + 1 = Len(d) /\ Len(s) - (k + l) = Len(post)
        BY <1>6, <1>15
      <4>2. IsJoin(d \o post, d, post, Len(d), Len(post))
        BY <1>6, <1>15, Joined
      <4> HIDE DEF s2
      <4> QED
        BY <2>1, <4>1, <4>2 DEF IsJoin
    <3> HIDE DEF s2
    <3>2. k + l + 1 + (Len(s) - (k + l)) = Len(s) + 1
      BY <1>1
    <3> QED
      BY <3>1, <3>2
<1> HIDE DEF s2
<1>17. \A i \in 1..k - 1 : s2[i] = s[i]
  <2> TAKE i \in 1..k - 1
  <2>1. i \in 1..k /\ i \in 1..k + 1 /\ i \in 1..k + 2 /\ i \in 1..k + l + 1
    BY <1>1
  <2> QED
    BY <1>12, <1>13, <1>14, <1>15, <1>16, <2>1
<1>18. s2[k] = h1
  <2>1. k \in 1..k /\ k \in 1..k + 1 /\ k \in 1..k + 2 /\ k \in 1..k + l + 1
    BY <1>1
  <2> QED
    BY <1>12, <1>13, <1>14, <1>15, <1>16, <2>1
<1>19. s2[k + 1] = m1[1]
  <2>1. k + 1 \in 1..k + 1 /\ k + 1 \in 1..k + 2 /\ k + 1 \in 1..k + l + 1
    BY <1>1
  <2> QED
    BY <1>13, <1>14, <1>15, <1>16, <2>1
<1>20. s2[k + 2] = h2
  <2>1. k + 2 \in 1..k + 2 /\ k + 2 \in 1..k + l + 1
    BY <1>1
  <2> QED
    BY <1>14, <1>15, <1>16, <2>1
<1>21. \A j \in 1..l - 1 : s2[k + 2 + j] = m2[j]
  <2> TAKE j \in 1..l - 1
  <2>1. k + 2 + j \in 1..k + l + 1
    BY <1>1
  <2> QED
    BY <1>15, <1>16, <2>1
<1>22. \A i \in k + l + 1..Len(s) : s2[i + 1] = s[i]
  <2> TAKE i \in k + l + 1..Len(s)
  <2> DEFINE j == i - (k + l)
  <2>1. j \in 1..Len(s) - (k + l) /\ k + l + 1 + j = i + 1 /\ j + (k + l) = i
    BY <1>1
  <2> HIDE DEF j
  <2>2. s2[k + l + 1 + j] = s[j + (k + l)]
    BY <1>6, <1>16, <2>1
  <2> QED
    BY <2>1, <2>2
<1>23. IsSplit(s, s2, k, l, key)
  BY <1>7, <1>8, <1>9, <1>10, <1>16, <1>17, <1>18, <1>19, <1>20, <1>21, <1>22 DEF IsSplit
<1> QED
  BY <1>23 DEF s2, pre, h1, m1, h2, m2, post, first, rest

\* A split in the network is one in the network and what follows it.
LEMMA SplitBefore ==
  ASSUME NEW s \in Seq(Cells), NEW s2, NEW o \in Seq(Cells), NEW k \in Nat, NEW l \in Nat, NEW key,
         IsSplit(s, s2, k, l, key)
  PROVE  IsSplit(s \o o, s2 \o o, k, l, key)
<1>1. Len(s) \in Nat /\ Len(o) \in Nat
  OBVIOUS
<1>2. /\ s \o o \in Seq(Cells) /\ Len(s \o o) = Len(s) + Len(o)
      /\ \A i \in 1..Len(s) : (s \o o)[i] = s[i]
      /\ \A i \in 1..Len(o) : (s \o o)[Len(s) + i] = o[i]
  BY <1>1, Joined DEF IsJoin
<1>3. s2 \in Seq(Cells) /\ Len(s2) = Len(s) + 1 /\ l > 1 /\ k + l <= Len(s) /\ k >= 1
  BY DEF IsSplit
<1>4. /\ s2 \o o \in Seq(Cells) /\ Len(s2 \o o) = Len(s) + 1 + Len(o)
      /\ \A i \in 1..Len(s) + 1 : (s2 \o o)[i] = s2[i]
      /\ \A i \in 1..Len(o) : (s2 \o o)[Len(s) + 1 + i] = o[i]
  <2>1. IsJoin(s2 \o o, s2, o, Len(s) + 1, Len(o))
    BY <1>3, Joined
  <2> QED
    BY <1>3, <2>1 DEF IsJoin
<1> DEFINE D == s \o o
           E == s2 \o o
<1> HIDE DEF D, E
<1>5. \A i \in 1..k - 1 : E[i] = D[i]
  <2> TAKE i \in 1..k - 1
  <2>1. i \in 1..Len(s) /\ i \in 1..Len(s) + 1
    BY <1>1, <1>3
  <2> QED
    BY <1>2, <1>4, <2>1 DEF IsSplit, D, E
<1>6. /\ E[k] = s2[k] /\ E[k + 1] = s2[k + 1] /\ E[k + 2] = s2[k + 2] /\ D[k + 1] = s[k + 1]
  <2>1. k \in 1..Len(s) + 1 /\ k + 1 \in 1..Len(s) + 1 /\ k + 2 \in 1..Len(s) + 1 /\ k + 1 \in 1..Len(s)
    BY <1>1, <1>3
  <2> QED
    BY <1>2, <1>4, <2>1 DEF D, E
<1>7. \A j \in 1..l - 1 : E[k + 2 + j] = Masked(D[k + 1 + j].value, key, j - 1)
  <2> TAKE j \in 1..l - 1
  <2>1. k + 2 + j \in 1..Len(s) + 1 /\ k + 1 + j \in 1..Len(s)
    BY <1>1, <1>3
  <2>2. E[k + 2 + j] = s2[k + 2 + j] /\ D[k + 1 + j] = s[k + 1 + j]
    BY <1>2, <1>4, <2>1 DEF D, E
  <2> QED
    BY <2>2 DEF IsSplit
<1>8. \A i \in k + l + 1..Len(s) + Len(o) : E[i + 1] = D[i]
  <2> TAKE i \in k + l + 1..Len(s) + Len(o)
  <2>1. i \in Nat /\ i >= 1
    BY <1>1, <1>3
  <2>2. CASE i <= Len(s)
    <3>1. i \in k + l + 1..Len(s) /\ i \in 1..Len(s) /\ i + 1 \in 1..Len(s) + 1
      BY <1>1, <1>3, <2>1, <2>2
    <3>2. s2[i + 1] = s[i]
      BY <3>1 DEF IsSplit
    <3>3. E[i + 1] = s2[i + 1] /\ D[i] = s[i]
      BY <1>2, <1>4, <3>1 DEF D, E
    <3> QED
      BY <3>2, <3>3
  <2>3. CASE i > Len(s)
    <3> DEFINE j == i - Len(s)
    <3>1. j \in 1..Len(o) /\ Len(s) + j = i /\ Len(s) + 1 + j = i + 1
      BY <1>1, <2>1, <2>3
    <3> HIDE DEF j
    <3>2. E[Len(s) + 1 + j] = o[j] /\ D[Len(s) + j] = o[j]
      BY <1>2, <1>4, <3>1 DEF D, E
    <3> QED
      BY <3>1, <3>2
  <2> QED
    BY <1>1, <2>1, <2>2, <2>3
<1>9. Len(D) = Len(s) + Len(o) /\ Len(E) = Len(D) + 1 /\ k \in 1..Len(D) /\ k + l <= Len(D) /\ E \in Seq(Cells)
  <2>1. Len(D) = Len(s) + Len(o) /\ Len(E) = Len(s) + 1 + Len(o) /\ E \in Seq(Cells)
    BY <1>2, <1>4 DEF D, E
  <2> QED
    BY <1>1, <1>3, <2>1
<1>10. IsSplit(D, E, k, l, key)
  BY <1>3, <1>5, <1>6, <1>7, <1>8, <1>9 DEF IsSplit
<1> QED
  BY <1>10 DEF D, E

-----------------------------------------------------------------------------

(***************************************************************************)
(* The actions keep the invariant, and are steps of the byte pipe.         *)
(***************************************************************************)

\* The types, for one end.
LEMMA Typed ==
  ASSUME Inv, NEW d \in Ends
  PROVE  /\ Framing(d) \in Seq(Cells) /\ InFrames(d) \in Nat /\ InFrames(d) <= Len(sent[d])
         /\ stream[d] \in Seq(Cells) /\ out[d] \in Seq(Cells) /\ got[d] \in Seq(Nat) /\ sent[d] \in Seq(Nat)
         /\ reading[Peer(d)] \in Positions /\ pong[d] \in Seq(Nat)
<1>1. /\ stream[d] \in Seq(Cells) /\ out[d] \in Seq(Cells) /\ got[d] \in Seq(Nat) /\ sent[d] \in Seq(Nat)
      /\ reading[Peer(d)] \in Positions /\ pong[d] \in Seq(Nat) /\ todo[d] \in Seq(Nat \ {0})
  BY EndsFacts DEF Inv, TypeOK
<1>2. Framing(d) \in Seq(Cells)
  BY <1>1 DEF Framing
<1>3. InFrames(d) \in Nat /\ InFrames(d) <= Len(sent[d])
  <2>1. CASE wpc[d] = "lock"
    <3>1. todo[d] # <<>> /\ Head(todo[d]) <= Len(sent[d])
      BY <2>1 DEF Inv, PipeInv, Locking
    <3>2. Head(todo[d]) \in Nat /\ Len(sent[d]) \in Nat
      BY <1>1, <3>1
    <3> QED
      BY <2>1, <3>1, <3>2 DEF InFrames
  <2>2. CASE wpc[d] # "lock"
    BY <1>1, <2>2 DEF InFrames
  <2> QED
    BY <2>1, <2>2
<1> QED
  BY <1>1, <1>2, <1>3

\* A direction whose cells, bytes and reader are left alone stays as it is.
LEMMA Unmoved ==
  ASSUME NEW d \in Ends, Piped(d),
         Framing(d)' = Framing(d), InFrames(d)' = InFrames(d), got'[d] = got[d],
         reading'[Peer(d)] = reading[Peer(d)],
         ~failed'[d] => ~failed[d], rpc'[Peer(d)] # "ended" => rpc[Peer(d)] # "ended"
  PROVE  Piped(d)'
  BY DEF Piped

\* Empty directions are framed.
LEMMA InitInv == Init => Inv
<1> SUFFICES ASSUME Init PROVE Inv
  OBVIOUS
<1>1. TypeOK
  BY SizesAssumption DEF Init, TypeOK, Positions, ReadingStates
<1>2. ASSUME NEW d \in Ends PROVE PipeInv(d)
  <2>1. Locking(d) /\ Between(d)
    BY <1>2 DEF Init, Locking, Between
  <2>2. Numbered(sent[d]) /\ Numbered(got[d])
    BY <1>2 DEF Init, Numbered
  <2>3. /\ Framing(d) = <<>> /\ got[d] = <<>> /\ InFrames(d) = 0
        /\ reading[Peer(d)].remaining = 0 /\ reading[Peer(d)].key = 0 /\ reading[Peer(d)].at = 0
    BY <1>2, EndsFacts DEF Init, Framing, InFrames
  <2>4. Framed(<<>>, [i \in 1..1 |-> 0], 0, 0, 0, 0, 0)
    BY DEF Framed, Boundary, Rest
  <2>5. Sound(Framing(d), reading[Peer(d)], got[d], InFrames(d))
    <3>1. Len(got[d]) = 0
      BY <2>3
    <3>2. Framed(Framing(d), [i \in 1..1 |-> 0], reading[Peer(d)].remaining, reading[Peer(d)].key,
                 reading[Peer(d)].at, Len(got[d]), InFrames(d))
      BY <2>3, <2>4, <3>1
    <3> QED
      BY <2>2, <3>2 DEF Sound
  <2> QED
    BY <2>1, <2>2, <2>5 DEF PipeInv, Piped
<1> QED
  BY <1>1, <1>2 DEF Inv

\* The reading goroutine of one end moves.
LEMMA RpcTyped ==
  ASSUME TypeOK, NEW e \in Ends, NEW to \in {"idle", "header", "payload", "lock", "pong", "ended", "stopped"},
         rpc' = [rpc EXCEPT ![e] = to]
  PROVE  rpc' \in [Ends -> ReadingStates] /\ rpc'[e] = to /\ \A d \in Ends : d # e => rpc'[d] = rpc[d]
<1>1. to \in ReadingStates
  BY DEF ReadingStates
<1>2. rpc \in [Ends -> ReadingStates]
  BY DEF TypeOK
<1> QED
  BY <1>1, <1>2

\* Steps that touch neither the cells nor the bytes.
LEMMA QuietStep ==
  ASSUME Inv, NEW e \in Ends,
         Read(e) \/ StopReading(e) \/ ReadEnds(e) \/ Interrupting(e)
  PROVE  Inv' /\ \A d \in Ends : Step(d)
<1> DEFINE Moves == \/ /\ rpc[e] = "idle"
                       /\ rpc' = [rpc EXCEPT ![e] = IF reading[e].remaining = 0 THEN "header" ELSE "payload"]
                    \/ rpc[e] = "idle" /\ rpc' = [rpc EXCEPT ![e] = "stopped"]
                    \/ rpc[e] = "header" /\ rpc' = [rpc EXCEPT ![e] = "ended"]
                    \/ rpc' = rpc
<1>1. /\ UNCHANGED <<stream, got, sent, wpc, todo, reading, pong, writeMu, out, keys, failed, pings>>
      /\ Moves
  BY DEF Read, StopReading, ReadEnds, Interrupting, SetDeadline, CallClose, Close, Goto,
         writerVars, readerVars, frameVars
<1>2. cut' \in [Ends -> {"no", "deadline", "grace", "closing", "closed"}]
  <2>1. cut \in [Ends -> {"no", "deadline", "grace", "closing", "closed"}]
    BY DEF Inv, TypeOK
  <2>2. cut' = cut \/ \E c \in {"no", "deadline", "grace", "closing", "closed"} : cut' = [cut EXCEPT ![e] = c]
    BY DEF Read, StopReading, ReadEnds, Interrupting, SetDeadline, CallClose, Close
  <2> QED
    BY <2>1, <2>2
<1>3. rpc' \in [Ends -> ReadingStates]
  <2>1. TypeOK /\ rpc \in [Ends -> ReadingStates]
    BY DEF Inv, TypeOK
  <2>2. CASE rpc' = rpc
    BY <2>1, <2>2
  <2>3. CASE \E to \in {"header", "payload", "stopped", "ended"} : rpc' = [rpc EXCEPT ![e] = to]
    <3>1. PICK to \in {"header", "payload", "stopped", "ended"} : rpc' = [rpc EXCEPT ![e] = to]
      BY <2>3
    <3> QED
      BY <2>1, <3>1, RpcTyped
  <2> QED
    BY <1>1, <2>2, <2>3
<1>4. TypeOK'
  BY <1>1, <1>2, <1>3 DEF Inv, TypeOK
<1>5. ASSUME NEW d \in Ends PROVE PipeInv(d)' /\ Step(d)
  <2>1. PipeInv(d)
    BY DEF Inv
  <2>2. \A f \in Ends : rpc'[f] # "ended" => rpc[f] # "ended"
    BY <1>1 DEF Inv, TypeOK, ReadingStates
  <2>3. rpc'[d] = "pong" <=> rpc[d] = "pong"
    BY <1>1 DEF Inv, TypeOK, ReadingStates
  <2>4. rpc'[d] \in {"header", "lock", "pong"} => rpc[d] \in {"header", "lock", "pong"} \/ reading[d].remaining = 0
    BY <1>1 DEF Inv, TypeOK, ReadingStates
  <2>5. Locking(d)'
    BY <1>1, <2>1, <2>3 DEF PipeInv, Locking
  <2>6. Between(d)'
    BY <1>1, <2>1, <2>4 DEF PipeInv, Between
  <2>7. Numbered(sent[d])'
    BY <1>1, <2>1 DEF PipeInv, Numbered
  <2>8. Piped(d)'
    <3>1. Framing(d)' = Framing(d) /\ InFrames(d)' = InFrames(d)
      BY <1>1 DEF Framing, InFrames
    <3>2. Peer(d) \in Ends
      BY EndsFacts
    <3> QED
      BY <1>1, <2>1, <2>2, <3>1, <3>2, Unmoved DEF PipeInv
  <2>9. Step(d)
    BY <1>1 DEF Step
  <2> QED
    BY <2>5, <2>6, <2>7, <2>8, <2>9 DEF PipeInv
<1> QED
  BY <1>4, <1>5 DEF Inv

\* Write numbers its bytes on, and does not frame them yet.
LEMMA WriteStep ==
  ASSUME Inv, NEW e \in Ends, Write(e)
  PROVE  Inv' /\ \A d \in Ends : Step(d)
<1> DEFINE h == Head(todo[e])
           n == Len(sent[e])
<1>1. /\ wpc[e] = "idle" /\ todo[e] # <<>> /\ wpc' = [wpc EXCEPT ![e] = "lock"]
      /\ sent' = [sent EXCEPT ![e] = @ \o Bytes(Len(@), Head(todo[e]))]
      /\ UNCHANGED <<stream, got, todo, rpc, reading, pong, writeMu, out, keys, failed, pings, cut>>
  BY DEF Write, readerVars, frameVars
<1>2. TypeOK
  BY DEF Inv
<1>3. sent[e] \in Seq(Nat) /\ n \in Nat /\ h \in Nat /\ h > 0
  BY <1>1, <1>2 DEF TypeOK
<1>4. Bytes(n, h) \in Seq(Nat) /\ Len(Bytes(n, h)) = h /\ \A i \in 1..h : Bytes(n, h)[i] = n + i
  <2>1. \A i \in 1..h : n + i \in Nat
    BY <1>3
  <2> HIDE DEF h, n
  <2> QED
    BY <1>3, <2>1 DEF Bytes
<1>5. sent'[e] = sent[e] \o Bytes(n, h)
  BY <1>1, <1>2 DEF TypeOK
<1>6. sent'[e] \in Seq(Nat) /\ Len(sent'[e]) = n + h /\ Numbered(sent'[e])
  <2>1. Numbered(sent[e])
    BY DEF Inv, PipeInv
  <2>2. \A j \in 1..Len(Bytes(n, h)) : Bytes(n, h)[j] = Len(sent[e]) + j
    BY <1>4
  <2> HIDE DEF h
  <2> QED
    BY <1>3, <1>4, <1>5, <2>1, <2>2, Continued
<1>7. TypeOK'
  BY <1>1, <1>2, <1>5, <1>6 DEF TypeOK
<1>8. ASSUME NEW d \in Ends PROVE PipeInv(d)' /\ Step(d)
  <2>1. PipeInv(d)
    BY DEF Inv
  <2>2. d # e => sent'[d] = sent[d] /\ wpc'[d] = wpc[d]
    BY <1>1, <1>2 DEF TypeOK
  <2>3. wpc'[e] = "lock"
    BY <1>1, <1>2 DEF TypeOK
  <2>4. Between(d)'
    BY <1>1, <2>1 DEF PipeInv, Between
  <2>5. CASE d = e
    <3>1. writeMu[e] # "writer"
      BY <1>1, <2>1, <2>5 DEF PipeInv, Locking
    <3>2. h <= Len(sent'[e])
      BY <1>3, <1>6
    <3>3. Locking(e)'
      BY <1>1, <2>1, <2>5, <3>1, <3>2 DEF PipeInv, Locking
    <3>4. InFrames(e)' = InFrames(e)
      BY <1>1, <1>3, <1>6, <2>3 DEF InFrames
    <3>5. Piped(e)'
      BY <1>1, <2>1, <2>5, <3>4, Unmoved DEF PipeInv, Framing
    <3>6. Step(e)
      <4>1. Len(sent'[e]) > Len(sent[e])
        BY <1>3, <1>6
      <4>2. sent'[e] = [i \in 1..Len(sent'[e]) |-> i]
        BY <1>6 DEF Numbered
      <4> QED
        BY <1>1, <4>1, <4>2 DEF Step
    <3>7. Numbered(sent[e])'
      BY <1>6 DEF Numbered
    <3> QED
      BY <2>4, <2>5, <3>3, <3>5, <3>6, <3>7 DEF PipeInv
  <2>6. CASE d # e
    <3>1. Locking(d)'
      BY <1>1, <2>1, <2>2, <2>6 DEF PipeInv, Locking
    <3>2. InFrames(d)' = InFrames(d)
      BY <1>1, <2>2, <2>6 DEF InFrames
    <3>3. Piped(d)'
      BY <1>1, <2>1, <3>2, Unmoved DEF PipeInv, Framing
    <3>4. Numbered(sent[d])'
      BY <2>1, <2>2, <2>6 DEF PipeInv, Numbered
    <3>5. Step(d)
      BY <1>1, <2>2, <2>6 DEF Step
    <3> QED
      BY <2>4, <3>1, <3>3, <3>4, <3>5 DEF PipeInv
  <2> QED
    BY <2>5, <2>6
<1> QED
  BY <1>7, <1>8 DEF Inv

\* A frame that follows all others in a direction keeps it framed.
LEMMA FrameAdded ==
  ASSUME Inv, NEW d \in Ends, out[d] = <<>>,
         NEW payload \in Seq(Nat), NEW key \in Nat, NEW op \in Opcodes,
         stream'[d] \o out'[d] = stream[d] \o Frame(op, payload, key),
         reading'[Peer(d)] = reading[Peer(d)], got'[d] = got[d], failed'[d] = failed[d],
         rpc'[Peer(d)] # "ended" => rpc[Peer(d)] # "ended",
         InFrames(d)' \in Nat,
         op \in {"binary", "continuation"} =>
           /\ InFrames(d)' = InFrames(d) + Len(payload)
           /\ \A j \in 1..Len(payload) : payload[j] = InFrames(d) + j,
         op \notin {"binary", "continuation"} => InFrames(d)' = InFrames(d)
  PROVE  Piped(d)'
<1> SUFFICES ASSUME ~failed'[d], rpc'[Peer(d)] # "ended"
             PROVE  Sound(Framing(d), reading[Peer(d)], got[d], InFrames(d))'
  BY DEF Piped
<1>1. Sound(Framing(d), reading[Peer(d)], got[d], InFrames(d))
  BY DEF Inv, PipeInv, Piped
<1>2. Framing(d) = stream[d]
  BY Typed DEF Framing
<1>3. Sound(Framing(d) \o Frame(op, payload, key), reading[Peer(d)], got[d], InFrames(d)')
  BY <1>1, Typed, SoundAdded
<1>4. Framing(d)' = Framing(d) \o Frame(op, payload, key)
  BY <1>2 DEF Framing
<1> QED
  BY <1>3, <1>4

\* A mask key is a number.
LEMMA KeyTyped ==
  ASSUME TypeOK, NEW e \in Ends
  PROVE  FreshKey(e) \in Nat
<1>1. keys[e] \in Nat
  BY DEF TypeOK
<1>2. 1 + (keys[e] % 2) \in Nat
  BY <1>1
<1> QED
  BY <1>2 DEF FreshKey

\* The payload of a write is what it has added to the bytes sent.
LEMMA LastBytes ==
  ASSUME NEW s \in Seq(Nat), NEW h \in Nat, h <= Len(s), NEW n, n = Len(s)
  PROVE  /\ SubSeq(s, n - h + 1, n) \in Seq(Nat) /\ Len(SubSeq(s, n - h + 1, n)) = h
         /\ \A j \in 1..h : SubSeq(s, n - h + 1, n)[j] = s[n - h + j]
<1> DEFINE m == n - h + 1
<1>1. n \in Int /\ m \in Int /\ (IF m <= n THEN n - m + 1 ELSE 0) = h /\ n - m + 1 = h
  OBVIOUS
<1>2. \A i \in m..n : s[i] \in Nat
  OBVIOUS
<1>3. \A j \in 1..h : s[m + j - 1] = s[n - h + j]
  BY <1>1
<1> HIDE DEF m
<1>4. /\ SubSeq(s, m, n) \in Seq(Nat)
      /\ Len(SubSeq(s, m, n)) = IF m <= n THEN n - m + 1 ELSE 0
      /\ \A i \in 1..n - m + 1 : SubSeq(s, m, n)[i] = s[m + i - 1]
  BY <1>1, <1>2, SubSeqProperties
<1>5. /\ SubSeq(s, m, n) \in Seq(Nat) /\ Len(SubSeq(s, m, n)) = h
      /\ \A j \in 1..h : SubSeq(s, m, n)[j] = s[n - h + j]
  BY <1>1, <1>3, <1>4
<1> QED
  BY <1>5 DEF m

\* With the lock, the bytes of a Write become a frame after all others.
LEMMA WriteLockedStep ==
  ASSUME Inv, NEW e \in Ends, WriteLocked(e)
  PROVE  Inv' /\ \A d \in Ends : Step(d)
<1> DEFINE h == Head(todo[e])
           n == Len(sent[e])
           payload == SubSeq(sent[e], n - h + 1, n)
           frame == Frame("binary", payload, FreshKey(e))
<1>1. /\ wpc[e] = "lock" /\ writeMu[e] = "free"
      /\ writeMu' = [writeMu EXCEPT ![e] = "writer"]
      /\ out' = [out EXCEPT ![e] = frame]
      /\ keys' = [keys EXCEPT ![e] = FreshKey(e)]
      /\ wpc' = [wpc EXCEPT ![e] = "frame"]
      /\ todo' = [todo EXCEPT ![e] = Tail(@)]
      /\ UNCHANGED <<stream, sent, got, failed, rpc, reading, pong, pings, cut>>
  BY DEF WriteLocked, Lock, readerVars
<1>2. TypeOK
  BY DEF Inv
<1>3. todo[e] # <<>> /\ h <= n /\ out[e] = <<>> /\ Numbered(sent[e])
  BY <1>1 DEF Inv, PipeInv, Locking
<1>4. h \in Nat /\ n \in Nat /\ sent[e] \in Seq(Nat) /\ Tail(todo[e]) \in Seq(Nat \ {0})
  BY <1>2, <1>3 DEF TypeOK
<1>5. payload \in Seq(Nat) /\ Len(payload) = h /\ \A j \in 1..h : payload[j] = n - h + j
  <2> HIDE DEF h
  <2>1. n = Len(sent[e])
    OBVIOUS
  <2> HIDE DEF n
  <2>2. payload \in Seq(Nat) /\ Len(payload) = h /\ \A j \in 1..h : payload[j] = sent[e][n - h + j]
    <3>1. /\ SubSeq(sent[e], n - h + 1, n) \in Seq(Nat) /\ Len(SubSeq(sent[e], n - h + 1, n)) = h
          /\ \A j \in 1..h : SubSeq(sent[e], n - h + 1, n)[j] = sent[e][n - h + j]
      BY <1>3, <1>4, <2>1, LastBytes
    <3> QED
      BY <3>1
  <2>3. ASSUME NEW j \in 1..h PROVE payload[j] = n - h + j
    <3>1. n - h + j \in 1..Len(sent[e])
      <4>1. h \in Nat /\ n \in Nat /\ h <= n
        BY <1>3, <1>4
      <4>2. n - h + j \in 1..n
        BY <4>1
      <4> QED
        BY <2>1, <4>2
    <3>2. sent[e][n - h + j] = n - h + j
      BY <1>3, <3>1 DEF Numbered
    <3> QED
      BY <2>2, <3>2
  <2> QED
    BY <2>2, <2>3
<1> HIDE DEF h, payload
<1>6. FreshKey(e) \in Nat
  BY <1>2, KeyTyped
<1>7. "binary" \in Opcodes
  BY DEF Opcodes
<1>8. frame \in Seq(Cells)
  BY <1>5, <1>6, <1>7, FrameTyped DEF IsFrameOf
<1> HIDE DEF frame
<1>9. TypeOK'
  <2>1. out' \in [Ends -> Seq(Cells)] /\ todo' \in [Ends -> Seq(Nat \ {0})] /\ keys' \in [Ends -> Nat]
    BY <1>1, <1>2, <1>4, <1>6, <1>8 DEF TypeOK
  <2>2. writeMu' \in [Ends -> {"free", "writer", "reader"}] /\ wpc' \in [Ends -> {"idle", "lock", "frame"}]
    BY <1>1, <1>2 DEF TypeOK
  <2> QED
    BY <1>1, <1>2, <2>1, <2>2 DEF TypeOK
<1>10. /\ writeMu'[e] = "writer" /\ wpc'[e] = "frame" /\ out'[e] = frame
       /\ \A d \in Ends : d # e => /\ writeMu'[d] = writeMu[d] /\ wpc'[d] = wpc[d]
                                   /\ out'[d] = out[d] /\ todo'[d] = todo[d]
  BY <1>1, <1>2 DEF TypeOK
<1>11. ASSUME NEW d \in Ends PROVE PipeInv(d)' /\ Step(d)
  <2>1. PipeInv(d)
    BY DEF Inv
  <2>2. Between(d)' /\ Numbered(sent[d])' /\ Step(d)
    BY <1>1, <2>1 DEF PipeInv, Between, Numbered, Step
  <2>3. CASE d = e
    <3>1. Locking(e)'
      BY <1>10 DEF Locking
    <3>2. InFrames(e) = n - h /\ InFrames(e)' = n
      BY <1>1, <1>4, <1>10 DEF InFrames, h
    <3>3. n = InFrames(e) + Len(payload) /\ \A j \in 1..Len(payload) : payload[j] = InFrames(e) + j
      BY <1>4, <1>5, <3>2
    <3>4. stream'[e] \o out'[e] = stream[e] \o Frame("binary", payload, FreshKey(e))
      BY <1>1, <1>10 DEF frame
    <3>5. Piped(e)'
      BY <1>1, <1>3, <1>4, <1>5, <1>6, <1>7, <3>2, <3>3, <3>4, FrameAdded
    <3> QED
      BY <2>2, <2>3, <3>1, <3>5 DEF PipeInv
  <2>4. CASE d # e
    <3>1. Locking(d)'
      BY <1>1, <1>10, <2>1, <2>4 DEF PipeInv, Locking
    <3>2. InFrames(d)' = InFrames(d) /\ Framing(d)' = Framing(d)
      <4>1. wpc'[d] = wpc[d] /\ out'[d] = out[d] /\ todo'[d] = todo[d] /\ sent' = sent /\ stream' = stream
        BY <1>1, <1>10, <2>4
      <4> QED
        BY <4>1 DEF InFrames, Framing
    <3>3. Piped(d)'
      BY <1>1, <2>1, <3>2, Unmoved DEF PipeInv
    <3> QED
      BY <2>2, <3>1, <3>3 DEF PipeInv
  <2> QED
    BY <2>3, <2>4
<1> QED
  BY <1>9, <1>11 DEF Inv

\* The network takes a cell.
LEMMA WriteCellStep ==
  ASSUME Inv, NEW e \in Ends, WriteCell(e)
  PROVE  Inv' /\ \A d \in Ends : Step(d)
<1>1. /\ out[e] # <<>>
      /\ stream' = [stream EXCEPT ![e] = Append(@, Head(out[e]))]
      /\ out' = [out EXCEPT ![e] = Tail(@)]
      /\ UNCHANGED <<got, failed, keys, writeMu, sent, wpc, todo, rpc, reading, pong, pings, cut>>
  BY DEF WriteCell, writerVars, readerVars
<1>2. TypeOK
  BY DEF Inv
<1>3. stream[e] \in Seq(Cells) /\ out[e] \in Seq(Cells)
  BY <1>2 DEF TypeOK
<1>4. /\ Append(stream[e], Head(out[e])) \in Seq(Cells) /\ Tail(out[e]) \in Seq(Cells)
      /\ Append(stream[e], Head(out[e])) \o Tail(out[e]) = stream[e] \o out[e]
  BY <1>1, <1>3, Moved
<1>5. /\ stream'[e] = Append(stream[e], Head(out[e])) /\ out'[e] = Tail(out[e])
      /\ \A d \in Ends : d # e => stream'[d] = stream[d] /\ out'[d] = out[d]
  BY <1>1, <1>2 DEF TypeOK
<1>6. TypeOK'
  BY <1>1, <1>2, <1>4 DEF TypeOK
<1>7. ASSUME NEW d \in Ends PROVE PipeInv(d)' /\ Step(d)
  <2>1. PipeInv(d)
    BY DEF Inv
  <2>2. Between(d)' /\ Numbered(sent[d])' /\ Step(d)
    BY <1>1, <2>1 DEF PipeInv, Between, Numbered, Step
  <2>3. Locking(d)'
    BY <1>1, <1>5, <2>1 DEF PipeInv, Locking
  <2>4. Framing(d)' = Framing(d)
    BY <1>4, <1>5 DEF Framing
  <2>5. Piped(d)'
    BY <1>1, <2>1, <2>4, Unmoved DEF PipeInv, InFrames
  <2> QED
    BY <2>2, <2>3, <2>5 DEF PipeInv
<1> QED
  BY <1>6, <1>7 DEF Inv

\* A frame that is not written to its end breaks the pipe (failed); one that is
\* leaves whole frames.
LEMMA WriteFrameEndsStep ==
  ASSUME Inv, NEW e \in Ends, WriteFrameEnds(e)
  PROVE  Inv' /\ \A d \in Ends : Step(d)
<1>1. /\ writeMu[e] # "free"
      /\ \/ out[e] = <<>> /\ failed' = failed
         \/ failed' = [failed EXCEPT ![e] = TRUE]
      /\ out' = [out EXCEPT ![e] = <<>>]
      /\ writeMu' = [writeMu EXCEPT ![e] = "free"]
      /\ IF writeMu[e] = "writer"
           THEN wpc' = [wpc EXCEPT ![e] = "idle"] /\ rpc' = rpc
           ELSE /\ rpc' = [rpc EXCEPT ![e] = IF failed'[e] THEN "ended" ELSE "header"]
                /\ wpc' = wpc
      /\ UNCHANGED <<stream, sent, got, todo, keys, reading, pong, pings, cut>>
  BY DEF WriteFrameEnds
<1>2. TypeOK
  BY DEF Inv
<1>3. writeMu[e] \in {"writer", "reader"}
  BY <1>1, <1>2 DEF TypeOK
<1>4. /\ writeMu[e] = "writer" => wpc[e] = "frame"
      /\ writeMu[e] = "reader" => rpc[e] = "pong" /\ reading[e].remaining = 0
  BY DEF Inv, PipeInv, Locking, Between
<1>5. TypeOK'
  <2>1. <<>> \in Seq(Cells)
    OBVIOUS
  <2>2. out' \in [Ends -> Seq(Cells)] /\ failed' \in [Ends -> BOOLEAN]
    BY <1>1, <1>2, <2>1 DEF TypeOK
  <2>3. writeMu' \in [Ends -> {"free", "writer", "reader"}] /\ wpc' \in [Ends -> {"idle", "lock", "frame"}]
    BY <1>1, <1>2 DEF TypeOK
  <2>4. rpc' \in [Ends -> ReadingStates]
    BY <1>1, <1>2 DEF TypeOK, ReadingStates
  <2> QED
    BY <1>1, <1>2, <2>2, <2>3, <2>4 DEF TypeOK
<1>6. /\ writeMu'[e] = "free" /\ out'[e] = <<>>
      /\ \A d \in Ends : d # e => /\ writeMu'[d] = writeMu[d] /\ out'[d] = out[d] /\ wpc'[d] = wpc[d]
                                  /\ rpc'[d] = rpc[d] /\ failed'[d] = failed[d]
  BY <1>1, <1>2 DEF TypeOK
<1>7. wpc'[e] # "lock" \/ wpc'[e] = wpc[e]
  BY <1>1, <1>2 DEF TypeOK
<1>8. wpc[e] = "lock" => wpc'[e] = "lock"
  BY <1>1, <1>2, <1>3, <1>4 DEF TypeOK
<1>9. \A d \in Ends : rpc'[d] # "ended" => rpc[d] # "ended"
  BY <1>1, <1>2, <1>3, <1>4 DEF TypeOK
<1>10. \A d \in Ends : rpc'[d] # rpc[d] => reading[d].remaining = 0
  BY <1>1, <1>2, <1>3, <1>4, <1>6
<1>11. (failed'[e] = failed[e] /\ out[e] = <<>>) \/ failed'[e] = TRUE
  BY <1>1, <1>2 DEF TypeOK
<1>12. ASSUME NEW d \in Ends PROVE PipeInv(d)' /\ Step(d)
  <2>1. PipeInv(d)
    BY DEF Inv
  <2>2. Numbered(sent[d])'
    BY <1>1, <2>1 DEF PipeInv, Numbered
  <2>3. Between(d)'
    BY <1>1, <1>10, <2>1 DEF PipeInv, Between
  <2>4. Locking(d)'
    BY <1>1, <1>6, <1>7, <2>1 DEF PipeInv, Locking
  <2>5. InFrames(d)' = InFrames(d)
    BY <1>1, <1>6, <1>7, <1>8 DEF InFrames
  <2>6. Peer(d) \in Ends
    BY EndsFacts
  <2>7. CASE failed'[d] = failed[d] /\ out'[d] = out[d]
    <3>1. Framing(d)' = Framing(d)
      BY <1>1, <2>7 DEF Framing
    <3>2. Piped(d)'
      BY <1>1, <1>9, <2>1, <2>5, <2>6, <2>7, <3>1, Unmoved DEF PipeInv
    <3>3. Step(d)
      BY <1>1, <2>7 DEF Step
    <3> QED
      BY <2>2, <2>3, <2>4, <3>2, <3>3 DEF PipeInv
  <2>8. CASE failed'[d] = TRUE
    <3>1. Piped(d)'
      BY <2>8 DEF Piped
    <3>2. Step(d)
      BY <1>1, <2>8 DEF Step
    <3> QED
      BY <2>2, <2>3, <2>4, <3>1, <3>2 DEF PipeInv
  <2> QED
    BY <1>6, <1>11, <2>7, <2>8
<1> QED
  BY <1>5, <1>12 DEF Inv

\* A pong waits for the lock, and so comes between two frames.
LEMMA AnswerPingStep ==
  ASSUME Inv, NEW e \in Ends, AnswerPing(e)
  PROVE  Inv' /\ \A d \in Ends : Step(d)
<1> DEFINE frame == Frame("pong", pong[e], FreshKey(e))
<1>1. /\ rpc[e] = "lock" /\ writeMu[e] = "free"
      /\ writeMu' = [writeMu EXCEPT ![e] = "reader"]
      /\ out' = [out EXCEPT ![e] = frame]
      /\ keys' = [keys EXCEPT ![e] = FreshKey(e)]
      /\ rpc' = [rpc EXCEPT ![e] = "pong"]
      /\ UNCHANGED <<stream, sent, wpc, todo, got, failed, reading, pong, pings, cut>>
  BY DEF AnswerPing, Lock, Goto, writerVars
<1>2. TypeOK
  BY DEF Inv
<1>3. out[e] = <<>> /\ reading[e].remaining = 0 /\ pong[e] \in Seq(Nat)
  BY <1>1, <1>2 DEF Inv, PipeInv, Locking, Between, TypeOK
<1>4. FreshKey(e) \in Nat
  BY <1>2, KeyTyped
<1>5. "pong" \in Opcodes /\ "pong" \notin {"binary", "continuation"}
  BY DEF Opcodes
<1>6. frame \in Seq(Cells)
  BY <1>3, <1>4, <1>5, FrameTyped DEF IsFrameOf
<1> HIDE DEF frame
<1>7. TypeOK'
  <2>1. out' \in [Ends -> Seq(Cells)] /\ keys' \in [Ends -> Nat]
    BY <1>1, <1>2, <1>4, <1>6 DEF TypeOK
  <2>2. writeMu' \in [Ends -> {"free", "writer", "reader"}]
    BY <1>1, <1>2 DEF TypeOK
  <2>3. rpc' \in [Ends -> ReadingStates]
    BY <1>1, <1>2 DEF TypeOK, ReadingStates
  <2> QED
    BY <1>1, <1>2, <2>1, <2>2, <2>3 DEF TypeOK
<1>8. /\ writeMu'[e] = "reader" /\ rpc'[e] = "pong" /\ out'[e] = frame
      /\ \A d \in Ends : d # e => writeMu'[d] = writeMu[d] /\ rpc'[d] = rpc[d] /\ out'[d] = out[d]
  BY <1>1, <1>2 DEF TypeOK
<1>9. \A d \in Ends : rpc'[d] # "ended" => rpc[d] # "ended"
  BY <1>1, <1>8
<1>10. ASSUME NEW d \in Ends PROVE PipeInv(d)' /\ Step(d)
  <2>1. PipeInv(d)
    BY DEF Inv
  <2>2. Numbered(sent[d])' /\ Step(d)
    BY <1>1, <2>1 DEF PipeInv, Numbered, Step
  <2>3. Between(d)'
    BY <1>1, <1>3, <1>8, <2>1 DEF PipeInv, Between
  <2>4. Peer(d) \in Ends
    BY EndsFacts
  <2>5. InFrames(d)' = InFrames(d)
    BY <1>1 DEF InFrames
  <2>6. wpc'[d] = "lock" => todo'[d] # <<>> /\ Head(todo'[d]) <= Len(sent'[d])
    BY <1>1, <2>1 DEF PipeInv, Locking
  <2>7. CASE d = e
    <3>1. Locking(e)'
      BY <1>8, <2>6, <2>7 DEF Locking
    <3>2. stream'[e] \o out'[e] = stream[e] \o Frame("pong", pong[e], FreshKey(e))
      BY <1>1, <1>8 DEF frame
    <3>3. InFrames(e)' \in Nat
      BY <2>5, <2>7, Typed
    <3>4. reading'[Peer(e)] = reading[Peer(e)] /\ got'[e] = got[e] /\ failed'[e] = failed[e]
      BY <1>1
    <3>5. rpc'[Peer(e)] # "ended" => rpc[Peer(e)] # "ended"
      BY <1>9, <2>4, <2>7
    <3>6. Piped(e)'
      BY <1>3, <1>4, <1>5, <2>5, <2>7, <3>2, <3>3, <3>4, <3>5, FrameAdded
    <3> QED
      BY <2>2, <2>3, <2>7, <3>1, <3>6 DEF PipeInv
  <2>8. CASE d # e
    <3>1. Locking(d)'
      BY <1>1, <1>8, <2>1, <2>8 DEF PipeInv, Locking
    <3>2. Framing(d)' = Framing(d)
      BY <1>1, <1>8, <2>8 DEF Framing
    <3>3. Piped(d)'
      BY <1>1, <1>9, <2>1, <2>4, <2>5, <3>2, Unmoved DEF PipeInv
    <3> QED
      BY <2>2, <2>3, <3>1, <3>3 DEF PipeInv
  <2> QED
    BY <2>7, <2>8
<1> QED
  BY <1>7, <1>10 DEF Inv

\* A ping of the front end comes between two frames.
LEMMA FrontEndPingsStep ==
  ASSUME Inv, NEW e \in Ends, FrontEndPings(e)
  PROVE  Inv' /\ \A d \in Ends : Step(d)
<1> DEFINE p == Peer(e)
           key == IF peerFramesAreMasked(e) THEN 3 ELSE 0
           frame == Frame("ping", <<garbage>>, key)
<1>1. /\ pings[e] > 0 /\ out[p] = <<>>
      /\ stream' = [stream EXCEPT ![p] = @ \o frame]
      /\ pings' = [pings EXCEPT ![e] = @ - 1]
      /\ UNCHANGED <<got, sent, wpc, todo, rpc, reading, pong, writeMu, out, keys, failed, cut>>
  BY DEF FrontEndPings, Whole, writerVars, readerVars, frameVars
<1>2. TypeOK
  BY DEF Inv
<1>3. p \in Ends
  BY EndsFacts
<1>4. <<garbage>> \in Seq(Nat) /\ key \in Nat
  BY DEF garbage
<1>5. "ping" \in Opcodes /\ "ping" \notin {"binary", "continuation"}
  BY DEF Opcodes
<1>6. frame \in Seq(Cells)
  <2> HIDE DEF key
  <2> QED
    BY <1>4, <1>5, FrameTyped DEF IsFrameOf
<1> HIDE DEF key, p, frame
<1>7. stream'[p] = stream[p] \o frame /\ \A d \in Ends : d # p => stream'[d] = stream[d]
  BY <1>1, <1>2, <1>3 DEF TypeOK
<1>8. TypeOK'
  <2>1. stream[p] \o frame \in Seq(Cells)
    BY <1>2, <1>3, <1>6 DEF TypeOK
  <2>2. pings[e] - 1 \in Nat
    BY <1>1, <1>2 DEF TypeOK
  <2> QED
    BY <1>1, <1>2, <2>1, <2>2 DEF TypeOK
<1>9. ASSUME NEW d \in Ends PROVE PipeInv(d)' /\ Step(d)
  <2>1. PipeInv(d)
    BY DEF Inv
  <2>2. Locking(d)' /\ Between(d)' /\ Numbered(sent[d])' /\ Step(d)
    BY <1>1, <2>1 DEF PipeInv, Locking, Between, Numbered, Step
  <2>3. InFrames(d)' = InFrames(d)
    BY <1>1 DEF InFrames
  <2>4. CASE d = p
    <3>1. out[d] = <<>> /\ InFrames(d)' \in Nat
      BY <1>1, <2>3, <2>4, Typed
    <3>2. stream'[d] \o out'[d] = stream[d] \o Frame("ping", <<garbage>>, key)
      <4>1. stream'[d] \in Seq(Cells) /\ out'[d] = <<>> /\ stream'[d] = stream[d] \o frame
        BY <1>1, <1>7, <1>8, <2>4 DEF TypeOK
      <4>2. stream'[d] \o out'[d] = stream'[d]
        BY <4>1
      <4> QED
        BY <4>1, <4>2 DEF frame
    <3>3. Piped(d)'
      BY <1>1, <1>4, <1>5, <2>3, <3>1, <3>2, FrameAdded
    <3> QED
      BY <2>2, <3>3 DEF PipeInv
  <2>5. CASE d # p
    <3>1. Framing(d)' = Framing(d)
      BY <1>1, <1>7, <2>5 DEF Framing
    <3>2. Piped(d)'
      BY <1>1, <2>1, <2>3, <3>1, Unmoved DEF PipeInv
    <3> QED
      BY <2>2, <3>2 DEF PipeInv
  <2> QED
    BY <2>4, <2>5
<1> QED
  BY <1>8, <1>9 DEF Inv

\* A message that is split carries the same bytes.
LEMMA FrontEndSplitsStep ==
  ASSUME Inv, NEW e \in Ends, FrontEndSplits(e)
  PROVE  Inv' /\ \A d \in Ends : Step(d)
<1>1. UNCHANGED <<got, sent, wpc, todo, rpc, reading, pong, writeMu, out, keys, failed, pings, cut>>
  BY DEF FrontEndSplits, writerVars, readerVars, frameVars
<1>2. TypeOK
  BY DEF Inv
<1>3. stream[e] \in Seq(Cells) /\ DOMAIN stream[e] = 1..Len(stream[e]) /\ Len(stream[e]) \in Nat
  BY <1>2 DEF TypeOK
<1> DEFINE s == stream[e]
<1>4. PICK k \in 1..Len(s) :
        /\ IsHeader(s[k]) /\ s[k].opcode = "binary" /\ s[k].length > 1
        /\ k + s[k].length <= Len(s)
        /\ \A i \in 1..s[k].length : ~IsHeader(s[k + i])
        /\ LET bytes == [i \in 1..s[k].length |-> s[k + i].value]
               key == IF s[k].key = 0 THEN 0 ELSE 3
               first == SubSeq(bytes, 1, 1)
               rest == SubSeq(bytes, 2, s[k].length)
           IN stream' = [stream EXCEPT ![e] =
                SubSeq(@, 1, k - 1) \o <<Header("binary", FALSE, 1, key)>> \o applyMask(first, key)
                  \o <<Header("continuation", TRUE, Len(rest), key)>> \o applyMask(rest, key)
                  \o SubSeq(@, k + s[k].length + 1, Len(@))]
  BY <1>3 DEF FrontEndSplits
<1> DEFINE l == s[k].length
           key == IF s[k].key = 0 THEN 0 ELSE 3
           bytes == [i \in 1..l |-> s[k + i].value]
           first == SubSeq(bytes, 1, 1)
           rest == SubSeq(bytes, 2, l)
           s2 == SubSeq(s, 1, k - 1) \o <<Header("binary", FALSE, 1, key)>> \o applyMask(first, key)
                   \o <<Header("continuation", TRUE, Len(rest), key)>> \o applyMask(rest, key)
                   \o SubSeq(s, k + l + 1, Len(s))
<1>5. s[k] \in HeaderCells /\ l \in Nat /\ key \in Nat
  <2>1. s[k] \in Cells
    BY <1>3
  <2>2. s[k] \in HeaderCells
    BY <1>4, <2>1, CellKinds DEF Cells
  <2> QED
    BY <2>2, CellKinds
<1>6. \A i \in 1..l : s[k + i] \in ByteCells
  <2> TAKE i \in 1..l
  <2>1. k + i \in 1..Len(s)
    <3>1. k + l <= Len(s)
      BY <1>4
    <3> HIDE DEF l, s
    <3> QED
      BY <1>3, <1>5, <3>1 DEF s
  <2>2. s[k + i] \in Cells
    BY <1>3, <2>1
  <2> QED
    BY <1>4, <2>2, CellKinds DEF Cells
<1>7. stream' = [stream EXCEPT ![e] = s2]
  BY <1>4
<1>8. IsSplit(s, s2, k, l, key)
  <2>1. l > 1 /\ k + l <= Len(s) /\ bytes = [i \in 1..l |-> s[k + i].value]
    BY <1>4
  <2> HIDE DEF l, key, s, bytes
  <2> QED
    BY <1>3, <1>5, <1>6, <2>1, SplitMade DEF s
<1> HIDE DEF l, key, s2
<1>9. s2 \in Seq(Cells)
  BY <1>8 DEF IsSplit
<1>10. stream'[e] = s2 /\ \A d \in Ends : d # e => stream'[d] = stream[d]
  BY <1>2, <1>7 DEF TypeOK
<1>11. TypeOK'
  BY <1>1, <1>2, <1>7, <1>9 DEF TypeOK
<1>12. ASSUME NEW d \in Ends PROVE PipeInv(d)' /\ Step(d)
  <2>1. PipeInv(d)
    BY DEF Inv
  <2>2. Locking(d)' /\ Between(d)' /\ Numbered(sent[d])' /\ Step(d)
    BY <1>1, <2>1 DEF PipeInv, Locking, Between, Numbered, Step
  <2>3. InFrames(d)' = InFrames(d)
    BY <1>1 DEF InFrames
  <2>4. CASE d = e
    <3> SUFFICES ASSUME ~failed'[e], rpc'[Peer(e)] # "ended"
                 PROVE  Sound(Framing(e), reading[Peer(e)], got[e], InFrames(e))'
      BY <2>2, <2>4 DEF PipeInv, Piped
    <3>1. Sound(Framing(e), reading[Peer(e)], got[e], InFrames(e))
      BY <1>1, <2>1, <2>4 DEF PipeInv, Piped
    <3> DEFINE o == out[e]
    <3>2. o \in Seq(Cells)
      BY Typed
    <3>3. Framing(e) = s \o o /\ Framing(e)' = s2 \o o
      BY <1>1, <1>10 DEF Framing
    <3>4. k \in Nat
      BY <1>3
    <3>5. IsSplit(Framing(e), Framing(e)', k, l, key)
      <4> HIDE DEF o, s
      <4> QED
        BY <1>3, <1>5, <1>8, <3>2, <3>3, <3>4, SplitBefore DEF s
    <3>6. k \in 1..Len(Framing(e)) /\ Framing(e)[k] = s[k]
      <4>1. k \in 1..Len(Framing(e))
        BY <3>5 DEF IsSplit
      <4> QED
        <5>1. IsJoin(s \o o, s, o, Len(s), Len(o))
          BY <1>3, <3>2, Joined
        <5> QED
          BY <3>3, <4>1, <5>1 DEF IsJoin
    <3>7. Framing(e)[k] \in HeaderCells /\ Framing(e)[k].opcode = "binary" /\ Framing(e)[k].length = l
      BY <1>4, <1>5, <3>6 DEF l
    <3>8. Sound(Framing(e)', reading[Peer(e)], got[e], InFrames(e))
      BY <1>5, <3>1, <3>5, <3>6, <3>7, Typed, SoundDivided
    <3> QED
      BY <1>1, <2>3, <2>4, <3>8
  <2>5. CASE d # e
    <3>1. Framing(d)' = Framing(d)
      BY <1>1, <1>10, <2>5 DEF Framing
    <3>2. Piped(d)'
      BY <1>1, <2>1, <2>3, <3>1, Unmoved DEF PipeInv
    <3> QED
      BY <2>2, <3>2 DEF PipeInv
  <2> QED
    BY <2>4, <2>5
<1> QED
  BY <1>11, <1>12 DEF Inv

-----------------------------------------------------------------------------

\* The first n cells are taken from the network.
LEMMA CellsTaken ==
  ASSUME Inv, NEW e \in Ends, NEW n \in Nat, n <= Len(Input(e)), Take(e, n), out' = out
  PROVE  /\ stream' \in [Ends -> Seq(Cells)]
         /\ Framing(Peer(e))' = SubSeq(Framing(Peer(e)), n + 1, Len(Framing(Peer(e))))
         /\ stream'[e] = stream[e]
<1> DEFINE p == Peer(e)
<1>1. p \in Ends /\ p # e
  BY EndsFacts
<1>2. stream[p] \in Seq(Cells) /\ out[p] \in Seq(Cells)
  BY <1>1 DEF Inv, TypeOK
<1>3. stream' = [stream EXCEPT ![p] = SubSeq(stream[p], n + 1, Len(stream[p]))]
  BY DEF Take
<1>4. n <= Len(stream[p])
  BY DEF Input
<1> HIDE DEF p
<1>5. /\ SubSeq(stream[p], n + 1, Len(stream[p])) \in Seq(Cells)
      /\ SubSeq(stream[p], n + 1, Len(stream[p])) \o out[p]
           = SubSeq(stream[p] \o out[p], n + 1, Len(stream[p] \o out[p]))
  BY <1>2, <1>4, TakenFrom
<1>6. stream'[p] = SubSeq(stream[p], n + 1, Len(stream[p])) /\ stream'[e] = stream[e]
  BY <1>1, <1>3 DEF Inv, TypeOK
<1>7. stream' \in [Ends -> Seq(Cells)]
  BY <1>3, <1>5 DEF Inv, TypeOK
<1>8. Framing(p)' = SubSeq(Framing(p), n + 1, Len(Framing(p)))
  BY <1>5, <1>6 DEF Framing
<1> QED
  BY <1>6, <1>7, <1>8 DEF p

\* What a reader finds first.
LEMMA FirstCell ==
  ASSUME Inv, NEW e \in Ends, Input(e) # <<>>
  PROVE  /\ Input(e) \in Seq(Cells) /\ Head(Input(e)) \in Cells /\ Len(Input(e)) >= 1
         /\ Framing(Peer(e)) # <<>> /\ Framing(Peer(e))[1] = Head(Input(e))
         /\ \A i \in 1..Len(Input(e)) : Framing(Peer(e))[i] = Input(e)[i]
<1>1. stream[Peer(e)] \in Seq(Cells) /\ out[Peer(e)] \in Seq(Cells)
  BY EndsFacts DEF Inv, TypeOK
<1>2. IsJoin(stream[Peer(e)] \o out[Peer(e)], stream[Peer(e)], out[Peer(e)], Len(stream[Peer(e)]), Len(out[Peer(e)]))
  BY <1>1, Joined
<1>3. /\ Framing(Peer(e)) \in Seq(Cells) /\ Len(Framing(Peer(e))) = Len(Input(e)) + Len(out[Peer(e)])
      /\ \A i \in 1..Len(Input(e)) : Framing(Peer(e))[i] = Input(e)[i]
  BY <1>2 DEF IsJoin, Framing, Input
<1>4. Input(e) \in Seq(Cells) /\ Len(Input(e)) >= 1 /\ Head(Input(e)) = Input(e)[1] /\ Input(e)[1] \in Cells
  BY <1>1 DEF Input
<1>5. Framing(Peer(e)) # <<>>
  BY <1>1, <1>3, <1>4
<1>6. Framing(Peer(e))[1] = Input(e)[1]
  BY <1>3, <1>4
<1> QED
  BY <1>3, <1>4, <1>5, <1>6

\* nextDataFrame stops at the first byte of a payload, with its mask.
LEMMA NextDataFrameStep ==
  ASSUME Inv, NEW e \in Ends, NextDataFrame(e)
  PROVE  Inv' /\ \A d \in Ends : Step(d)
<1> DEFINE p == Peer(e)
           header == Head(Input(e))
           next == [remaining |-> header.length, key |-> header.key, at |-> 0, fragmented |-> ~header.fin]
<1>1. /\ rpc[e] = "header" /\ Input(e) # <<>> /\ Take(e, 1)
      /\ UNCHANGED <<got, sent, wpc, todo, pong, writeMu, out, keys, failed, pings, cut>>
  BY DEF NextDataFrame, writerVars, frameVars
<1>2. \/ /\ IsHeader(header) /\ header.opcode \in {"binary", "continuation"}
         /\ reading' = [reading EXCEPT ![e] = next]
         /\ rpc' = [rpc EXCEPT ![e] = IF header.length = 0 THEN "header" ELSE "payload"]
      \/ rpc' = [rpc EXCEPT ![e] = "ended"] /\ reading' = reading
  BY DEF NextDataFrame, Acceptable, Goto
<1>3. TypeOK
  BY DEF Inv
<1>4. p \in Ends /\ p # e /\ Peer(p) = e
  BY EndsFacts
<1>5. /\ Input(e) \in Seq(Cells) /\ header \in Cells /\ 1 <= Len(Input(e))
      /\ Framing(p) # <<>> /\ Framing(p)[1] = header
  BY <1>1, FirstCell
<1>6. /\ stream' \in [Ends -> Seq(Cells)] /\ stream'[e] = stream[e]
      /\ Framing(p)' = SubSeq(Framing(p), 2, Len(Framing(p)))
  <2>1. 1 + 1 = 2
    OBVIOUS
  <2>2. /\ stream' \in [Ends -> Seq(Cells)] /\ stream'[e] = stream[e]
        /\ Framing(p)' = SubSeq(Framing(p), 1 + 1, Len(Framing(p)))
    BY <1>1, <1>5, CellsTaken
  <2> QED
    BY <2>1, <2>2
<1>7. IsHeader(header) => header \in HeaderCells /\ next \in Positions
  <2> SUFFICES ASSUME IsHeader(header) PROVE header \in HeaderCells /\ next \in Positions
    OBVIOUS
  <2>1. header \in HeaderCells
    BY <1>5, CellKinds DEF Cells
  <2> HIDE DEF header
  <2> QED
    BY <2>1 DEF HeaderCells, Positions
<1>8. /\ next.remaining = header.length /\ next.key = header.key /\ next.at = 0
  OBVIOUS
<1> HIDE DEF next, p
<1>9. rpc' \in [Ends -> ReadingStates] /\ reading' \in [Ends -> Positions]
  <2>1. reading' \in [Ends -> Positions]
    <3>1. reading \in [Ends -> Positions]
      BY <1>3 DEF TypeOK
    <3>2. reading' = reading \/ (IsHeader(header) /\ reading' = [reading EXCEPT ![e] = next])
      BY <1>2
    <3>3. CASE reading' = reading
      BY <3>1, <3>3
    <3>4. CASE IsHeader(header) /\ reading' = [reading EXCEPT ![e] = next]
      <4>1. next \in Positions
        BY <1>7, <3>4
      <4> QED
        BY <3>1, <3>4, <4>1
    <3> QED
      BY <3>2, <3>3, <3>4
  <2>2. rpc' \in [Ends -> ReadingStates]
    BY <1>2, <1>3 DEF TypeOK, ReadingStates
  <2> QED
    BY <2>1, <2>2
<1>10. TypeOK'
  BY <1>1, <1>3, <1>6, <1>9 DEF TypeOK
<1>11. \A d \in Ends : d # e => rpc'[d] = rpc[d] /\ reading'[d] = reading[d]
  BY <1>2, <1>3 DEF TypeOK
<1>12. rpc'[e] # "pong" /\ rpc[e] # "pong" /\ rpc[e] # "ended" /\ reading[e].remaining = 0
  BY <1>1, <1>2, <1>3 DEF TypeOK, Inv, PipeInv, Between
<1>13. Between(e)'
  BY <1>2, <1>3, <1>8 DEF TypeOK, Between
<1>14. Piped(p)'
  <2> SUFFICES ASSUME ~failed'[p], rpc'[e] # "ended"
               PROVE  Sound(Framing(p), reading[e], got[p], InFrames(p))'
    BY <1>4 DEF Piped
  <2>1. /\ IsHeader(header) /\ header.opcode \in {"binary", "continuation"}
        /\ reading'[e] = next
    BY <1>2, <1>3 DEF TypeOK
  <2>2. Sound(Framing(p), reading[e], got[p], InFrames(p))
    BY <1>1, <1>4, <1>12 DEF Inv, PipeInv, Piped
  <2>3. Framing(p)[1] \in HeaderCells /\ IsData(Framing(p)[1])
    BY <1>5, <1>7, <2>1 DEF IsData, p
  <2>4. /\ Framing(p) \in Seq(Cells) /\ reading[e] \in Positions /\ got[p] \in Seq(Nat) /\ InFrames(p) \in Nat
    BY <1>4, Typed
  <2>5. /\ next.remaining = Framing(p)[1].length /\ next.key = Framing(p)[1].key /\ next.at = 0
    BY <1>5, <1>8 DEF p
  <2>6. Framing(p) # <<>>
    BY <1>5 DEF p
  <2>7. Sound(SubSeq(Framing(p), 2, Len(Framing(p))), next, got[p], InFrames(p))
    BY <1>12, <2>2, <2>3, <2>4, <2>5, <2>6, SoundFrameTaken
  <2>8. InFrames(p)' = InFrames(p) /\ Framing(p)' = SubSeq(Framing(p), 2, Len(Framing(p)))
    BY <1>1, <1>6 DEF InFrames, p
  <2> QED
    BY <1>1, <2>1, <2>7, <2>8
<1>15. Piped(e)'
  <2>1. Framing(e)' = Framing(e) /\ InFrames(e)' = InFrames(e)
    BY <1>1, <1>6 DEF Framing, InFrames
  <2>2. Peer(e) \in Ends /\ Peer(e) # e
    BY EndsFacts
  <2> QED
    BY <1>1, <1>11, <2>1, <2>2, Unmoved DEF Inv, PipeInv
<1>16. ASSUME NEW d \in Ends PROVE PipeInv(d)' /\ Step(d)
  <2>1. PipeInv(d)
    BY DEF Inv
  <2>2. Numbered(sent[d])' /\ Step(d)
    BY <1>1, <2>1 DEF PipeInv, Numbered, Step
  <2>3. d = e \/ d = p
    BY <1>4, EndsFacts
  <2>4. Locking(d)'
    BY <1>1, <1>11, <1>12, <2>1 DEF PipeInv, Locking
  <2>5. Between(d)'
    BY <1>11, <1>13, <2>1 DEF PipeInv, Between
  <2> QED
    BY <1>14, <1>15, <2>2, <2>3, <2>4, <2>5 DEF PipeInv
<1> QED
  BY <1>10, <1>16 DEF Inv

\* A control frame is read as a whole, and nothing of it is delivered.
LEMMA ControlFrameStep ==
  ASSUME Inv, NEW e \in Ends, ControlFrame(e)
  PROVE  Inv' /\ \A d \in Ends : Step(d)
<1> DEFINE p == Peer(e)
           header == Head(Input(e))
           payload == [i \in 1..header.length |-> Unmask(Input(e)[i + 1], header.key, i - 1)]
<1>1. /\ rpc[e] = "header" /\ Input(e) # <<>> /\ Take(e, 1 + header.length)
      /\ IsHeader(header) /\ header.opcode \in {"ping", "pong"}
      /\ Len(Input(e)) > header.length
      /\ pong' = [pong EXCEPT ![e] = payload]
      /\ rpc' = [rpc EXCEPT ![e] = IF header.opcode = "ping" THEN "lock" ELSE "header"]
      /\ UNCHANGED <<got, sent, wpc, todo, reading, writeMu, out, keys, failed, pings, cut>>
  BY DEF ControlFrame, Acceptable, Goto, writerVars, frameVars
<1>2. TypeOK
  BY DEF Inv
<1>3. p \in Ends /\ p # e /\ Peer(p) = e
  BY EndsFacts
<1>4. /\ Input(e) \in Seq(Cells) /\ header \in Cells /\ Framing(p) # <<>> /\ Framing(p)[1] = header
  BY <1>1, FirstCell
<1>5. header \in HeaderCells /\ header.length \in Nat /\ header.key \in Nat
  BY <1>1, <1>4, CellKinds DEF Cells
<1>6. 1 + header.length \in Nat /\ 1 + header.length <= Len(Input(e))
  <2>1. Len(Input(e)) \in Nat
    BY <1>4
  <2> QED
    BY <1>1, <1>5, <2>1
<1>7. /\ stream' \in [Ends -> Seq(Cells)] /\ stream'[e] = stream[e]
      /\ Framing(p)' = SubSeq(Framing(p), 1 + header.length + 1, Len(Framing(p)))
  BY <1>1, <1>6, CellsTaken
<1>8. payload \in Seq(Nat)
  <2>1. \A i \in 1..header.length : Unmask(Input(e)[i + 1], header.key, i - 1) \in Nat
    <3> TAKE i \in 1..header.length
    <3> HIDE DEF header
    <3>1. i + 1 \in 1..Len(Input(e)) /\ i - 1 \in Nat
      <4>1. Len(Input(e)) \in Nat
        BY <1>4
      <4> QED
        BY <1>5, <1>6, <4>1
    <3>2. Input(e)[i + 1] \in Cells
      BY <1>4, <3>1
    <3> QED
      BY <1>5, <3>1, <3>2, UnmaskTyped
  <2>2. payload \in [1..header.length -> Nat]
    BY <2>1
  <2> HIDE DEF payload
  <2> QED
    BY <1>5, <2>2
<1> HIDE DEF payload, p, header
<1>9. TypeOK'
  <2>1. pong' \in [Ends -> Seq(Nat)]
    BY <1>1, <1>2, <1>8 DEF TypeOK
  <2>2. rpc' \in [Ends -> ReadingStates]
    BY <1>1, <1>2 DEF TypeOK, ReadingStates
  <2> QED
    BY <1>1, <1>2, <1>7, <2>1, <2>2 DEF TypeOK
<1>10. /\ rpc'[e] \in {"lock", "header"} /\ reading[e].remaining = 0
       /\ \A d \in Ends : d # e => rpc'[d] = rpc[d]
  BY <1>1, <1>2 DEF TypeOK, Inv, PipeInv, Between
<1>11. Piped(p)'
  <2> SUFFICES ASSUME ~failed'[p]
               PROVE  Sound(Framing(p), reading[e], got[p], InFrames(p))'
    BY <1>3 DEF Piped
  <2>1. Sound(Framing(p), reading[e], got[p], InFrames(p))
    BY <1>1, <1>3 DEF Inv, PipeInv, Piped
  <2>2. /\ Framing(p) \in Seq(Cells) /\ reading[e] \in Positions /\ got[p] \in Seq(Nat) /\ InFrames(p) \in Nat
    BY <1>3, Typed
  <2>3. Framing(p) # <<>> /\ Framing(p)[1] = header
    BY <1>4 DEF p, header
  <2>4. ~IsData(Framing(p)[1]) /\ Framing(p)[1] \in HeaderCells
    BY <1>1, <1>5, <2>3 DEF IsData
  <2>5. Sound(SubSeq(Framing(p), 1 + Framing(p)[1].length + 1, Len(Framing(p))), reading[e], got[p], InFrames(p))
    BY <1>10, <2>1, <2>2, <2>3, <2>4, SoundFrameTaken
  <2>6. InFrames(p)' = InFrames(p) /\ Framing(p)' = SubSeq(Framing(p), 1 + Framing(p)[1].length + 1, Len(Framing(p)))
    BY <1>1, <1>7, <2>3 DEF InFrames
  <2> QED
    BY <1>1, <2>5, <2>6
<1>12. Piped(e)'
  <2>1. Framing(e)' = Framing(e) /\ InFrames(e)' = InFrames(e)
    BY <1>1, <1>7 DEF Framing, InFrames
  <2>2. Peer(e) \in Ends /\ Peer(e) # e
    BY EndsFacts
  <2> QED
    BY <1>1, <1>10, <2>1, <2>2, Unmoved DEF Inv, PipeInv
<1>13. ASSUME NEW d \in Ends PROVE PipeInv(d)' /\ Step(d)
  <2>1. PipeInv(d)
    BY DEF Inv
  <2>2. Numbered(sent[d])' /\ Step(d)
    BY <1>1, <2>1 DEF PipeInv, Numbered, Step
  <2>3. d = e \/ d = p
    BY <1>3, EndsFacts
  <2>4. Locking(d)'
    BY <1>1, <1>10, <2>1 DEF PipeInv, Locking
  <2>5. Between(d)'
    BY <1>1, <1>10, <2>1 DEF PipeInv, Between
  <2> QED
    BY <1>11, <1>12, <2>2, <2>3, <2>4, <2>5 DEF PipeInv
<1> QED
  BY <1>9, <1>13 DEF Inv

\* A read delivers the next bytes, also when it fails after some of them.
LEMMA PayloadStep ==
  ASSUME Inv, NEW e \in Ends, ReadPayload(e) \/ ReadTruncated(e)
  PROVE  Inv' /\ \A d \in Ends : Step(d)
<1> DEFINE p == Peer(e)
           r == reading[e]
<1>1. r.remaining \in Nat /\ r.key \in Nat /\ r.at \in Nat /\ reading[e] \in Positions
  BY DEF Inv, TypeOK, Positions
<1>2. Wanted(e) \in Nat /\ Wanted(e) <= r.remaining
  <2>1. maxRead \in Nat
    <3>1. CASE Capacity \in Int
      BY SizesAssumption, <3>1
    <3> QED
      BY SizesAssumption
  <2> QED
    BY <1>1, <2>1 DEF Wanted
<1>3. PICK n \in Nat : n <= r.remaining /\ n <= Len(Input(e)) /\ Deliver(e, n)
  <2>1. Input(e) \in Seq(Cells)
    BY EndsFacts DEF Inv, TypeOK, Input
  <2>2. CASE ReadPayload(e)
    <3>1. PICK want \in 1..Wanted(e) : want <= Len(Input(e)) /\ Deliver(e, want)
      BY <2>2 DEF ReadPayload
    <3>2. want \in Nat /\ want <= r.remaining
      BY <1>1, <1>2
    <3> QED
      BY <3>1, <3>2
  <2>3. CASE ReadTruncated(e)
    <3>1. PICK count \in 0..Wanted(e) - 1 :
            /\ IF Late(e) THEN count <= Len(Input(e)) ELSE count = Len(Input(e))
            /\ Deliver(e, count)
      BY <2>3 DEF ReadTruncated
    <3>2. count \in Nat /\ count <= r.remaining
      BY <1>1, <1>2
    <3>3. count <= Len(Input(e))
      BY <2>1, <3>1, <3>2
    <3> QED
      BY <3>1, <3>2, <3>3
  <2> QED
    BY <2>2, <2>3
<1> DEFINE bytes == [i \in 1..n |-> Unmask(Input(e)[i], r.key, r.at + i - 1)]
<1>4. /\ Take(e, n)
      /\ got' = [got EXCEPT ![p] = @ \o bytes]
      /\ reading' = [reading EXCEPT ![e].remaining = @ - n, ![e].at = @ + n]
  BY <1>3 DEF Deliver
<1>5. /\ rpc[e] = "payload" /\ (rpc' = [rpc EXCEPT ![e] = "idle"] \/ rpc' = [rpc EXCEPT ![e] = "ended"])
      /\ UNCHANGED <<sent, wpc, todo, pong, writeMu, out, keys, failed, pings, cut>>
  BY DEF ReadPayload, ReadTruncated, Goto, writerVars, frameVars
<1>6. TypeOK
  BY DEF Inv
<1>7. p \in Ends /\ p # e /\ Peer(p) = e
  BY EndsFacts
<1>8. Input(e) \in Seq(Cells)
  BY <1>6, <1>7 DEF TypeOK, Input
<1>9. bytes \in Seq(Nat) /\ Len(bytes) = n
  <2>1. \A i \in 1..n : Unmask(Input(e)[i], r.key, r.at + i - 1) \in Nat
    <3> TAKE i \in 1..n
    <3> HIDE DEF r
    <3>1. i \in 1..Len(Input(e)) /\ r.at + i - 1 \in Nat
      <4>1. Len(Input(e)) \in Nat
        BY <1>8
      <4> QED
        BY <1>1, <1>3, <4>1
    <3>2. Input(e)[i] \in Cells
      BY <1>8, <3>1
    <3> QED
      BY <1>1, <3>1, <3>2, UnmaskTyped
  <2>2. bytes \in [1..n -> Nat]
    BY <2>1
  <2> HIDE DEF bytes
  <2> QED
    BY <2>2
<1>10. /\ stream' \in [Ends -> Seq(Cells)] /\ stream'[e] = stream[e]
       /\ Framing(p)' = SubSeq(Framing(p), n + 1, Len(Framing(p)))
  BY <1>3, <1>4, <1>5, CellsTaken
<1>11. /\ reading'[e].remaining = r.remaining - n /\ reading'[e].key = r.key /\ reading'[e].at = r.at + n
       /\ reading' \in [Ends -> Positions] /\ \A d \in Ends : d # e => reading'[d] = reading[d]
  <2>1. r.remaining - n \in Nat /\ r.at + n \in Nat
    BY <1>1, <1>3
  <2>2. reading' = [reading EXCEPT ![e] = [r EXCEPT !.remaining = r.remaining - n, !.at = r.at + n]]
    BY <1>4
  <2>3. [r EXCEPT !.remaining = r.remaining - n, !.at = r.at + n] \in Positions
    BY <1>1, <2>1 DEF Positions
  <2>4. reading'[e] = [r EXCEPT !.remaining = r.remaining - n, !.at = r.at + n]
    BY <1>6, <2>2 DEF TypeOK
  <2>5. /\ reading'[e].remaining = r.remaining - n /\ reading'[e].key = r.key /\ reading'[e].at = r.at + n
    BY <1>1, <2>4 DEF Positions
  <2>6. reading' \in [Ends -> Positions] /\ \A d \in Ends : d # e => reading'[d] = reading[d]
    BY <1>6, <2>2, <2>3 DEF TypeOK
  <2> QED
    BY <2>5, <2>6
<1>12. got'[p] = got[p] \o bytes /\ \A d \in Ends : d # p => got'[d] = got[d]
  BY <1>4, <1>6, <1>7 DEF TypeOK
<1> HIDE DEF bytes, r, p
<1>13. /\ rpc' \in [Ends -> ReadingStates]
       /\ rpc'[e] \in {"idle", "ended"} /\ \A d \in Ends : d # e => rpc'[d] = rpc[d]
  <2>1. PICK to \in {"idle", "ended"} : rpc' = [rpc EXCEPT ![e] = to]
    BY <1>5
  <2> QED
    BY <1>6, <2>1, RpcTyped
<1>14. TypeOK'
  <2>1. rpc' \in [Ends -> ReadingStates]
    BY <1>13
  <2>2. got[p] \o bytes \in Seq(Nat)
    BY <1>6, <1>7, <1>9 DEF TypeOK
  <2>3. got' \in [Ends -> Seq(Nat)]
    <3>1. got' = [got EXCEPT ![p] = got[p] \o bytes]
      BY <1>4 DEF p, bytes, r
    <3> QED
      BY <1>6, <2>2, <3>1 DEF TypeOK
  <2> QED
    BY <1>5, <1>6, <1>10, <1>11, <2>1, <2>3 DEF TypeOK
<1>15. ASSUME ~failed[p]
       PROVE  Sound(Framing(p)', reading'[e], got'[p], InFrames(p))
  <2>1. Sound(Framing(p), r, got[p], InFrames(p))
    BY <1>5, <1>7, <1>15 DEF Inv, PipeInv, Piped, r
  <2>2. /\ Framing(p) \in Seq(Cells) /\ r \in Positions /\ got[p] \in Seq(Nat) /\ InFrames(p) \in Nat
    BY <1>7, Typed DEF r
  <2>3. \A i \in 1..n : bytes[i] = Unmask(Framing(p)[i], r.key, r.at + i - 1)
    <3>1. \A i \in 1..n : Framing(p)[i] = Input(e)[i]
      <4> TAKE i \in 1..n
      <4>1. Input(e) # <<>> /\ i \in 1..Len(Input(e))
        BY <1>3, <1>8
      <4> QED
        BY <4>1, FirstCell DEF p
    <3> QED
      BY <3>1 DEF bytes
  <2>4. n <= r.remaining
    BY <1>3 DEF r
  <2>5. /\ reading'[e].remaining = r.remaining - n /\ reading'[e].key = r.key
        /\ reading'[e].at = r.at + n
    BY <1>11
  <2>6. Sound(SubSeq(Framing(p), n + 1, Len(Framing(p))), reading'[e], got[p] \o bytes, InFrames(p))
    BY <1>9, <2>1, <2>2, <2>3, <2>4, <2>5, SoundTaken
  <2> QED
    BY <1>10, <1>12, <2>6
<1>16. InFrames(p)' = InFrames(p)
  BY <1>5 DEF InFrames
<1>17. Piped(p)' /\ Step(p)
  <2>1. Piped(p)'
    BY <1>5, <1>7, <1>15, <1>16 DEF Piped
  <2>2. CASE ~failed[p]
    <3>1. InFrames(p) <= Len(sent[p]) /\ InFrames(p) \in Nat /\ got[p] \in Seq(Nat) /\ sent[p] \in Seq(Nat)
      BY <1>7, Typed
    <3> DEFINE m == Len(got'[p])
    <3>2. got'[p] \in Seq(Nat) /\ reading'[e] \in Positions
      BY <1>7, <1>11, <1>14 DEF TypeOK
    <3>3. Numbered(got'[p]) /\ m <= InFrames(p)
      BY <1>15, <2>2, <3>2, <3>1, SoundBound
    <3>4. m = Len(got[p]) + n /\ m \in Nat /\ Len(got[p]) \in Nat /\ Len(sent[p]) \in Nat
      <4>1. Len(got[p] \o bytes) = Len(got[p]) + Len(bytes)
        <5>1. \A s, t \in Seq(Nat) : Len(s \o t) = Len(s) + Len(t)
          OBVIOUS
        <5>2. bytes \in Seq(Nat) /\ got[p] \in Seq(Nat)
          BY <1>9, <3>1
        <5> QED
          BY <5>1, <5>2
      <4>2. m = Len(got[p]) + n
        BY <1>9, <1>12, <4>1
      <4> QED
        BY <3>2, <3>1, <4>2
    <3>5. m \in Len(got[p])..Len(sent[p]) /\ m \in Nat
      <4> HIDE DEF m
      <4> QED
        BY <3>1, <3>3, <3>4
    <3>6. Numbered(sent[p])
      BY <1>7 DEF Inv, PipeInv
    <3>7. got'[p] = SubSeq(sent[p], 1, m)
      <4>1. got'[p] \in Seq(Nat)
        BY <1>7, <1>14 DEF TypeOK
      <4>2. got'[p] = [i \in 1..m |-> i]
        BY <3>3, <4>1 DEF Numbered
      <4>3. SubSeq(sent[p], 1, m) = [i \in 1..m |-> sent[p][i]]
        <5> HIDE DEF m
        <5> QED
          BY <3>1, <3>5
      <4>4. \A i \in 1..m : sent[p][i] = i
        <5> HIDE DEF m
        <5> QED
          BY <3>1, <3>5, <3>6 DEF Numbered
      <4> QED
        BY <4>2, <4>3, <4>4
    <3>8. Step(p)
      BY <1>5, <2>2, <3>5, <3>7 DEF Step
    <3> QED
      BY <2>1, <3>8
  <2>3. CASE failed[p]
    BY <1>5, <2>1, <2>3 DEF Step
  <2> QED
    BY <2>2, <2>3
<1>18. Piped(e)' /\ Step(e)
  <2>1. Framing(e)' = Framing(e) /\ InFrames(e)' = InFrames(e)
    BY <1>5, <1>10 DEF Framing, InFrames
  <2>2. p = Peer(e)
    BY DEF p
  <2>3. Piped(e)'
    BY <1>5, <1>7, <1>11, <1>12, <1>13, <2>1, <2>2, Unmoved DEF Inv, PipeInv
  <2> QED
    BY <1>5, <1>7, <1>12, <2>3 DEF Step
<1>19. ASSUME NEW d \in Ends PROVE PipeInv(d)' /\ Step(d)
  <2>1. PipeInv(d)
    BY DEF Inv
  <2>2. Numbered(sent[d])'
    BY <1>5, <2>1 DEF PipeInv, Numbered
  <2>3. d = e \/ d = p
    BY <1>7, EndsFacts
  <2>4. Locking(d)'
    BY <1>5, <1>13, <2>1 DEF PipeInv, Locking
  <2>5. Between(d)'
    BY <1>11, <1>13, <2>1 DEF PipeInv, Between
  <2> QED
    BY <1>17, <1>18, <2>2, <2>3, <2>4, <2>5 DEF PipeInv
<1> QED
  BY <1>14, <1>19 DEF Inv

-----------------------------------------------------------------------------

(***************************************************************************)
(* The theorems.                                                           *)
(***************************************************************************)

\* Every step of the two ends and of the front end keeps the invariant, and is a
\* step of the pipe in both directions or leaves it alone.
LEMMA StepInv ==
  ASSUME Inv, [Next]_vars
  PROVE  Inv' /\ \A d \in Ends : Step(d)
<1>1. CASE UNCHANGED vars
  <2>1. /\ UNCHANGED <<stream, got, sent, wpc, todo, rpc, reading, pong, writeMu, out, keys, failed, pings, cut>>
    BY <1>1 DEF vars, writerVars, readerVars, frameVars
  <2>2. TypeOK'
    BY <2>1 DEF Inv, TypeOK
  <2>3. ASSUME NEW d \in Ends PROVE PipeInv(d)' /\ Step(d)
    <3>1. PipeInv(d)
      BY DEF Inv
    <3>2. Framing(d)' = Framing(d) /\ InFrames(d)' = InFrames(d)
      BY <2>1 DEF Framing, InFrames
    <3>3. Piped(d)'
      BY <2>1, <3>1, <3>2, Unmoved DEF PipeInv
    <3> QED
      BY <2>1, <3>1, <3>3 DEF PipeInv, Locking, Between, Numbered, Step
  <2> QED
    BY <2>2, <2>3 DEF Inv
<1>2. CASE Next
  <2>1. PICK e \in Ends : Writing(e) \/ Reading(e) \/ Interrupting(e) \/ FrontEndPings(e) \/ FrontEndSplits(e)
    BY <1>2 DEF Next
  <2>2. CASE Writing(e)
    BY <2>2, WriteStep, WriteLockedStep, WriteCellStep, WriteFrameEndsStep DEF Writing
  <2>3. CASE Reading(e)
    BY <2>3, QuietStep, NextDataFrameStep, ControlFrameStep, AnswerPingStep, PayloadStep DEF Reading
  <2>4. CASE Interrupting(e)
    BY <2>4, QuietStep
  <2>5. CASE FrontEndPings(e)
    BY <2>5, FrontEndPingsStep
  <2>6. CASE FrontEndSplits(e)
    BY <2>6, FrontEndSplitsStep
  <2> QED
    BY <2>1, <2>2, <2>3, <2>4, <2>5, <2>6
<1> QED
  BY <1>1, <1>2

\* Whatever is written, read, pinged, split, interrupted or closed, and in which
\* order (websocket_conn.go): the lock keeps the frames whole, a header is looked
\* for only where one is, and each direction brings its reader exactly to the
\* last byte that has been framed.
THEOREM Invariant == Spec => []Inv
<1>1. Init => Inv
  BY InitInv
<1>2. Inv /\ [Next]_vars => Inv'
  BY StepInv
<1> QED
  BY <1>1, <1>2, PTL DEF Spec

\* Read returns the bytes that the peer has given to Write, in their order, none
\* lost, doubled or invented, until a write has failed: the two directions of the
\* connection implement BytePipe.
THEOREM BytesPiped == Spec => IsBytePipe
<1>1. "client" \in Ends /\ "server" \in Ends
  BY DEF Ends
<1>2. Init => FromClient!PipeInit /\ FromServer!PipeInit
  BY <1>1 DEF Init, FromClient!PipeInit, FromServer!PipeInit
<1>3. Inv /\ [Next]_vars => /\ [FromClient!PipeNext]_(FromClient!pipeVars)
                            /\ [FromServer!PipeNext]_(FromServer!pipeVars)
  <2> SUFFICES ASSUME Inv, [Next]_vars
               PROVE  /\ [FromClient!PipeNext]_(FromClient!pipeVars)
                      /\ [FromServer!PipeNext]_(FromServer!pipeVars)
    OBVIOUS
  <2>1. Step("client") /\ Step("server")
    BY <1>1, StepInv
  <2>2. [FromClient!PipeNext]_(FromClient!pipeVars)
    BY <2>1 DEF Step, FromClient!PipeNext, FromClient!Put, FromClient!Get, FromClient!Break,
                FromClient!AfterBreak, FromClient!pipeVars
  <2>3. [FromServer!PipeNext]_(FromServer!pipeVars)
    BY <2>1 DEF Step, FromServer!PipeNext, FromServer!Put, FromServer!Get, FromServer!Break,
                FromServer!AfterBreak, FromServer!pipeVars
  <2> QED
    BY <2>2, <2>3
<1> QED
  BY <1>2, <1>3, Invariant, PTL DEF Spec, IsBytePipe, FromClient!PipeSpec, FromServer!PipeSpec
=============================================================================
