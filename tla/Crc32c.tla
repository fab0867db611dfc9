------------------------------- MODULE Crc32c -------------------------------
(***************************************************************************)
(* util/crc32c.cc and crc32c.h: the checksum of log records and table      *)
(* blocks, four bytes at a time, at its full width.  A word, and a byte,   *)
(* is the set of its 1 bits.                                               *)
(***************************************************************************)
EXTENDS Integers, Sequences

CONSTANTS Chunks,       \* byte sequences that are checksummed
          MaxChunks     \* how many follow each other

VARIABLES data,         \* the bytes so far
          crc           \* their checksum, extended chunk by chunk

crcVars == <<data, crc>>

Word == 0..31
AllBits == Word         \* 0xffffffffu
Xor(a, b) == (a \ b) \cup (b \ a)
ShiftRight(a, n) == {i - n : i \in {j \in a : j >= n}}
LowByte(a) == a \cap 0..7

-----------------------------------------------------------------------------
\* The polynomial, 0x82f63b78, and what dividing by it makes of eight bits.
Polynomial == {3, 4, 5, 6, 8, 9, 11, 12, 13, 17, 18, 20, 21, 22, 23, 25, 31}

Divided(word) ==
    LET after[n \in 0..8] ==
            IF n = 0 THEN word
            ELSE LET w == after[n - 1]
                 IN IF 0 \in w THEN Xor(ShiftRight(w, 1), Polynomial)
                               ELSE ShiftRight(w, 1)
    IN after[8]

\* The four tables: table N is for a byte with N bytes behind it.  The
\* literals of the source are these values.
NextTable(table) == [b \in SUBSET (0..7) |-> Divided(table[b])]
table0 == [b \in SUBSET (0..7) |-> Divided(b)]
table1 == NextTable(table0)
table2 == NextTable(table1)
table3 == NextTable(table2)

Step1(l, byte) == Xor(table0[Xor(LowByte(l), byte)], ShiftRight(l, 8))

\* LE_LOAD32: the first byte is the lowest.
Load32(p, bytes) ==
    UNION {{i + 8 * k : i \in bytes[p + k]} : k \in 0..3}

\* Tables in the order of the bytes (a mistake).
Step4Reversed(l, p, bytes) ==
    LET c == Xor(l, Load32(p, bytes))
    IN Xor(Xor(table0[LowByte(c)], table1[LowByte(ShiftRight(c, 8))]),
           Xor(table2[LowByte(ShiftRight(c, 16))], table3[ShiftRight(c, 24)]))

Step4(l, p, bytes) ==
    LET c == Xor(l, Load32(p, bytes))
    IN Xor(Xor(table3[LowByte(c)], table2[LowByte(ShiftRight(c, 8))]),
           Xor(table1[LowByte(ShiftRight(c, 16))], table0[ShiftRight(c, 24)]))

\* The last byte taken one at a time before the strides: none, when the
\* first aligned address is past the end.
AlignedFrom(size, address) ==
    LET x == (4 - (address % 4)) % 4 IN IF x <= size THEN x ELSE 0

Extend(init, bytes, address) ==
    LET head == AlignedFrom(Len(bytes), address)
        tail == head + 4 * ((Len(bytes) - head) \div 4)
        after[n \in 0..Len(bytes)] ==
            IF n = 0 THEN Xor(init, AllBits)
            ELSE IF n <= head \/ n > tail THEN Step1(after[n - 1], bytes[n])
            ELSE Step4(after[n - 4], n - 3, bytes)
    IN Xor(after[Len(bytes)], AllBits)

Value(bytes) == Extend({}, bytes, 0)

-----------------------------------------------------------------------------
\* kMaskDelta, 0xa282ead8, and sums modulo 2^32.
kMaskDelta == {3, 4, 6, 7, 9, 11, 13, 14, 15, 17, 23, 25, 29, 31}

Plus(a, b, carryIn) ==
    LET carry[i \in 0..32] ==
            IF i = 0 THEN carryIn
            ELSE LET n == {x \in {"a", "b", "c"} :
                              CASE x = "a" -> (i - 1) \in a
                                [] x = "b" -> (i - 1) \in b
                                [] x = "c" -> carry[i - 1]}
                 IN \E x, y \in n : x # y
    IN {i \in Word : (i \in a) # ((i \in b) # carry[i])}

RotateRight(a, n) == {(i + 32 - n) % 32 : i \in a}

Mask(a) == Plus(RotateRight(a, 15), kMaskDelta, FALSE)

\* masked - delta, as masked + ~delta + 1.
Unmask(m) == RotateRight(Plus(m, Word \ kMaskDelta, TRUE), 17)

-----------------------------------------------------------------------------
CrcInit == data = <<>> /\ crc = {}

\* A writer extends its checksum by a chunk, which lies where it lies.
ExtendBy(chunk, address) ==
    /\ Len(data) < MaxChunks
    /\ data' = Append(data, chunk)
    /\ crc' = Extend(crc, chunk, address)

CrcNext == \E chunk \in Chunks, address \in 0..3 : ExtendBy(chunk, address)

Joined(chunks) ==
    LET upTo[n \in 0..Len(chunks)] ==
            IF n = 0 THEN <<>> ELSE upTo[n - 1] \o chunks[n]
    IN upTo[Len(chunks)]

Flipped(bytes, i, bit) == [bytes EXCEPT ![i] = Xor(@, {bit})]

(***************************************************************************)
(* A stored checksum tells any two byte sequences apart that differ in one *)
(* bit, wherever they lie: what LogFormat and Table assume of damage       *)
(* (crc32c.cc:286; log_reader.cc:237, format.cc:100).                      *)
(***************************************************************************)
DamageChangesTheSum ==
    Len(data) = 1 =>
        \A i \in 1..Len(data[1]), bit \in {0, 7} : \A address \in 0..3 :
            Extend({}, Flipped(data[1], i, bit), address) # crc

(***************************************************************************)
(* However the data is cut into pieces and wherever these lie in memory,   *)
(* the result is the CRC of it all, computed bit by bit (crc32c.cc:309     *)
(* aligned strides of four bytes; crc32c.h:15).                            *)
(***************************************************************************)
ChecksumIsCrc32c ==
    LET all == Joined(data)
        after[n \in 0..Len(all)] ==
            IF n = 0 THEN AllBits ELSE Divided(Xor(after[n - 1], all[n]))
    IN crc = Xor(after[Len(all)], AllBits)

(***************************************************************************)
(* The masked checksum that is stored gives the checksum back, with the    *)
(* wrap-around of 32 bits (crc32c.h:31-41).                                *)
(***************************************************************************)
MaskIsUndone == data # <<>> => Unmask(Mask(crc)) = crc /\ Mask(crc) # crc

\* The masked checksum is CRC-32C and tells damaged data from whole.
ChecksumsTellDamage ==
  /\ MaskIsUndone
  /\ DamageChangesTheSum
  /\ ChecksumIsCrc32c
=============================================================================
