------------------------------ MODULE Buffer ------------------------------
(***************************************************************************)
(* libbuffer (components/libbuffer/buffer.c): little-endian fields read    *)
(* from and written to an array of bytes through an index that never       *)
(* passes the array's size.                                                *)
(***************************************************************************)
EXTENDS Integers, Sequences

CONSTANT RADIX      \* the number of values of a byte: 256, less for TLC

ASSUME BufferAssumption == RADIX \in Nat /\ RADIX >= 2 /\ RADIX % 2 = 0

Byte == 0 .. RADIX - 1

(* The kinds of field: width in bytes and signedness. *)
U8  == [width |-> 1, signed |-> FALSE]
U16 == [width |-> 2, signed |-> FALSE]
U32 == [width |-> 4, signed |-> FALSE]
I8  == [width |-> 1, signed |-> TRUE]
I16 == [width |-> 2, signed |-> TRUE]
I32 == [width |-> 4, signed |-> TRUE]

(* The number of values of a field of w bytes, w in {1, 2, 4}. *)
Values(w) ==
  IF w = 1 THEN RADIX ELSE IF w = 2 THEN RADIX * RADIX ELSE RADIX * RADIX * RADIX * RADIX

ValuesOf(kind) ==
  IF kind.signed THEN - (Values(kind.width) \div 2) .. Values(kind.width) \div 2 - 1
                 ELSE 0 .. Values(kind.width) - 1

(* x & 0xff, (x >> 8) & 0xff, ...: the shift of a negative int is the      *)
(* arithmetic one, which \div is.                                          *)
Bytes(x, w) ==
  LET b == <<x % RADIX, (x \div RADIX) % RADIX, (x \div (RADIX * RADIX)) % RADIX,
             (x \div (RADIX * RADIX * RADIX)) % RADIX>>
  IN  [k \in 1 .. w |-> b[k]]

(* b[0] | b[1] << 8 | b[2] << 16 | b[3] << 24, as far as b goes. *)
Unsigned(b) ==
  LET digit(k) == IF k \in DOMAIN b THEN b[k] ELSE 0
  IN  digit(1) + digit(2) * RADIX + digit(3) * RADIX * RADIX
        + digit(4) * RADIX * RADIX * RADIX

Decode(b, kind) ==
  IF kind.signed /\ Unsigned(b) >= Values(kind.width) \div 2
    THEN Unsigned(b) - Values(kind.width)
    ELSE Unsigned(b)

-----------------------------------------------------------------------------
(* A buffer being read or written. *)
ReadInit(data)  == [buffer |-> data, index |-> 0]
WriteInit(data) == [buffer |-> data, index |-> 0]

Room(b) == Len(b.buffer) - b.index

Fits(b, n) == Room(b) >= n

(* Mutant of NextBytes: the read does not start at the index.                 *)
NextBytesFromStart(b, n) == SubSeq(b.buffer, 1, n)

(* The next n bytes, and the buffer after them. *)
NextBytes(b, n) == SubSeq(b.buffer, b.index + 1, b.index + n)
Advance(b, n)   == [b EXCEPT !.index = @ + n]

(* The bytes of data in place of the next ones of b. *)
Put(b, data) ==
  [buffer |-> [i \in 1 .. Len(b.buffer) |->
                 IF i - b.index \in 1 .. Len(data) THEN data[i - b.index] ELSE b.buffer[i]],
   index  |-> b.index + Len(data)]
=============================================================================
