-------------------------- MODULE MessagesProofs --------------------------
(***************************************************************************)
(* The fields of libbuffer and the messages made of them survive a journey *)
(* as far as they are not cut, for bytes of eight bits.                    *)
(***************************************************************************)
EXTENDS Messages, SequenceTheorems, TLAPS

Kinds == {U8, U16, U32, I8, I16, I32}

(* The number a field of 1, 2 or 4 bytes holds, in the int's own terms. *)
LEMMA Digits1 ==
  ASSUME NEW x \in Int, -128 <= x, x <= 255
  PROVE  x % 256 = IF x < 0 THEN x + 256 ELSE x
BY SMT

(* The same of two bytes. *)
LEMMA Digits2 ==
  ASSUME NEW x \in Int, -32768 <= x, x <= 65535
  PROVE  (x % 256) + ((x \div 256) % 256) * 256 = IF x < 0 THEN x + 65536 ELSE x
BY SMT

(* The same of four bytes. *)
LEMMA Digits4 ==
  ASSUME NEW x \in Int, -2147483648 <= x, x <= 4294967295
  PROVE  (x % 256) + ((x \div 256) % 256) * 256 + ((x \div 65536) % 256) * 65536
           + ((x \div 16777216) % 256) * 16777216
           = IF x < 0 THEN x + 4294967296 ELSE x
BY SMT

(* What buffer_write_* puts into an array is what an unsigned field of it  *)
(* reads: the value, or its two's complement when it is negative.          *)
LEMMA Unsigned1 ==
  ASSUME RADIX = 256, NEW x \in Int, -128 <= x, x <= 255
  PROVE  Unsigned(Bytes(x, 1)) = IF x < 0 THEN x + 256 ELSE x
<1> DEFINE b1 == x % 256
           b2 == (x \div 256) % 256
           b3 == (x \div 65536) % 256
           b4 == (x \div 16777216) % 256
<1>1. b1 \in Int /\ b2 \in Int /\ b3 \in Int /\ b4 \in Int
  BY SMT
<1>2. Bytes(x, 1) = [k \in 1 .. 1 |-> <<b1, b2, b3, b4>>[k]]
  BY SMT DEF Bytes
<1>3. b1 = IF x < 0 THEN x + 256 ELSE x
  BY Digits1
<1> HIDE DEF b1, b2, b3, b4
<1> DEFINE B == Bytes(x, 1)
<1>4. B = [k \in 1 .. 1 |-> <<b1, b2, b3, b4>>[k]]
  BY <1>2
<1> HIDE DEF B
<1>5. DOMAIN B = 1 .. 1
  BY ONLY <1>1, <1>4
<1>6. B[1] = b1
  BY ONLY <1>1, <1>4
<1>7. Unsigned(B) = b1
  BY ONLY <1>5, <1>6, <1>1, RADIX = 256, SMT DEF Unsigned
<1> QED BY <1>3, <1>7 DEF B

(* The same of a field of two bytes. *)
LEMMA Unsigned2 ==
  ASSUME RADIX = 256, NEW x \in Int, -32768 <= x, x <= 65535
  PROVE  Unsigned(Bytes(x, 2)) = IF x < 0 THEN x + 65536 ELSE x
<1> DEFINE b1 == x % 256
           b2 == (x \div 256) % 256
           b3 == (x \div 65536) % 256
           b4 == (x \div 16777216) % 256
<1>1. b1 \in Int /\ b2 \in Int /\ b3 \in Int /\ b4 \in Int
  BY SMT
<1>2. Bytes(x, 2) = [k \in 1 .. 2 |-> <<b1, b2, b3, b4>>[k]]
  BY SMT DEF Bytes
<1>3. b1 + b2 * 256 = IF x < 0 THEN x + 65536 ELSE x
  BY Digits2
<1> HIDE DEF b1, b2, b3, b4
<1> DEFINE B == Bytes(x, 2)
<1>4. B = [k \in 1 .. 2 |-> <<b1, b2, b3, b4>>[k]]
  BY <1>2
<1> HIDE DEF B
<1>5. DOMAIN B = 1 .. 2
  BY ONLY <1>1, <1>4
<1>6. B[1] = b1
  BY ONLY <1>1, <1>4
<1>7. B[2] = b2
  BY ONLY <1>1, <1>4
<1>8. Unsigned(B) = b1 + b2 * 256
  BY ONLY <1>5, <1>6, <1>7, <1>1, RADIX = 256, SMT DEF Unsigned
<1> QED BY <1>3, <1>8 DEF B

(* The same of a field of four bytes. *)
LEMMA Unsigned4 ==
  ASSUME RADIX = 256, NEW x \in Int, -2147483648 <= x, x <= 4294967295
  PROVE  Unsigned(Bytes(x, 4)) = IF x < 0 THEN x + 4294967296 ELSE x
<1> DEFINE b1 == x % 256
           b2 == (x \div 256) % 256
           b3 == (x \div 65536) % 256
           b4 == (x \div 16777216) % 256
<1>1. b1 \in Int /\ b2 \in Int /\ b3 \in Int /\ b4 \in Int
  BY SMT
<1>2. Bytes(x, 4) = [k \in 1 .. 4 |-> <<b1, b2, b3, b4>>[k]]
  BY SMT DEF Bytes
<1>3. b1 + b2 * 256 + b3 * 65536 + b4 * 16777216 = IF x < 0 THEN x + 4294967296 ELSE x
  BY Digits4
<1> HIDE DEF b1, b2, b3, b4
<1> DEFINE B == Bytes(x, 4)
<1>4. B = [k \in 1 .. 4 |-> <<b1, b2, b3, b4>>[k]]
  BY <1>2
<1> HIDE DEF B
<1>5. DOMAIN B = 1 .. 4
  BY ONLY <1>1, <1>4
<1>6. B[1] = b1
  BY ONLY <1>1, <1>4
<1>7. B[2] = b2
  BY ONLY <1>1, <1>4
<1>8. B[3] = b3
  BY ONLY <1>1, <1>4
<1>9. B[4] = b4
  BY ONLY <1>1, <1>4
<1>10. Unsigned(B) = b1 + b2 * 256 + b3 * 65536 + b4 * 16777216
  BY ONLY <1>5, <1>6, <1>7, <1>8, <1>9, <1>1, RADIX = 256, SMT DEF Unsigned
<1> QED BY <1>3, <1>10 DEF B

(* How many values a field of 1, 2 or 4 bytes has. *)
LEMMA ValueCounts ==
  ASSUME RADIX = 256
  PROVE  Values(1) = 256 /\ Values(2) = 65536 /\ Values(4) = 4294967296
BY SMT DEF Values

(* What buffer_write_* puts into an array, buffer_read_* gets out of it:   *)
(* for every value of the field, negative ones included.                   *)
THEOREM RoundTrip ==
  ASSUME RADIX = 256, NEW k \in Kinds, NEW x \in ValuesOf(k)
  PROVE  Decode(Bytes(x, k.width), k) = x
<1> USE ValueCounts
<1>1. CASE k = U8
  <2>1. x \in Int /\ 0 <= x /\ x <= 255
    BY <1>1, SMT DEF ValuesOf, U8
  <2>2. Unsigned(Bytes(x, 1)) = x
    <3>1. Unsigned(Bytes(x, 1)) = IF x < 0 THEN x + 256 ELSE x
      BY <2>1, Unsigned1
    <3> QED BY <2>1, <3>1
  <2> QED BY <1>1, <2>2 DEF Decode, U8
<1>2. CASE k = I8
  <2>1. x \in Int /\ -128 <= x /\ x <= 127
    BY <1>2, SMT DEF ValuesOf, I8
  <2>2. Unsigned(Bytes(x, 1)) = IF x < 0 THEN x + 256 ELSE x
    BY <2>1, Unsigned1
  <2> QED BY <1>2, <2>1, <2>2, SMT DEF Decode, I8
<1>3. CASE k = U16
  <2>1. x \in Int /\ 0 <= x /\ x <= 65535
    BY <1>3, SMT DEF ValuesOf, U16
  <2>2. Unsigned(Bytes(x, 2)) = x
    <3>1. Unsigned(Bytes(x, 2)) = IF x < 0 THEN x + 65536 ELSE x
      BY <2>1, Unsigned2
    <3> QED BY <2>1, <3>1
  <2> QED BY <1>3, <2>2 DEF Decode, U16
<1>4. CASE k = I16
  <2>1. x \in Int /\ -32768 <= x /\ x <= 32767
    BY <1>4, SMT DEF ValuesOf, I16
  <2>2. Unsigned(Bytes(x, 2)) = IF x < 0 THEN x + 65536 ELSE x
    BY <2>1, Unsigned2
  <2> QED BY <1>4, <2>1, <2>2, SMT DEF Decode, I16
<1>5. CASE k = U32
  <2>1. x \in Int /\ 0 <= x /\ x <= 4294967295
    BY <1>5, SMT DEF ValuesOf, U32
  <2>2. Unsigned(Bytes(x, 4)) = x
    <3>1. Unsigned(Bytes(x, 4)) = IF x < 0 THEN x + 4294967296 ELSE x
      BY <2>1, Unsigned4
    <3> QED BY <2>1, <3>1
  <2> QED BY <1>5, <2>2 DEF Decode, U32
<1>6. CASE k = I32
  <2>1. x \in Int /\ -2147483648 <= x /\ x <= 2147483647
    BY <1>6, SMT DEF ValuesOf, I32
  <2>2. Unsigned(Bytes(x, 4)) = IF x < 0 THEN x + 4294967296 ELSE x
    BY <2>1, Unsigned4
  <2> QED BY <1>6, <2>1, <2>2, SMT DEF Decode, I32
<1> QED BY <1>1, <1>2, <1>3, <1>4, <1>5, <1>6 DEF Kinds

-----------------------------------------------------------------------------
(* The array holds the bytes of x behind its first at ones. *)
Carries(data, at, x, w) == \A k \in 1 .. w : data[at + k] = Bytes(x, w)[k]

(* The bytes of a field are a sequence of its width. *)
LEMMA BytesTyped ==
  ASSUME RADIX = 256, NEW x \in Int, NEW w \in {1, 2, 4}
  PROVE  /\ Bytes(x, w) \in Seq(Byte)
         /\ Len(Bytes(x, w)) = w
         /\ Bytes(x, w) = [k \in 1 .. w |-> Bytes(x, w)[k]]
<1> DEFINE b1 == x % 256
           b2 == (x \div 256) % 256
           b3 == (x \div 65536) % 256
           b4 == (x \div 16777216) % 256
           b == <<b1, b2, b3, b4>>
<1>1. b1 \in 0 .. 255 /\ b2 \in 0 .. 255 /\ b3 \in 0 .. 255 /\ b4 \in 0 .. 255
  BY SMT
<1>2. Bytes(x, w) = [k \in 1 .. w |-> b[k]]
  BY SMT DEF Bytes
<1>3. Byte = 0 .. 255
  BY SMT DEF Byte
<1> HIDE DEF b1, b2, b3, b4
<1>4. b[1] \in Byte /\ b[2] \in Byte /\ b[3] \in Byte /\ b[4] \in Byte
  BY <1>1, <1>3
<1> HIDE DEF b
<1>5. \A k \in 1 .. w : b[k] \in Byte
  BY <1>4, SMT
<1>6. [k \in 1 .. w |-> b[k]] \in [1 .. w -> Byte]
  BY <1>5
<1>7. w \in Nat
  OBVIOUS
<1>8. [k \in 1 .. w |-> b[k]] \in Seq(Byte) /\ Len([k \in 1 .. w |-> b[k]]) = w
  BY <1>6, <1>7, SMT
<1> QED BY <1>2, <1>8

(* Where the elements of a part of a sequence come from. *)
LEMMA Part ==
  ASSUME NEW S, NEW data \in Seq(S), NEW at \in Nat, NEW w \in Nat, at + w <= Len(data)
  PROVE  /\ SubSeq(data, at + 1, at + w) \in Seq(S)
         /\ Len(SubSeq(data, at + 1, at + w)) = w
         /\ \A i \in 1 .. w : SubSeq(data, at + 1, at + w)[i] = data[at + i]
<1> DEFINE m == at + 1
           n == at + w
<1>1. m \in Int /\ n \in Int /\ n - m + 1 = w /\ (m <= n \/ w = 0)
  OBVIOUS
<1>2. \A i \in m .. n : data[i] \in S
  OBVIOUS
<1>3. \A i \in 1 .. w : m + i - 1 = at + i
  OBVIOUS
<1> HIDE DEF m, n
<1>4. /\ SubSeq(data, m, n) \in Seq(S)
      /\ Len(SubSeq(data, m, n)) = IF m <= n THEN n - m + 1 ELSE 0
      /\ \A i \in 1 .. n - m + 1 : SubSeq(data, m, n)[i] = data[m + i - 1]
  BY ONLY <1>1, <1>2, SubSeqProperties
<1>5. Len(SubSeq(data, m, n)) = w
  BY <1>1, <1>4
<1>6. \A i \in 1 .. w : SubSeq(data, m, n)[i] = data[at + i]
  BY <1>1, <1>3, <1>4
<1> QED BY <1>4, <1>5, <1>6 DEF m, n

(* A field that is whole is read as what was written. *)
LEMMA ReadsField ==
  ASSUME RADIX = 256, NEW data \in Seq(Byte), NEW at \in Nat, NEW k \in Kinds,
         NEW x \in ValuesOf(k), at + k.width <= Len(data),
         Carries(data, at, x, k.width)
  PROVE  Decode(SubSeq(data, at + 1, at + k.width), k) = x
<1> DEFINE w == k.width
           s == SubSeq(data, at + 1, at + w)
           t == Bytes(x, w)
<1>1. w \in {1, 2, 4}
  BY DEF Kinds, U8, U16, U32, I8, I16, I32
<1>2. x \in Int
  BY ValueCounts, <1>1 DEF ValuesOf
<1>3. t \in Seq(Byte) /\ Len(t) = w
  BY <1>1, <1>2, BytesTyped
<1>4. s \in Seq(Byte) /\ Len(s) = w /\ \A i \in 1 .. w : s[i] = data[at + i]
  <2>1. w \in Nat /\ at + w <= Len(data)
    BY <1>1
  <2>2. data \in Seq(Byte) /\ at \in Nat
    OBVIOUS
  <2> HIDE DEF w
  <2> QED BY ONLY <2>1, <2>2, Part, Zenon
<1>5. \A i \in 1 .. w : s[i] = t[i]
  BY <1>4 DEF Carries
<1>6. s = t
  <2> HIDE DEF s, t, w
  <2> QED BY <1>3, <1>4, <1>5, SeqEqual
<1> QED BY <1>6, RoundTrip

-----------------------------------------------------------------------------
(* A field at a place of an array, if there is room for it. *)
Field(data, at, k, x) == at + k.width <= Len(data) => Carries(data, at, x, k.width)

(* A writer into an array of that size, after fields that end at end and   *)
(* of which the last is width bytes wide: those with room are in place,    *)
(* and what had no room is reported and has none now.                      *)
Writing(w, size, end, width, fields) ==
  \E data \in Seq(Byte), at \in Nat :
    /\ w = [b |-> [buffer |-> data, index |-> at],
            result |-> IF end <= size THEN 0 ELSE 1]
    /\ Len(data) = size /\ at <= size
    /\ IF end <= size THEN at = end ELSE size - at < width
    /\ \A f \in fields : /\ Field(data, f.at, f.kind, f.x)
                         /\ f.at + f.kind.width <= size => f.at + f.kind.width <= at

(* Bytes put behind others leave those alone. *)
LEMMA PutBehind ==
  ASSUME RADIX = 256, NEW data \in Seq(Byte), NEW at \in Nat, NEW x \in Int,
         NEW w \in {1, 2, 4}, at + w <= Len(data)
  PROVE  \E d \in Seq(Byte) :
           /\ Put([buffer |-> data, index |-> at], Bytes(x, w))
                = [buffer |-> d, index |-> at + w]
           /\ Len(d) = Len(data)
           /\ Carries(d, at, x, w)
           /\ \A i \in 1 .. at : d[i] = data[i]
<1> DEFINE t == Bytes(x, w)
           d == [i \in 1 .. Len(data) |-> IF i - at \in 1 .. w THEN t[i - at] ELSE data[i]]
<1>1. t \in Seq(Byte) /\ Len(t) = w
  BY BytesTyped
<1>2. Put([buffer |-> data, index |-> at], t) = [buffer |-> d, index |-> at + w]
  BY <1>1 DEF Put
<1> HIDE DEF t
<1>3. \A i \in 1 .. Len(data) : (IF i - at \in 1 .. w THEN t[i - at] ELSE data[i]) \in Byte
  BY <1>1
<1>4. d \in [1 .. Len(data) -> Byte]
  BY <1>3
<1>5. d \in Seq(Byte) /\ Len(d) = Len(data)
  BY <1>4
<1>6. \A k \in 1 .. w : d[at + k] = t[k]
  OBVIOUS
<1>7. \A i \in 1 .. at : d[i] = data[i]
  OBVIOUS
<1> HIDE DEF d
<1> QED BY <1>2, <1>5, <1>6, <1>7 DEF Carries, t

(* One more field, no narrower than the one before. *)
LEMMA WritesField ==
  ASSUME RADIX = 256, NEW w, NEW size \in Nat, NEW end \in Nat, NEW width \in Nat,
         NEW fields, \A f \in fields : f.at \in Nat /\ f.kind \in Kinds,
         Writing(w, size, end, width, fields),
         NEW k \in Kinds, width <= k.width, NEW x \in Int
  PROVE  Writing(WriteField(w, k, x), size, end + k.width, k.width,
                 fields \cup {[at |-> end, kind |-> k, x |-> x]})
<1>1. PICK data \in Seq(Byte), at \in Nat :
        /\ w = [b |-> [buffer |-> data, index |-> at],
                result |-> IF end <= size THEN 0 ELSE 1]
        /\ Len(data) = size /\ at <= size
        /\ IF end <= size THEN at = end ELSE size - at < width
        /\ \A f \in fields : /\ Field(data, f.at, f.kind, f.x)
                             /\ f.at + f.kind.width <= size => f.at + f.kind.width <= at
  BY DEF Writing
<1>2. k.width \in {1, 2, 4} /\ \A f \in fields : f.kind.width \in {1, 2, 4}
  BY DEF Kinds, U8, U16, U32, I8, I16, I32
<1> DEFINE new == [at |-> end, kind |-> k, x |-> x]
<1>3. w.b = [buffer |-> data, index |-> at] /\ Room(w.b) = size - at
  BY <1>1 DEF Room
<1>4. CASE end + k.width <= size
  <2>1. end <= size /\ at = end
    BY <1>1, <1>2, <1>4
  <2>2. Fits(w.b, k.width)
    BY <1>2, <1>3, <1>4, <2>1 DEF Fits
  <2>3. PICK d \in Seq(Byte) :
          /\ Put(w.b, Bytes(x, k.width)) = [buffer |-> d, index |-> at + k.width]
          /\ Len(d) = Len(data)
          /\ Carries(d, at, x, k.width)
          /\ \A i \in 1 .. at : d[i] = data[i]
    <3>1. at + k.width <= Len(data)
      BY <1>1, <1>4, <2>1
    <3>2. \E d \in Seq(Byte) :
            /\ Put([buffer |-> data, index |-> at], Bytes(x, k.width))
                 = [buffer |-> d, index |-> at + k.width]
            /\ Len(d) = Len(data)
            /\ Carries(d, at, x, k.width)
            /\ \A i \in 1 .. at : d[i] = data[i]
      <4> HIDE DEF new
      <4> QED BY <1>2, <3>1, PutBehind, Zenon
    <3> QED BY <1>3, <3>2, Zenon
  <2>4. WriteField(w, k, x) = [b |-> [buffer |-> d, index |-> at + k.width], result |-> 0]
    BY <1>1, <2>1, <2>2, <2>3 DEF WriteField
  <2>5. \A f \in fields : /\ Field(d, f.at, f.kind, f.x)
                          /\ f.at + f.kind.width <= size
                                => f.at + f.kind.width <= at + k.width
    <3> TAKE f \in fields
    <3>1. CASE f.at + f.kind.width <= size
      <4>1. Carries(data, f.at, f.x, f.kind.width) /\ f.at + f.kind.width <= at
        BY <1>1, <3>1 DEF Field
      <4>2. \A j \in 1 .. f.kind.width : d[f.at + j] = data[f.at + j]
        <5>1. f.at \in Nat /\ f.kind.width \in {1, 2, 4}
          BY <1>2
        <5>2. \A j \in 1 .. f.kind.width : f.at + j \in 1 .. at
          BY ONLY <4>1, <5>1, at \in Nat, SMT
        <5> QED BY <2>3, <5>2
      <4>3. Carries(d, f.at, f.x, f.kind.width)
        BY <4>1, <4>2 DEF Carries
      <4>4. f.at + f.kind.width <= at + k.width
        <5>1. f.at \in Nat /\ f.kind.width \in {1, 2, 4} /\ k.width \in {1, 2, 4}
          BY <1>2
        <5> DEFINE reach == f.at + f.kind.width
                   step == k.width
        <5>2. reach \in Nat /\ step \in Nat
          BY ONLY <5>1, SMT
        <5>3. reach <= at
          BY <4>1
        <5> HIDE DEF reach, step
        <5>4. reach <= at + step
          BY ONLY <5>2, <5>3, at \in Nat, SMT
        <5> QED BY <5>4 DEF reach, step
      <4> QED BY <4>3, <4>4 DEF Field
    <3>2. CASE ~(f.at + f.kind.width <= size)
      BY <1>1, <2>3, <3>2 DEF Field
    <3> QED BY <3>1, <3>2
  <2>6. Field(d, new.at, new.kind, new.x) /\ new.at + new.kind.width <= at + k.width
    BY <1>2, <2>1, <2>3 DEF Field
  <2>7. \A f \in fields \cup {new} :
          /\ Field(d, f.at, f.kind, f.x)
          /\ f.at + f.kind.width <= size => f.at + f.kind.width <= at + k.width
    <3> HIDE DEF new
    <3> SUFFICES ASSUME NEW f \in fields \cup {new}
                 PROVE  /\ Field(d, f.at, f.kind, f.x)
                        /\ f.at + f.kind.width <= size
                             => f.at + f.kind.width <= at + k.width
      OBVIOUS
    <3>1. CASE f \in fields
      BY <2>5, <3>1, Zenon
    <3>2. CASE f = new
      BY <2>6, <3>2
    <3> QED BY <3>1, <3>2
  <2>8. Len(d) = size /\ at + k.width <= size /\ at + k.width = end + k.width
        /\ at + k.width \in Nat
    BY <1>1, <1>2, <1>4, <2>1, <2>3
  <2> QED BY <1>4, <2>4, <2>7, <2>8 DEF Writing
<1>5. CASE ~(end + k.width <= size)
  <2>1. size - at < k.width
    BY <1>1, <1>2, <1>5
  <2>2. ~Fits(w.b, k.width)
    BY <1>1, <1>2, <1>3, <2>1 DEF Fits
  <2>3. WriteField(w, k, x) = [b |-> [buffer |-> data, index |-> at], result |-> 1]
    BY <1>1, <2>2 DEF WriteField
  <2>4. Field(data, new.at, new.kind, new.x) /\ ~(new.at + new.kind.width <= size)
    BY <1>1, <1>5 DEF Field
  <2>5. \A f \in fields \cup {new} :
          /\ Field(data, f.at, f.kind, f.x)
          /\ f.at + f.kind.width <= size => f.at + f.kind.width <= at
    BY <1>1, <2>4
  <2> QED BY <1>1, <1>5, <2>1, <2>3, <2>5 DEF Writing
<1> QED BY <1>4, <1>5

(* What the fields of a message may hold is an int's. *)
LEMMA ValuesAreInts ==
  ASSUME RADIX = 256, NEW k \in Kinds
  PROVE  ValuesOf(k) \subseteq Int
BY ValueCounts DEF ValuesOf, Kinds, U8, U16, U32, I8, I16, I32

(* The widths of the fields, which never decrease within a message.        *)
LEMMA Widths ==
  /\ U16 \in Kinds /\ U16.width = 2
  /\ I32 \in Kinds /\ I32.width = 4
  /\ U32 \in Kinds /\ U32.width = 4
BY DEF Kinds, U16, I32, U32

(* An empty array of zeros, before the first field. *)
LEMMA WritesNothing ==
  ASSUME RADIX = 256, NEW size \in Nat
  PROVE  Writing(Writer(Zeros(size)), size, 0, 0, {})
<1>1. Zeros(size) \in [1 .. size -> Byte]
  BY DEF Zeros, Byte
<1>2. Zeros(size) \in Seq(Byte) /\ Len(Zeros(size)) = size
  BY <1>1
<1>3. Writer(Zeros(size)) = [b |-> [buffer |-> Zeros(size), index |-> 0], result |-> 0]
  BY DEF Writer, WriteInit
<1> QED BY <1>2, <1>3 DEF Writing

(* Fields at places where a field may be. *)
Placed(fields) == \A f \in fields : f.at \in Nat /\ f.kind \in Kinds

(* The next field, of one of the kinds that messages have. *)
LEMMA WritesNext ==
  ASSUME RADIX = 256, NEW w, NEW size \in Nat, NEW end \in Nat, NEW width \in Nat,
         NEW fields, Placed(fields), Writing(w, size, end, width, fields),
         NEW k \in Kinds, width <= k.width, NEW x \in Int,
         NEW more, more = fields \cup {[at |-> end, kind |-> k, x |-> x]}
  PROVE  Writing(WriteField(w, k, x), size, end + k.width, k.width, more) /\ Placed(more)
<1> DEFINE new == [at |-> end, kind |-> k, x |-> x]
<1>2. Writing(WriteField(w, k, x), size, end + k.width, k.width, fields \cup {new})
  BY WritesField DEF Placed
<1>3. new.at \in Nat /\ new.kind \in Kinds
  OBVIOUS
<1> HIDE DEF new
<1>4. Placed(fields \cup {new})
  BY <1>3 DEF Placed
<1> QED BY <1>2, <1>4 DEF new

(* What the array of a base message holds. *)
BaseOnWire(data, m) ==
  /\ Field(data, 0, U16, m[1]) /\ Field(data, 2, U16, m[2]) /\ Field(data, 4, U16, m[3])
  /\ Field(data, 6, I32, m[4]) /\ Field(data, 10, I32, m[5])
  /\ Field(data, 14, I32, m[6]) /\ Field(data, 18, I32, m[7])
  /\ Field(data, 22, U32, m[8])

TimeOnWire(data, m) == Field(data, 0, I32, m[1]) /\ Field(data, 4, I32, m[2])

(* base_message_serialize puts as many fields into the array as it has     *)
(* room for, and fails unless it has room for all.                         *)
LEMMA BaseSerialized ==
  ASSUME RADIX = 256, NEW m, NEW size \in Nat,
         m[1] \in Int, m[2] \in Int, m[3] \in Int, m[4] \in Int,
         m[5] \in Int, m[6] \in Int, m[7] \in Int, m[8] \in Int
  PROVE  LET w == BaseMessageSerialize(m, Zeros(size))
         IN  /\ w.b.buffer \in Seq(Byte) /\ Len(w.b.buffer) = size
             /\ BaseOnWire(w.b.buffer, m)
             /\ w.result = 0 <=> size >= BASE_MESSAGE_SIZE
<1> DEFINE w0 == Writer(Zeros(size))
           w1 == WriteField(w0, U16, m[1])
           w2 == WriteField(w1, U16, m[2])
           w3 == WriteField(w2, U16, m[3])
           w4 == WriteField(w3, I32, m[4])
           w5 == WriteField(w4, I32, m[5])
           w6 == WriteField(w5, I32, m[6])
           w7 == WriteField(w6, I32, m[7])
           w8 == WriteField(w7, U32, m[8])
           f0 == {}
           f1 == f0 \cup {[at |-> 0, kind |-> U16, x |-> m[1]]}
           f2 == f1 \cup {[at |-> 2, kind |-> U16, x |-> m[2]]}
           f3 == f2 \cup {[at |-> 4, kind |-> U16, x |-> m[3]]}
           f4 == f3 \cup {[at |-> 6, kind |-> I32, x |-> m[4]]}
           f5 == f4 \cup {[at |-> 10, kind |-> I32, x |-> m[5]]}
           f6 == f5 \cup {[at |-> 14, kind |-> I32, x |-> m[6]]}
           f7 == f6 \cup {[at |-> 18, kind |-> I32, x |-> m[7]]}
           f8 == f7 \cup {[at |-> 22, kind |-> U32, x |-> m[8]]}
<1>0. Writing(w0, size, 0, 0, f0) /\ Placed(f0)
  BY WritesNothing DEF Placed
<1>1. Writing(w1, size, 2, 2, f1) /\ Placed(f1)
  <2>1. w1 = WriteField(w0, U16, m[1])
        /\ f1 = f0 \cup {[at |-> 0, kind |-> U16, x |-> m[1]]}
    OBVIOUS
  <2> HIDE DEF w1, w0, f1, f0
  <2>2. U16 \in Kinds /\ 0 <= U16.width /\ 0 \in Nat /\ 0 \in Nat
    BY Widths
  <2>3. /\ Writing(WriteField(w0, U16, m[1]), size, 0 + U16.width,
                   U16.width, f1)
        /\ Placed(f1)
    BY ONLY RADIX = 256, size \in Nat, m[1] \in Int, <1>0, <2>1, <2>2,
       WritesNext
  <2>4. 0 + U16.width = 2 /\ U16.width = 2
    BY Widths
  <2> QED BY ONLY <2>1, <2>3, <2>4, Zenon
<1>2. Writing(w2, size, 4, 2, f2) /\ Placed(f2)
  <2>1. w2 = WriteField(w1, U16, m[2])
        /\ f2 = f1 \cup {[at |-> 2, kind |-> U16, x |-> m[2]]}
    OBVIOUS
  <2> HIDE DEF w2, w1, f2, f1
  <2>2. U16 \in Kinds /\ 2 <= U16.width /\ 2 \in Nat /\ 2 \in Nat
    BY Widths
  <2>3. /\ Writing(WriteField(w1, U16, m[2]), size, 2 + U16.width,
                   U16.width, f2)
        /\ Placed(f2)
    BY ONLY RADIX = 256, size \in Nat, m[2] \in Int, <1>1, <2>1, <2>2,
       WritesNext
  <2>4. 2 + U16.width = 4 /\ U16.width = 2
    BY Widths
  <2> QED BY ONLY <2>1, <2>3, <2>4, Zenon
<1>3. Writing(w3, size, 6, 2, f3) /\ Placed(f3)
  <2>1. w3 = WriteField(w2, U16, m[3])
        /\ f3 = f2 \cup {[at |-> 4, kind |-> U16, x |-> m[3]]}
    OBVIOUS
  <2> HIDE DEF w3, w2, f3, f2
  <2>2. U16 \in Kinds /\ 2 <= U16.width /\ 2 \in Nat /\ 4 \in Nat
    BY Widths
  <2>3. /\ Writing(WriteField(w2, U16, m[3]), size, 4 + U16.width,
                   U16.width, f3)
        /\ Placed(f3)
    BY ONLY RADIX = 256, size \in Nat, m[3] \in Int, <1>2, <2>1, <2>2,
       WritesNext
  <2>4. 4 + U16.width = 6 /\ U16.width = 2
    BY Widths
  <2> QED BY ONLY <2>1, <2>3, <2>4, Zenon
<1>4. Writing(w4, size, 10, 4, f4) /\ Placed(f4)
  <2>1. w4 = WriteField(w3, I32, m[4])
        /\ f4 = f3 \cup {[at |-> 6, kind |-> I32, x |-> m[4]]}
    OBVIOUS
  <2> HIDE DEF w4, w3, f4, f3
  <2>2. I32 \in Kinds /\ 2 <= I32.width /\ 2 \in Nat /\ 6 \in Nat
    BY Widths
  <2>3. /\ Writing(WriteField(w3, I32, m[4]), size, 6 + I32.width,
                   I32.width, f4)
        /\ Placed(f4)
    BY ONLY RADIX = 256, size \in Nat, m[4] \in Int, <1>3, <2>1, <2>2,
       WritesNext
  <2>4. 6 + I32.width = 10 /\ I32.width = 4
    BY Widths
  <2> QED BY ONLY <2>1, <2>3, <2>4, Zenon
<1>5. Writing(w5, size, 14, 4, f5) /\ Placed(f5)
  <2>1. w5 = WriteField(w4, I32, m[5])
        /\ f5 = f4 \cup {[at |-> 10, kind |-> I32, x |-> m[5]]}
    OBVIOUS
  <2> HIDE DEF w5, w4, f5, f4
  <2>2. I32 \in Kinds /\ 4 <= I32.width /\ 4 \in Nat /\ 10 \in Nat
    BY Widths
  <2>3. /\ Writing(WriteField(w4, I32, m[5]), size, 10 + I32.width,
                   I32.width, f5)
        /\ Placed(f5)
    BY ONLY RADIX = 256, size \in Nat, m[5] \in Int, <1>4, <2>1, <2>2,
       WritesNext
  <2>4. 10 + I32.width = 14 /\ I32.width = 4
    BY Widths
  <2> QED BY ONLY <2>1, <2>3, <2>4, Zenon
<1>6. Writing(w6, size, 18, 4, f6) /\ Placed(f6)
  <2>1. w6 = WriteField(w5, I32, m[6])
        /\ f6 = f5 \cup {[at |-> 14, kind |-> I32, x |-> m[6]]}
    OBVIOUS
  <2> HIDE DEF w6, w5, f6, f5
  <2>2. I32 \in Kinds /\ 4 <= I32.width /\ 4 \in Nat /\ 14 \in Nat
    BY Widths
  <2>3. /\ Writing(WriteField(w5, I32, m[6]), size, 14 + I32.width,
                   I32.width, f6)
        /\ Placed(f6)
    BY ONLY RADIX = 256, size \in Nat, m[6] \in Int, <1>5, <2>1, <2>2,
       WritesNext
  <2>4. 14 + I32.width = 18 /\ I32.width = 4
    BY Widths
  <2> QED BY ONLY <2>1, <2>3, <2>4, Zenon
<1>7. Writing(w7, size, 22, 4, f7) /\ Placed(f7)
  <2>1. w7 = WriteField(w6, I32, m[7])
        /\ f7 = f6 \cup {[at |-> 18, kind |-> I32, x |-> m[7]]}
    OBVIOUS
  <2> HIDE DEF w7, w6, f7, f6
  <2>2. I32 \in Kinds /\ 4 <= I32.width /\ 4 \in Nat /\ 18 \in Nat
    BY Widths
  <2>3. /\ Writing(WriteField(w6, I32, m[7]), size, 18 + I32.width,
                   I32.width, f7)
        /\ Placed(f7)
    BY ONLY RADIX = 256, size \in Nat, m[7] \in Int, <1>6, <2>1, <2>2,
       WritesNext
  <2>4. 18 + I32.width = 22 /\ I32.width = 4
    BY Widths
  <2> QED BY ONLY <2>1, <2>3, <2>4, Zenon
<1>8. Writing(w8, size, 26, 4, f8) /\ Placed(f8)
  <2>1. w8 = WriteField(w7, U32, m[8])
        /\ f8 = f7 \cup {[at |-> 22, kind |-> U32, x |-> m[8]]}
    OBVIOUS
  <2> HIDE DEF w8, w7, f8, f7
  <2>2. U32 \in Kinds /\ 4 <= U32.width /\ 4 \in Nat /\ 22 \in Nat
    BY Widths
  <2>3. /\ Writing(WriteField(w7, U32, m[8]), size, 22 + U32.width,
                   U32.width, f8)
        /\ Placed(f8)
    BY ONLY RADIX = 256, size \in Nat, m[8] \in Int, <1>7, <2>1, <2>2,
       WritesNext
  <2>4. 22 + U32.width = 26 /\ U32.width = 4
    BY Widths
  <2> QED BY ONLY <2>1, <2>3, <2>4, Zenon
<1>9. PICK data \in Seq(Byte), at \in Nat :
        /\ w8 = [b |-> [buffer |-> data, index |-> at],
                 result |-> IF 26 <= size THEN 0 ELSE 1]
        /\ Len(data) = size
        /\ \A f \in f8 : Field(data, f.at, f.kind, f.x)
  <2> HIDE DEF w8, f8
  <2> QED BY <1>8 DEF Writing
<1>10. BaseMessageSerialize(m, Zeros(size)) = w8
  BY DEF BaseMessageSerialize, WriteTimestamp
<1>11. BaseOnWire(data, m)
  BY <1>9 DEF BaseOnWire
<1>12. w8.b.buffer = data /\ (w8.result = 0 <=> size >= 26)
  <2> HIDE DEF w8
  <2> QED BY <1>9
<1> HIDE DEF w8
<1> QED BY <1>9, <1>10, <1>11, <1>12 DEF BASE_MESSAGE_SIZE

(* The same of time_message_serialize. *)
LEMMA TimeSerialized ==
  ASSUME RADIX = 256, NEW m, NEW size \in Nat, m[1] \in Int, m[2] \in Int
  PROVE  LET w == TimeMessageSerialize(m, Zeros(size))
         IN  /\ w.b.buffer \in Seq(Byte) /\ Len(w.b.buffer) = size
             /\ TimeOnWire(w.b.buffer, m)
             /\ w.result = 0 <=> size >= TIME_MESSAGE_SIZE
<1> DEFINE w0 == Writer(Zeros(size))
           w1 == WriteField(w0, I32, m[1])
           w2 == WriteField(w1, I32, m[2])
           f0 == {}
           f1 == f0 \cup {[at |-> 0, kind |-> I32, x |-> m[1]]}
           f2 == f1 \cup {[at |-> 4, kind |-> I32, x |-> m[2]]}
<1>0. Writing(w0, size, 0, 0, f0) /\ Placed(f0)
  BY WritesNothing DEF Placed
<1>1. Writing(w1, size, 4, 4, f1) /\ Placed(f1)
  <2>1. w1 = WriteField(w0, I32, m[1])
        /\ f1 = f0 \cup {[at |-> 0, kind |-> I32, x |-> m[1]]}
    OBVIOUS
  <2> HIDE DEF w1, w0, f1, f0
  <2>2. I32 \in Kinds /\ 0 <= I32.width /\ 0 \in Nat /\ 0 \in Nat
    BY Widths
  <2>3. /\ Writing(WriteField(w0, I32, m[1]), size, 0 + I32.width, I32.width, f1)
        /\ Placed(f1)
    BY ONLY RADIX = 256, size \in Nat, m[1] \in Int, <1>0, <2>1, <2>2, WritesNext
  <2>4. 0 + I32.width = 4 /\ I32.width = 4
    BY Widths
  <2> QED BY ONLY <2>1, <2>3, <2>4, Zenon
<1>2. Writing(w2, size, 8, 4, f2) /\ Placed(f2)
  <2>1. w2 = WriteField(w1, I32, m[2])
        /\ f2 = f1 \cup {[at |-> 4, kind |-> I32, x |-> m[2]]}
    OBVIOUS
  <2> HIDE DEF w2, w1, f2, f1
  <2>2. I32 \in Kinds /\ 4 <= I32.width /\ 4 \in Nat /\ 4 \in Nat
    BY Widths
  <2>3. /\ Writing(WriteField(w1, I32, m[2]), size, 4 + I32.width, I32.width, f2)
        /\ Placed(f2)
    BY ONLY RADIX = 256, size \in Nat, m[2] \in Int, <1>1, <2>1, <2>2, WritesNext
  <2>4. 4 + I32.width = 8 /\ I32.width = 4
    BY Widths
  <2> QED BY ONLY <2>1, <2>3, <2>4, Zenon
<1>3. PICK data \in Seq(Byte), at \in Nat :
        /\ w2 = [b |-> [buffer |-> data, index |-> at],
                 result |-> IF 8 <= size THEN 0 ELSE 1]
        /\ Len(data) = size
        /\ \A f \in f2 : Field(data, f.at, f.kind, f.x)
  <2> HIDE DEF w2, f2
  <2> QED BY <1>2 DEF Writing
<1>4. TimeMessageSerialize(m, Zeros(size)) = w2
  BY DEF TimeMessageSerialize, WriteTimestamp
<1>5. TimeOnWire(data, m)
  BY <1>3 DEF TimeOnWire
<1>6. w2.b.buffer = data /\ (w2.result = 0 <=> size >= 8)
  <2> HIDE DEF w2
  <2> QED BY <1>3
<1> HIDE DEF w2
<1> QED BY <1>3, <1>4, <1>5, <1>6 DEF TIME_MESSAGE_SIZE

-----------------------------------------------------------------------------
(* What arrives of an array still holds the fields that arrive whole. *)
LEMMA Cut ==
  ASSUME RADIX = 256, NEW data \in Seq(Byte), NEW n \in 0 .. Len(data)
  PROVE  /\ SubSeq(data, 1, n) \in Seq(Byte)
         /\ Len(SubSeq(data, 1, n)) = n
         /\ \A i \in 1 .. n : SubSeq(data, 1, n)[i] = data[i]
         /\ \A at \in Nat, k \in Kinds : \A x : Field(data, at, k, x) =>
                                              Field(SubSeq(data, 1, n), at, k, x)
<1> DEFINE s == SubSeq(data, 1, n)
<1>1. s \in Seq(Byte) /\ Len(s) = n /\ \A i \in 1 .. n : s[i] = data[i]
  BY Part, SMT
<1> HIDE DEF s
<1>2. ASSUME NEW at \in Nat, NEW k \in Kinds, NEW x, Field(data, at, k, x)
      PROVE  Field(s, at, k, x)
  <2>1. k.width \in {1, 2, 4}
    BY DEF Kinds, U8, U16, U32, I8, I16, I32
  <2>2. SUFFICES ASSUME at + k.width <= n PROVE Carries(s, at, x, k.width)
    BY <1>1 DEF Field
  <2>3. Carries(data, at, x, k.width)
    BY <1>2, <2>1, <2>2 DEF Field
  <2>4. \A i \in 1 .. k.width : s[at + i] = data[at + i]
    BY <1>1, <2>1, <2>2
  <2> QED BY <2>3, <2>4 DEF Carries
<1> QED BY <1>1, <1>2 DEF s

(* The beginnings of a sequence grow by its elements. *)
LEMMA Beginning ==
  ASSUME NEW S, NEW all \in Seq(S), NEW n \in Nat, n + 1 <= Len(all)
  PROVE  Append(SubSeq(all, 1, n), all[n + 1]) = SubSeq(all, 1, n + 1)
<1> DEFINE s == SubSeq(all, 1, n)
           t == SubSeq(all, 1, n + 1)
<1>1. s \in Seq(S) /\ Len(s) = n /\ \A i \in 1 .. n : s[i] = all[i]
  BY 0 \in Nat, 0 + n <= Len(all), 0 + n = n, 0 + 1 = 1, Part
<1>2. t \in Seq(S) /\ Len(t) = n + 1 /\ \A i \in 1 .. n + 1 : t[i] = all[i]
  BY 0 \in Nat, Part
<1>3. all[n + 1] \in S
  OBVIOUS
<1> HIDE DEF s, t
<1>4. /\ Append(s, all[n + 1]) \in Seq(S) /\ Len(Append(s, all[n + 1])) = n + 1
      /\ \A i \in 1 .. n + 1 : Append(s, all[n + 1])[i] = all[i]
  BY <1>1, <1>3
<1>5. \A i \in 1 .. n + 1 : Append(s, all[n + 1])[i] = t[i]
  BY <1>2, <1>4
<1> QED BY <1>2, <1>4, <1>5, SeqEqual DEF s, t

(* A reader of data after n fields, which end at end and of which the last *)
(* is width bytes wide; all is what it will have read in the end.          *)
Reading(r, data, end, width, all, n) ==
  \E at \in Nat :
    /\ r = [b |-> [buffer |-> data, index |-> at], values |-> SubSeq(all, 1, n),
            result |-> IF end <= Len(data) THEN 0 ELSE 1]
    /\ at <= Len(data)
    /\ IF end <= Len(data) THEN at = end ELSE Len(data) - at < width

(* What is got of a field that ends there. *)
Got(data, end, x) == IF end <= Len(data) THEN x ELSE Old

(* Before the first field, nothing has been read. *)
LEMMA ReadsNothing ==
  ASSUME NEW data \in Seq(Byte), NEW all
  PROVE  Reading(Reader(data), data, 0, 0, all, 0)
<1> DEFINE none == SubSeq(all, 1, 0)
<1>1. none = <<>>
  BY SubSeqEmpty
<1> HIDE DEF none
<1>2. Reader(data) = [b |-> [buffer |-> data, index |-> 0], values |-> none, result |-> 0]
  BY <1>1 DEF Reader, ReadInit
<1>3. \E at \in Nat :
        /\ Reader(data) = [b |-> [buffer |-> data, index |-> at], values |-> none,
                           result |-> IF 0 <= Len(data) THEN 0 ELSE 1]
        /\ at <= Len(data)
        /\ IF 0 <= Len(data) THEN at = 0 ELSE Len(data) - at < 0
  BY <1>2
<1> QED BY <1>3, Zenon DEF Reading, none

(* One more field, no narrower than the one before. *)
LEMMA ReadsNext ==
  ASSUME RADIX = 256, NEW data \in Seq(Byte), NEW r, NEW end \in Nat, NEW width \in Nat,
         NEW S, NEW all \in Seq(S), NEW n \in Nat, n + 1 <= Len(all),
         Reading(r, data, end, width, all, n),
         NEW k \in Kinds, width <= k.width, NEW x \in ValuesOf(k), Field(data, end, k, x),
         all[n + 1] = Got(data, end + k.width, x)
  PROVE  Reading(ReadField(r, k), data, end + k.width, k.width, all, n + 1)
<1>1. PICK at \in Nat :
        /\ r = [b |-> [buffer |-> data, index |-> at], values |-> SubSeq(all, 1, n),
                result |-> IF end <= Len(data) THEN 0 ELSE 1]
        /\ at <= Len(data)
        /\ IF end <= Len(data) THEN at = end ELSE Len(data) - at < width
  BY DEF Reading
<1>2. k.width \in {1, 2, 4}
  BY DEF Kinds, U8, U16, U32, I8, I16, I32
<1>3. r.b = [buffer |-> data, index |-> at] /\ Room(r.b) = Len(data) - at
  BY <1>1 DEF Room
<1>4. CASE end + k.width <= Len(data)
  <2>1. end <= Len(data) /\ at = end
    BY <1>1, <1>2, <1>4
  <2>2. Fits(r.b, k.width)
    BY <1>2, <1>3, <1>4, <2>1 DEF Fits
  <2>3. Decode(NextBytes(r.b, k.width), k) = x
    <3>1. Carries(data, end, x, k.width)
      BY <1>4 DEF Field
    <3>2. Decode(SubSeq(data, end + 1, end + k.width), k) = x
      BY <1>4, <3>1, ReadsField
    <3> QED BY <1>3, <2>1, <3>2 DEF NextBytes
  <2>4. Advance(r.b, k.width) = [buffer |-> data, index |-> end + k.width]
    BY <1>3, <2>1 DEF Advance
  <2>9. Append(SubSeq(all, 1, n), x) = SubSeq(all, 1, n + 1)
    BY <1>4, Beginning DEF Got
  <2>5. ReadField(r, k) = [b |-> [buffer |-> data, index |-> end + k.width],
                           values |-> SubSeq(all, 1, n + 1), result |-> 0]
    BY <1>1, <2>1, <2>2, <2>3, <2>4, <2>9 DEF ReadField
  <2>7. end + k.width \in Nat
    BY <1>2
  <2> QED BY <1>4, <2>5, <2>7 DEF Reading
<1>5. CASE ~(end + k.width <= Len(data))
  <2>1. Len(data) - at < k.width
    BY <1>1, <1>2, <1>5
  <2>2. ~Fits(r.b, k.width)
    BY <1>1, <1>2, <1>3, <2>1 DEF Fits
  <2>9. Append(SubSeq(all, 1, n), Old) = SubSeq(all, 1, n + 1)
    BY <1>5, Beginning DEF Got
  <2>3. ReadField(r, k) = [b |-> [buffer |-> data, index |-> at],
                           values |-> SubSeq(all, 1, n + 1), result |-> 1]
    BY <1>1, <2>2, <2>9 DEF ReadField
  <2> QED BY <1>1, <1>5, <2>1, <2>3 DEF Reading
<1> QED BY <1>4, <1>5


(* base_message_deserialize gets the fields that are whole, and fails      *)
(* unless all are.                                                         *)
LEMMA BaseDeserialized ==
  ASSUME RADIX = 256, NEW data \in Seq(Byte), NEW m, BaseOnWire(data, m),
         m[1] \in ValuesOf(U16), m[2] \in ValuesOf(U16), m[3] \in ValuesOf(U16),
         m[4] \in ValuesOf(I32), m[5] \in ValuesOf(I32), m[6] \in ValuesOf(I32),
         m[7] \in ValuesOf(I32), m[8] \in ValuesOf(U32)
  PROVE  LET r == BaseMessageDeserialize(data)
         IN  /\ \A i \in DOMAIN BaseEnds :
                  r.values[i] = IF BaseEnds[i] <= Len(data) THEN m[i] ELSE Old
             /\ r.result = 0 <=> \A i \in DOMAIN BaseEnds : BaseEnds[i] <= Len(data)
<1>fields.
      /\ Field(data, 0, U16, m[1]) /\ Field(data, 2, U16, m[2]) /\ Field(data, 4, U16, m[3])
      /\ Field(data, 6, I32, m[4]) /\ Field(data, 10, I32, m[5])
      /\ Field(data, 14, I32, m[6]) /\ Field(data, 18, I32, m[7])
      /\ Field(data, 22, U32, m[8])
      /\ m[1] \in ValuesOf(U16) /\ m[2] \in ValuesOf(U16) /\ m[3] \in ValuesOf(U16)
      /\ m[4] \in ValuesOf(I32) /\ m[5] \in ValuesOf(I32) /\ m[6] \in ValuesOf(I32)
      /\ m[7] \in ValuesOf(I32) /\ m[8] \in ValuesOf(U32)
  BY DEF BaseOnWire, TimeOnWire
<1> DEFINE r0 == Reader(data)
           r1 == ReadField(r0, U16)
           r2 == ReadField(r1, U16)
           r3 == ReadField(r2, U16)
           r4 == ReadField(r3, I32)
           r5 == ReadField(r4, I32)
           r6 == ReadField(r5, I32)
           r7 == ReadField(r6, I32)
           r8 == ReadField(r7, U32)
           all == [i \in 1 .. 8 |-> Got(data, BaseEnds[i], m[i])]
           S == {Got(data, BaseEnds[i], m[i]) : i \in 1 .. 8}
<1>typed. all \in Seq(S) /\ Len(all) = 8
  OBVIOUS
<1>parts. \A i \in 1 .. 8 : all[i] = Got(data, BaseEnds[i], m[i])
  OBVIOUS
<1> HIDE DEF all, S
<1>0. Reading(r0, data, 0, 0, all, 0)
  BY ReadsNothing
<1>1. Reading(r1, data, 2, 2, all, 1)
  <2> HIDE DEF r0
  <2>1. /\ U16 \in Kinds /\ 0 <= U16.width /\ 0 \in Nat /\ 0 \in Nat /\ 0 \in Nat
        /\ 0 + U16.width = 2 /\ U16.width = 2 /\ 0 + 1 <= Len(all)
    BY <1>typed, Widths
  <2>2. all[0 + 1] = Got(data, 0 + U16.width, m[1])
    BY <1>parts, <2>1 DEF BaseEnds
  <2>3. Reading(ReadField(r0, U16), data, 0 + U16.width, U16.width, all, 0 + 1)
    BY ONLY RADIX = 256, data \in Seq(Byte), <1>0, <1>fields, <1>typed, <2>1, <2>2, ReadsNext
  <2> QED BY ONLY <2>1, <2>3
<1>2. Reading(r2, data, 4, 2, all, 2)
  <2> HIDE DEF r1
  <2>1. /\ U16 \in Kinds /\ 2 <= U16.width /\ 2 \in Nat /\ 2 \in Nat /\ 1 \in Nat
        /\ 2 + U16.width = 4 /\ U16.width = 2 /\ 1 + 1 <= Len(all)
    BY <1>typed, Widths
  <2>2. all[1 + 1] = Got(data, 2 + U16.width, m[2])
    BY <1>parts, <2>1 DEF BaseEnds
  <2>3. Reading(ReadField(r1, U16), data, 2 + U16.width, U16.width, all, 1 + 1)
    BY ONLY RADIX = 256, data \in Seq(Byte), <1>1, <1>fields, <1>typed, <2>1, <2>2, ReadsNext
  <2> QED BY ONLY <2>1, <2>3
<1>3. Reading(r3, data, 6, 2, all, 3)
  <2> HIDE DEF r2
  <2>1. /\ U16 \in Kinds /\ 2 <= U16.width /\ 4 \in Nat /\ 2 \in Nat /\ 2 \in Nat
        /\ 4 + U16.width = 6 /\ U16.width = 2 /\ 2 + 1 <= Len(all)
    BY <1>typed, Widths
  <2>2. all[2 + 1] = Got(data, 4 + U16.width, m[3])
    BY <1>parts, <2>1 DEF BaseEnds
  <2>3. Reading(ReadField(r2, U16), data, 4 + U16.width, U16.width, all, 2 + 1)
    BY ONLY RADIX = 256, data \in Seq(Byte), <1>2, <1>fields, <1>typed, <2>1, <2>2, ReadsNext
  <2> QED BY ONLY <2>1, <2>3
<1>4. Reading(r4, data, 10, 4, all, 4)
  <2> HIDE DEF r3
  <2>1. /\ I32 \in Kinds /\ 2 <= I32.width /\ 6 \in Nat /\ 2 \in Nat /\ 3 \in Nat
        /\ 6 + I32.width = 10 /\ I32.width = 4 /\ 3 + 1 <= Len(all)
    BY <1>typed, Widths
  <2>2. all[3 + 1] = Got(data, 6 + I32.width, m[4])
    BY <1>parts, <2>1 DEF BaseEnds
  <2>3. Reading(ReadField(r3, I32), data, 6 + I32.width, I32.width, all, 3 + 1)
    BY ONLY RADIX = 256, data \in Seq(Byte), <1>3, <1>fields, <1>typed, <2>1, <2>2, ReadsNext
  <2> QED BY ONLY <2>1, <2>3
<1>5. Reading(r5, data, 14, 4, all, 5)
  <2> HIDE DEF r4
  <2>1. /\ I32 \in Kinds /\ 4 <= I32.width /\ 10 \in Nat /\ 4 \in Nat /\ 4 \in Nat
        /\ 10 + I32.width = 14 /\ I32.width = 4 /\ 4 + 1 <= Len(all)
    BY <1>typed, Widths
  <2>2. all[4 + 1] = Got(data, 10 + I32.width, m[5])
    BY <1>parts, <2>1 DEF BaseEnds
  <2>3. Reading(ReadField(r4, I32), data, 10 + I32.width, I32.width, all, 4 + 1)
    BY ONLY RADIX = 256, data \in Seq(Byte), <1>4, <1>fields, <1>typed, <2>1, <2>2, ReadsNext
  <2> QED BY ONLY <2>1, <2>3
<1>6. Reading(r6, data, 18, 4, all, 6)
  <2> HIDE DEF r5
  <2>1. /\ I32 \in Kinds /\ 4 <= I32.width /\ 14 \in Nat /\ 4 \in Nat /\ 5 \in Nat
        /\ 14 + I32.width = 18 /\ I32.width = 4 /\ 5 + 1 <= Len(all)
    BY <1>typed, Widths
  <2>2. all[5 + 1] = Got(data, 14 + I32.width, m[6])
    BY <1>parts, <2>1 DEF BaseEnds
  <2>3. Reading(ReadField(r5, I32), data, 14 + I32.width, I32.width, all, 5 + 1)
    BY ONLY RADIX = 256, data \in Seq(Byte), <1>5, <1>fields, <1>typed, <2>1, <2>2, ReadsNext
  <2> QED BY ONLY <2>1, <2>3
<1>7. Reading(r7, data, 22, 4, all, 7)
  <2> HIDE DEF r6
  <2>1. /\ I32 \in Kinds /\ 4 <= I32.width /\ 18 \in Nat /\ 4 \in Nat /\ 6 \in Nat
        /\ 18 + I32.width = 22 /\ I32.width = 4 /\ 6 + 1 <= Len(all)
    BY <1>typed, Widths
  <2>2. all[6 + 1] = Got(data, 18 + I32.width, m[7])
    BY <1>parts, <2>1 DEF BaseEnds
  <2>3. Reading(ReadField(r6, I32), data, 18 + I32.width, I32.width, all, 6 + 1)
    BY ONLY RADIX = 256, data \in Seq(Byte), <1>6, <1>fields, <1>typed, <2>1, <2>2, ReadsNext
  <2> QED BY ONLY <2>1, <2>3
<1>8. Reading(r8, data, 26, 4, all, 8)
  <2> HIDE DEF r7
  <2>1. /\ U32 \in Kinds /\ 4 <= U32.width /\ 22 \in Nat /\ 4 \in Nat /\ 7 \in Nat
        /\ 22 + U32.width = 26 /\ U32.width = 4 /\ 7 + 1 <= Len(all)
    BY <1>typed, Widths
  <2>2. all[7 + 1] = Got(data, 22 + U32.width, m[8])
    BY <1>parts, <2>1 DEF BaseEnds
  <2>3. Reading(ReadField(r7, U32), data, 22 + U32.width, U32.width, all, 7 + 1)
    BY ONLY RADIX = 256, data \in Seq(Byte), <1>7, <1>fields, <1>typed, <2>1, <2>2, ReadsNext
  <2> QED BY ONLY <2>1, <2>3
<1>9. BaseMessageDeserialize(data) = r8
  BY DEF BaseMessageDeserialize, ReadTimestamp
<1>10. r8.values = SubSeq(all, 1, 8) /\ (r8.result = 0 <=> 26 <= Len(data))
  <2> HIDE DEF r8
  <2> QED BY <1>8 DEF Reading
<1> HIDE DEF r8
<1>11. \A i \in 1 .. 8 : r8.values[i] = Got(data, BaseEnds[i], m[i])
  <2>1. \A i \in 1 .. 8 : SubSeq(all, 1, 8)[i] = all[i]
    BY <1>typed
  <2> QED BY <1>parts, <1>10, <2>1
<1>12. /\ DOMAIN BaseEnds = 1 .. 8
       /\ ((\A i \in 1 .. 8 : BaseEnds[i] <= Len(data)) <=> 26 <= Len(data))
  BY DEF BaseEnds
<1> QED BY <1>9, <1>10, <1>11, <1>12 DEF Got

(* The same of time_message_deserialize. *)
LEMMA TimeDeserialized ==
  ASSUME RADIX = 256, NEW data \in Seq(Byte), NEW m, TimeOnWire(data, m),
         m[1] \in ValuesOf(I32), m[2] \in ValuesOf(I32)
  PROVE  LET r == TimeMessageDeserialize(data)
         IN  /\ \A i \in DOMAIN TimeEnds :
                  r.values[i] = IF TimeEnds[i] <= Len(data) THEN m[i] ELSE Old
             /\ r.result = 0 <=> \A i \in DOMAIN TimeEnds : TimeEnds[i] <= Len(data)
<1>fields.
      /\ Field(data, 0, I32, m[1]) /\ Field(data, 4, I32, m[2])
      /\ m[1] \in ValuesOf(I32) /\ m[2] \in ValuesOf(I32)
  BY DEF BaseOnWire, TimeOnWire
<1> DEFINE r0 == Reader(data)
           r1 == ReadField(r0, I32)
           r2 == ReadField(r1, I32)
           all == [i \in 1 .. 2 |-> Got(data, TimeEnds[i], m[i])]
           S == {Got(data, TimeEnds[i], m[i]) : i \in 1 .. 2}
<1>typed. all \in Seq(S) /\ Len(all) = 2
  OBVIOUS
<1>parts. \A i \in 1 .. 2 : all[i] = Got(data, TimeEnds[i], m[i])
  OBVIOUS
<1> HIDE DEF all, S
<1>0. Reading(r0, data, 0, 0, all, 0)
  BY ReadsNothing
<1>1. Reading(r1, data, 4, 4, all, 1)
  <2> HIDE DEF r0
  <2>1. /\ I32 \in Kinds /\ 0 <= I32.width /\ 0 \in Nat /\ 0 \in Nat /\ 0 \in Nat
        /\ 0 + I32.width = 4 /\ I32.width = 4 /\ 0 + 1 <= Len(all)
    BY <1>typed, Widths
  <2>2. all[0 + 1] = Got(data, 0 + I32.width, m[1])
    BY <1>parts, <2>1 DEF TimeEnds
  <2>3. Reading(ReadField(r0, I32), data, 0 + I32.width, I32.width, all, 0 + 1)
    BY ONLY RADIX = 256, data \in Seq(Byte), <1>0, <1>fields, <1>typed, <2>1, <2>2, ReadsNext
  <2> QED BY ONLY <2>1, <2>3
<1>2. Reading(r2, data, 8, 4, all, 2)
  <2> HIDE DEF r1
  <2>1. /\ I32 \in Kinds /\ 4 <= I32.width /\ 4 \in Nat /\ 4 \in Nat /\ 1 \in Nat
        /\ 4 + I32.width = 8 /\ I32.width = 4 /\ 1 + 1 <= Len(all)
    BY <1>typed, Widths
  <2>2. all[1 + 1] = Got(data, 4 + I32.width, m[2])
    BY <1>parts, <2>1 DEF TimeEnds
  <2>3. Reading(ReadField(r1, I32), data, 4 + I32.width, I32.width, all, 1 + 1)
    BY ONLY RADIX = 256, data \in Seq(Byte), <1>1, <1>fields, <1>typed, <2>1, <2>2, ReadsNext
  <2> QED BY ONLY <2>1, <2>3
<1>3. TimeMessageDeserialize(data) = r2
  BY DEF TimeMessageDeserialize, ReadTimestamp
<1>4. r2.values = SubSeq(all, 1, 2) /\ (r2.result = 0 <=> 8 <= Len(data))
  <2> HIDE DEF r2
  <2> QED BY <1>2 DEF Reading
<1> HIDE DEF r2
<1>5. \A i \in 1 .. 2 : r2.values[i] = Got(data, TimeEnds[i], m[i])
  <2>1. \A i \in 1 .. 2 : SubSeq(all, 1, 2)[i] = all[i]
    BY <1>typed
  <2> QED BY <1>parts, <1>4, <2>1
<1>6. /\ DOMAIN TimeEnds = 1 .. 2
      /\ ((\A i \in 1 .. 2 : TimeEnds[i] <= Len(data)) <=> 8 <= Len(data))
  BY DEF TimeEnds
<1> QED BY <1>3, <1>4, <1>5, <1>6 DEF Got

-----------------------------------------------------------------------------
(* Where the elements of two sequences are in the one made of both. *)
Join(s, t) == s \o t

(* The join has the elements of both. *)
LEMMA JoinTyped ==
  ASSUME NEW S, NEW s \in Seq(S), NEW t \in Seq(S)
  PROVE  Join(s, t) \in Seq(S) /\ Len(Join(s, t)) = Len(s) + Len(t)
BY ConcatProperties DEF Join

(* It begins with the first ... *)
LEMMA JoinFront ==
  ASSUME NEW S, NEW s \in Seq(S), NEW t \in Seq(S), NEW k \in 1 .. Len(s)
  PROVE  Join(s, t)[k] = s[k]
BY Len(t) \in Nat DEF Join

(* ... and ends with the second. *)
LEMMA JoinBack ==
  ASSUME NEW S, NEW s \in Seq(S), NEW t \in Seq(S),
         NEW i \in Int, NEW k \in 1 .. Len(t), i = Len(s) + k
  PROVE  Join(s, t)[i] = t[k]
BY Len(s) \in Nat, Len(t) \in Nat DEF Join

(* A length and the bytes it counts. *)
LEMMA PrefixedHolds ==
  ASSUME RADIX = 256, NEW s \in Strings
  PROVE  /\ s \in Seq(Byte) /\ Len(s) \in ValuesOf(U32) /\ Len(s) \in Nat
         /\ Prefixed(s) \in Seq(Byte)
         /\ Len(Prefixed(s)) = 4 + Len(s)
         /\ \A k \in 1 .. 4 : Prefixed(s)[k] = Bytes(Len(s), 4)[k]
         /\ \A k \in 1 .. Len(s) : Prefixed(s)[4 + k] = s[k]
<1>1. s \in Seq(Byte) /\ Len(s) \in ValuesOf(U32) /\ Len(s) \in Nat
  BY MessageAssumption
<1> DEFINE p == Bytes(Len(s), 4)
<1>2. p \in Seq(Byte) /\ Len(p) = 4
  BY <1>1, BytesTyped
<1>3. Prefixed(s) = Join(p, s)
  BY DEF Prefixed, Join
<1> HIDE DEF p
<1>4. /\ Join(p, s) \in Seq(Byte) /\ Len(Join(p, s)) = Len(p) + Len(s)
  BY <1>1, <1>2, JoinTyped
<1>5. \A k \in 1 .. Len(p) : Join(p, s)[k] = p[k]
  BY <1>1, <1>2, JoinFront
<1>6. \A k \in 1 .. Len(s) : Join(p, s)[4 + k] = s[k]
  <2> TAKE k \in 1 .. Len(s)
  <2> DEFINE i == 4 + k
  <2>1. i \in Int /\ i = Len(p) + k
    BY <1>1, <1>2
  <2> HIDE DEF i
  <2>2. p \in Seq(Byte) /\ s \in Seq(Byte)
    BY <1>1, <1>2
  <2>3. Join(p, s)[i] = s[k]
    BY ONLY k \in 1 .. Len(s), <2>1, <2>2, JoinBack
  <2> QED BY <2>3 DEF i
<1> QED BY <1>1, <1>2, <1>3, <1>4, <1>5, <1>6 DEF p

(* What a wire chunk holds. *)
ChunkOnWire(data, sec, usec, samples) ==
  /\ data \in Seq(Byte) /\ Len(data) = 12 + Len(samples)
  /\ Field(data, 0, I32, sec) /\ Field(data, 4, I32, usec)
  /\ Field(data, 8, U32, Len(samples))
  /\ \A k \in 1 .. Len(samples) : data[12 + k] = samples[k]

(* The chunks the server sends have that form. *)
LEMMA ChunkSent ==
  ASSUME RADIX = 256, NEW sec \in Int, NEW usec \in Int, NEW samples \in Strings
  PROVE  ChunkOnWire(Bytes(sec, 4) \o Bytes(usec, 4) \o Prefixed(samples),
                     sec, usec, samples)
<1> DEFINE a == Bytes(sec, 4)
           b == Bytes(usec, 4)
           p == Prefixed(samples)
           ab == Join(a, b)
           d == Join(ab, p)
<1>1. a \in Seq(Byte) /\ Len(a) = 4 /\ b \in Seq(Byte) /\ Len(b) = 4
  BY BytesTyped
<1>2. /\ p \in Seq(Byte) /\ Len(p) = 4 + Len(samples) /\ Len(samples) \in Nat
      /\ \A k \in 1 .. 4 : p[k] = Bytes(Len(samples), 4)[k]
      /\ \A k \in 1 .. Len(samples) : p[4 + k] = samples[k]
  BY PrefixedHolds
<1> HIDE DEF a, b, p
<1>3. /\ ab \in Seq(Byte) /\ Len(ab) = 4 + 4
      /\ \A k \in 1 .. 4 : ab[k] = a[k]
      /\ \A k \in 1 .. 4 : ab[4 + k] = b[k]
  <2>1. /\ ab \in Seq(Byte) /\ Len(ab) = Len(a) + Len(b)
    BY <1>1, JoinTyped
  <2>2. \A k \in 1 .. Len(a) : ab[k] = a[k]
    BY <1>1, JoinFront
  <2>3. \A k \in 1 .. 4 : ab[4 + k] = b[k]
    <3> TAKE k \in 1 .. 4
    <3> DEFINE i == 4 + k
    <3>1. i \in Int /\ i = Len(a) + k /\ k \in 1 .. Len(b)
      BY <1>1
    <3> HIDE DEF i
    <3>2. a \in Seq(Byte) /\ b \in Seq(Byte)
      BY <1>1
    <3>3. Join(a, b)[i] = b[k]
      BY ONLY <3>1, <3>2, JoinBack
    <3> QED BY <3>3 DEF i
  <2> QED BY <1>1, <2>1, <2>2, <2>3
<1> HIDE DEF ab
<1>8. Len(ab) = 8
  BY <1>3
<1>9. /\ d \in Seq(Byte) /\ Len(d) = 8 + (4 + Len(samples))
      /\ \A k \in 1 .. 8 : d[k] = ab[k]
      /\ \A k \in 1 .. 4 + Len(samples) : d[8 + k] = p[k]
  <2>1. /\ d \in Seq(Byte) /\ Len(d) = Len(ab) + Len(p)
    BY <1>2, <1>3, JoinTyped
  <2>2. \A k \in 1 .. Len(ab) : d[k] = ab[k]
    BY <1>2, <1>3, JoinFront
  <2>3. \A k \in 1 .. 4 + Len(samples) : d[8 + k] = p[k]
    <3> TAKE k \in 1 .. 4 + Len(samples)
    <3> DEFINE i == 8 + k
    <3>1. i \in Int /\ i = Len(ab) + k /\ k \in 1 .. Len(p)
      BY <1>2, <1>8
    <3> HIDE DEF i
    <3>2. ab \in Seq(Byte) /\ p \in Seq(Byte)
      BY <1>2, <1>3
    <3>3. Join(ab, p)[i] = p[k]
      BY ONLY <3>1, <3>2, JoinBack
    <3> QED BY <3>3 DEF i
  <2> QED BY <1>2, <1>8, <2>1, <2>2, <2>3
<1> HIDE DEF d
<1>4. Len(d) = 12 + Len(samples)
  BY <1>2, <1>9
<1>5. \A k \in 1 .. 4 : /\ d[0 + k] = a[k]
                        /\ d[4 + k] = b[k]
                        /\ d[8 + k] = Bytes(Len(samples), 4)[k]
  <2> TAKE k \in 1 .. 4
  <2>1. k \in 1 .. 8 /\ 4 + k \in 1 .. 8 /\ k \in 1 .. 4 + Len(samples) /\ 0 + k = k
    BY <1>2
  <2>2. d[k] = ab[k] /\ d[4 + k] = ab[4 + k] /\ d[8 + k] = p[k]
    BY <1>9, <2>1
  <2> QED BY <1>2, <1>3, <2>1, <2>2
<1>6. \A k \in 1 .. Len(samples) : d[12 + k] = samples[k]
  <2> TAKE k \in 1 .. Len(samples)
  <2>1. 12 + k = 8 + (4 + k) /\ 4 + k \in 1 .. 4 + Len(samples)
    BY <1>2
  <2>2. d[8 + (4 + k)] = p[4 + k]
    BY <1>9, <2>1
  <2> QED BY <1>2, <2>1, <2>2
<1>7. Field(d, 0, I32, sec) /\ Field(d, 4, I32, usec) /\ Field(d, 8, U32, Len(samples))
  BY <1>5, Widths DEF Field, Carries, a, b
<1> QED BY <1>4, <1>9, <1>6, <1>7, Zenon DEF ChunkOnWire, d, ab, a, b, p, Join

(* The places where the fields of a chunk's header end. *)
ChunkEnds == <<4, 8, 12>>

(* wire_chunk_message_deserialize finds the payload behind the header, or  *)
(* fails because the header was cut.                                       *)
LEMMA ChunkDeserialized ==
  ASSUME RADIX = 256, NEW data \in Seq(Byte),
         NEW sec \in ValuesOf(I32), NEW usec \in ValuesOf(I32), NEW size \in ValuesOf(U32),
         Field(data, 0, I32, sec), Field(data, 4, I32, usec), Field(data, 8, U32, size)
  PROVE  LET r == WireChunkDeserialize(data)
         IN  r.result = 0 => r.size = size /\ r.payload = 12
<1> DEFINE m == <<sec, usec, size>>
<1>fields.
      /\ Field(data, 0, I32, m[1]) /\ Field(data, 4, I32, m[2]) /\ Field(data, 8, U32, m[3])
      /\ m[1] \in ValuesOf(I32) /\ m[2] \in ValuesOf(I32) /\ m[3] \in ValuesOf(U32)
      /\ m[3] = size
  OBVIOUS
<1> HIDE DEF m
<1> DEFINE r0 == Reader(data)
           r1 == ReadField(r0, I32)
           r2 == ReadField(r1, I32)
           r3 == ReadField(r2, U32)
           all == [i \in 1 .. 3 |-> Got(data, ChunkEnds[i], m[i])]
           S == {Got(data, ChunkEnds[i], m[i]) : i \in 1 .. 3}
<1>typed. all \in Seq(S) /\ Len(all) = 3
  OBVIOUS
<1>parts. \A i \in 1 .. 3 : all[i] = Got(data, ChunkEnds[i], m[i])
  OBVIOUS
<1> HIDE DEF all, S
<1>0. Reading(r0, data, 0, 0, all, 0)
  BY ReadsNothing
<1>1. Reading(r1, data, 4, 4, all, 1)
  <2> HIDE DEF r0
  <2>1. /\ I32 \in Kinds /\ 0 <= I32.width /\ 0 \in Nat /\ 0 \in Nat /\ 0 \in Nat
        /\ 0 + I32.width = 4 /\ I32.width = 4 /\ 0 + 1 <= Len(all)
    BY <1>typed, Widths
  <2>2. all[0 + 1] = Got(data, 0 + I32.width, m[1])
    BY <1>parts, <2>1 DEF ChunkEnds
  <2>3. Reading(ReadField(r0, I32), data, 0 + I32.width, I32.width, all, 0 + 1)
    BY ONLY RADIX = 256, data \in Seq(Byte), <1>0, <1>fields, <1>typed, <2>1, <2>2, ReadsNext
  <2> QED BY ONLY <2>1, <2>3
<1>2. Reading(r2, data, 8, 4, all, 2)
  <2> HIDE DEF r1
  <2>1. /\ I32 \in Kinds /\ 4 <= I32.width /\ 4 \in Nat /\ 4 \in Nat /\ 1 \in Nat
        /\ 4 + I32.width = 8 /\ I32.width = 4 /\ 1 + 1 <= Len(all)
    BY <1>typed, Widths
  <2>2. all[1 + 1] = Got(data, 4 + I32.width, m[2])
    BY <1>parts, <2>1 DEF ChunkEnds
  <2>3. Reading(ReadField(r1, I32), data, 4 + I32.width, I32.width, all, 1 + 1)
    BY ONLY RADIX = 256, data \in Seq(Byte), <1>1, <1>fields, <1>typed, <2>1, <2>2, ReadsNext
  <2> QED BY ONLY <2>1, <2>3
<1>3. Reading(r3, data, 12, 4, all, 3)
  <2> HIDE DEF r2
  <2>1. /\ U32 \in Kinds /\ 4 <= U32.width /\ 8 \in Nat /\ 4 \in Nat /\ 2 \in Nat
        /\ 8 + U32.width = 12 /\ U32.width = 4 /\ 2 + 1 <= Len(all)
    BY <1>typed, Widths
  <2>2. all[2 + 1] = Got(data, 8 + U32.width, m[3])
    BY <1>parts, <2>1 DEF ChunkEnds
  <2>3. Reading(ReadField(r2, U32), data, 8 + U32.width, U32.width, all, 2 + 1)
    BY ONLY RADIX = 256, data \in Seq(Byte), <1>2, <1>fields, <1>typed, <2>1, <2>2, ReadsNext
  <2> QED BY ONLY <2>1, <2>3
<1>4. WireChunkDeserialize(data)
        = [result |-> r3.result, size |-> r3.values[3], payload |-> r3.b.index]
  BY DEF WireChunkDeserialize, ChunkHeader, ReadTimestamp
<1>5. /\ r3.values = SubSeq(all, 1, 3)
      /\ r3.result = IF 12 <= Len(data) THEN 0 ELSE 1
      /\ 12 <= Len(data) => r3.b.index = 12
  <2> HIDE DEF r3
  <2> QED BY <1>3 DEF Reading
<1>6. SubSeq(all, 1, 3)[3] = Got(data, 12, size)
  <2>1. SubSeq(all, 1, 3)[3] = all[3]
    BY <1>typed
  <2>2. all[3] = Got(data, 12, m[3])
    BY <1>parts DEF ChunkEnds
  <2> QED BY <1>fields, <2>1, <2>2
<1> HIDE DEF r3
<1> QED BY <1>4, <1>5, <1>6 DEF Got

-----------------------------------------------------------------------------
(* What a codec header holds. *)
CodecOnWire(data, name, payload) ==
  /\ data \in Seq(Byte) /\ Len(data) = 8 + Len(name) + Len(payload)
  /\ Field(data, 0, U32, Len(name))
  /\ \A k \in 1 .. Len(name) : data[4 + k] = name[k]
  /\ Field(data, 4 + Len(name), U32, Len(payload))
  /\ \A k \in 1 .. Len(payload) : data[8 + Len(name) + k] = payload[k]

(* The codec headers the server sends have that form. *)
LEMMA CodecSent ==
  ASSUME RADIX = 256, NEW name \in Strings, NEW payload \in Strings
  PROVE  CodecOnWire(Prefixed(name) \o Prefixed(payload), name, payload)
<1> DEFINE a == Prefixed(name)
           b == Prefixed(payload)
           d == Join(a, b)
           L == Len(name)
           P == Len(payload)
<1>1. /\ a \in Seq(Byte) /\ Len(a) = 4 + L /\ L \in Nat
      /\ \A k \in 1 .. 4 : a[k] = Bytes(L, 4)[k]
      /\ \A k \in 1 .. L : a[4 + k] = name[k]
  BY PrefixedHolds
<1>2. /\ b \in Seq(Byte) /\ Len(b) = 4 + P /\ P \in Nat
      /\ \A k \in 1 .. 4 : b[k] = Bytes(P, 4)[k]
      /\ \A k \in 1 .. P : b[4 + k] = payload[k]
  BY PrefixedHolds
<1> HIDE DEF a, b, L, P
<1>3. d \in Seq(Byte) /\ Len(d) = Len(a) + Len(b)
  BY <1>1, <1>2, JoinTyped
<1>4. \A k \in 1 .. Len(a) : d[k] = a[k]
  BY <1>1, <1>2, JoinFront
<1>5. \A k \in 1 .. 4 + P : d[4 + L + k] = b[k]
  <2> TAKE k \in 1 .. 4 + P
  <2> DEFINE i == 4 + L + k
  <2>1. i \in Int /\ i = Len(a) + k /\ k \in 1 .. Len(b)
    BY <1>1, <1>2
  <2>2. a \in Seq(Byte) /\ b \in Seq(Byte)
    BY <1>1, <1>2
  <2> HIDE DEF i
  <2>3. Join(a, b)[i] = b[k]
    BY ONLY <2>1, <2>2, JoinBack
  <2> QED BY <2>3 DEF i
<1> HIDE DEF d
<1>6. Len(d) = 8 + L + P
  BY <1>1, <1>2, <1>3
<1>7. (\A k \in 1 .. 4 : d[0 + k] = Bytes(L, 4)[k]) /\ \A k \in 1 .. L : d[4 + k] = name[k]
  <2>1. \A k \in 1 .. 4 : k \in 1 .. Len(a)
    BY <1>1
  <2>2. \A k \in 1 .. L : 4 + k \in 1 .. Len(a)
    BY <1>1
  <2> QED BY <1>1, <1>4, <2>1, <2>2
<1>8. \A k \in 1 .. 4 : d[(4 + L) + k] = Bytes(P, 4)[k]
  <2>1. \A k \in 1 .. 4 : k \in 1 .. 4 + P
    BY <1>2
  <2> QED BY <1>2, <1>5, <2>1
<1>9. \A k \in 1 .. P : d[8 + L + k] = payload[k]
  <2> TAKE k \in 1 .. P
  <2>1. 4 + k \in 1 .. 4 + P /\ 8 + L + k = 4 + L + (4 + k)
    BY <1>1, <1>2
  <2>2. d[4 + L + (4 + k)] = b[4 + k]
    BY <1>5, <2>1
  <2> QED BY <1>2, <2>1, <2>2
<1>10. Field(d, 0, U32, L) /\ Field(d, 4 + L, U32, P)
  BY <1>7, <1>8, Widths DEF Field, Carries
<1>11. CodecOnWire(d, name, payload)
  BY <1>3, <1>6, <1>7, <1>9, <1>10, Zenon DEF CodecOnWire, L, P
<1> QED BY <1>11 DEF d, Join, a, b

(* codec_header_message_deserialize accepts a complete header only, and    *)
(* gets from it what the server sent; what it leaves on the heap was read  *)
(* before.                                                                 *)
LEMMA CodecDeserialized ==
  ASSUME RADIX = 256, NEW bytes \in Seq(Byte), NEW name \in Strings, NEW payload \in Strings,
         CodecOnWire(bytes, name, payload), NEW n \in 0 .. Len(bytes), NEW mallocs \in 0 .. 2
  PROVE  LET r == CodecHeaderDeserialize(SubSeq(bytes, 1, n), mallocs)
         IN  /\ r.result = 0 => n = Len(bytes) /\ r.codec = name /\ r.payload = payload
             /\ r.result = 1 => n < Len(bytes)
             /\ r.heap > 0 => n >= 4
             /\ r.heap > 1 => n >= 8 + Len(name)
<1> DEFINE data == SubSeq(bytes, 1, n)
           L == Len(name)
           P == Len(payload)
           all == [i \in 1 .. 2 |-> IF i = 1 THEN Got(data, 4, L) ELSE Got(data, 8 + L, P)]
           S == {Got(data, 4, L), Got(data, 8 + L, P)}
           size == ReadField(Reader(data), U32)
           next == [size EXCEPT !.b = Advance(@, size.values[1])]
           more == ReadField(next, U32)
           r == CodecHeaderDeserialize(data, mallocs)
<1>1. /\ L \in ValuesOf(U32) /\ P \in ValuesOf(U32) /\ L \in Nat /\ P \in Nat
      /\ name \in Seq(Byte) /\ payload \in Seq(Byte)
  BY PrefixedHolds
<1>2. /\ Len(bytes) = 8 + L + P
      /\ \A k \in 1 .. L : bytes[4 + k] = name[k]
      /\ \A k \in 1 .. P : bytes[8 + L + k] = payload[k]
      /\ Field(bytes, 0, U32, L) /\ Field(bytes, 4 + L, U32, P)
  BY DEF CodecOnWire
<1>3. /\ data \in Seq(Byte) /\ Len(data) = n
      /\ \A i \in 1 .. n : data[i] = bytes[i]
  BY Cut
<1>4. Field(data, 0, U32, L) /\ Field(data, 4 + L, U32, P)
  <2>1. 0 \in Nat /\ 4 + L \in Nat
    BY <1>1
  <2> QED BY <1>2, <2>1, Cut, Widths
<1>5. all \in Seq(S) /\ Len(all) = 2
  OBVIOUS
<1>6. all[1] = Got(data, 4, L) /\ all[2] = Got(data, 8 + L, P)
  OBVIOUS
<1>7. /\ SubSeq(all, 1, 1)[1] = Got(data, 4, L)
      /\ SubSeq(all, 1, 2)[2] = Got(data, 8 + L, P)
  <2> HIDE DEF all
  <2> QED BY <1>5, <1>6
<1> HIDE DEF data, L, P, all, S
<1>8. Reading(size, data, 4, 4, all, 1)
  <2>1. Reading(Reader(data), data, 0, 0, all, 0)
    BY <1>3, ReadsNothing
  <2>2. /\ U32 \in Kinds /\ 0 <= U32.width /\ 0 \in Nat /\ 0 + 1 <= Len(all)
        /\ 0 + U32.width = 4 /\ U32.width = 4
    BY <1>5, Widths
  <2>3. all[0 + 1] = Got(data, 0 + U32.width, L)
    BY <1>6, <2>2
  <2>4. Reading(ReadField(Reader(data), U32), data, 0 + U32.width, U32.width, all, 0 + 1)
    BY ONLY RADIX = 256, <1>1, <1>3, <1>4, <1>5, <2>1, <2>2, <2>3, ReadsNext
  <2> QED BY ONLY <2>2, <2>4
<1>9. /\ size.result = IF 4 <= n THEN 0 ELSE 1
      /\ 4 <= n => size.b = [buffer |-> data, index |-> 4] /\ size.values = SubSeq(all, 1, 1)
                   /\ size.values[1] = L
                   /\ size = [b |-> size.b, values |-> size.values, result |-> 0]
  <2> HIDE DEF size
  <2>1. PICK at \in Nat :
          /\ size = [b |-> [buffer |-> data, index |-> at], values |-> SubSeq(all, 1, 1),
                    result |-> IF 4 <= Len(data) THEN 0 ELSE 1]
          /\ IF 4 <= Len(data) THEN at = 4 ELSE Len(data) - at < 4
    BY <1>8 DEF Reading
  <2>2. size.values[1] = Got(data, 4, L)
    BY <1>7, <2>1
  <2> QED BY <1>3, <2>1, <2>2 DEF Got
<1>10. r = IF size.result # 0 THEN [result |-> 1, heap |-> 0]
           ELSE IF mallocs < 1 THEN [result |-> 2, heap |-> 0]
           ELSE IF ~Fits(size.b, size.values[1]) \/ more.result # 0
             THEN [result |-> 1, heap |-> 1]
           ELSE IF mallocs < 2 THEN [result |-> 2, heap |-> 1]
           ELSE IF ~Fits(more.b, more.values[2]) THEN [result |-> 1, heap |-> 2]
           ELSE [result |-> 0, heap |-> 2, codec |-> NextBytes(size.b, size.values[1]),
                 payload |-> NextBytes(more.b, more.values[2])]
  BY DEF CodecHeaderDeserialize
<1> HIDE DEF r, more, size
<1>11. n \in Nat /\ n <= 8 + L + P
  BY <1>1, <1>2
<1> SUFFICES /\ r.result = 0 => n = 8 + L + P /\ r.codec = name /\ r.payload = payload
             /\ r.result = 1 => n < 8 + L + P
             /\ r.heap > 0 => n >= 4
             /\ r.heap > 1 => n >= 8 + L
  BY <1>2 DEF r, L, data
<1>12. CASE n < 4
  <2>1. r = [result |-> 1, heap |-> 0]
    BY <1>9, <1>10, <1>11, <1>12
  <2> QED BY <1>1, <1>12, <2>1
<1>13. CASE 4 <= n /\ mallocs < 1
  <2>1. r = [result |-> 2, heap |-> 0]
    BY <1>9, <1>10, <1>13
  <2> QED BY <2>1
<1>14. CASE 4 <= n /\ ~(mallocs < 1) /\ n < 4 + L
  <2>1. ~Fits(size.b, size.values[1])
    BY <1>1, <1>3, <1>9, <1>14 DEF Fits, Room
  <2>2. r = [result |-> 1, heap |-> 1]
    BY <1>9, <1>10, <1>14, <2>1
  <2> QED BY <1>1, <1>14, <2>2
<1>15. CASE ~(mallocs < 1) /\ 4 + L <= n
  <2>1. 4 <= n /\ size.result = 0
    BY <1>1, <1>9, <1>11, <1>15
  <2>2. Fits(size.b, size.values[1])
    BY <1>1, <1>3, <1>9, <1>15, <2>1 DEF Fits, Room
  <2>3. next = [b |-> [buffer |-> data, index |-> 4 + L], values |-> SubSeq(all, 1, 1),
                result |-> 0]
    <3>1. Advance(size.b, size.values[1]) = [buffer |-> data, index |-> 4 + L]
      BY <1>9, <2>1 DEF Advance
    <3>2. size = [b |-> size.b, values |-> SubSeq(all, 1, 1), result |-> 0]
      BY <1>9, <2>1
    <3> QED BY <3>1, <3>2
  <2> HIDE DEF next
  <2>4. Reading(next, data, 4 + L, 4, all, 1)
    <3>1. 4 + L \in Nat /\ 4 + L <= Len(data)
      BY <1>1, <1>3, <1>15
    <3>2. next = [b |-> [buffer |-> data, index |-> 4 + L], values |-> SubSeq(all, 1, 1),
                  result |-> IF 4 + L <= Len(data) THEN 0 ELSE 1]
      BY <2>3, <3>1
    <3>3. IF 4 + L <= Len(data) THEN 4 + L = 4 + L ELSE Len(data) - (4 + L) < 4
      BY <3>1
    <3> QED BY <3>1, <3>2, <3>3, Zenon DEF Reading
  <2>5. Reading(more, data, 8 + L, 4, all, 2)
    <3>1. /\ U32 \in Kinds /\ 4 <= U32.width /\ 4 + L \in Nat /\ 4 \in Nat /\ 1 \in Nat
          /\ 1 + 1 <= Len(all) /\ (4 + L) + U32.width = 8 + L /\ U32.width = 4
      BY <1>1, <1>5, Widths
    <3>2. all[1 + 1] = Got(data, (4 + L) + U32.width, P)
      BY <1>6, <3>1
    <3>3. Reading(ReadField(next, U32), data, (4 + L) + U32.width, U32.width, all, 1 + 1)
      BY ONLY RADIX = 256, <1>1, <1>3, <1>4, <1>5, <2>4, <3>1, <3>2, ReadsNext
    <3>4. more = ReadField(next, U32)
      BY DEF more, next
    <3> QED BY ONLY <3>1, <3>3, <3>4
  <2>6. /\ more.result = IF 8 + L <= n THEN 0 ELSE 1
        /\ 8 + L <= n => more.b = [buffer |-> data, index |-> 8 + L] /\ more.values[2] = P
    <3>1. PICK at \in Nat :
            /\ more = [b |-> [buffer |-> data, index |-> at], values |-> SubSeq(all, 1, 2),
                       result |-> IF 8 + L <= Len(data) THEN 0 ELSE 1]
            /\ IF 8 + L <= Len(data) THEN at = 8 + L ELSE Len(data) - at < 4
      BY <2>5 DEF Reading
    <3>2. more.values[2] = Got(data, 8 + L, P)
      BY <1>7, <3>1
    <3> QED BY <1>3, <3>1, <3>2 DEF Got
  <2>7. CASE ~(8 + L <= n)
    <3>1. r = [result |-> 1, heap |-> 1]
      BY <1>10, <1>15, <2>1, <2>2, <2>6, <2>7
    <3> QED BY <1>1, <1>11, <2>1, <2>7, <3>1
  <2>8. CASE 8 + L <= n /\ mallocs < 2
    <3>1. r = [result |-> 2, heap |-> 1]
      BY <1>10, <1>15, <2>1, <2>2, <2>6, <2>8
    <3> QED BY <2>1, <3>1
  <2>9. CASE 8 + L <= n /\ ~(mallocs < 2) /\ n < 8 + L + P
    <3>1. ~Fits(more.b, more.values[2])
      BY <1>1, <1>3, <2>6, <2>9 DEF Fits, Room
    <3>2. r = [result |-> 1, heap |-> 2]
      BY <1>10, <1>15, <2>1, <2>2, <2>6, <2>9, <3>1
    <3> QED BY <2>1, <2>9, <3>2
  <2>10. CASE ~(mallocs < 2) /\ n = 8 + L + P
    <3>1. 8 + L <= n
      BY <1>1, <2>10
    <3>2. Fits(more.b, more.values[2])
      BY <1>1, <1>3, <2>6, <2>10, <3>1 DEF Fits, Room
    <3>3. r = [result |-> 0, heap |-> 2, codec |-> NextBytes(size.b, size.values[1]),
               payload |-> NextBytes(more.b, more.values[2])]
      BY <1>10, <1>15, <2>1, <2>2, <2>6, <2>10, <3>1, <3>2
    <3>4. NextBytes(size.b, size.values[1]) = SubSeq(data, 4 + 1, 4 + L)
      <4>1. size.b.buffer = data /\ size.b.index = 4 /\ size.values[1] = L
        BY <1>9, <2>1
      <4> QED BY <4>1, Zenon DEF NextBytes
    <3>5. NextBytes(more.b, more.values[2]) = SubSeq(data, 8 + L + 1, 8 + L + P)
      <4>1. more.b.buffer = data /\ more.b.index = 8 + L /\ more.values[2] = P
        BY <2>6, <3>1
      <4> QED BY <4>1, Zenon DEF NextBytes
    <3>6. SubSeq(data, 4 + 1, 4 + L) = name
      <4> DEFINE s == SubSeq(data, 4 + 1, 4 + L)
      <4>1. s \in Seq(Byte) /\ Len(s) = L /\ \A i \in 1 .. L : s[i] = data[4 + i]
        <5>1. L \in Nat /\ 4 + L <= Len(data)
          BY <1>1, <1>3, <1>15
        <5> DEFINE four == 4
        <5>2. data \in Seq(Byte) /\ four \in Nat /\ four + L <= Len(data)
          BY <1>3, <5>1
        <5> HIDE DEF four
        <5>3. /\ SubSeq(data, four + 1, four + L) \in Seq(Byte)
              /\ Len(SubSeq(data, four + 1, four + L)) = L
              /\ \A i \in 1 .. L :
                    SubSeq(data, four + 1, four + L)[i] = data[four + i]
          BY ONLY <5>1, <5>2, Part, Zenon
        <5> QED BY <5>3 DEF four
      <4>2. \A i \in 1 .. L : data[4 + i] = name[i]
        <5>1. \A i \in 1 .. L : 4 + i \in 1 .. n
          BY <1>1, <1>15
        <5> QED BY <1>2, <1>3, <5>1
      <4>3. \A i \in 1 .. L : s[i] = name[i]
        BY <4>1, <4>2
      <4>4. Len(name) = L
        BY DEF L
      <4> HIDE DEF s
      <4>5. s = name
        BY ONLY <1>1, <4>1, <4>3, <4>4, SeqEqual
      <4> QED BY <4>5 DEF s
    <3>7. SubSeq(data, 8 + L + 1, 8 + L + P) = payload
      <4> DEFINE s == SubSeq(data, 8 + L + 1, 8 + L + P)
      <4>1. s \in Seq(Byte) /\ Len(s) = P /\ \A i \in 1 .. P : s[i] = data[8 + L + i]
        <5>1. 8 + L \in Nat /\ 8 + L + P <= Len(data)
          BY <1>1, <1>3, <2>10
        <5> QED BY <1>1, <1>3, <5>1, Part
      <4>2. \A i \in 1 .. P : data[8 + L + i] = payload[i]
        <5>1. \A i \in 1 .. P : 8 + L + i \in 1 .. n
          BY <1>1, <2>10
        <5> QED BY <1>2, <1>3, <5>1
      <4>3. \A i \in 1 .. P : s[i] = payload[i]
        BY <4>1, <4>2
      <4>4. Len(payload) = P
        BY DEF P
      <4> HIDE DEF s
      <4>5. s = payload
        BY ONLY <1>1, <4>1, <4>3, <4>4, SeqEqual
      <4> QED BY <4>5 DEF s
    <3> QED BY <2>1, <2>10, <3>1, <3>3, <3>4, <3>5, <3>6, <3>7
  <2>11. \/ ~(8 + L <= n)
         \/ 8 + L <= n /\ mallocs < 2
         \/ 8 + L <= n /\ ~(mallocs < 2) /\ n < 8 + L + P
         \/ ~(mallocs < 2) /\ n = 8 + L + P
    BY <1>1, <1>11
  <2> QED BY <2>7, <2>8, <2>9, <2>10, <2>11, Zenon
<1> QED BY <1>1, <1>11, <1>12, <1>13, <1>14, <1>15

-----------------------------------------------------------------------------
(* The values of a base and of a Time message. *)
IsBase(m) ==
  /\ m[1] \in Shorts /\ m[2] \in Shorts /\ m[3] \in Shorts
  /\ m[4] \in Ints /\ m[5] \in Ints /\ m[6] \in Ints /\ m[7] \in Ints
  /\ m[8] \in Sizes

IsTime(m) == m[1] \in Ints /\ m[2] \in Ints

(***************************************************************************)
(* On its journey, a message is in the bytes that were made of it, as far  *)
(* as there was room; the sender knows whether there was.                  *)
(***************************************************************************)
OnItsWay ==
  \/ /\ kind = "base" /\ IsBase(msg) /\ BaseOnWire(wire, msg)
     /\ sent = 0 <=> Len(wire) >= BASE_MESSAGE_SIZE
  \/ /\ kind = "time" /\ IsTime(msg) /\ TimeOnWire(wire, msg)
     /\ sent = 0 <=> Len(wire) >= TIME_MESSAGE_SIZE
  \/ /\ kind = "chunk" /\ msg \in Strings
     /\ \E sec \in Ints, usec \in Ints : ChunkOnWire(wire, sec, usec, msg)
  \/ /\ kind = "codec"
     /\ \E name \in Strings, payload \in Strings :
          msg = <<name, payload>> /\ CodecOnWire(wire, name, payload)

Journey ==
  /\ pc \in {"send", "receive", "done"}
  /\ pc # "send" => wire \in Seq(Byte) /\ OnItsWay

(* Serializing any message puts it on its way. *)
LEMMA Sending ==
  ASSUME RADIX = 256, SendBase \/ SendTime \/ SendChunk \/ SendCodecHeader
  PROVE  pc' = "receive" /\ Journey'
<1> USE DEF Send
<1>0. Shorts \subseteq Int /\ Ints \subseteq Int /\ Sizes \subseteq Int
  <2>1. U16 \in Kinds /\ I32 \in Kinds /\ U32 \in Kinds
    BY Widths
  <2> QED BY <2>1, ValuesAreInts, MessageAssumption
<1>1. CASE SendBase
  <2>1. PICK m \in BaseMessages, size \in {BASE_MESSAGE_SIZE, BASE_MESSAGE_SIZE - 1} :
          Send("base", m, BaseMessageSerialize(m, Zeros(size)))
    BY <1>1 DEF SendBase
  <2>2. IsBase(m)
    BY DEF BaseMessages, IsBase
  <2>3. size \in Nat
    BY DEF BASE_MESSAGE_SIZE
  <2>4. LET w == BaseMessageSerialize(m, Zeros(size))
        IN  /\ w.b.buffer \in Seq(Byte) /\ Len(w.b.buffer) = size
            /\ BaseOnWire(w.b.buffer, m)
            /\ w.result = 0 <=> size >= BASE_MESSAGE_SIZE
    BY <1>0, <2>2, <2>3, BaseSerialized DEF IsBase
  <2> QED BY <2>1, <2>2, <2>4, Zenon DEF Journey, OnItsWay
<1>2. CASE SendTime
  <2>1. PICK sec \in Ints, usec \in Ints, size \in 0 .. TIME_MESSAGE_SIZE + 1 :
          Send("time", <<sec, usec>>, TimeMessageSerialize(<<sec, usec>>, Zeros(size)))
    BY <1>2 DEF SendTime
  <2>2. IsTime(<<sec, usec>>)
    BY DEF IsTime
  <2>3. size \in Nat
    BY DEF TIME_MESSAGE_SIZE
  <2>4. LET w == TimeMessageSerialize(<<sec, usec>>, Zeros(size))
        IN  /\ w.b.buffer \in Seq(Byte) /\ Len(w.b.buffer) = size
            /\ TimeOnWire(w.b.buffer, <<sec, usec>>)
            /\ w.result = 0 <=> size >= TIME_MESSAGE_SIZE
    BY <1>0, <2>2, <2>3, TimeSerialized DEF IsTime
  <2> QED BY <2>1, <2>2, <2>4, Zenon DEF Journey, OnItsWay
<1>3. CASE SendChunk
  <2>1. PICK sec \in Ints, usec \in Ints, samples \in Strings :
          Send("chunk", samples,
               Writer(Bytes(sec, 4) \o Bytes(usec, 4) \o Prefixed(samples)))
    BY <1>3 DEF SendChunk
  <2>2. ChunkOnWire(Bytes(sec, 4) \o Bytes(usec, 4) \o Prefixed(samples),
                    sec, usec, samples)
    BY <1>0, ChunkSent
  <2>3. wire' = Bytes(sec, 4) \o Bytes(usec, 4) \o Prefixed(samples)
    BY <2>1 DEF Writer, WriteInit
  <2>4. ChunkOnWire(wire', sec, usec, samples) /\ wire' \in Seq(Byte)
    BY <2>2, <2>3, Zenon DEF ChunkOnWire
  <2> QED BY <2>1, <2>4, Zenon DEF Journey, OnItsWay
<1>4. CASE SendCodecHeader
  <2>1. PICK name \in Strings, payload \in Strings :
          Send("codec", <<name, payload>>, Writer(Prefixed(name) \o Prefixed(payload)))
    BY <1>4 DEF SendCodecHeader
  <2>2. CodecOnWire(Prefixed(name) \o Prefixed(payload), name, payload)
    BY CodecSent
  <2>3. wire' = Prefixed(name) \o Prefixed(payload)
    BY <2>1 DEF Writer, WriteInit
  <2>4. CodecOnWire(wire', name, payload) /\ wire' \in Seq(Byte)
    BY <2>2, <2>3, Zenon DEF CodecOnWire
  <2> QED BY <2>1, <2>4, Zenon DEF Journey, OnItsWay
<1> QED BY <1>1, <1>2, <1>3, <1>4

(* What is received of a message is what the properties say. *)
LEMMA Receiving ==
  ASSUME RADIX = 256, Journey, NEW n \in 0 .. Len(wire), Receive(n)
  PROVE  /\ Journey' /\ pc' = "done"
         /\ FieldsExact' /\ ChunkInPlace' /\ CodecHeaderExact'
<1> DEFINE data == SubSeq(wire, 1, n)
<1>1. /\ pc = "receive" /\ pc' = "done" /\ len' = n /\ UNCHANGED <<kind, msg, wire, sent>>
      /\ wire \in Seq(Byte) /\ OnItsWay
  BY DEF Receive, Journey
<1>2. Journey'
  BY <1>1 DEF Journey, OnItsWay
<1>3. /\ data \in Seq(Byte) /\ Len(data) = n
      /\ \A at \in Nat, k \in Kinds : \A x : Field(wire, at, k, x) => Field(data, at, k, x)
  BY <1>1, Cut
<1>4. /\ Shorts \subseteq ValuesOf(U16) /\ Ints \subseteq ValuesOf(I32)
      /\ Sizes \subseteq ValuesOf(U32)
  BY MessageAssumption
<1>5. CASE kind = "base"
  <2>1. IsBase(msg) /\ BaseOnWire(wire, msg)
    BY <1>1, <1>5 DEF OnItsWay
  <2>2. got' = BaseMessageDeserialize(data)
    BY <1>5 DEF Receive
  <2> HIDE DEF data
  <2>3. BaseOnWire(data, msg)
    BY <1>3, <2>1, Widths DEF BaseOnWire
  <2>4. /\ \A i \in DOMAIN BaseEnds :
             got'.values[i] = IF BaseEnds[i] <= Len(data) THEN msg[i] ELSE Old
        /\ got'.result = 0 <=> \A i \in DOMAIN BaseEnds : BaseEnds[i] <= Len(data)
    BY <1>3, <1>4, <2>1, <2>2, <2>3, BaseDeserialized DEF IsBase
  <2>5. FieldsExact'
    BY <1>1, <1>3, <1>5, <2>4, Zenon DEF FieldsExact
  <2> QED BY <1>1, <1>2, <1>5, <2>5 DEF ChunkInPlace, CodecHeaderExact
<1>6. CASE kind = "time"
  <2>1. IsTime(msg) /\ TimeOnWire(wire, msg)
    BY <1>1, <1>6 DEF OnItsWay
  <2>2. got' = TimeMessageDeserialize(data)
    BY <1>6 DEF Receive
  <2> HIDE DEF data
  <2>3. TimeOnWire(data, msg)
    BY <1>3, <2>1, Widths DEF TimeOnWire
  <2>4. /\ \A i \in DOMAIN TimeEnds :
             got'.values[i] = IF TimeEnds[i] <= Len(data) THEN msg[i] ELSE Old
        /\ got'.result = 0 <=> \A i \in DOMAIN TimeEnds : TimeEnds[i] <= Len(data)
    BY <1>3, <1>4, <2>1, <2>2, <2>3, TimeDeserialized DEF IsTime
  <2>5. FieldsExact'
    BY <1>1, <1>3, <1>6, <2>4, Zenon DEF FieldsExact
  <2> QED BY <1>1, <1>2, <1>6, <2>5 DEF ChunkInPlace, CodecHeaderExact
<1>7. CASE kind = "chunk"
  <2>1. PICK sec \in Ints, usec \in Ints : ChunkOnWire(wire, sec, usec, msg)
    BY <1>1, <1>7 DEF OnItsWay
  <2>2. msg \in Strings
    BY <1>1, <1>7 DEF OnItsWay
  <2>3. got' = WireChunkDeserialize(data)
    BY <1>7 DEF Receive
  <2>4. /\ msg \in Seq(Byte) /\ Len(msg) \in ValuesOf(U32) /\ Len(msg) \in Nat
    BY <2>2, PrefixedHolds
  <2>5. /\ Len(wire) = 12 + Len(msg)
        /\ \A k \in 1 .. Len(msg) : wire[12 + k] = msg[k]
        /\ Field(wire, 0, I32, sec) /\ Field(wire, 4, I32, usec)
        /\ Field(wire, 8, U32, Len(msg))
    BY <2>1 DEF ChunkOnWire
  <2> HIDE DEF data
  <2>6. Field(data, 0, I32, sec) /\ Field(data, 4, I32, usec) /\ Field(data, 8, U32, Len(msg))
    BY <1>3, <2>5, Widths
  <2>7. got'.result = 0 => got'.size = Len(msg) /\ got'.payload = 12
    BY <1>3, <1>4, <2>3, <2>4, <2>6, ChunkDeserialized
  <2>8. SubSeq(wire, 12 + 1, 12 + Len(msg)) = msg
    <3> DEFINE s == SubSeq(wire, 12 + 1, 12 + Len(msg))
    <3>1. /\ s \in Seq(Byte) /\ Len(s) = Len(msg)
          /\ \A i \in 1 .. Len(msg) : s[i] = wire[12 + i]
      BY <1>1, <2>4, <2>5, 12 \in Nat, Part
    <3> HIDE DEF s
    <3>2. \A i \in 1 .. Len(msg) : s[i] = msg[i]
      BY <2>5, <3>1
    <3>3. s = msg
      BY ONLY <2>4, <3>1, <3>2, SeqEqual
    <3> QED BY <3>3 DEF s
  <2>9. ChunkInPlace'
    <3>1. SUFFICES ASSUME got'.result = 0
                   PROVE  /\ SubSeq(wire, got'.payload + 1, Len(wire)) = msg
                          /\ got'.size = Len(msg)
      BY <1>1 DEF ChunkInPlace
    <3> QED BY <2>5, <2>7, <2>8, <3>1, Zenon
  <2> QED BY <1>1, <1>2, <1>7, <2>9 DEF FieldsExact, CodecHeaderExact
<1>8. CASE kind = "codec"
  <2>1. PICK name \in Strings, payload \in Strings :
          msg = <<name, payload>> /\ CodecOnWire(wire, name, payload)
    BY <1>1, <1>8 DEF OnItsWay
  <2>2. PICK mallocs \in 0 .. 2 : got' = CodecHeaderDeserialize(data, mallocs)
    BY <1>8 DEF Receive
  <2>3. /\ got'.result = 0 => n = Len(wire) /\ got'.codec = name /\ got'.payload = payload
        /\ got'.result = 1 => n < Len(wire)
        /\ got'.heap > 0 => n >= 4
        /\ got'.heap > 1 => n >= 8 + Len(name)
    BY <1>1, <2>1, <2>2, CodecDeserialized
  <2>4. msg[1] = name /\ msg[2] = payload
    BY <2>1
  <2>5. CodecHeaderExact'
    BY <1>1, <2>3, <2>4, Zenon DEF CodecHeaderExact
  <2> QED BY <1>1, <1>2, <1>8, <2>5 DEF FieldsExact, ChunkInPlace
<1> QED BY <1>1, <1>5, <1>6, <1>7, <1>8 DEF OnItsWay

(***************************************************************************)
(* The inductive invariant: a message on its way is in its bytes, and what *)
(* was received of one that arrived is what the properties say.            *)
(***************************************************************************)
MessagesInv == Journey /\ FieldsExact /\ ChunkInPlace /\ CodecHeaderExact

(* Nothing has been sent in the beginning. *)
LEMMA MessagesInit == Init => MessagesInv
BY DEF Init, MessagesInv, Journey, FieldsExact, ChunkInPlace, CodecHeaderExact

(* Every step of the journey preserves the invariant.                      *)
LEMMA MessagesStep ==
  ASSUME RADIX = 256, MessagesInv, [Next]_vars
  PROVE  MessagesInv'
<1>1. CASE SendBase \/ SendTime \/ SendChunk \/ SendCodecHeader
  <2>1. pc' = "receive" /\ Journey'
    BY <1>1, Sending
  <2> QED BY <2>1 DEF MessagesInv, FieldsExact, ChunkInPlace, CodecHeaderExact
<1>2. CASE \E n \in 0 .. Len(wire) : Receive(n)
  <2>1. PICK n \in 0 .. Len(wire) : Receive(n)
    BY <1>2
  <2> QED BY <2>1, Receiving DEF MessagesInv
<1>3. CASE UNCHANGED vars
  BY <1>3, Zenon
    DEF vars, MessagesInv, Journey, OnItsWay, FieldsExact, ChunkInPlace, CodecHeaderExact
<1> QED BY <1>1, <1>2, <1>3 DEF Next

(* The sender is told exactly of what had no room.                         *)
LEMMA JourneySuffices ==
  ASSUME Journey
  PROVE  SizesSuffice
BY DEF Journey, OnItsWay, SizesSuffice

(* In bytes of eight bits, the invariant holds in every reachable state.   *)
THEOREM MessagesInvariant == ASSUME RADIX = 256 PROVE Spec => []MessagesInv
BY MessagesInit, MessagesStep, PTL DEF Spec

(* Base and Time messages arrive field by field, up to where they are cut. *)
THEOREM FieldsArrive == ASSUME RADIX = 256 PROVE Spec => []FieldsExact
<1>1. MessagesInv => FieldsExact
  BY DEF MessagesInv
<1> QED BY <1>1, MessagesInvariant, PTL

(* The sizes the callers pass to the serializers are the ones they need.   *)
THEOREM SizesAreRight == ASSUME RADIX = 256 PROVE Spec => []SizesSuffice
<1>1. MessagesInv => SizesSuffice
  BY JourneySuffices DEF MessagesInv
<1> QED BY <1>1, MessagesInvariant, PTL

(* A wire chunk's payload is where the deserializer says it is.            *)
THEOREM ChunksArrive == ASSUME RADIX = 256 PROVE Spec => []ChunkInPlace
<1>1. MessagesInv => ChunkInPlace
  BY DEF MessagesInv
<1> QED BY <1>1, MessagesInvariant, PTL

(* Only complete codec headers are accepted, as the server sent them.      *)
THEOREM CodecHeadersArrive == ASSUME RADIX = 256 PROVE Spec => []CodecHeaderExact
<1>1. MessagesInv => CodecHeaderExact
  BY DEF MessagesInv
<1> QED BY <1>1, MessagesInvariant, PTL
=============================================================================
