----------------------------- MODULE Messages -----------------------------
(***************************************************************************)
(* The Snapcast messages (components/lightsnapcast/snapcast.c): how base   *)
(* and Time messages are serialized, and how they, wire chunks and codec   *)
(* headers are deserialized from a body that may be cut short.  Here a     *)
(* message makes one journey: it is serialized into an array, some bytes   *)
(* of the array reach the receiver, and are deserialized over a struct     *)
(* that holds older values.                                                *)
(***************************************************************************)
EXTENDS Buffer

CONSTANTS
  Shorts, Ints, Sizes,   \* the values of 16-bit, signed and size fields
  Strings,               \* codec names and payloads: sequences of bytes
  Old                    \* what the receiver's struct holds before

ASSUME MessageAssumption ==
  /\ Shorts \subseteq ValuesOf(U16)
  /\ Ints \subseteq ValuesOf(I32)
  /\ Sizes \subseteq ValuesOf(U32)
  /\ Strings \subseteq {s \in Seq(Byte) : Len(s) \in ValuesOf(U32)}
  /\ Old \notin Shorts \cup Ints \cup Sizes

(* Mutant of BASE_MESSAGE_SIZE: one 16-bit field is not counted.           *)
BASE_MESSAGE_SIZE_SHORT == 24

BASE_MESSAGE_SIZE == 26
TIME_MESSAGE_SIZE == 8

(* Fields are written one after another; a field without room is left out  *)
(* and reported, and the next one is tried.                                *)
WriteField(w, kind, x) ==
  IF Fits(w.b, kind.width)
    THEN [w EXCEPT !.b = Put(@, Bytes(x, kind.width))]
    ELSE [w EXCEPT !.result = 1]

Writer(data) == [b |-> WriteInit(data), result |-> 0]

(* A tv_t: seconds and microseconds. *)
WriteTimestamp(w, sec, usec) == WriteField(WriteField(w, I32, sec), I32, usec)

(* base_message_t: type, id, refersTo, sent, received and size. *)
BaseMessageSerialize(m, data) ==
  LET ids   == WriteField(WriteField(WriteField(Writer(data), U16, m[1]), U16, m[2]),
                          U16, m[3])
      times == WriteTimestamp(WriteTimestamp(ids, m[4], m[5]), m[6], m[7])
  IN  WriteField(times, U32, m[8])

(* time_message_t: a latency. *)
TimeMessageSerialize(m, data) == WriteTimestamp(Writer(data), m[1], m[2])

(* Mutant of ReadField: a field that is not there is reported as read.     *)
ReadFieldSilent(r, kind) ==
  IF Fits(r.b, kind.width)
    THEN [b      |-> Advance(r.b, kind.width),
          values |-> Append(r.values, Decode(NextBytes(r.b, kind.width), kind)),
          result |-> r.result]
    ELSE [r EXCEPT !.values = Append(@, Old)]

(* Fields are read one after another; one that is not there keeps its old  *)
(* value and is reported.                                                  *)
ReadField(r, kind) ==
  IF Fits(r.b, kind.width)
    THEN [b      |-> Advance(r.b, kind.width),
          values |-> Append(r.values, Decode(NextBytes(r.b, kind.width), kind)),
          result |-> r.result]
    ELSE [r EXCEPT !.values = Append(@, Old), !.result = 1]

Reader(data) == [b |-> ReadInit(data), values |-> <<>>, result |-> 0]

ReadTimestamp(r) == ReadField(ReadField(r, I32), I32)

BaseMessageDeserialize(data) ==
  LET ids   == ReadField(ReadField(ReadField(Reader(data), U16), U16), U16)
      times == ReadTimestamp(ReadTimestamp(ids))
  IN  ReadField(times, U32)

TimeMessageDeserialize(data) == ReadTimestamp(Reader(data))

(* A wire chunk: its timestamp, its size, and where its payload starts in  *)
(* the data, which is not copied.                                          *)
ChunkHeader(data) == ReadField(ReadTimestamp(Reader(data)), U32)

(* Mutant of WireChunkDeserialize: the payload is where the data begins.   *)
WireChunkAtStart(data) ==
  LET r == ChunkHeader(data)
  IN  [result |-> r.result, size |-> r.values[3], payload |-> 0]

WireChunkDeserialize(data) ==
  LET r == ChunkHeader(data)
  IN  [result |-> r.result, size |-> r.values[3], payload |-> r.b.index]

(* A string and its length, as in the Hello message and codec headers. *)
Prefixed(string) == Bytes(Len(string), 4) \o string

(* A codec header is a name and a payload, each preceded by its length.    *)
(* The first mallocs allocations succeed; heap counts those left behind.   *)
CodecHeaderDeserialize(data, mallocs) ==
  LET size == ReadField(Reader(data), U32)
      name == size.values[1]
      more == ReadField([size EXCEPT !.b = Advance(@, name)], U32)
      payload == more.values[2]
  IN  IF size.result # 0 THEN [result |-> 1, heap |-> 0]
      ELSE IF mallocs < 1 THEN [result |-> 2, heap |-> 0]
      ELSE IF ~Fits(size.b, name) \/ more.result # 0 THEN [result |-> 1, heap |-> 1]
      ELSE IF mallocs < 2 THEN [result |-> 2, heap |-> 1]
      ELSE IF ~Fits(more.b, payload) THEN [result |-> 1, heap |-> 2]
      ELSE [result |-> 0, heap |-> 2, codec |-> NextBytes(size.b, name),
            payload |-> NextBytes(more.b, payload)]
-----------------------------------------------------------------------------
VARIABLES
  pc,     \* "send", "receive" or "done"
  kind,   \* which message makes the journey
  msg,    \* what the sender put into it
  wire,   \* its bytes
  sent,   \* the result of serializing it
  len,    \* how many of its bytes reach the receiver
  got     \* what deserializing them gave

vars == <<pc, kind, msg, wire, sent, len, got>>

Zeros(n) == [i \in 1 .. n |-> 0]

BaseMessages ==
  {<<type, id, refersTo, s1, u1, s2, u2, size>> :
     type \in Shorts, id \in Shorts, refersTo \in Shorts,
     s1 \in Ints, u1 \in Ints, s2 \in Ints, u2 \in Ints, size \in Sizes}

Init ==
  /\ pc = "send"
  /\ kind = "none" /\ msg = <<>> /\ wire = <<>> /\ sent = 0 /\ len = 0
  /\ got = [result |-> 0]

Send(k, m, w) ==
  /\ pc = "send"
  /\ pc' = "receive"
  /\ kind' = k
  /\ msg' = m
  /\ wire' = w.b.buffer
  /\ sent' = w.result
  /\ UNCHANGED <<len, got>>

SendBase ==
  \E m \in BaseMessages, size \in {BASE_MESSAGE_SIZE, BASE_MESSAGE_SIZE - 1} :
    Send("base", m, BaseMessageSerialize(m, Zeros(size)))

SendTime ==
  \E sec \in Ints, usec \in Ints, size \in 0 .. TIME_MESSAGE_SIZE + 1 :
    Send("time", <<sec, usec>>, TimeMessageSerialize(<<sec, usec>>, Zeros(size)))

(* Wire chunks and codec headers come from the server. *)
SendChunk ==
  \E sec \in Ints, usec \in Ints, samples \in Strings :
    Send("chunk", samples,
         Writer(Bytes(sec, 4) \o Bytes(usec, 4) \o Prefixed(samples)))

SendCodecHeader ==
  \E name \in Strings, payload \in Strings :
    Send("codec", <<name, payload>>,
         Writer(Prefixed(name) \o Prefixed(payload)))

Receive(n) ==
  /\ pc = "receive"
  /\ n <= Len(wire)
  /\ pc' = "done"
  /\ len' = n
  /\ LET data == SubSeq(wire, 1, n)
     IN  \/ kind = "base" /\ got' = BaseMessageDeserialize(data)
         \/ kind = "time" /\ got' = TimeMessageDeserialize(data)
         \/ kind = "chunk" /\ got' = WireChunkDeserialize(data)
         \/ kind = "codec" /\ \E mallocs \in 0 .. 2 :
                                got' = CodecHeaderDeserialize(data, mallocs)
  /\ UNCHANGED <<kind, msg, wire, sent>>

Next ==
  \/ SendBase \/ SendTime \/ SendChunk \/ SendCodecHeader
  \/ \E n \in 0 .. Len(wire) : Receive(n)

Spec == Init /\ [][Next]_vars

-----------------------------------------------------------------------------
(* Where the fields end on the wire. *)
BaseEnds == <<2, 4, 6, 10, 14, 18, 22, 26>>
TimeEnds == <<4, 8>>

(***************************************************************************)
(* A base or Time message, cut anywhere: every field that arrived whole    *)
(* has the sender's value, negative ones included, every other keeps its   *)
(* old value, and the result tells whether one is missing.                 *)
(***************************************************************************)
FieldsExact ==
  pc = "done" /\ kind \in {"base", "time"} =>
    LET ends == IF kind = "base" THEN BaseEnds ELSE TimeEnds
    IN  /\ \A i \in DOMAIN ends : got.values[i] = IF ends[i] <= len THEN msg[i] ELSE Old
        /\ got.result = 0 <=> \A i \in DOMAIN ends : ends[i] <= len

(* The sizes the callers pass, BASE_MESSAGE_SIZE and TIME_MESSAGE_SIZE,    *)
(* are those the serializers need: a shorter array is always reported and  *)
(* a longer one never is.                                                  *)
SizesSuffice ==
  pc # "send" =>
    /\ kind = "base" => (sent = 0 <=> Len(wire) >= BASE_MESSAGE_SIZE)
    /\ kind = "time" => (sent = 0 <=> Len(wire) >= TIME_MESSAGE_SIZE)

(* A chunk whose size was read has its payload right behind its header;    *)
(* all of it is in the data exactly if the body was not cut.               *)
ChunkInPlace ==
  pc = "done" /\ kind = "chunk" /\ got.result = 0 =>
    /\ SubSeq(wire, got.payload + 1, Len(wire)) = msg
    /\ got.size = Len(msg)

(* A codec header is accepted only if it is complete, and then it is what  *)
(* the server sent; one that is refused leaves on the heap what had been   *)
(* allocated before.                                                       *)
CodecHeaderExact ==
  pc = "done" /\ kind = "codec" =>
    /\ got.result = 0 => len = Len(wire) /\ got.codec = msg[1] /\ got.payload = msg[2]
    /\ got.result = 1 => len < Len(wire)
    /\ got.heap > 0 => len >= 4
    /\ got.heap > 1 => len >= 8 + Len(msg[1])
=============================================================================
