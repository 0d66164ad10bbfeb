---------------------------- MODULE SnapStream ----------------------------
(***************************************************************************)
(* What a snapserver sends on one TCP connection, as the client's parser   *)
(* sees it: messages made of a base header (base_message_t) and a body.    *)
(*                                                                         *)
(* A cell stands for the bytes of one field or one unit of payload.  The   *)
(* header has BASE_MESSAGE_SIZE cells, the first holding the type and the  *)
(* last the size of the body; the cells between them are the ids and the   *)
(* timestamps.  A stream is a record                                       *)
(*    cells  everything the server sends, in order                         *)
(*    start  start[i] is the offset at which message i begins, followed    *)
(*           by the offset at which the last message ends                  *)
(***************************************************************************)
EXTENDS Integers, Sequences

CONSTANTS
  BASE_MESSAGE_SIZE,  \* cells of a base header
  STRING_PREFIX,      \* cells of the length that precedes the settings' JSON
  INT_MAX,            \* the largest int: size fields above it wrap
  SupportedCodecs,    \* the codecs the client has a name for
  Streams             \* the streams the server may send

(* enum message_type *)
SNAPCAST_MESSAGE_BASE            == 0
SNAPCAST_MESSAGE_CODEC_HEADER    == 1
SNAPCAST_MESSAGE_WIRE_CHUNK      == 2
SNAPCAST_MESSAGE_SERVER_SETTINGS == 3
SNAPCAST_MESSAGE_TIME            == 4

CHUNK_HEADER_SIZE == 2          \* a chunk's timestamp and its payload size
CODEC_HEADER_MIN  == 2          \* a codec name and a payload
NoCodec           == 0          \* the codec format of a fresh element

Cell == 0 .. 2 * INT_MAX + 1    \* what an unsigned field can hold

At(s, p)        == s.cells[p + 1]
MessageCount(s) == Len(s.start) - 1
TypeOf(s, i)    == At(s, s.start[i])
SizeOf(s, i)    == At(s, s.start[i] + BASE_MESSAGE_SIZE - 1)
BodyAt(s, i, k) == At(s, s.start[i] + BASE_MESSAGE_SIZE + k)

(* The samples of the wire chunk that message i carries. *)
PayloadOf(s, i) ==
  [k \in 1 .. SizeOf(s, i) - CHUNK_HEADER_SIZE |->
     BodyAt(s, i, CHUNK_HEADER_SIZE + k - 1)]

(***************************************************************************)
(* The server honours the protocol: every body has the size its header     *)
(* announces, and is as long as its type requires.                         *)
(***************************************************************************)
IsMessage(s, i) ==
  /\ s.start[i + 1] = s.start[i] + BASE_MESSAGE_SIZE + SizeOf(s, i)
  /\ TypeOf(s, i) # SNAPCAST_MESSAGE_BASE
  /\ SizeOf(s, i) \in 1 .. INT_MAX
  /\ TypeOf(s, i) = SNAPCAST_MESSAGE_CODEC_HEADER => SizeOf(s, i) >= CODEC_HEADER_MIN
  /\ TypeOf(s, i) = SNAPCAST_MESSAGE_SERVER_SETTINGS => SizeOf(s, i) >= STRING_PREFIX
  /\ TypeOf(s, i) = SNAPCAST_MESSAGE_WIRE_CHUNK =>
       /\ SizeOf(s, i) >= CHUNK_HEADER_SIZE
       /\ BodyAt(s, i, CHUNK_HEADER_SIZE - 1) = SizeOf(s, i) - CHUNK_HEADER_SIZE

IsStream(s) ==
  /\ s.cells \in Seq(Cell)
  /\ s.start \in Seq(Nat)
  /\ s.start # <<>>
  /\ s.start[1] = 0
  /\ s.start[Len(s.start)] = Len(s.cells)
  /\ \A i \in 1 .. MessageCount(s) : IsMessage(s, i)

ASSUME StreamAssumption ==
  /\ BASE_MESSAGE_SIZE \in Nat /\ BASE_MESSAGE_SIZE >= 2
  /\ STRING_PREFIX \in Nat /\ STRING_PREFIX >= 2
  /\ INT_MAX \in Nat /\ INT_MAX >= 4
  /\ SupportedCodecs \subseteq Cell \ {NoCodec}
  /\ \A s \in Streams : IsStream(s)
=============================================================================
