----------------------------- MODULE Delivery -----------------------------
(***************************************************************************)
(* What the receiving half of the snapclient element promises: it handles  *)
(* the server's messages one at a time, in order, each exactly once, and   *)
(* the samples it hands to the pipeline are those of the chunks that       *)
(* follow a codec header it supports.  The promise ends (lost) when the    *)
(* connection stalls in the middle of a read.                              *)
(***************************************************************************)
EXTENDS SnapStream

VARIABLES
  stream,           \* what the server sends
  handled,          \* how many messages have been handled
  received_header,  \* a supported codec header has been handled
  codec,            \* the codec announced to the element
  latency,          \* the latency of the last Time message
  out,              \* the samples handed to the pipeline
  lost              \* no promise any more

vars == <<stream, handled, received_header, codec, latency, out, lost>>

Init ==
  /\ stream \in Streams
  /\ handled = 0
  /\ received_header = FALSE
  /\ codec = NoCodec
  /\ latency = 0
  /\ out = <<>>
  /\ lost = FALSE

(* Message m announces a codec the client knows. *)
Announce(m) ==
  /\ TypeOf(stream, m) = SNAPCAST_MESSAGE_CODEC_HEADER
  /\ BodyAt(stream, m, 0) \in SupportedCodecs
  /\ codec' = BodyAt(stream, m, 0)
  /\ received_header' = TRUE
  /\ UNCHANGED <<latency, out>>

(* Message m is a chunk of the announced codec. *)
Play(m) ==
  /\ TypeOf(stream, m) = SNAPCAST_MESSAGE_WIRE_CHUNK
  /\ received_header
  /\ out' = out \o PayloadOf(stream, m)
  /\ UNCHANGED <<received_header, codec, latency>>

(* Message m answers a Time request. *)
Synchronise(m) ==
  /\ TypeOf(stream, m) = SNAPCAST_MESSAGE_TIME
  /\ latency' = BodyAt(stream, m, 0)
  /\ UNCHANGED <<received_header, codec, out>>

(* Message m has no effect: a type that is ignored, a chunk before any     *)
(* header, or a codec header that is unsupported or finds no memory.       *)
Skip(m) ==
  /\ TypeOf(stream, m) # SNAPCAST_MESSAGE_TIME
  /\ TypeOf(stream, m) = SNAPCAST_MESSAGE_WIRE_CHUNK => ~received_header
  /\ UNCHANGED <<received_header, codec, latency, out>>

Deliver ==
  /\ ~lost
  /\ handled < MessageCount(stream)
  /\ handled' = handled + 1
  /\ LET m == handled + 1
     IN  Announce(m) \/ Play(m) \/ Synchronise(m) \/ Skip(m)
  /\ UNCHANGED <<stream, lost>>

Lose ==
  /\ ~lost
  /\ lost' = TRUE
  /\ UNCHANGED <<stream, handled, received_header, codec, latency, out>>

Adrift == lost /\ lost' /\ UNCHANGED stream

Next == Deliver \/ Lose \/ Adrift

Spec == Init /\ [][Next]_vars
=============================================================================
