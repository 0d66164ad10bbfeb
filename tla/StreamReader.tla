--------------------------- MODULE StreamReader ---------------------------
(***************************************************************************)
(* The receiving half of the snapclient element: _snapclient_read and      *)
(* _snapclient_process (components/snapclient_stream/snapclient_stream.c)  *)
(* run by the element's task on one open connection.  The framework calls  *)
(* process again and again with the element's buffer of BUF_SIZE cells;    *)
(* each turn of its loop reads one header or one body into the start of    *)
(* that buffer and dispatches on the type of the current base message.     *)
(***************************************************************************)
EXTENDS SnapStream, FiniteSets

CONSTANTS
  BUF_SIZE,    \* cells of the element's buffer (SNAPCLIENT_STREAM_BUF_SIZE)
  MaxFaults,   \* bound on stalls, socket errors, clock and malloc failures
  Outside      \* what a read beyond the element's buffer finds

ASSUME ReaderAssumption ==
  /\ BUF_SIZE \in Nat /\ BUF_SIZE >= BASE_MESSAGE_SIZE
  /\ MaxFaults \in Nat
  /\ Outside \notin Cell

VARIABLES
  stream,           \* what the server sends
  pos,              \* cells of it taken from the socket
  pc,               \* where the element's task is in process()
  in_len,           \* budget of the current call of process()
  got,              \* cells the current read has put into buf
  buf,              \* the element's buffer: in_buffer
  base_message,     \* the current message; type BASE when there is none
  received_header,
  codec,            \* set by audio_element_set_codec_fmt
  latency,          \* time_message.latency
  out,              \* samples given to audio_element_output
  heap,             \* live allocations made for codec headers
  handled,          \* history: messages handled
  faults,           \* history: faults met
  slipped           \* history: cells were taken for a message they are not of

socket  == <<stream, pos>>
element == <<received_header, codec, latency, out, heap>>
vars    == <<socket, pc, in_len, got, buf, base_message, element, handled,
             faults, slipped>>

NUL == 0

(* base_message.size is unsigned, message_size is an int. *)
AsInt(u) == IF u > INT_MAX THEN u - 2 * (INT_MAX + 1) ELSE u

MessageSize ==
  IF base_message.type = SNAPCAST_MESSAGE_BASE
    THEN BASE_MESSAGE_SIZE
    ELSE AsInt(base_message.size)

(* Mutants of FitsBudget: no check at all, and one that wants room to spare. *)
FitsAlways == TRUE
FitsWithRoom == in_len > MessageSize

FitsBudget == in_len >= MessageSize

Init ==
  /\ stream \in Streams
  /\ pos = 0
  /\ pc = "loop"
  /\ in_len = BUF_SIZE
  /\ got = 0
  /\ buf = [k \in 0 .. BUF_SIZE - 1 |-> 0]
  /\ base_message = [type |-> SNAPCAST_MESSAGE_BASE, size |-> 0]
  /\ received_header = FALSE
  /\ codec = NoCodec
  /\ latency = 0
  /\ out = <<>>
  /\ heap = 0
  /\ handled = 0
  /\ faults = 0
  /\ slipped = FALSE

(***************************************************************************)
(* process() returns 1 and the framework calls it again, with the same     *)
(* current message and a fresh budget.                                     *)
(***************************************************************************)
CallAgain == pc' = "loop" /\ in_len' = BUF_SIZE /\ got' = 0

Fault == faults < MaxFaults /\ faults' = faults + 1

(* The rest of the budget cannot hold the message. *)
BudgetSpent ==
  /\ pc = "loop"
  /\ ~FitsBudget
  /\ CallAgain
  /\ UNCHANGED <<socket, buf, base_message, element, handled, faults, slipped>>

(* A length of zero, or one that wrapped below it, reads nothing and the   *)
(* loop is left.                                                           *)
EmptyRead ==
  /\ pc = "loop"
  /\ FitsBudget
  /\ MessageSize <= 0
  /\ CallAgain
  /\ UNCHANGED <<socket, buf, base_message, element, handled, faults, slipped>>

BeginRead ==
  /\ pc = "loop"
  /\ FitsBudget
  /\ MessageSize > 0
  /\ pc' = "read"
  /\ UNCHANGED <<socket, in_len, got, buf, base_message, element, handled,
                 faults, slipped>>

(* _snapclient_read returns the length it was asked for. *)
EndRead == pc' = "switch" /\ in_len' = in_len - MessageSize

(* esp_transport_read delivers n more cells of the stream. *)
ReadSome(n) ==
  /\ pc = "read"
  /\ n <= MessageSize - got
  /\ n <= Len(stream.cells) - pos
  /\ pos' = pos + n
  /\ got' = got + n
  /\ buf' = [k \in 0 .. BUF_SIZE - 1 |->
               IF k \in got .. got + n - 1 THEN At(stream, pos + k - got) ELSE buf[k]]
  /\ IF got' = MessageSize THEN EndRead ELSE UNCHANGED <<pc, in_len>>
  /\ UNCHANGED <<stream, base_message, element, handled, faults, slipped>>

(* It returns 0: no data within timeout_ms, or the end of the stream.      *)
(* Whatever the buffer held before is taken for the rest of the message.   *)
ReadStalls ==
  /\ pc = "read"
  /\ Fault
  /\ EndRead
  /\ slipped' = TRUE
  /\ UNCHANGED <<socket, got, buf, base_message, element, handled>>

(* It fails: process() leaves its loop and keeps the current message, and  *)
(* the cells already read are dropped.                                     *)
ReadFails ==
  /\ pc = "read"
  /\ Fault
  /\ CallAgain
  /\ slipped' = (slipped \/ got > 0)
  /\ UNCHANGED <<socket, buf, base_message, element, handled>>

-----------------------------------------------------------------------------
(* The switch of process(): buf holds the header or the body just read.    *)

Case(type) == pc = "switch" /\ base_message.type = type
NextTurn   == pc' = "loop" /\ got' = 0 /\ UNCHANGED <<socket, in_len>>

HandleBase ==
  /\ Case(SNAPCAST_MESSAGE_BASE)
  /\ NextTurn
  /\ base_message' = [type |-> buf[0], size |-> buf[BASE_MESSAGE_SIZE - 1]]
  /\ UNCHANGED <<buf, element, handled, faults, slipped>>

(* gettimeofday fails after the header was read: its body is taken for the *)
(* next header.                                                            *)
ClockFails ==
  /\ Case(SNAPCAST_MESSAGE_BASE)
  /\ Fault
  /\ NextTurn
  /\ slipped' = TRUE
  /\ UNCHANGED <<buf, base_message, element, handled>>

(* Mutant of Done: the case forgets to reset the type of the message. *)
DoneWithoutReset ==
  /\ NextTurn
  /\ base_message' = base_message
  /\ handled' = handled + 1

(* A body was dispatched: there is no current message. *)
Done ==
  /\ NextTurn
  /\ base_message' = [base_message EXCEPT !.type = SNAPCAST_MESSAGE_BASE]
  /\ handled' = handled + 1

(* Mutant of HandleCodecHeader: the supported codec's copy is not freed. *)
HandleCodecHeaderUnfreed ==
  /\ Case(SNAPCAST_MESSAGE_CODEC_HEADER)
  /\ MessageSize >= CODEC_HEADER_MIN
  /\ heap' = heap + 2
  /\ IF buf[0] \in SupportedCodecs
       THEN codec' = buf[0] /\ received_header' = TRUE
       ELSE UNCHANGED <<codec, received_header>>
  /\ Done
  /\ UNCHANGED <<buf, latency, out, faults, slipped>>

(* A supported codec is announced and the header's copy freed; the copy of *)
(* an unsupported one stays allocated.                                     *)
HandleCodecHeader ==
  /\ Case(SNAPCAST_MESSAGE_CODEC_HEADER)
  /\ MessageSize >= CODEC_HEADER_MIN
  /\ IF buf[0] \in SupportedCodecs
       THEN codec' = buf[0] /\ received_header' = TRUE /\ heap' = heap
       ELSE heap' = heap + 2 /\ UNCHANGED <<codec, received_header>>
  /\ Done
  /\ UNCHANGED <<buf, latency, out, faults, slipped>>

(* malloc fails for the codec name, or for the payload after the name.     *)
CodecHeaderNoMemory ==
  /\ Case(SNAPCAST_MESSAGE_CODEC_HEADER)
  /\ MessageSize >= CODEC_HEADER_MIN
  /\ Fault
  /\ heap' \in {heap, heap + 1}
  /\ Done
  /\ UNCHANGED <<buf, received_header, codec, latency, out, slipped>>

(* The body ends before the codec's name does, between the name and the    *)
(* payload, or inside the payload: what was allocated until then stays.    *)
CodecHeaderTruncated ==
  /\ Case(SNAPCAST_MESSAGE_CODEC_HEADER)
  /\ MessageSize < CODEC_HEADER_MIN
  /\ heap' \in heap .. heap + 2
  /\ Done
  /\ UNCHANGED <<buf, received_header, codec, latency, out, faults, slipped>>

(* Mutant of ChunkPayload: the size of the whole body instead of the field. *)
ChunkBody ==
  [k \in 1 .. MessageSize |->
     IF CHUNK_HEADER_SIZE + k - 1 < BUF_SIZE THEN buf[CHUNK_HEADER_SIZE + k - 1]
                                             ELSE Outside]

(* The payload is where the chunk's own size field says, in the element's  *)
(* buffer; audio_element_output blocks until the ring buffer took it all.  *)
ChunkPayload ==
  [k \in 1 .. AsInt(buf[CHUNK_HEADER_SIZE - 1]) |->
     IF CHUNK_HEADER_SIZE + k - 1 < BUF_SIZE THEN buf[CHUNK_HEADER_SIZE + k - 1]
                                             ELSE Outside]

HandleWireChunk ==
  /\ Case(SNAPCAST_MESSAGE_WIRE_CHUNK)
  /\ received_header
  /\ MessageSize >= CHUNK_HEADER_SIZE
  /\ out' = out \o ChunkPayload
  /\ Done
  /\ UNCHANGED <<buf, received_header, codec, latency, heap, faults, slipped>>

(* No codec header yet, or a chunk too short to have a size. *)
IgnoreWireChunk ==
  /\ Case(SNAPCAST_MESSAGE_WIRE_CHUNK)
  /\ ~received_header \/ MessageSize < CHUNK_HEADER_SIZE
  /\ Done
  /\ UNCHANGED <<buf, element, faults, slipped>>

(* The JSON is moved over its length prefix and terminated; the settings   *)
(* parsed from it are only logged.                                         *)
HandleServerSettings ==
  /\ Case(SNAPCAST_MESSAGE_SERVER_SETTINGS)
  /\ MessageSize >= STRING_PREFIX
  /\ buf' = [k \in 0 .. BUF_SIZE - 1 |->
               IF k < MessageSize - STRING_PREFIX THEN buf[k + STRING_PREFIX]
               ELSE IF k = MessageSize - STRING_PREFIX + 1 THEN NUL ELSE buf[k]]
  /\ Done
  /\ UNCHANGED <<element, faults, slipped>>

(* memmove with a negative length: the task does not survive it. *)
ServerSettingsTruncated ==
  /\ Case(SNAPCAST_MESSAGE_SERVER_SETTINGS)
  /\ MessageSize < STRING_PREFIX
  /\ pc' = "panic"
  /\ UNCHANGED <<socket, in_len, got, buf, base_message, element, handled,
                 faults, slipped>>

HandleTime ==
  /\ Case(SNAPCAST_MESSAGE_TIME)
  /\ latency' = buf[0]
  /\ Done
  /\ UNCHANGED <<buf, received_header, codec, out, heap, faults, slipped>>

(* STREAM_TAGS and the default case. *)
HandleOther ==
  /\ pc = "switch"
  /\ base_message.type > SNAPCAST_MESSAGE_TIME
  /\ Done
  /\ UNCHANGED <<buf, element, faults, slipped>>

Switch ==
  \/ HandleBase
  \/ HandleCodecHeader \/ CodecHeaderTruncated
  \/ HandleWireChunk \/ IgnoreWireChunk
  \/ HandleServerSettings \/ ServerSettingsTruncated
  \/ HandleTime
  \/ HandleOther

Loop == BudgetSpent \/ EmptyRead \/ BeginRead

Faulty == ReadStalls \/ ReadFails \/ ClockFails \/ CodecHeaderNoMemory

Next == Loop \/ (\E n \in 1 .. BUF_SIZE : ReadSome(n)) \/ Switch \/ Faulty

Spec == Init /\ [][Next]_vars

(***************************************************************************)
(* The element's task is always scheduled again, and what the server sent  *)
(* reaches the socket; nothing obliges a fault to happen.                  *)
(***************************************************************************)
Progress == Loop \/ (\E n \in 1 .. BUF_SIZE : ReadSome(n)) \/ Switch

FairSpec == Spec /\ WF_vars(Progress)

-----------------------------------------------------------------------------
(* Types of the variables; in particular the budget never goes negative.   *)
TypeOK ==
  /\ stream \in Streams
  /\ pos \in 0 .. Len(stream.cells)
  /\ pc \in {"loop", "read", "switch", "panic"}
  /\ in_len \in 0 .. BUF_SIZE
  /\ got \in 0 .. BUF_SIZE
  /\ buf \in [0 .. BUF_SIZE - 1 -> Cell]
  /\ base_message \in [type : Cell, size : Cell]
  /\ received_header \in BOOLEAN
  /\ codec \in SupportedCodecs \cup {NoCodec}
  /\ latency \in Cell
  /\ out \in Seq(Cell \cup {Outside})
  /\ heap \in Nat
  /\ handled \in Nat
  /\ faults \in 0 .. MaxFaults
  /\ slipped \in BOOLEAN

(* Where the bytes being read belong: message handled + 1, its header when *)
(* there is no current message and its body otherwise.                     *)
FrameStart ==
  stream.start[handled + 1] +
    (IF base_message.type = SNAPCAST_MESSAGE_BASE THEN 0 ELSE BASE_MESSAGE_SIZE)

(***************************************************************************)
(* Framing: unless a read stalled, failed half way or lost its clock, the  *)
(* element knows where it is in the stream.  The cells taken since the     *)
(* last message ended are exactly those at the start of the buffer, and    *)
(* the current base message is the header the server sent for the next     *)
(* message, however the transport cuts the stream into reads.              *)
(***************************************************************************)
Framed ==
  ~slipped =>
    /\ handled \in 0 .. MessageCount(stream)
    /\ pos = FrameStart + got
    /\ \A k \in 0 .. got - 1 : buf[k] = At(stream, FrameStart + k)
    /\ base_message.type # SNAPCAST_MESSAGE_BASE =>
         /\ handled < MessageCount(stream)
         /\ base_message.type = TypeOf(stream, handled + 1)
         /\ base_message.size = SizeOf(stream, handled + 1)
    /\ pc = "switch" => got = MessageSize

(* Even when the framing is lost and sizes are garbage, a read stays       *)
(* inside the element's buffer and inside the budget of the call, and no   *)
(* read begins where another has left off.                                 *)
NoOverrun ==
  /\ pc = "loop" => got = 0
  /\ pc = "read" => got < MessageSize /\ MessageSize <= in_len
  /\ pc = "switch" => got <= MessageSize /\ MessageSize \in 1 .. BUF_SIZE

(* As long as the framing holds, and with a server that honours the        *)
(* protocol, the handlers are safe: no settings message makes memmove      *)
(* wrap, and no chunk plays memory beyond the buffer.                      *)
HandlersSafe ==
  ~slipped => pc # "panic" /\ \A k \in DOMAIN out : out[k] \in Cell

UnsupportedHandled ==
  {i \in 1 .. handled :
     /\ TypeOf(stream, i) = SNAPCAST_MESSAGE_CODEC_HEADER
     /\ BodyAt(stream, i, 0) \notin SupportedCodecs}

(* What codec headers leave on the heap: both allocations of every header  *)
(* whose codec is not supported, at most one for every failed malloc, and  *)
(* nothing else.                                                           *)
LeakBounded ==
  ~slipped =>
    LET leak == 2 * Cardinality(UnsupportedHandled)
    IN  heap \in leak - 2 * faults .. leak + faults

(* The reader implements the promise of module Delivery.                   *)
D == INSTANCE Delivery WITH lost <- slipped

DeliverySpec == D!Spec

(* Every message of the server's stream fits the element's buffer. *)
EachFits == \A i \in 1 .. MessageCount(stream) : SizeOf(stream, i) <= BUF_SIZE

(* Every message the server sends is handled in the end, if each fits the  *)
(* element's buffer and unless the framing is lost: no order of short      *)
(* reads, budgets and errors makes the element starve.                     *)
AllHandled == EachFits => <>(slipped \/ handled = MessageCount(stream))

(* Line 336 leaves the loop when "not enough data [is] available", for the *)
(* next call of process() to read the message: a message that does not fit *)
(* the rest of the budget fits a later one.                                *)
FitsLater == (pc = "loop" /\ ~FitsBudget) ~> FitsBudget

(* Line 350: a read that got fewer cells than the message has is reported  *)
(* and aborts the message.                                                 *)
ShortReadAborts ==
  [][pc = "switch" /\ got < MessageSize =>
       handled' = handled /\ base_message'.type = SNAPCAST_MESSAGE_BASE]_vars
=============================================================================
