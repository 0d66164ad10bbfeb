------------------------ MODULE StreamReaderProofs ------------------------
(***************************************************************************)
(* Proofs about StreamReader, for every set of streams, buffer size and    *)
(* number of faults: its invariants, and that it implements the promise of *)
(* module Delivery.                                                        *)
(***************************************************************************)
EXTENDS StreamReader, FiniteSetTheorems, TLAPS

(* What the server's protocol says of a stream, without the definitions. *)
LEMMA Streamed ==
  ASSUME NEW s \in Streams
  PROVE  /\ s.cells \in Seq(Cell)
         /\ s.start \in Seq(Nat)
         /\ MessageCount(s) \in Nat
         /\ s.start[1] = 0
         /\ s.start[MessageCount(s) + 1] = Len(s.cells)
         /\ \A i \in 1 .. MessageCount(s) : IsMessage(s, i)
BY StreamAssumption DEF IsStream, MessageCount

(* A cell within the stream is a cell. *)
LEMMA AtCell ==
  ASSUME NEW s \in Streams, NEW p \in Nat, p < Len(s.cells)
  PROVE  At(s, p) \in Cell
BY Streamed DEF At

(* The size of a message is an integer, at most BUF_SIZE if it fits. *)
LEMMA SizeInt ==
  ASSUME TypeOK
  PROVE  /\ MessageSize \in Int
         /\ FitsBudget => MessageSize <= BUF_SIZE
BY StreamAssumption, ReaderAssumption
DEF TypeOK, MessageSize, AsInt, Cell, FitsBudget

(* The samples of a chunk, whatever its size field says, form a sequence. *)
LEMMA PayloadSeq ==
  ASSUME TypeOK, MessageSize >= CHUNK_HEADER_SIZE, MessageSize <= BUF_SIZE
  PROVE  ChunkPayload \in Seq(Cell \cup {Outside})
<1> DEFINE n == AsInt(buf[CHUNK_HEADER_SIZE - 1])
<1>1. BUF_SIZE \in Nat /\ 1 \in 0 .. BUF_SIZE - 1
  BY SizeInt, ReaderAssumption DEF CHUNK_HEADER_SIZE
<1>2. buf[1] \in Cell
  BY <1>1 DEF TypeOK
<1>3. n \in Int
  BY <1>2, StreamAssumption DEF AsInt, Cell, CHUNK_HEADER_SIZE
<1>4. \A k \in 1 .. n : ChunkPayload[k] \in Cell \cup {Outside}
  BY <1>1, <1>3 DEF ChunkPayload, TypeOK, CHUNK_HEADER_SIZE
<1>5. \E m \in Nat : 1 .. n = 1 .. m
  <2>1. CASE n \in Nat
    BY <2>1
  <2>2. CASE n \notin Nat
    <3>1. 1 .. n = 1 .. 0
      BY <1>3, <2>2
    <3> QED BY <3>1
  <2> QED BY <2>1, <2>2
<1>6. DOMAIN ChunkPayload = 1 .. n
  BY DEF ChunkPayload
<1>7. PICK m \in Nat : 1 .. n = 1 .. m
  BY <1>5
<1>8. ChunkPayload = [k \in 1 .. m |-> ChunkPayload[k]]
  BY <1>6, <1>7 DEF ChunkPayload
<1> HIDE DEF n
<1>9. \A k \in 1 .. m : ChunkPayload[k] \in Cell \cup {Outside}
  BY <1>4, <1>7
<1>10. ChunkPayload \in [1 .. m -> Cell \cup {Outside}]
  BY <1>8, <1>9
<1> QED BY <1>10

(* The two invariants hold at the start and every step keeps them. *)
LEMMA InitTyped == Init => TypeOK /\ NoOverrun
<1> SUFFICES ASSUME Init PROVE TypeOK /\ NoOverrun
  OBVIOUS
<1>1. stream.cells \in Seq(Cell)
  BY Streamed DEF Init
<1>2. 0 \in Cell
  BY StreamAssumption DEF Cell
<1>3. /\ in_len \in 0 .. BUF_SIZE
      /\ got \in 0 .. BUF_SIZE
      /\ pos \in 0 .. Len(stream.cells)
      /\ faults \in 0 .. MaxFaults
  BY <1>1, ReaderAssumption, StreamAssumption DEF Init
<1>4. buf \in [0 .. BUF_SIZE - 1 -> Cell] /\ base_message \in [type : Cell, size : Cell]
  BY <1>2 DEF Init, SNAPCAST_MESSAGE_BASE
<1>5. out \in Seq(Cell \cup {Outside}) /\ codec \in SupportedCodecs \cup {NoCodec}
  BY DEF Init
<1>6. /\ stream \in Streams /\ pc = "loop" /\ got = 0 /\ latency \in Cell
      /\ received_header \in BOOLEAN /\ slipped \in BOOLEAN
      /\ heap \in Nat /\ handled \in Nat
  BY <1>2 DEF Init
<1> QED
  BY <1>3, <1>4, <1>5, <1>6 DEF TypeOK, NoOverrun

(* Every step keeps the types, and every read inside the buffer. *)
LEMMA StepTyped == TypeOK /\ NoOverrun /\ [Next]_vars => TypeOK' /\ NoOverrun'
<1> SUFFICES ASSUME TypeOK, NoOverrun, [Next]_vars
             PROVE  TypeOK' /\ NoOverrun'
  OBVIOUS
<1> USE ReaderAssumption, StreamAssumption
<1>0. /\ MessageSize \in Int
      /\ FitsBudget => MessageSize <= BUF_SIZE
      /\ stream.cells \in Seq(Cell)
      /\ Len(stream.cells) \in Nat
  BY SizeInt, Streamed DEF TypeOK
<1>1. CASE BudgetSpent
  BY <1>1 DEF BudgetSpent, CallAgain, TypeOK, NoOverrun, socket, element
<1>2. CASE EmptyRead
  BY <1>2 DEF EmptyRead, CallAgain, TypeOK, NoOverrun, socket, element
<1>3. CASE BeginRead
  <2>1. MessageSize' = MessageSize
    BY <1>3 DEF BeginRead, MessageSize
  <2> QED
    BY <1>0, <1>3, <2>1 DEF BeginRead, FitsBudget, TypeOK, NoOverrun, socket, element
<1>4. ASSUME NEW n \in 1 .. BUF_SIZE, ReadSome(n)
      PROVE  TypeOK' /\ NoOverrun'
  <2>1. MessageSize' = MessageSize /\ MessageSize <= in_len
    BY <1>4 DEF ReadSome, MessageSize, NoOverrun
  <2>2. buf' \in [0 .. BUF_SIZE - 1 -> Cell]
    <3>1. \A k \in got .. got + n - 1 : At(stream, pos + k - got) \in Cell
      BY <1>0, <1>4, AtCell DEF ReadSome, TypeOK
    <3> QED BY <1>4, <3>1 DEF ReadSome, TypeOK
  <2>3. /\ pos' \in 0 .. Len(stream.cells)
        /\ got' \in 0 .. BUF_SIZE
        /\ got' <= MessageSize
    BY <1>0, <1>4, <2>1 DEF ReadSome, TypeOK
  <2>4. CASE got' = MessageSize
    <3>1. pc' = "switch" /\ in_len' = in_len - MessageSize /\ MessageSize \in 1 .. BUF_SIZE
      BY <1>0, <1>4, <2>1, <2>3, <2>4 DEF ReadSome, EndRead, TypeOK
    <3>2. in_len' \in 0 .. BUF_SIZE
      BY <2>1, <3>1 DEF TypeOK
    <3> QED
      BY <1>4, <2>1, <2>2, <2>3, <2>4, <3>1, <3>2 DEF ReadSome, TypeOK, NoOverrun, element
  <2>5. CASE got' # MessageSize
    <3>1. pc' = "read" /\ in_len' = in_len /\ got' < MessageSize
      BY <1>0, <1>4, <2>3, <2>5 DEF ReadSome, TypeOK
    <3> QED
      BY <1>4, <2>1, <2>2, <2>3, <3>1 DEF ReadSome, TypeOK, NoOverrun, element
  <2> QED BY <2>4, <2>5
<1>5. CASE ReadStalls
  <2>1. MessageSize' = MessageSize /\ MessageSize <= in_len
    BY <1>5 DEF ReadStalls, MessageSize, NoOverrun
  <2> QED
    BY <1>0, <1>5, <2>1 DEF ReadStalls, EndRead, Fault, TypeOK, NoOverrun, socket, element
<1>6. CASE ReadFails
  BY <1>6 DEF ReadFails, CallAgain, Fault, TypeOK, NoOverrun, socket, element
<1>7. CASE HandleBase
  <2>1. base_message' \in [type : Cell, size : Cell]
    BY <1>7 DEF HandleBase, TypeOK
  <2> QED
    BY <1>7, <2>1 DEF HandleBase, NextTurn, TypeOK, NoOverrun, socket, element
<1>8. CASE ClockFails
  BY <1>8 DEF ClockFails, NextTurn, Fault, TypeOK, NoOverrun, socket, element
<1>9. ASSUME Done PROVE base_message' \in [type : Cell, size : Cell] /\ handled' \in Nat
  <2>1. 0 \in Cell
    BY DEF Cell
  <2>2. base_message' = [base_message EXCEPT !.type = 0] /\ handled' = handled + 1
    BY <1>9 DEF Done, SNAPCAST_MESSAGE_BASE
  <2>3. base_message' = [type |-> 0, size |-> base_message.size]
    BY <2>2 DEF TypeOK
  <2>4. base_message.size \in Cell /\ handled \in Nat
    BY DEF TypeOK
  <2>5. base_message' \in [type : Cell, size : Cell]
    BY <2>1, <2>3, <2>4
  <2> QED BY <2>2, <2>4, <2>5
<1>10. CASE HandleCodecHeader
  <2>1. Done
    BY <1>10 DEF HandleCodecHeader
  <2>2. heap' \in Nat
    BY <1>10 DEF HandleCodecHeader, TypeOK
  <2>3. received_header' \in BOOLEAN /\ codec' \in SupportedCodecs \cup {NoCodec}
    BY <1>10 DEF HandleCodecHeader, TypeOK
  <2>4. UNCHANGED <<stream, pos, in_len, buf, latency, out, faults, slipped>>
        /\ pc' = "loop" /\ got' = 0
    BY <1>10, <2>1 DEF HandleCodecHeader, Done, NextTurn, socket
  <2> QED
    BY <1>9, <2>1, <2>2, <2>3, <2>4 DEF TypeOK, NoOverrun
<1>11. CASE CodecHeaderNoMemory \/ CodecHeaderTruncated
  <2>1. Done
    BY <1>11 DEF CodecHeaderNoMemory, CodecHeaderTruncated
  <2>2. heap' \in heap .. heap + 2
    BY <1>11 DEF CodecHeaderNoMemory, CodecHeaderTruncated, TypeOK
  <2>3. heap' \in Nat
    BY <2>2 DEF TypeOK
  <2>4. faults' \in 0 .. MaxFaults
    BY <1>11 DEF CodecHeaderNoMemory, CodecHeaderTruncated, Fault, TypeOK
  <2>5. UNCHANGED <<stream, pos, in_len, buf, received_header, codec, latency, out, slipped>>
        /\ pc' = "loop" /\ got' = 0
    BY <1>11, <2>1 DEF CodecHeaderNoMemory, CodecHeaderTruncated, Done, NextTurn, socket
  <2> QED
    BY <1>9, <2>1, <2>3, <2>4, <2>5 DEF TypeOK, NoOverrun
<1>12. CASE HandleWireChunk
  <2>1. Done
    BY <1>12 DEF HandleWireChunk
  <2>2. ChunkPayload \in Seq(Cell \cup {Outside})
    BY <1>0, <1>12, PayloadSeq DEF HandleWireChunk, Case, NoOverrun
  <2>3. out' \in Seq(Cell \cup {Outside})
    <3>1. out' = out \o ChunkPayload
      BY <1>12 DEF HandleWireChunk
    <3>2. out \in Seq(Cell \cup {Outside})
      BY DEF TypeOK
    <3> HIDE DEF ChunkPayload
    <3> QED
      BY ONLY <2>2, <3>1, <3>2, SMT
  <2> QED
    BY <1>9, <1>12, <2>1, <2>3
    DEF HandleWireChunk, Done, NextTurn, TypeOK, NoOverrun, socket
<1>13. CASE IgnoreWireChunk \/ HandleOther
  <2>1. Done /\ UNCHANGED <<buf, element, faults, slipped>>
    BY <1>13 DEF IgnoreWireChunk, HandleOther
  <2> QED
    BY <1>9, <2>1 DEF Done, NextTurn, TypeOK, NoOverrun, socket, element
<1>14. CASE HandleServerSettings
  <2>1. Done
    BY <1>14 DEF HandleServerSettings
  <2>2. buf' \in [0 .. BUF_SIZE - 1 -> Cell]
    <3>1. NUL \in Cell
      BY DEF NUL, Cell
    <3>2. \A k \in 0 .. BUF_SIZE - 1 :
            k < MessageSize - STRING_PREFIX => buf[k + STRING_PREFIX] \in Cell
      BY <1>0, <1>14 DEF HandleServerSettings, Case, NoOverrun, TypeOK
    <3> QED BY <1>14, <3>1, <3>2 DEF HandleServerSettings, TypeOK
  <2> QED
    BY <1>9, <1>14, <2>1, <2>2
    DEF HandleServerSettings, Done, NextTurn, TypeOK, NoOverrun, socket, element
<1>15. CASE ServerSettingsTruncated
  BY <1>15 DEF ServerSettingsTruncated, TypeOK, NoOverrun, socket, element
<1>16. CASE HandleTime
  <2>1. Done
    BY <1>16 DEF HandleTime
  <2>2. latency' \in Cell
    BY <1>16 DEF HandleTime, TypeOK
  <2> QED
    BY <1>9, <1>16, <2>1, <2>2
    DEF HandleTime, Done, NextTurn, TypeOK, NoOverrun, socket
<1>17. CASE UNCHANGED vars
  BY <1>17 DEF vars, TypeOK, NoOverrun, MessageSize, socket, element
<1> QED
  BY <1>1, <1>2, <1>3, <1>4, <1>5, <1>6, <1>7, <1>8, <1>10, <1>11, <1>12, <1>13,
     <1>14, <1>15, <1>16, <1>17
  DEF Next, Loop, Switch, Faulty

(* The budget never goes negative, and every variable keeps its type.      *)
THEOREM TypeCorrect == Spec => []TypeOK
<1>1. TypeOK /\ NoOverrun /\ [Next]_vars => (TypeOK /\ NoOverrun)'
  BY StepTyped
<1> QED BY InitTyped, <1>1, PTL DEF Spec

(* For every stream, legal or not, and every sequence of faults, no read   *)
(* leaves the element's buffer or the budget of the call.                  *)
THEOREM ReadsStayInside == Spec => []NoOverrun
<1>1. TypeOK /\ NoOverrun /\ [Next]_vars => (TypeOK /\ NoOverrun)'
  BY StepTyped
<1> QED BY InitTyped, <1>1, PTL DEF Spec

-----------------------------------------------------------------------------
(* Framing. *)

(* What the framing gives while the body of a message is being read. *)
LEMMA CurrentMessage ==
  ASSUME TypeOK, Framed, ~slipped, base_message.type # SNAPCAST_MESSAGE_BASE
  PROVE  /\ handled + 1 \in 1 .. MessageCount(stream)
         /\ IsMessage(stream, handled + 1)
         /\ base_message.type = TypeOf(stream, handled + 1)
         /\ MessageSize = SizeOf(stream, handled + 1)
         /\ FrameStart = stream.start[handled + 1] + BASE_MESSAGE_SIZE
<1>1. /\ MessageCount(stream) \in Nat
      /\ \A i \in 1 .. MessageCount(stream) : IsMessage(stream, i)
  BY Streamed DEF TypeOK
<1>2. /\ handled < MessageCount(stream)
      /\ handled \in Nat
      /\ base_message.type = TypeOf(stream, handled + 1)
      /\ base_message.size = SizeOf(stream, handled + 1)
  BY DEF Framed, TypeOK
<1>3. handled + 1 \in 1 .. MessageCount(stream)
  BY <1>1, <1>2
<1>4. SizeOf(stream, handled + 1) \in 1 .. INT_MAX
  BY <1>1, <1>3 DEF IsMessage
<1>5. MessageSize = SizeOf(stream, handled + 1)
  BY <1>2, <1>4, StreamAssumption DEF MessageSize, AsInt
<1> QED BY <1>1, <1>2, <1>3, <1>5 DEF FrameStart

(* A whole body is at the start of the buffer when it is dispatched. *)
LEMMA BodyInBuffer ==
  ASSUME TypeOK, NoOverrun, Framed, ~slipped, pc = "switch",
         base_message.type # SNAPCAST_MESSAGE_BASE,
         NEW k \in Nat, k < MessageSize
  PROVE  buf[k] = BodyAt(stream, handled + 1, k)
<1>1. MessageSize \in Nat /\ got = MessageSize
  BY DEF NoOverrun, Framed
<1>2. buf[k] = At(stream, FrameStart + k)
  BY <1>1 DEF Framed
<1> QED BY <1>2, CurrentMessage DEF BodyAt

(* A fresh reader is at the start of the stream. *)
LEMMA InitFramed == Init => Framed
<1> SUFFICES ASSUME Init PROVE Framed
  OBVIOUS
<1>1. MessageCount(stream) \in Nat /\ stream.start[1] = 0
  BY Streamed DEF Init
<1>2. stream.start[handled + 1] = 0
  BY <1>1 DEF Init
<1> QED BY <1>1, <1>2 DEF Init, Framed, FrameStart

(* A dispatched body is followed by the header of the next message. *)
LEMMA DoneFramed ==
  ASSUME TypeOK, NoOverrun, Framed, ~slipped, pc = "switch",
         base_message.type # SNAPCAST_MESSAGE_BASE, Done
  PROVE  Framed'
<1>1. /\ UNCHANGED <<stream, pos>>
      /\ pc' = "loop" /\ got' = 0
      /\ handled' = handled + 1
      /\ base_message'.type = SNAPCAST_MESSAGE_BASE
  BY DEF Done, NextTurn, socket, TypeOK
<1>2. /\ handled + 1 \in 1 .. MessageCount(stream)
      /\ IsMessage(stream, handled + 1)
      /\ MessageSize = SizeOf(stream, handled + 1)
      /\ FrameStart = stream.start[handled + 1] + BASE_MESSAGE_SIZE
  BY CurrentMessage
<1>3. pos = FrameStart + MessageSize
  BY DEF Framed
<1>4. stream.start \in Seq(Nat) /\ MessageCount(stream) \in Nat /\ handled \in Nat
  BY Streamed DEF TypeOK
<1>5. stream.start[handled + 1 + 1] = pos
  BY <1>2, <1>3 DEF IsMessage
<1>6. pos \in Nat
  BY Streamed DEF TypeOK
<1>7. FrameStart' = pos
  <2>1. stream' = stream /\ handled' + 1 = handled + 1 + 1
    BY <1>1
  <2>2. FrameStart' = stream'.start[handled' + 1] + 0
    BY <1>1 DEF FrameStart
  <2>3. FrameStart' = pos + 0
    BY <1>5, <2>1, <2>2
  <2> QED BY <1>6, <2>3
<1>8. handled' \in 0 .. MessageCount(stream)
  BY <1>1, <1>2
<1>9. MessageCount(stream)' = MessageCount(stream)
  BY <1>1 DEF MessageCount
<1> HIDE DEF FrameStart
<1> QED BY <1>1, <1>6, <1>7, <1>8, <1>9 DEF Framed

(* The header of a message announces that message. *)
LEMMA HeaderFramed ==
  ASSUME TypeOK, NoOverrun, Framed, ~slipped, HandleBase
  PROVE  Framed'
<1> USE StreamAssumption
<1> DEFINE i == handled + 1
<1>1. /\ stream.start \in Seq(Nat) /\ stream.cells \in Seq(Cell)
      /\ MessageCount(stream) \in Nat
      /\ stream.start[MessageCount(stream) + 1] = Len(stream.cells)
      /\ \A m \in 1 .. MessageCount(stream) : IsMessage(stream, m)
  BY Streamed DEF TypeOK
<1>2. handled \in 0 .. MessageCount(stream) /\ stream.start[i] \in Nat
  BY <1>1 DEF Framed, MessageCount
<1>3. /\ MessageSize = BASE_MESSAGE_SIZE /\ got = BASE_MESSAGE_SIZE
      /\ FrameStart = stream.start[i]
      /\ pos = stream.start[i] + BASE_MESSAGE_SIZE
      /\ handled \in 0 .. MessageCount(stream)
  BY <1>2 DEF HandleBase, Case, MessageSize, Framed, FrameStart
<1>4. pos <= Len(stream.cells)
  BY <1>1 DEF TypeOK
<1>5. handled < MessageCount(stream)
  BY <1>1, <1>3, <1>4
<1>6. i \in 1 .. MessageCount(stream) /\ IsMessage(stream, i)
  BY <1>1, <1>3, <1>5
<1>7. stream.start[i] \in Nat
  BY <1>2
<1>8. buf[0] = TypeOf(stream, i) /\ buf[BASE_MESSAGE_SIZE - 1] = SizeOf(stream, i)
  <2>1. \A k \in 0 .. BASE_MESSAGE_SIZE - 1 : buf[k] = At(stream, stream.start[i] + k)
    BY <1>3 DEF Framed
  <2>2. buf[0] = At(stream, stream.start[i] + 0)
    BY <2>1
  <2>3. buf[BASE_MESSAGE_SIZE - 1] = At(stream, stream.start[i] + (BASE_MESSAGE_SIZE - 1))
    BY <2>1
  <2> QED
    BY <1>7, <2>2, <2>3 DEF TypeOf, SizeOf
<1>9. /\ UNCHANGED <<stream, pos, handled, slipped>>
      /\ got' = 0 /\ pc' = "loop"
      /\ base_message'.type = TypeOf(stream, i)
      /\ base_message'.size = SizeOf(stream, i)
  BY <1>8 DEF HandleBase, NextTurn, socket
<1>10. TypeOf(stream, i) # SNAPCAST_MESSAGE_BASE
  BY <1>6 DEF IsMessage
<1>11. FrameStart' = stream.start[i] + BASE_MESSAGE_SIZE
  BY <1>9, <1>10 DEF FrameStart
<1>12. /\ TypeOf(stream, handled + 1)' = TypeOf(stream, handled + 1)
       /\ SizeOf(stream, handled + 1)' = SizeOf(stream, handled + 1)
       /\ MessageCount(stream)' = MessageCount(stream)
  BY <1>9 DEF TypeOf, SizeOf, At, MessageCount
<1> QED BY <1>3, <1>5, <1>7, <1>9, <1>10, <1>11, <1>12 DEF Framed

(* More cells of the current header or body are read. *)
LEMMA ReadFramed ==
  ASSUME TypeOK, NoOverrun, Framed, ~slipped, NEW n \in 1 .. BUF_SIZE, ReadSome(n)
  PROVE  Framed'
<1> USE ReaderAssumption
<1>1. /\ UNCHANGED <<stream, base_message, handled, slipped>>
      /\ pos' = pos + n /\ got' = got + n
      /\ got + n <= MessageSize /\ MessageSize <= BUF_SIZE
  BY SizeInt DEF ReadSome, NoOverrun, TypeOK
<1>2. FrameStart' = FrameStart /\ MessageSize' = MessageSize
  BY <1>1 DEF FrameStart, MessageSize
<1>3. /\ pos \in Nat /\ got \in Nat /\ pos = FrameStart + got
      /\ \A k \in 0 .. got - 1 : buf[k] = At(stream, FrameStart + k)
      /\ handled \in 0 .. MessageCount(stream)
  <2>1. Len(stream.cells) \in Nat
    BY Streamed DEF TypeOK
  <2>2. pos \in Nat /\ got \in Nat
    BY <2>1 DEF TypeOK
  <2> QED BY <2>2 DEF Framed
<1>4. stream.start \in Seq(Nat) /\ MessageCount(stream) \in Nat
  BY Streamed DEF TypeOK
<1>5. stream.start[handled + 1] \in Nat
  BY <1>3, <1>4 DEF MessageCount
<1>6. FrameStart \in Nat
  BY <1>5, StreamAssumption DEF FrameStart
<1>7. \A k \in 0 .. got' - 1 : buf'[k] = At(stream, FrameStart + k)
  <2> SUFFICES ASSUME NEW k \in 0 .. got' - 1
               PROVE  buf'[k] = At(stream, FrameStart + k)
    OBVIOUS
  <2>1. k \in 0 .. BUF_SIZE - 1
    BY <1>1, <1>3, SizeInt
  <2>2. CASE k < got
    <3>1. buf'[k] = buf[k]
      BY <1>3, <2>1, <2>2 DEF ReadSome
    <3> QED BY <1>3, <2>2, <3>1
  <2>3. CASE k >= got
    <3>1. buf'[k] = At(stream, pos + k - got)
      BY <1>1, <1>3, <2>1, <2>3 DEF ReadSome
    <3>2. pos + k - got = FrameStart + k
      BY <1>3, <1>6
    <3> QED BY <3>1, <3>2
  <2> QED BY <1>3, <2>2, <2>3
<1>8. pc' = "switch" => got' = MessageSize
  BY <1>1 DEF ReadSome, EndRead
<1>9. pos' = FrameStart + got'
  BY <1>1, <1>3, <1>6
<1>10. stream' = stream /\ handled' = handled /\ base_message' = base_message
  BY <1>1
<1>11. base_message.type # SNAPCAST_MESSAGE_BASE =>
         /\ handled < MessageCount(stream)
         /\ base_message.type = TypeOf(stream, handled + 1)
         /\ base_message.size = SizeOf(stream, handled + 1)
  BY DEF Framed
<1> HIDE DEF FrameStart
<1> QED
  BY <1>2, <1>3, <1>7, <1>8, <1>9, <1>10, <1>11 DEF Framed
(* A step that slips needs no more proof; a step out of a slipped state    *)
(* stays slipped.                                                          *)
LEMMA StaysSlipped == [Next]_vars /\ ~slipped' => ~slipped
<1> SUFFICES ASSUME [Next]_vars, ~slipped' PROVE ~slipped
  OBVIOUS
<1>1. CASE Loop
  BY <1>1 DEF Loop, BudgetSpent, EmptyRead, BeginRead
<1>2. CASE \E n \in 1 .. BUF_SIZE : ReadSome(n)
  BY <1>2 DEF ReadSome
<1>3. CASE Switch
  BY <1>3 DEF Switch, HandleBase, HandleCodecHeader, CodecHeaderTruncated, HandleWireChunk,
       IgnoreWireChunk, HandleServerSettings, ServerSettingsTruncated, HandleTime, HandleOther
<1>4. CASE Faulty
  BY <1>4 DEF Faulty, ReadStalls, ReadFails, ClockFails, CodecHeaderNoMemory
<1>5. CASE UNCHANGED vars
  BY <1>5 DEF vars
<1> QED BY <1>1, <1>2, <1>3, <1>4, <1>5 DEF Next

(* A dispatch of a body, by any case of the switch. *)
Dispatch ==
  \/ HandleCodecHeader \/ CodecHeaderTruncated \/ CodecHeaderNoMemory
  \/ HandleWireChunk \/ IgnoreWireChunk
  \/ HandleServerSettings
  \/ HandleTime
  \/ HandleOther

(* Every case of the switch but the header moves on to the next message. *)
LEMMA DispatchDone ==
  Dispatch => /\ Done /\ pc = "switch"
              /\ base_message.type # SNAPCAST_MESSAGE_BASE
              /\ UNCHANGED slipped
BY DEF Dispatch, HandleCodecHeader, CodecHeaderTruncated, CodecHeaderNoMemory, HandleWireChunk,
     IgnoreWireChunk, HandleServerSettings, HandleTime, HandleOther, Case,
     SNAPCAST_MESSAGE_BASE, SNAPCAST_MESSAGE_CODEC_HEADER, SNAPCAST_MESSAGE_WIRE_CHUNK,
     SNAPCAST_MESSAGE_SERVER_SETTINGS, SNAPCAST_MESSAGE_TIME

(* Steps that leave the position, the current message and what was read of *)
(* it alone.                                                               *)
LEMMA StillFramed ==
  ASSUME Framed, ~slipped, UNCHANGED <<stream, pos, got, buf, base_message, handled>>,
         pc' # "switch"
  PROVE  Framed'
<1>1. FrameStart' = FrameStart
  BY DEF FrameStart
<1>2. /\ stream' = stream /\ pos' = pos /\ got' = got /\ buf' = buf
      /\ base_message' = base_message /\ handled' = handled
  OBVIOUS
<1> QED BY <1>1, <1>2 DEF Framed

(* Every step that does not slip keeps the framing. *)
LEMMA StepFramed == TypeOK /\ NoOverrun /\ Framed /\ [Next]_vars => Framed'
<1> SUFFICES ASSUME TypeOK, NoOverrun, Framed, [Next]_vars, ~slipped'
             PROVE  Framed'
  BY DEF Framed
<1>0. ~slipped
  BY StaysSlipped
<1>1. CASE Loop
  <2>1. UNCHANGED <<stream, pos, buf, base_message, handled>> /\ got' = got /\ pc' # "switch"
    BY <1>1 DEF Loop, BudgetSpent, EmptyRead, BeginRead, CallAgain, NoOverrun, socket
  <2> QED BY <1>0, <2>1, StillFramed
<1>2. CASE \E n \in 1 .. BUF_SIZE : ReadSome(n)
  BY <1>0, <1>2, ReadFramed
<1>3. CASE HandleBase
  BY <1>0, <1>3, HeaderFramed
<1>4. CASE Dispatch
  BY <1>0, <1>4, DispatchDone, DoneFramed
<1>5. CASE ServerSettingsTruncated
  <2>1. UNCHANGED <<stream, pos, got, buf, base_message, handled>> /\ pc' # "switch"
    BY <1>5 DEF ServerSettingsTruncated, socket
  <2> QED BY <1>0, <2>1, StillFramed
<1>6. CASE ReadStalls \/ ClockFails
  BY <1>6 DEF ReadStalls, ClockFails
<1>7. CASE ReadFails
  <2>1. got = 0
    <3>1. ~(got > 0)
      BY <1>7, Zenon DEF ReadFails
    <3> QED BY <3>1, ReaderAssumption DEF TypeOK
  <2>2. UNCHANGED <<stream, pos, got, buf, base_message, handled>> /\ pc' # "switch"
    BY <1>7, <2>1 DEF ReadFails, CallAgain, socket
  <2> QED BY <1>0, <2>2, StillFramed
<1>8. CASE UNCHANGED vars
  <2>1. FrameStart' = FrameStart /\ MessageSize' = MessageSize
    BY <1>8 DEF vars, socket, FrameStart, MessageSize
  <2>2. /\ stream' = stream /\ pos' = pos /\ got' = got /\ buf' = buf /\ pc' = pc
        /\ base_message' = base_message /\ handled' = handled
    BY <1>8 DEF vars, socket
  <2> QED BY <1>0, <2>1, <2>2 DEF Framed
<1> QED
  BY <1>1, <1>2, <1>3, <1>4, <1>5, <1>6, <1>7, <1>8
  DEF Next, Switch, Faulty, Dispatch

(* However the transport cuts the stream, and whatever fails, the element  *)
(* knows where it is in the stream until a fault makes it slip.            *)
THEOREM KeepsFraming == Spec => []Framed
<1>1. Init => TypeOK /\ NoOverrun /\ Framed
  BY InitTyped, InitFramed
<1>2. TypeOK /\ NoOverrun /\ Framed /\ [Next]_vars => (TypeOK /\ NoOverrun /\ Framed)'
  BY StepTyped, StepFramed
<1> QED BY <1>1, <1>2, PTL DEF Spec
-----------------------------------------------------------------------------
(* What the handlers do with a framed message. *)

(* The payload of a chunk is what the server sent, all of it in the buffer. *)
LEMMA ChunkPlayed ==
  ASSUME TypeOK, NoOverrun, Framed, ~slipped, HandleWireChunk
  PROVE  /\ TypeOf(stream, handled + 1) = SNAPCAST_MESSAGE_WIRE_CHUNK
         /\ ChunkPayload = PayloadOf(stream, handled + 1)
         /\ \A k \in DOMAIN ChunkPayload : ChunkPayload[k] \in Cell
<1> USE StreamAssumption, ReaderAssumption DEF CHUNK_HEADER_SIZE
<1> DEFINE m == handled + 1
<1>1. /\ pc = "switch"
      /\ base_message.type = SNAPCAST_MESSAGE_WIRE_CHUNK
      /\ base_message.type # SNAPCAST_MESSAGE_BASE
      /\ MessageSize >= 2
  BY DEF HandleWireChunk, Case, SNAPCAST_MESSAGE_BASE, SNAPCAST_MESSAGE_WIRE_CHUNK
<1>2. /\ m \in 1 .. MessageCount(stream) /\ IsMessage(stream, m)
      /\ base_message.type = TypeOf(stream, m)
      /\ MessageSize = SizeOf(stream, m)
  BY <1>1, CurrentMessage
<1>3. MessageSize \in 1 .. BUF_SIZE
  BY <1>1 DEF NoOverrun
<1>4. \A k \in 0 .. MessageSize - 1 : buf[k] = BodyAt(stream, m, k)
  BY <1>1, <1>3, BodyInBuffer
<1>5. BodyAt(stream, m, 1) = MessageSize - 2 /\ MessageSize <= INT_MAX
  BY <1>1, <1>2 DEF IsMessage
<1>6. buf[1] = MessageSize - 2
  BY <1>1, <1>3, <1>4, <1>5
<1>7. AsInt(buf[1]) = MessageSize - 2
  BY <1>3, <1>5, <1>6 DEF AsInt
<1>8. \A k \in 1 .. MessageSize - 2 :
        /\ 2 + k - 1 < BUF_SIZE /\ 2 + k - 1 \in 0 .. BUF_SIZE - 1
        /\ buf[2 + k - 1] = BodyAt(stream, m, 2 + k - 1)
  BY <1>3, <1>4
<1>9. ChunkPayload = [k \in 1 .. MessageSize - 2 |-> BodyAt(stream, m, 2 + k - 1)]
  BY <1>7, <1>8 DEF ChunkPayload
<1>10. PayloadOf(stream, m) = [k \in 1 .. MessageSize - 2 |-> BodyAt(stream, m, 2 + k - 1)]
  BY <1>2 DEF PayloadOf
<1>11. \A k \in 1 .. MessageSize - 2 : ChunkPayload[k] = buf[2 + k - 1]
  BY <1>8, <1>9
<1>12. \A k \in 1 .. MessageSize - 2 : ChunkPayload[k] \in Cell
  BY <1>8, <1>11 DEF TypeOK
<1> QED BY <1>1, <1>2, <1>9, <1>10, <1>12

(* While the framing holds no handler panics or plays foreign memory. *)
LEMMA StepSafe == TypeOK /\ NoOverrun /\ Framed /\ HandlersSafe /\ [Next]_vars => HandlersSafe'
<1> SUFFICES ASSUME TypeOK, NoOverrun, Framed, HandlersSafe, [Next]_vars, ~slipped'
             PROVE  pc' # "panic" /\ \A k \in DOMAIN out' : out'[k] \in Cell
  BY DEF HandlersSafe
<1>0. ~slipped /\ pc # "panic" /\ \A k \in DOMAIN out : out[k] \in Cell
  BY StaysSlipped DEF HandlersSafe
<1>1. CASE HandleWireChunk
  <2>1. out' = out \o ChunkPayload /\ pc' = "loop"
    BY <1>1 DEF HandleWireChunk, Done, NextTurn
  <2>2. \A k \in DOMAIN ChunkPayload : ChunkPayload[k] \in Cell
    BY <1>0, <1>1, ChunkPlayed
  <2>3. out \in Seq(Cell \cup {Outside}) /\ ChunkPayload \in Seq(Cell \cup {Outside})
    BY <1>1, PayloadSeq, SizeInt DEF TypeOK, HandleWireChunk, Case, NoOverrun
  <2>4. \A k \in DOMAIN out' : out'[k] \in Cell
    <3> SUFFICES ASSUME NEW k \in 1 .. Len(out) + Len(ChunkPayload)
                 PROVE  (out \o ChunkPayload)[k] \in Cell
      BY <2>1, <2>3
    <3>1. CASE k <= Len(out)
      BY <1>0, <2>3, <3>1
    <3>2. CASE k > Len(out)
      <4>1. k - Len(out) \in 1 .. Len(ChunkPayload)
        BY <2>3, <3>2
      <4> QED BY <2>2, <2>3, <3>2, <4>1
    <3> QED BY <2>3, <3>1, <3>2
  <2> QED BY <2>1, <2>4
<1>2. CASE ServerSettingsTruncated
  <2>1. /\ base_message.type = SNAPCAST_MESSAGE_SERVER_SETTINGS
        /\ base_message.type # SNAPCAST_MESSAGE_BASE
        /\ MessageSize < STRING_PREFIX
    BY <1>2 DEF ServerSettingsTruncated, Case, SNAPCAST_MESSAGE_SERVER_SETTINGS,
                SNAPCAST_MESSAGE_BASE
  <2>2. MessageSize >= STRING_PREFIX /\ MessageSize \in Int
    BY <1>0, <2>1, CurrentMessage, SizeInt DEF IsMessage
  <2> QED BY <2>1, <2>2, StreamAssumption
<1>3. CASE pc' # "panic" /\ out' = out
  BY <1>0, <1>3
<1>4. CASE Loop
  BY <1>3, <1>4 DEF Loop, BudgetSpent, EmptyRead, BeginRead, CallAgain, element
<1>5. CASE \E n \in 1 .. BUF_SIZE : ReadSome(n)
  BY <1>3, <1>5 DEF ReadSome, EndRead, element
<1>6. CASE Switch
  BY <1>1, <1>2, <1>3, <1>6 DEF Switch, HandleBase, HandleCodecHeader, CodecHeaderTruncated,
     IgnoreWireChunk, HandleServerSettings, HandleTime, HandleOther, Done, NextTurn, element
<1>7. CASE Faulty
  BY <1>3, <1>7 DEF Faulty, ReadStalls, ReadFails, ClockFails, CodecHeaderNoMemory,
     EndRead, CallAgain, Done, NextTurn, element
<1>8. CASE UNCHANGED vars
  BY <1>0, <1>3, <1>8 DEF vars, element
<1> QED BY <1>4, <1>5, <1>6, <1>7, <1>8 DEF Next

(* As long as the framing holds, no settings message crashes the task and  *)
(* only samples the server sent in a chunk are played.                     *)
THEOREM SafeHandlers == Spec => []HandlersSafe
<1>1. Init => TypeOK /\ NoOverrun /\ Framed /\ HandlersSafe
  BY InitTyped, InitFramed DEF Init, HandlersSafe
<1>2. TypeOK /\ NoOverrun /\ Framed /\ HandlersSafe /\ [Next]_vars
        => (TypeOK /\ NoOverrun /\ Framed /\ HandlersSafe)'
  BY StepTyped, StepFramed, StepSafe
<1> QED BY <1>1, <1>2, PTL DEF Spec

-----------------------------------------------------------------------------
(* What the element believes, and what it leaves on the heap.              *)

Comes(i) ==
  /\ TypeOf(stream, i) = SNAPCAST_MESSAGE_CODEC_HEADER
  /\ BodyAt(stream, i, 0) \in SupportedCodecs

Told(i) ==
  /\ TypeOf(stream, i) = SNAPCAST_MESSAGE_TIME
  /\ BodyAt(stream, i, 0) = latency

(* A codec header was received, and a latency, only from this stream.      *)
Believed ==
  ~slipped =>
    /\ received_header => \E i \in 1 .. handled : Comes(i)
    /\ latency # 0 => \E i \in 1 .. handled : Told(i)

(* The cases of the switch that say nothing of codecs and latencies.       *)
OtherDispatch ==
  \/ CodecHeaderTruncated \/ CodecHeaderNoMemory
  \/ HandleWireChunk \/ IgnoreWireChunk
  \/ HandleServerSettings
  \/ HandleOther

(* A step that handles no message leaves what was handled as it is.        *)
Quiet ==
  \/ Loop \/ (\E n \in 1 .. BUF_SIZE : ReadSome(n)) \/ HandleBase
  \/ ServerSettingsTruncated \/ ReadFails

(* It changes neither the stream nor what the element took from it.        *)
LEMMA QuietKeeps ==
  Quiet => UNCHANGED <<stream, handled, received_header, latency, heap>>
BY DEF Quiet, Loop, BudgetSpent, EmptyRead, BeginRead, ReadSome, HandleBase, NextTurn,
     ServerSettingsTruncated, ReadFails, socket, element

(* Steps of the reader by what they handle.                                *)
LEMMA Steps ==
  ASSUME [Next]_vars, ~slipped'
  PROVE  \/ Quiet
         \/ HandleCodecHeader \/ HandleTime \/ OtherDispatch
         \/ UNCHANGED vars
BY DEF Next, Switch, Faulty, Quiet, OtherDispatch, ReadStalls, ClockFails

(* The header or the time that a step believes is in the message it ends.  *)
LEMMA StepBelieved ==
  TypeOK /\ NoOverrun /\ Framed /\ Believed /\ [Next]_vars => Believed'
<1> SUFFICES ASSUME TypeOK, NoOverrun, Framed, Believed, [Next]_vars, ~slipped'
             PROVE  /\ received_header' => \E i \in 1 .. handled' : Comes(i)'
                    /\ latency' # 0 => \E i \in 1 .. handled' : Told(i)'
  BY DEF Believed
<1>0. ~slipped /\ handled \in Nat
  BY StaysSlipped DEF TypeOK
<1>1. CASE UNCHANGED <<stream, handled, received_header, latency>>
  BY <1>0, <1>1 DEF Believed, Comes, Told
<1>2. ASSUME Dispatch PROVE stream' = stream /\ handled' = handled + 1 /\ handled + 1 \in 1 .. handled'
  BY <1>0, <1>2, DispatchDone DEF Done, NextTurn, socket
<1>3. ASSUME Dispatch PROVE \A i \in 1 .. handled : i \in 1 .. handled'
  BY <1>0, <1>2, <1>3
<1>4. CASE HandleCodecHeader
  <2>1. Dispatch
    BY <1>4 DEF Dispatch
  <2>2. latency' = latency
    BY <1>4 DEF HandleCodecHeader
  <2>3. (received_header' = TRUE /\ buf[0] \in SupportedCodecs) \/ received_header' = received_header
    BY <1>4 DEF HandleCodecHeader
  <2>4. buf[0] \in SupportedCodecs => Comes(handled + 1)
    <3>1. /\ pc = "switch" /\ base_message.type = SNAPCAST_MESSAGE_CODEC_HEADER
          /\ base_message.type # SNAPCAST_MESSAGE_BASE
      BY <1>4, <2>1, DispatchDone DEF HandleCodecHeader, Case
    <3>2. buf[0] = BodyAt(stream, handled + 1, 0)
      <4>1. 0 \in Nat /\ 0 < MessageSize
        BY <3>1 DEF NoOverrun
      <4> QED
        BY <1>0, <3>1, <4>1, BodyInBuffer
    <3>3. TypeOf(stream, handled + 1) = SNAPCAST_MESSAGE_CODEC_HEADER
      BY <1>0, <3>1, CurrentMessage
    <3> QED
      BY <3>2, <3>3 DEF Comes
  <2>5. latency' # 0 => \E i \in 1 .. handled' : Told(i)'
    BY <1>0, <1>2, <1>3, <2>1, <2>2 DEF Believed, Told
  <2>6. received_header' => \E i \in 1 .. handled' : Comes(i)
    BY <1>0, <1>2, <1>3, <2>1, <2>3, <2>4 DEF Believed
  <2> QED
    BY <1>2, <2>1, <2>5, <2>6 DEF Comes
<1>5. CASE HandleTime
  <2>1. Dispatch
    BY <1>5 DEF Dispatch
  <2>2. received_header' = received_header /\ latency' = buf[0]
    BY <1>5 DEF HandleTime
  <2>3. /\ pc = "switch" /\ base_message.type = SNAPCAST_MESSAGE_TIME
        /\ base_message.type # SNAPCAST_MESSAGE_BASE
    BY <1>5, <2>1, DispatchDone DEF HandleTime, Case
  <2>4. buf[0] = BodyAt(stream, handled + 1, 0)
    <3>1. 0 \in Nat /\ 0 < MessageSize
      BY <2>3 DEF NoOverrun
    <3> QED
      BY <1>0, <2>3, <3>1, BodyInBuffer
  <2>5. TypeOf(stream, handled + 1) = SNAPCAST_MESSAGE_TIME
    BY <1>0, <2>3, CurrentMessage
  <2>6. /\ TypeOf(stream', handled + 1) = SNAPCAST_MESSAGE_TIME
        /\ BodyAt(stream', handled + 1, 0) = latency'
    BY <1>2, <2>1, <2>2, <2>4, <2>5
  <2>7. received_header' => \E i \in 1 .. handled' : Comes(i)'
    BY <1>0, <1>2, <1>3, <2>1, <2>2 DEF Believed, Comes
  <2> QED
    BY <1>2, <2>1, <2>6, <2>7 DEF Told
<1>6. CASE OtherDispatch
  <2>1. Dispatch
    BY <1>6 DEF OtherDispatch, Dispatch
  <2>2. received_header' = received_header /\ latency' = latency
    BY <1>6 DEF OtherDispatch, CodecHeaderTruncated, CodecHeaderNoMemory, HandleWireChunk,
         IgnoreWireChunk, HandleServerSettings, HandleOther, element
  <2> QED
    BY <1>0, <1>2, <1>3, <2>1, <2>2 DEF Believed, Comes, Told
<1> QED
  BY <1>1, <1>4, <1>5, <1>6, Steps, QuietKeeps DEF vars, socket, element

-----------------------------------------------------------------------------
(* What a codec header leaves on the heap. *)

Unsupported(i) ==
  /\ TypeOf(stream, i) = SNAPCAST_MESSAGE_CODEC_HEADER
  /\ BodyAt(stream, i, 0) \notin SupportedCodecs

(* The set of unsupported headers that were handled is finite.             *)
LEMMA FinitelyMany ==
  ASSUME TypeOK
  PROVE  /\ IsFiniteSet(UnsupportedHandled)
         /\ Cardinality(UnsupportedHandled) \in Nat
         /\ handled + 1 \notin UnsupportedHandled
<1>1. handled \in Nat
  BY DEF TypeOK
<1>2. IsFiniteSet(1 .. handled)
  BY <1>1, FS_Interval
<1>3. UnsupportedHandled \subseteq 1 .. handled /\ handled + 1 \notin UnsupportedHandled
  BY <1>1 DEF UnsupportedHandled
<1>4. IsFiniteSet(UnsupportedHandled)
  BY <1>2, <1>3, FS_Subset
<1> QED
  BY <1>3, <1>4, FS_CardinalityType

(* Handling a message adds it to the set if it is one of them.             *)
LEMMA OneMore ==
  ASSUME TypeOK, stream' = stream, handled' = handled + 1
  PROVE  Cardinality(UnsupportedHandled)' =
           Cardinality(UnsupportedHandled) + (IF Unsupported(handled + 1) THEN 1 ELSE 0)
<1>1. handled \in Nat
  BY DEF TypeOK
<1>2. 1 .. handled' = (1 .. handled) \cup {handled + 1}
  BY <1>1
<1>3. CASE Unsupported(handled + 1)
  <2>1. UnsupportedHandled' = UnsupportedHandled \cup {handled + 1}
    BY <1>2, <1>3 DEF UnsupportedHandled, Unsupported
  <2>2. Cardinality(UnsupportedHandled \cup {handled + 1}) = Cardinality(UnsupportedHandled) + 1
    BY FinitelyMany, FS_AddElement
  <2> QED
    BY <1>3, <2>1, <2>2
<1>4. CASE ~Unsupported(handled + 1)
  <2>1. UnsupportedHandled' = UnsupportedHandled
    BY <1>2, <1>4 DEF UnsupportedHandled, Unsupported
  <2> QED
    BY <1>4, <2>1, FinitelyMany
<1> QED
  BY <1>3, <1>4

(* A step that handles no message keeps the set.                           *)
LEMMA NoneMore ==
  UNCHANGED <<stream, handled>> => UnsupportedHandled' = UnsupportedHandled
BY DEF UnsupportedHandled

(* Bounds on the heap and the failures, by whether a message was handled.  *)
LEMMA StepLeak ==
  TypeOK /\ NoOverrun /\ Framed /\ LeakBounded /\ [Next]_vars => LeakBounded'
<1> SUFFICES ASSUME TypeOK, NoOverrun, Framed, LeakBounded, [Next]_vars, ~slipped'
             PROVE  heap' \in 2 * Cardinality(UnsupportedHandled)' - 2 * faults'
                                .. 2 * Cardinality(UnsupportedHandled)' + faults'
  BY DEF LeakBounded
<1> DEFINE n == Cardinality(UnsupportedHandled)
<1>0. ~slipped /\ heap \in Nat /\ faults \in Nat /\ n \in Nat
      /\ heap \in 2 * n - 2 * faults .. 2 * n + faults
  BY StaysSlipped, FinitelyMany, ReaderAssumption DEF TypeOK, LeakBounded
<1>1. ASSUME Dispatch
      PROVE  n' = n + (IF Unsupported(handled + 1) THEN 1 ELSE 0)
  BY <1>1, DispatchDone, OneMore DEF Done, NextTurn, socket
<1>2. ASSUME Dispatch
      PROVE  /\ base_message.type = SNAPCAST_MESSAGE_CODEC_HEADER =>
                  MessageSize >= CODEC_HEADER_MIN
             /\ Unsupported(handled + 1) <=>
                  base_message.type = SNAPCAST_MESSAGE_CODEC_HEADER /\ buf[0] \notin SupportedCodecs
  <2>1. pc = "switch" /\ base_message.type # SNAPCAST_MESSAGE_BASE
    BY <1>2, DispatchDone
  <2>2. 0 \in Nat /\ 0 < MessageSize
    BY <2>1 DEF NoOverrun
  <2>3. buf[0] = BodyAt(stream, handled + 1, 0)
    BY <1>0, <2>1, <2>2, BodyInBuffer
  <2> QED
    BY <1>0, <2>1, <2>3, CurrentMessage DEF Unsupported, IsMessage
<1> HIDE DEF n
<1>3. SUFFICES heap' \in 2 * n' - 2 * faults' .. 2 * n' + faults'
  BY DEF n
<1>4. CASE UNCHANGED <<stream, handled, heap>> /\ (faults' = faults \/ faults' = faults + 1)
  <2>1. n' = n
    BY <1>4, NoneMore DEF n
  <2> QED
    BY <1>0, <1>4, <2>1
<1>5. CASE HandleCodecHeader
  <2>1. base_message.type = SNAPCAST_MESSAGE_CODEC_HEADER
    BY <1>5 DEF HandleCodecHeader, Case
  <2>2. Dispatch /\ faults' = faults
        /\ heap' = (IF buf[0] \in SupportedCodecs THEN heap ELSE heap + 2)
    BY <1>5 DEF HandleCodecHeader, Dispatch
  <2>3. n' = n + (IF buf[0] \in SupportedCodecs THEN 0 ELSE 1)
    BY <1>1, <1>2, <2>1, <2>2
  <2> QED
    BY <1>0, <2>2, <2>3
<1>6. CASE CodecHeaderNoMemory
  <2>1. Dispatch /\ faults' = faults + 1 /\ heap' \in {heap, heap + 1}
    BY <1>6 DEF CodecHeaderNoMemory, Dispatch, Fault
  <2>2. n' = n \/ n' = n + 1
    BY <1>0, <1>1, <2>1
  <2> QED
    BY <1>0, <2>1, <2>2
<1>7. CASE CodecHeaderTruncated
  <2>1. FALSE
    <3>1. Dispatch
      BY <1>7 DEF Dispatch
    <3>2. MessageSize < CODEC_HEADER_MIN /\ MessageSize >= CODEC_HEADER_MIN
      BY <1>2, <1>7, <3>1 DEF CodecHeaderTruncated, Case
    <3>3. MessageSize \in Int /\ CODEC_HEADER_MIN \in Int
      BY SizeInt DEF CODEC_HEADER_MIN
    <3> QED
      BY <3>2, <3>3
  <2> QED
    BY <2>1
<1>8. CASE \/ HandleWireChunk \/ IgnoreWireChunk \/ HandleServerSettings \/ HandleTime
           \/ HandleOther
  <2>1. Dispatch /\ heap' = heap /\ faults' = faults
    BY <1>8 DEF Dispatch, HandleWireChunk, IgnoreWireChunk, HandleServerSettings, HandleTime,
         HandleOther, element
  <2>2. base_message.type # SNAPCAST_MESSAGE_CODEC_HEADER
    BY <1>8 DEF HandleWireChunk, IgnoreWireChunk, HandleServerSettings, HandleTime, HandleOther,
         Case, SNAPCAST_MESSAGE_CODEC_HEADER, SNAPCAST_MESSAGE_WIRE_CHUNK,
         SNAPCAST_MESSAGE_SERVER_SETTINGS, SNAPCAST_MESSAGE_TIME
  <2>3. n' = n
    BY <1>0, <1>1, <1>2, <2>1, <2>2
  <2> QED
    BY <1>0, <2>1, <2>3
<1>9. Quiet => faults' = faults \/ faults' = faults + 1
  BY DEF Quiet, Loop, BudgetSpent, EmptyRead, BeginRead, ReadSome, HandleBase,
       ServerSettingsTruncated, ReadFails, Fault
<1> QED
  BY <1>4, <1>5, <1>6, <1>7, <1>8, <1>9, Steps, QuietKeeps
  DEF OtherDispatch, vars, socket, element

(* Codec headers leave on the heap what the unsupported ones allocated and *)
(* no more than one allocation for each malloc that failed, for every      *)
(* stream and every number of failures, until the framing is lost.         *)
THEOREM LeakOnlyUnsupported == Spec => []LeakBounded
<1>1. Init => TypeOK /\ NoOverrun /\ Framed /\ LeakBounded
  <2>1. Init => UnsupportedHandled = {} /\ heap = 0 /\ faults = 0
    BY DEF Init, UnsupportedHandled
  <2>2. Cardinality({}) = 0
    BY FS_EmptySet
  <2> QED
    BY <2>1, <2>2, InitTyped, InitFramed DEF LeakBounded
<1>2. TypeOK /\ NoOverrun /\ Framed /\ LeakBounded /\ [Next]_vars
        => (TypeOK /\ NoOverrun /\ Framed /\ LeakBounded)'
  BY StepTyped, StepFramed, StepLeak
<1> QED BY <1>1, <1>2, PTL DEF Spec

-----------------------------------------------------------------------------
(***************************************************************************)
(* StreamReader implements the promise of module Delivery: every dispatch  *)
(* of a framed body delivers the next message, a fault that loses the      *)
(* framing ends the promise, and every other step is invisible.            *)
(***************************************************************************)
(* The instance of Delivery speaks of streams as StreamReader does. *)
LEMMA Vocabulary ==
  /\ D!NoCodec = NoCodec
  /\ D!SNAPCAST_MESSAGE_CODEC_HEADER = SNAPCAST_MESSAGE_CODEC_HEADER
  /\ D!SNAPCAST_MESSAGE_WIRE_CHUNK = SNAPCAST_MESSAGE_WIRE_CHUNK
  /\ D!SNAPCAST_MESSAGE_TIME = SNAPCAST_MESSAGE_TIME
  /\ \A s : D!MessageCount(s) = MessageCount(s)
  /\ \A s, i : D!TypeOf(s, i) = TypeOf(s, i)
  /\ \A s, i, k : D!BodyAt(s, i, k) = BodyAt(s, i, k)
  /\ \A s, i : D!PayloadOf(s, i) = PayloadOf(s, i)
BY DEF D!NoCodec, NoCodec, D!SNAPCAST_MESSAGE_CODEC_HEADER, SNAPCAST_MESSAGE_CODEC_HEADER,
       D!SNAPCAST_MESSAGE_WIRE_CHUNK, SNAPCAST_MESSAGE_WIRE_CHUNK,
       D!SNAPCAST_MESSAGE_TIME, SNAPCAST_MESSAGE_TIME,
       D!MessageCount, MessageCount, D!TypeOf, TypeOf, D!BodyAt, BodyAt, D!At, At,
       D!PayloadOf, PayloadOf, D!SizeOf, SizeOf, D!CHUNK_HEADER_SIZE, CHUNK_HEADER_SIZE

(* A step that delivers nothing leaves what the pipeline sees alone. *)
LEMMA Invisible ==
  ASSUME UNCHANGED <<stream, handled, received_header, codec, latency, out, slipped>>
  PROVE  UNCHANGED D!vars
BY DEF D!vars

(* No step of the reader changes what the server sends. *)
LEMMA StreamFixed == [Next]_vars => stream' = stream
<1> SUFFICES ASSUME [Next]_vars PROVE stream' = stream
  OBVIOUS
<1>1. CASE Loop
  BY <1>1 DEF Loop, BudgetSpent, EmptyRead, BeginRead, socket
<1>2. CASE \E n \in 1 .. BUF_SIZE : ReadSome(n)
  BY <1>2 DEF ReadSome
<1>3. CASE Switch
  BY <1>3 DEF Switch, HandleBase, HandleCodecHeader, CodecHeaderTruncated, HandleWireChunk,
       IgnoreWireChunk, HandleServerSettings, ServerSettingsTruncated, HandleTime,
       HandleOther, Done, NextTurn, socket
<1>4. CASE Faulty
  BY <1>4 DEF Faulty, ReadStalls, ReadFails, ClockFails, CodecHeaderNoMemory, Done,
       NextTurn, socket
<1>5. CASE UNCHANGED vars
  BY <1>5 DEF vars, socket
<1> QED BY <1>1, <1>2, <1>3, <1>4, <1>5 DEF Next

(* A framing that slipped stays so. *)
LEMMA StaysLost == TypeOK /\ slipped /\ [Next]_vars => slipped'
<1> SUFFICES ASSUME TypeOK, slipped, [Next]_vars PROVE slipped'
  OBVIOUS
<1>1. CASE Loop
  BY <1>1 DEF Loop, BudgetSpent, EmptyRead, BeginRead
<1>2. CASE \E n \in 1 .. BUF_SIZE : ReadSome(n)
  BY <1>2 DEF ReadSome
<1>3. CASE Switch
  BY <1>3 DEF Switch, HandleBase, HandleCodecHeader, CodecHeaderTruncated, HandleWireChunk,
       IgnoreWireChunk, HandleServerSettings, ServerSettingsTruncated, HandleTime, HandleOther
<1>4. CASE Faulty
  BY <1>4 DEF Faulty, ReadStalls, ReadFails, ClockFails, CodecHeaderNoMemory
<1>5. CASE UNCHANGED vars
  BY <1>5 DEF vars
<1> QED BY <1>1, <1>2, <1>3, <1>4, <1>5 DEF Next

(* The dispatch of a framed body delivers message handled + 1. *)
LEMMA DispatchDelivers ==
  ASSUME TypeOK, NoOverrun, Framed, ~slipped, Dispatch
  PROVE  D!Deliver
<1> DEFINE m == handled + 1
<1> USE Vocabulary DEF SNAPCAST_MESSAGE_BASE, SNAPCAST_MESSAGE_CODEC_HEADER,
            SNAPCAST_MESSAGE_WIRE_CHUNK, SNAPCAST_MESSAGE_SERVER_SETTINGS,
            SNAPCAST_MESSAGE_TIME
<1>1. /\ Done /\ pc = "switch" /\ base_message.type # SNAPCAST_MESSAGE_BASE
      /\ UNCHANGED slipped
  BY DispatchDone
<1>2. /\ m \in 1 .. MessageCount(stream)
      /\ IsMessage(stream, m)
      /\ base_message.type = TypeOf(stream, m)
      /\ MessageSize = SizeOf(stream, m)
  BY <1>1, CurrentMessage
<1>3. MessageCount(stream) \in Nat /\ handled \in Nat
  BY Streamed DEF TypeOK
<1>4. MessageSize \in 1 .. BUF_SIZE
  BY <1>1 DEF NoOverrun
<1>5. buf[0] = BodyAt(stream, m, 0)
  BY <1>1, <1>4, BodyInBuffer
<1>6. stream' = stream /\ handled' = m /\ handled < MessageCount(stream)
  BY <1>1, <1>2, <1>3 DEF Done, NextTurn, socket
<1>7. D!Announce(m) \/ D!Play(m) \/ D!Synchronise(m) \/ D!Skip(m)
  <2>1. CASE HandleCodecHeader
    <3>1. TypeOf(stream, m) = SNAPCAST_MESSAGE_CODEC_HEADER
      BY <1>2, <2>1 DEF HandleCodecHeader, Case
    <3>2. CASE buf[0] \in SupportedCodecs
      BY <1>5, <2>1, <3>1, <3>2 DEF HandleCodecHeader, D!Announce
    <3>3. CASE buf[0] \notin SupportedCodecs
      BY <2>1, <3>1, <3>3 DEF HandleCodecHeader, D!Skip
    <3> QED BY <3>2, <3>3
  <2>2. CASE CodecHeaderTruncated \/ CodecHeaderNoMemory
    <3>1. TypeOf(stream, m) = SNAPCAST_MESSAGE_CODEC_HEADER
      BY <1>2, <2>2 DEF CodecHeaderTruncated, CodecHeaderNoMemory, Case
    <3> QED
      BY <2>2, <3>1 DEF CodecHeaderTruncated, CodecHeaderNoMemory, D!Skip
  <2>3. CASE HandleWireChunk
    BY <2>3, ChunkPlayed DEF HandleWireChunk, D!Play
  <2>4. CASE IgnoreWireChunk
    <3>1. TypeOf(stream, m) = SNAPCAST_MESSAGE_WIRE_CHUNK
      BY <1>2, <2>4 DEF IgnoreWireChunk, Case
    <3>2. MessageSize >= CHUNK_HEADER_SIZE
      BY <1>2, <3>1 DEF IsMessage
    <3>3. ~received_header
      BY <1>4, <2>4, <3>2 DEF IgnoreWireChunk, CHUNK_HEADER_SIZE
    <3> QED
      BY <2>4, <3>1, <3>3 DEF IgnoreWireChunk, D!Skip, element
  <2>5. CASE HandleServerSettings
    BY <1>2, <2>5 DEF HandleServerSettings, Case, D!Skip, element
  <2>6. CASE HandleTime
    BY <1>2, <1>5, <2>6 DEF HandleTime, Case, D!Synchronise
  <2>7. CASE HandleOther
    <3>1. TypeOf(stream, m) > SNAPCAST_MESSAGE_TIME
      BY <1>2, <2>7 DEF HandleOther
    <3>2. TypeOf(stream, m) # SNAPCAST_MESSAGE_TIME
      BY <3>1
    <3> QED
      BY <2>7, <3>1, <3>2 DEF HandleOther, D!Skip, element
  <2> QED BY <2>1, <2>2, <2>3, <2>4, <2>5, <2>6, <2>7 DEF Dispatch
<1> QED BY <1>1, <1>6, <1>7 DEF D!Deliver

(* A fresh reader has delivered nothing. *)
LEMMA InitDelivery == Init => D!Init
BY Vocabulary DEF Init, D!Init

(* Every step of the reader delivers one message, loses the framing, is one *)
(* of a reader adrift, or changes nothing that was promised.                *)
LEMMA StepDelivery == TypeOK /\ NoOverrun /\ Framed /\ [Next]_vars => [D!Next]_(D!vars)
<1> SUFFICES ASSUME TypeOK, NoOverrun, Framed, [Next]_vars
             PROVE  D!Next \/ UNCHANGED D!vars
  OBVIOUS
<1>1. CASE slipped
  <2>1. D!Adrift
    BY <1>1, StaysLost, StreamFixed DEF D!Adrift
  <2> QED BY <2>1 DEF D!Next
<1>2. CASE ~slipped /\ slipped'
  <2>1. UNCHANGED <<stream, handled, received_header, codec, latency, out>>
    <3>1. ReadStalls \/ ReadFails \/ ClockFails
      BY <1>2, DispatchDone DEF Next, Loop, Switch, Faulty, Dispatch, BudgetSpent, EmptyRead,
         BeginRead, ReadSome, HandleBase, ServerSettingsTruncated, vars
    <3> QED BY <3>1 DEF ReadStalls, ReadFails, ClockFails, CallAgain, EndRead, NextTurn,
               socket, element
  <2>2. D!Lose
    BY <1>2, <2>1 DEF D!Lose, TypeOK
  <2> QED BY <2>2 DEF D!Next
<1>3. CASE ~slipped /\ ~slipped'
  <2>1. CASE Dispatch
    BY <1>3, <2>1, DispatchDelivers DEF D!Next
  <2>2. CASE ~Dispatch
    <3>1. UNCHANGED <<stream, handled, received_header, codec, latency, out>>
      BY <2>2 DEF Next, Loop, Switch, Faulty, Dispatch, BudgetSpent, EmptyRead, BeginRead,
         ReadSome, ReadStalls, ReadFails, ClockFails, HandleBase, ServerSettingsTruncated,
         CallAgain, EndRead, NextTurn, vars, socket, element
    <3>2. slipped' = slipped
      BY <1>3, StepTyped DEF TypeOK
    <3> QED BY <3>1, <3>2, Invisible
  <2> QED BY <2>1, <2>2
<1> QED BY <1>1, <1>2, <1>3

(* The refinement that run "reader" checks, for every server, buffer and   *)
(* sequence of faults: messages are handled in order, each once, and the   *)
(* samples played are those of the chunks after a supported codec header.  *)
THEOREM Refinement == Spec => DeliverySpec
<1>1. Init => TypeOK /\ NoOverrun /\ Framed
  BY InitTyped, InitFramed
<1>2. TypeOK /\ NoOverrun /\ Framed /\ [Next]_vars => (TypeOK /\ NoOverrun /\ Framed)'
  BY StepTyped, StepFramed
<1>3. TypeOK /\ NoOverrun /\ Framed /\ [Next]_vars => [D!Next]_(D!vars)
  BY StepDelivery
<1> QED BY <1>1, <1>2, <1>3, InitDelivery, PTL DEF Spec, DeliverySpec, D!Spec
=============================================================================
