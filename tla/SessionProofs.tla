--------------------------- MODULE SessionProofs ---------------------------
(***************************************************************************)
(* Proofs about Session, from the lemmas about its two parts: what each    *)
(* part keeps step by step it keeps in the composition too, and between    *)
(* two connections nothing is left in one part that misleads the other.    *)
(***************************************************************************)
EXTENDS Session, TLAPS

LP == INSTANCE SnapclientStreamProofs
        WITH pc <- life, faults <- lifeFaults, MaxFaults <- LifeFaults

RP == INSTANCE StreamReaderProofs
        WITH pc <- call, faults <- readFaults, MaxFaults <- ReadFaults

(* The parts that the proofs are about are those that Session composes.    *)
LEMMA SameLife ==
  /\ L!Init = LP!Init /\ L!Next = LP!Next /\ L!vars = LP!vars /\ L!TypeOK = LP!TypeOK
<1>1. L!Next = LP!Next
  BY DEF
    L!Next, L!Framework, L!Opening, L!TimerTask, L!struct, L!clock, L!Handles, LP!Next,
    LP!Framework, LP!Opening, LP!TimerTask, LP!struct, LP!clock, LP!Handles, L!OpenCall,
    L!Close, L!Destroy, L!Connect, L!ConnectFails, L!Reset, L!SendHelloHeader,
    L!SendHelloBody, L!StartTimer, L!ReceiveHeader, L!Second, L!TimerCallback,
    L!SendTimeHeader, L!SendTimeBody, L!UseFreed, L!Whole, L!Short, L!Error, L!After,
    L!Fault, L!NoFault, LP!OpenCall, LP!Close, LP!Destroy, LP!Connect, LP!ConnectFails,
    LP!Reset, LP!SendHelloHeader, LP!SendHelloBody, LP!StartTimer, LP!ReceiveHeader,
    LP!Second, LP!TimerCallback, LP!SendTimeHeader, LP!SendTimeBody, LP!UseFreed,
    LP!Whole, LP!Short, LP!Error, LP!After, LP!Fault, LP!NoFault
<1>2. L!Init = LP!Init /\ L!vars = LP!vars /\ L!TypeOK = LP!TypeOK
  BY DEF L!Init, LP!Init, L!vars, LP!vars, L!TypeOK, LP!TypeOK, L!struct, LP!struct, L!clock,
         LP!clock, L!Handles, LP!Handles
<1> QED
  BY <1>1, <1>2

(* So are the streams they are about.                                      *)
LEMMA SameStreams ==
  /\ R!Cell = RP!Cell /\ R!NoCodec = RP!NoCodec
  /\ \A s : R!IsStream(s) = RP!IsStream(s) /\ R!MessageCount(s) = RP!MessageCount(s)
  /\ \A s, i : R!TypeOf(s, i) = RP!TypeOf(s, i)
  /\ \A s, i, k : R!BodyAt(s, i, k) = RP!BodyAt(s, i, k)
BY DEF
  R!Cell, R!NoCodec, R!At, R!MessageCount, R!TypeOf, R!SizeOf, R!BodyAt, R!IsMessage,
  R!IsStream, R!CHUNK_HEADER_SIZE, R!CODEC_HEADER_MIN, R!SNAPCAST_MESSAGE_BASE,
  R!SNAPCAST_MESSAGE_CODEC_HEADER, R!SNAPCAST_MESSAGE_WIRE_CHUNK,
  R!SNAPCAST_MESSAGE_SERVER_SETTINGS, R!SNAPCAST_MESSAGE_TIME, RP!Cell, RP!NoCodec, RP!At,
  RP!MessageCount, RP!TypeOf, RP!SizeOf, RP!BodyAt, RP!IsMessage, RP!IsStream,
  RP!CHUNK_HEADER_SIZE, RP!CODEC_HEADER_MIN, RP!SNAPCAST_MESSAGE_BASE,
  RP!SNAPCAST_MESSAGE_CODEC_HEADER, RP!SNAPCAST_MESSAGE_WIRE_CHUNK,
  RP!SNAPCAST_MESSAGE_SERVER_SETTINGS, RP!SNAPCAST_MESSAGE_TIME

(* And the reader.                                                         *)
LEMMA SameReader ==
  /\ R!Init = RP!Init /\ R!Next = RP!Next /\ R!vars = RP!vars
  /\ R!TypeOK = RP!TypeOK /\ R!Framed = RP!Framed
<1>1. R!Next = RP!Next
  BY DEF
    R!Next, R!Loop, R!Switch, R!Faulty, R!socket, R!element, R!vars, R!NUL, R!AsInt,
    R!MessageSize, R!FitsBudget, RP!Next, RP!Loop, RP!Switch, RP!Faulty, RP!socket,
    RP!element, RP!vars, RP!NUL, RP!AsInt, RP!MessageSize, RP!FitsBudget, R!BudgetSpent,
    R!EmptyRead, R!BeginRead, R!ReadSome, R!ReadStalls, R!ReadFails, R!HandleBase,
    R!ClockFails, R!HandleCodecHeader, R!CodecHeaderNoMemory, R!CodecHeaderTruncated,
    R!HandleWireChunk, R!IgnoreWireChunk, R!HandleServerSettings,
    R!ServerSettingsTruncated, R!HandleTime, R!HandleOther, R!Case, R!NextTurn, R!Done,
    R!CallAgain, R!Fault, R!EndRead, R!ChunkPayload, RP!BudgetSpent, RP!EmptyRead,
    RP!BeginRead, RP!ReadSome, RP!ReadStalls, RP!ReadFails, RP!HandleBase, RP!ClockFails,
    RP!HandleCodecHeader, RP!CodecHeaderNoMemory, RP!CodecHeaderTruncated,
    RP!HandleWireChunk, RP!IgnoreWireChunk, RP!HandleServerSettings,
    RP!ServerSettingsTruncated, RP!HandleTime, RP!HandleOther, RP!Case, RP!NextTurn,
    RP!Done, RP!CallAgain, RP!Fault, RP!EndRead, RP!ChunkPayload, R!Cell, R!NoCodec, R!At,
    R!MessageCount, R!TypeOf, R!SizeOf, R!BodyAt, R!IsMessage, R!IsStream,
    R!CHUNK_HEADER_SIZE, R!CODEC_HEADER_MIN, R!SNAPCAST_MESSAGE_BASE,
    R!SNAPCAST_MESSAGE_CODEC_HEADER, R!SNAPCAST_MESSAGE_WIRE_CHUNK,
    R!SNAPCAST_MESSAGE_SERVER_SETTINGS, R!SNAPCAST_MESSAGE_TIME, RP!Cell, RP!NoCodec,
    RP!At, RP!MessageCount, RP!TypeOf, RP!SizeOf, RP!BodyAt, RP!IsMessage, RP!IsStream,
    RP!CHUNK_HEADER_SIZE, RP!CODEC_HEADER_MIN, RP!SNAPCAST_MESSAGE_BASE,
    RP!SNAPCAST_MESSAGE_CODEC_HEADER, RP!SNAPCAST_MESSAGE_WIRE_CHUNK,
    RP!SNAPCAST_MESSAGE_SERVER_SETTINGS, RP!SNAPCAST_MESSAGE_TIME
<1>2. R!Init = RP!Init /\ R!vars = RP!vars /\ R!TypeOK = RP!TypeOK
  BY DEF R!Init, RP!Init, R!vars, RP!vars, R!TypeOK, RP!TypeOK, R!socket, RP!socket, R!element,
         RP!element, R!Cell, RP!Cell, R!NoCodec, RP!NoCodec, R!SNAPCAST_MESSAGE_BASE,
         RP!SNAPCAST_MESSAGE_BASE
<1>3. R!Framed = RP!Framed
  BY DEF R!Framed, RP!Framed, R!FrameStart, RP!FrameStart, R!MessageSize, RP!MessageSize,
     R!AsInt,
         RP!AsInt,
         R!Cell, R!NoCodec, R!At, R!MessageCount, R!TypeOf, R!SizeOf, R!BodyAt,
         R!IsMessage, R!IsStream, R!CHUNK_HEADER_SIZE, R!CODEC_HEADER_MIN,
         R!SNAPCAST_MESSAGE_BASE, R!SNAPCAST_MESSAGE_CODEC_HEADER,
         R!SNAPCAST_MESSAGE_WIRE_CHUNK, R!SNAPCAST_MESSAGE_SERVER_SETTINGS,
         R!SNAPCAST_MESSAGE_TIME, RP!Cell, RP!NoCodec, RP!At, RP!MessageCount, RP!TypeOf,
         RP!SizeOf, RP!BodyAt, RP!IsMessage, RP!IsStream, RP!CHUNK_HEADER_SIZE,
         RP!CODEC_HEADER_MIN, RP!SNAPCAST_MESSAGE_BASE, RP!SNAPCAST_MESSAGE_CODEC_HEADER,
         RP!SNAPCAST_MESSAGE_WIRE_CHUNK, RP!SNAPCAST_MESSAGE_SERVER_SETTINGS,
         RP!SNAPCAST_MESSAGE_TIME
<1> QED
  BY <1>1, <1>2, <1>3

-----------------------------------------------------------------------------
(* The steps of the composition are steps of the parts.                    *)

(* A step of the composition is a step of the life cycle, or none of its   *)
(* variables changes: process() touches received_header only in a header.  *)
LEMMA LifeSteps == [Next]_vars => [L!Next]_(L!vars)
<1> SUFFICES ASSUME [Next]_vars PROVE [L!Next]_(L!vars)
  OBVIOUS
<1>1. CASE HandleRest
  <2>1. UNCHANGED lifeOnly
    BY <1>1 DEF HandleRest
  <2>2. received_header' = received_header
    BY <1>1 DEF HandleRest, R!Next, R!Loop, R!Switch, R!Faulty, R!element, R!Case,
      R!HandleCodecHeader,
      R!BudgetSpent, R!EmptyRead, R!BeginRead, R!ReadSome, R!ReadStalls, R!ReadFails,
      R!HandleBase, R!ClockFails, R!CodecHeaderNoMemory, R!CodecHeaderTruncated,
      R!HandleWireChunk, R!IgnoreWireChunk, R!HandleServerSettings,
      R!ServerSettingsTruncated, R!HandleTime, R!HandleOther
  <2> QED
    BY <2>1, <2>2 DEF lifeOnly, L!vars, L!struct, L!clock
<1>2. CASE HandleHeader
  BY <1>2 DEF HandleHeader, L!Next
<1>3. CASE Connect \/ Reset \/ Greet \/ TimerTask \/ Framework
  BY <1>3 DEF Connect, Reset, Greet, TimerTask, Framework, L!Next, L!Opening, L!Framework
<1>4. CASE UNCHANGED vars
  BY <1>4 DEF vars, lifeOnly, L!vars, L!struct, L!clock
<1> QED
  BY <1>1, <1>2, <1>3, <1>4 DEF Next, Process

(* A step of process() is a step of the reader.                            *)
LEMMA ReaderSteps == Process => R!Next /\ life = "running" /\ life' = "running"
BY DEF Process, HandleHeader, HandleRest, lifeOnly, R!Next, R!Switch, L!ReceiveHeader

(* The steps of the element's task between two calls, and of the timer,    *)
(* as far as the reader is concerned.                                      *)
LEMMA OtherSteps ==
  ASSUME Greet \/ TimerTask \/ Framework
  PROVE  /\ UNCHANGED <<socket, reader, current, received_header>>
         /\ life' \in {"running", "helloBody", "helloHeader", "start", "reset"} =>
              life \in {"running", "helloBody", "helloHeader", "start", "reset"}
         /\ life' \in {"reset", "helloHeader", "helloBody", "start"} =>
              life \in {"reset", "helloHeader", "helloBody", "start"}
         /\ life = "reset" => life' = "reset"
         /\ life = "running" /\ life' # "running" => BetweenCalls
<1>1. CASE Greet
  BY <1>1 DEF Greet, L!ConnectFails, L!SendHelloHeader, L!SendHelloBody, L!StartTimer, L!struct
<1>2. CASE TimerTask
  BY <1>2 DEF TimerTask, L!TimerTask, L!Second, L!TimerCallback, L!SendTimeHeader,
       L!SendTimeBody, L!struct
<1>3. CASE Framework
  BY <1>3 DEF Framework, L!OpenCall, L!Close, L!Destroy, L!struct
<1> QED
  BY <1>1, <1>2, <1>3

-----------------------------------------------------------------------------
(* Between two connections the reader is between two calls; an open that   *)
(* connected has received nothing yet; once the struct has been reset the  *)
(* framing holds on the new connection, and what the element believes      *)
(* comes from it.                                                          *)
Fresh == {"reset", "helloHeader", "helloBody", "start"}
Ahead == {"helloHeader", "helloBody", "start", "running"}

SessionInv ==
  /\ LP!LifeInv
  /\ RP!TypeOK /\ RP!NoOverrun
  /\ life # "running" => BetweenCalls
  /\ life \in Fresh => pos = 0 /\ handled = 0 /\ ~slipped
  /\ life \in Ahead => RP!Framed /\ RP!Believed

(* It holds at the start: the element is closed and no call is made.       *)
LEMMA InitSession == Init => SessionInv
<1> SUFFICES ASSUME Init PROVE SessionInv
  OBVIOUS
<1>1. LP!LifeInv
  BY SameLife, SessionAssumption, LP!InitLife DEF Init
<1>2. RP!TypeOK /\ RP!NoOverrun
  BY SameReader, SameStreams, SessionAssumption, RP!InitTyped DEF Init
<1>3. life = "idle" /\ BetweenCalls
  BY DEF Init, L!Init, R!Init, BetweenCalls
<1> QED
  BY <1>1, <1>2, <1>3 DEF SessionInv, Ahead, Fresh

(* Every step keeps the invariant: a connect may forget the old stream     *)
(* because the framing is claimed again only after the reset.              *)
LEMMA StepSession == SessionInv /\ [Next]_vars => SessionInv'
<1> SUFFICES ASSUME SessionInv, [Next]_vars PROVE SessionInv'
  OBVIOUS
<1> USE DEF SessionInv
<1>1. LP!LifeInv'
  <2>1. [LP!Next]_(LP!vars)
    BY LifeSteps, SameLife
    DEF L!vars, LP!vars, L!struct, LP!struct, L!clock, LP!clock
  <2> QED
    BY <2>1, SessionAssumption, LP!StepLife
<1>2. CASE Connect
  <2>1. stream' \in Streams
    BY <1>2 DEF Connect, RP!TypeOK
  <2>2. Len(stream'.cells) \in Nat
    BY <2>1, RP!Streamed, SameStreams, SessionAssumption
  <2>3. /\ pos' = 0 /\ handled' = 0 /\ slipped' = FALSE
        /\ UNCHANGED <<reader, current, received_header>>
        /\ life = "connect" /\ life' = "reset"
    BY <1>2 DEF Connect, L!Connect
  <2>4. pos' \in 0 .. Len(stream'.cells) /\ handled' \in Nat
    BY <2>2, <2>3
  <2>5. RP!TypeOK'
    BY <2>1, <2>3, <2>4 DEF RP!TypeOK, reader, current
  <2>6. RP!NoOverrun'
    BY <2>3 DEF RP!NoOverrun, RP!MessageSize, RP!AsInt, reader, current
  <2>7. BetweenCalls'
    BY <2>3 DEF BetweenCalls, reader
  <2> QED
    BY <1>1, <2>3, <2>5, <2>6, <2>7 DEF Ahead, Fresh
<1>3. CASE Reset
  <2>1. /\ UNCHANGED <<socket, reader>>
        /\ received_header' = FALSE /\ latency' = 0
        /\ base_message' = [base_message EXCEPT !.type = R!SNAPCAST_MESSAGE_BASE]
        /\ life = "reset" /\ life' \in {"helloHeader", "idle"}
    BY <1>3 DEF Reset, L!Reset, ForgetMessage, ForgetLatency
  <2>2. 0 \in RP!Cell
    BY SessionAssumption DEF RP!Cell
  <2>3. /\ base_message' \in [type : RP!Cell, size : RP!Cell]
        /\ base_message'.type = RP!SNAPCAST_MESSAGE_BASE
    BY <2>1, <2>2 DEF RP!TypeOK, R!SNAPCAST_MESSAGE_BASE, RP!SNAPCAST_MESSAGE_BASE
  <2>4. RP!TypeOK'
    BY <2>1, <2>2, <2>3 DEF RP!TypeOK, socket, reader
  <2>5. BetweenCalls' /\ pos' = 0 /\ handled' = 0 /\ ~slipped'
    BY <2>1 DEF BetweenCalls, socket, reader, Fresh
  <2>6. RP!NoOverrun'
    BY <2>1, <2>5 DEF RP!NoOverrun, BetweenCalls, reader
  <2>7. RP!Framed' /\ RP!Believed'
    <3>1. RP!MessageCount(stream') \in Nat /\ stream'.start[1] = 0
      BY <2>4, RP!Streamed, SameStreams, SessionAssumption DEF RP!TypeOK
    <3>2. got' = 0 /\ call' = "loop"
      BY <2>5, <2>6 DEF RP!NoOverrun, BetweenCalls
    <3>3. RP!FrameStart' = 0
      BY <2>3, <2>5, <3>1 DEF RP!FrameStart
    <3>4. RP!Framed'
      BY <2>3, <2>5, <3>1, <3>2, <3>3 DEF RP!Framed
    <3> QED
      BY <2>1, <3>4 DEF RP!Believed
  <2> QED
    BY <1>1, <2>1, <2>4, <2>5, <2>6, <2>7
<1>4. CASE Greet \/ TimerTask \/ Framework
  <2>1. UNCHANGED RP!vars
    BY <1>4, OtherSteps DEF socket, reader, current, RP!vars, RP!socket, RP!element
  <2>2. RP!TypeOK' /\ RP!NoOverrun'
    BY <2>1, SameStreams, SessionAssumption, RP!StepTyped
  <2>3. life' \in Ahead => life \in Ahead
    BY <1>4, OtherSteps DEF Ahead
  <2>4. life' \in Ahead => RP!Framed' /\ RP!Believed'
    BY <2>1, <2>3, SameStreams, SessionAssumption, RP!StepFramed, RP!StepBelieved
  <2>5. life' # "running" => BetweenCalls'
    BY <1>4, OtherSteps DEF BetweenCalls, reader
  <2>6. life' \in Fresh => pos' = 0 /\ handled' = 0 /\ ~slipped'
    BY <1>4, OtherSteps DEF socket, Fresh
  <2> QED
    BY <1>1, <2>2, <2>4, <2>5, <2>6
<1>5. CASE Process
  <2>1. RP!Next /\ life = "running" /\ life' = "running"
    BY <1>5, ReaderSteps, SameReader
  <2>2. RP!TypeOK' /\ RP!NoOverrun'
    BY <2>1, SameStreams, SessionAssumption, RP!StepTyped
  <2>3. RP!Framed' /\ RP!Believed'
    BY <2>1, SameStreams, SessionAssumption, RP!StepFramed, RP!StepBelieved DEF Ahead
  <2> QED
    BY <1>1, <2>1, <2>2, <2>3 DEF Fresh
<1>6. CASE UNCHANGED vars
  <2>1. UNCHANGED <<life, RP!vars>>
    BY <1>6 DEF vars, lifeOnly, socket, reader, current, RP!vars, RP!socket, RP!element
  <2>2. RP!TypeOK' /\ RP!NoOverrun'
    BY <2>1, SameStreams, SessionAssumption, RP!StepTyped
  <2>3. life' \in Ahead => RP!Framed' /\ RP!Believed'
    BY <2>1, SameStreams, SessionAssumption, RP!StepFramed, RP!StepBelieved
  <2> QED
    BY <1>1, <1>6, <2>1, <2>2, <2>3 DEF vars, socket, reader, BetweenCalls
<1> QED
  BY <1>2, <1>3, <1>4, <1>5, <1>6 DEF Next

(* SessionInv holds in every reachable state.                              *)
LEMMA SessionInvariant == Spec => []SessionInv
BY InitSession, StepSession, PTL DEF Spec

(* The variables of the composed element have the types of the two parts.  *)
THEOREM SessionTypes == Spec => []TypeOK
<1>1. SessionInv => TypeOK
  BY SameLife, SameReader DEF SessionInv, LP!LifeInv, TypeOK
<1> QED
  BY <1>1, SessionInvariant, PTL

(* Whatever message a connection was closed in, while an element runs the  *)
(* reader knows where it is in the stream of this connection.              *)
THEOREM EachConnectionFramed == Spec => []FramedAgain
<1>1. SessionInv => FramedAgain
  BY SameReader DEF SessionInv, Ahead, FramedAgain
<1> QED
  BY <1>1, SessionInvariant, PTL

(* A running element that has not slipped plays because of a codec header  *)
(* of this connection, and sends back a latency of this connection.        *)
THEOREM BelievesOwnServer == Spec => []OwnConnection
<1>1. ASSUME SessionInv PROVE OwnConnection
  <2>1. life = "running" => RP!Believed
    BY <1>1 DEF SessionInv, Ahead
  <2> QED
    BY <2>1, SameStreams
    DEF OwnConnection, RP!Believed, RP!Comes, RP!Told,
        R!SNAPCAST_MESSAGE_CODEC_HEADER, RP!SNAPCAST_MESSAGE_CODEC_HEADER,
        R!SNAPCAST_MESSAGE_TIME, RP!SNAPCAST_MESSAGE_TIME
<1> QED
  BY <1>1, SessionInvariant, PTL

(* Composed with the reader the element still lives as SnapclientStream    *)
(* says, so what is proved of its connections and timers holds here too.   *)
THEOREM SessionIsLife == Spec => L!Spec
<1>1. Init => L!Init
  BY DEF Init
<1> QED
  BY <1>1, LifeSteps, PTL DEF Spec, L!Spec

-----------------------------------------------------------------------------
(* The promises of the two abstract specifications are about the same      *)
(* messages.                                                               *)
LEMMA SamePromise ==
  /\ S!NoCodec = R!NoCodec
  /\ life = "running" /\ life' = "running" /\ RP!D!Deliver => S!Deliver
  /\ life = "running" /\ life' = "running" /\ RP!D!Lose => S!Lose
  /\ RP!D!Adrift => S!Between
<1>1. S!NoCodec = R!NoCodec
  BY DEF S!NoCodec, R!NoCodec
<1>2. ASSUME life = "running", life' = "running", RP!D!Deliver PROVE S!Deliver
  BY <1>2
  DEF RP!D!Deliver, RP!D!Announce, RP!D!Play, RP!D!Synchronise, RP!D!Skip, RP!D!At,
      RP!D!MessageCount, RP!D!TypeOf, RP!D!SizeOf, RP!D!BodyAt, RP!D!PayloadOf,
      RP!D!CHUNK_HEADER_SIZE, RP!D!SNAPCAST_MESSAGE_CODEC_HEADER,
      RP!D!SNAPCAST_MESSAGE_WIRE_CHUNK, RP!D!SNAPCAST_MESSAGE_TIME,
      S!Deliver, S!Announce, S!Play, S!Synchronise, S!Skip, S!At,
      S!MessageCount, S!TypeOf, S!SizeOf, S!BodyAt, S!PayloadOf,
      S!CHUNK_HEADER_SIZE, S!SNAPCAST_MESSAGE_CODEC_HEADER,
      S!SNAPCAST_MESSAGE_WIRE_CHUNK, S!SNAPCAST_MESSAGE_TIME
<1>3. ASSUME life = "running", life' = "running", RP!D!Lose PROVE S!Lose
  BY <1>3 DEF RP!D!Lose, S!Lose
<1>4. ASSUME RP!D!Adrift PROVE S!Between
  BY <1>4 DEF RP!D!Adrift, S!Between
<1> QED
  BY <1>1, <1>2, <1>3, <1>4

(* No server has been met before the first connection.                     *)
LEMMA InitService == Init => S!ServiceInit
BY SamePromise DEF Init, L!Init, R!Init, S!ServiceInit

(* The end of an open begins the promise to the new server; a close ends   *)
(* it; in between, process() keeps it as long as the framing holds.        *)
LEMMA StepService == SessionInv /\ [Next]_vars => [S!ServiceNext]_(S!vars)
<1> SUFFICES ASSUME SessionInv, [Next]_vars PROVE S!ServiceNext \/ UNCHANGED S!vars
  OBVIOUS
<1>0. slipped \in BOOLEAN /\ stream \in Streams
  BY DEF SessionInv, RP!TypeOK
<1>1. CASE life # "running" /\ life' # "running"
  BY <1>1 DEF S!ServiceNext, S!Between
<1>2. CASE life # "running" /\ life' = "running"
  <2>1. Greet
    BY <1>2 DEF Next, Connect, Reset, TimerTask, Framework, Process, vars, lifeOnly,
         L!Connect, L!Reset, L!TimerTask, L!Second, L!TimerCallback, L!SendTimeHeader,
         L!SendTimeBody, L!OpenCall, L!Close, L!Destroy
  <2>2. UNCHANGED <<socket, reader, current, received_header>>
    BY <2>1, OtherSteps
  <2>3. life = "start"
    BY <1>2, <2>1 DEF Greet, L!ConnectFails, L!SendHelloHeader, L!SendHelloBody,
         L!StartTimer
  <2>4. handled = 0 /\ ~slipped /\ RP!Believed
    BY <2>3 DEF SessionInv, Fresh, Ahead
  <2>5. received_header = FALSE /\ latency = 0
    BY <2>4 DEF RP!Believed, RP!Comes, RP!Told
  <2>6. S!Begin
    BY <1>0, <1>2, <2>2, <2>4, <2>5 DEF S!Begin, socket, reader, current
  <2> QED BY <2>6 DEF S!ServiceNext
<1>3. CASE life = "running" /\ life' # "running"
  <2>1. Framework
    BY <1>3, ReaderSteps DEF Next, Connect, Reset, Greet, TimerTask, vars, lifeOnly,
         L!Connect, L!Reset, L!ConnectFails, L!SendHelloHeader, L!SendHelloBody,
         L!StartTimer, L!TimerTask, L!Second, L!TimerCallback, L!SendTimeHeader,
         L!SendTimeBody
  <2>2. UNCHANGED <<socket, reader, current, received_header>>
    BY <2>1, OtherSteps
  <2> QED
    BY <1>0, <1>3, <2>2 DEF S!ServiceNext, S!Between, S!Lose, socket, reader, current
<1>4. CASE life = "running" /\ life' = "running"
  <2>1. CASE Process
    <3>1. RP!Next
      BY <2>1, ReaderSteps, SameReader
    <3>2. RP!TypeOK /\ RP!NoOverrun /\ RP!Framed
      BY <1>4 DEF SessionInv, Ahead
    <3>3. [RP!D!Next]_(RP!D!vars)
      BY <3>1, <3>2, SameStreams, SessionAssumption, RP!StepDelivery
    <3>4. CASE UNCHANGED RP!D!vars
      BY <1>4, <3>4 DEF RP!D!vars, S!vars
    <3>5. CASE RP!D!Next
      BY <1>4, <3>5, SamePromise DEF RP!D!Next, S!ServiceNext
    <3> QED BY <3>3, <3>4, <3>5
  <2>2. CASE ~Process
    <3>1. UNCHANGED <<socket, reader, current, received_header>>
      BY <1>4, <2>2, OtherSteps DEF Next, Connect, Reset, L!Connect, L!Reset, vars
    <3> QED
      BY <1>4, <3>1 DEF S!vars, socket, reader, current
  <2> QED BY <2>1, <2>2
<1> QED BY <1>1, <1>2, <1>3, <1>4

(* The whole element implements Service: for any number of connections,    *)
(* and however each was ended, every server is served as Delivery promises *)
(* and owes nothing to the ones before.                                    *)
THEOREM ServesEach == Spec => Serves
BY InitService, StepService, SessionInvariant, PTL DEF Spec, Serves, S!ServiceSpec
=============================================================================
