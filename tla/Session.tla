------------------------------ MODULE Session ------------------------------
(***************************************************************************)
(* The whole snapclient element over successive connections: the reader of *)
(* StreamReader and the life cycle and timer of SnapclientStream, composed *)
(* over one element.  The two parts share received_header, and take turns  *)
(* in the element's task: the framework calls process() only while the     *)
(* element is open, and open, close and destroy only between two calls of  *)
(* it.  A connection may so be closed in the middle of a message, and the  *)
(* struct and the element's buffer outlive it.                             *)
(***************************************************************************)
EXTENDS Integers, Sequences

CONSTANTS
  BASE_MESSAGE_SIZE, STRING_PREFIX, INT_MAX, SupportedCodecs, Streams,
  BUF_SIZE, Outside,
  MaxOpens,     \* bound on the connections the element makes
  LifeFaults,   \* bound on failures in open, close and the timer callback
  ReadFaults    \* bound on failures in process()

VARIABLES
  life, published, freed, is_open, t, conn, opened, timers, due, tm, sent,
  unstarted, dangling, lifeFaults,        \* SnapclientStream
  stream, pos, call, in_len, got, buf, base_message, codec, latency, out,
  heap, handled, readFaults, slipped,     \* StreamReader
  received_header                         \* both

L == INSTANCE SnapclientStream
       WITH pc <- life, faults <- lifeFaults, MaxFaults <- LifeFaults

R == INSTANCE StreamReader
       WITH pc <- call, faults <- readFaults, MaxFaults <- ReadFaults

(* What the two parts assume of their constants. *)
ASSUME SessionAssumption ==
  /\ MaxOpens \in Nat \ {0} /\ LifeFaults \in Nat /\ ReadFaults \in Nat
  /\ BASE_MESSAGE_SIZE \in Nat /\ BASE_MESSAGE_SIZE >= 2
  /\ STRING_PREFIX \in Nat /\ STRING_PREFIX >= 2
  /\ INT_MAX \in Nat /\ INT_MAX >= 4
  /\ BUF_SIZE \in Nat /\ BUF_SIZE >= BASE_MESSAGE_SIZE
  /\ Outside \notin R!Cell
  /\ SupportedCodecs \subseteq R!Cell \ {R!NoCodec}
  /\ \A s \in Streams : R!IsStream(s)

lifeOnly == <<life, published, freed, is_open, t, conn, opened, timers, due,
              tm, sent, unstarted, dangling, lifeFaults>>
socket   == <<stream, pos, handled, slipped>>
reader   == <<call, in_len, got, buf, codec, out, heap, readFaults>>
current  == <<base_message, latency>>
vars     == <<lifeOnly, socket, reader, current, received_header>>

Init == L!Init /\ R!Init

(* No call of process() is under way. *)
BetweenCalls == call = "loop" /\ in_len = BUF_SIZE

-----------------------------------------------------------------------------
(* Lines 145-152: the element gets a transport to a server that will send  *)
(* another stream; what the reader remembers is untouched.                 *)
Connect ==
  /\ L!Connect
  /\ stream' \in (IF opened = 0 THEN {stream} ELSE Streams)
  /\ pos' = 0
  /\ handled' = 0
  /\ slipped' = FALSE
  /\ UNCHANGED <<reader, current>>

(* Mutants of ForgetMessage and ForgetLatency: a field is not reset. *)
KeepMessage == base_message' = base_message
KeepLatency == latency' = latency

(* There is no current message, and no Time message was received. *)
ForgetMessage == base_message' = [base_message EXCEPT !.type = R!SNAPCAST_MESSAGE_BASE]
ForgetLatency == latency' = 0

(* Lines 153-165. *)
Reset ==
  /\ L!Reset
  /\ ForgetMessage
  /\ ForgetLatency
  /\ UNCHANGED <<socket, reader>>

(* The steps of open and of the timer task that concern the life cycle     *)
(* only.                                                                   *)
Greet ==
  /\ L!ConnectFails \/ L!SendHelloHeader \/ L!SendHelloBody \/ L!StartTimer
  /\ UNCHANGED <<socket, reader, current>>

TimerTask ==
  /\ L!Second \/ L!TimerTask
  /\ UNCHANGED <<socket, reader, current>>

(* The framework stops, frees or starts the element.                       *)
Framework ==
  /\ BetweenCalls
  /\ L!OpenCall \/ L!Close \/ L!Destroy
  /\ UNCHANGED <<socket, reader, current>>

(* process() handles a supported codec header. *)
HandleHeader == R!HandleCodecHeader /\ L!ReceiveHeader

(* Any other step of process().  A server sends only after Hello. *)
HandleRest ==
  /\ R!Next
  /\ R!Case(R!SNAPCAST_MESSAGE_CODEC_HEADER) => received_header' = received_header
  /\ pos' > pos => conn[t].greeted
  /\ UNCHANGED lifeOnly

Process == life = "running" /\ (HandleHeader \/ HandleRest)

Next == Connect \/ Reset \/ Greet \/ TimerTask \/ Framework \/ Process

Spec == Init /\ [][Next]_vars

(* As in the two parts: the tasks are scheduled, time goes on, and what a  *)
(* server sent arrives.                                                    *)
FairSpec ==
  /\ Spec
  /\ WF_vars(Connect \/ Reset \/ Greet)
  /\ WF_vars(TimerTask)
  /\ WF_vars(Process /\ readFaults' = readFaults)

-----------------------------------------------------------------------------
(* Types of the variables: those of the two parts. *)
TypeOK == L!TypeOK /\ R!TypeOK

(* A connection that was closed in the middle of a message, or whose       *)
(* framing was lost, leaves nothing behind that could disturb the framing  *)
(* of the next one.                                                        *)
FramedAgain == life = "running" => R!Framed

(* While an element is open, what it believes comes from the server of     *)
(* this connection: that a codec header was received, so that chunks are   *)
(* played, and the latency it sends back.                                  *)
OwnConnection ==
  life = "running" /\ ~slipped =>
    /\ received_header =>
         \E i \in 1 .. handled :
           /\ R!TypeOf(stream, i) = R!SNAPCAST_MESSAGE_CODEC_HEADER
           /\ R!BodyAt(stream, i, 0) \in SupportedCodecs
    /\ latency # 0 =>
         \E i \in 1 .. handled :
           /\ R!TypeOf(stream, i) = R!SNAPCAST_MESSAGE_TIME
           /\ R!BodyAt(stream, i, 0) = latency

(* The composition implements the promise of module Service, which holds   *)
(* while the element is open and its framing not lost: however the         *)
(* connections before it ended, on each one the messages of its server are *)
(* handled in order, each once, and only chunks after a codec header of    *)
(* this server are played.                                                 *)
S == INSTANCE Service WITH lost <- slipped \/ life # "running"

Serves == S!ServiceSpec

(* However the connections before it ended, on the connection that stays   *)
(* open every message is handled in the end, unless its framing is lost or *)
(* one of its messages does not fit the element's buffer.                  *)
ConnectionServed ==
  <>[](life = "running" /\ conn[t].greeted)
    => <>[](life = "running" => \/ slipped
                               \/ handled = R!MessageCount(stream)
                               \/ ~R!EachFits)
=============================================================================
