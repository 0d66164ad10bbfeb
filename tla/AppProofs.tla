----------------------------- MODULE AppProofs -----------------------------
(***************************************************************************)
(* Proofs about App, for every set of formats, size of the event queue and *)
(* number of failures.                                                     *)
(***************************************************************************)
EXTENDS App, TLAPS

(* Past the wait the network is up, unless it was lost since.              *)
Ready == pc \in {"listener", "run", "clock", "listen"} /\ ~lost => wifi = "up"

AppInv == TypeOK /\ Ready /\ OpensOnNetwork

Statuses == {AEL_STATUS_ERROR_OPEN, AEL_STATUS_STATE_RUNNING}

Queue(q) == q \in Seq(Statuses) /\ Len(q) <= QueueSize

(* The queue of a device that starts is empty. *)
LEMMA NoEvents == Queue(<<>>)
BY AppAssumption DEF Queue, Statuses

(* Reporting an event keeps the queue within its type and size. *)
LEMMA ReportTyped ==
  ASSUME TypeOK, NEW el, NEW e \in Statuses, Report(el, e)
  PROVE  Queue(events')
<1>1. events \in Seq(Statuses) /\ Len(events) <= QueueSize
  BY DEF TypeOK, Statuses
<1>2. CASE el \in listening /\ Len(events) < QueueSize
  <2>1. events' = Append(events, e)
    BY <1>2 DEF Report
  <2>2. Append(events, e) \in Seq(Statuses) /\ Len(Append(events, e)) = Len(events) + 1
    BY <1>1
  <2>3. Len(events) \in Nat /\ QueueSize \in Nat
    BY <1>1, AppAssumption
  <2> QED
    BY <1>2, <2>1, <2>2, <2>3 DEF Queue
<1>3. CASE ~(el \in listening /\ Len(events) < QueueSize)
  BY <1>1, <1>3 DEF Report, Queue
<1> QED
  BY <1>2, <1>3

(* Taking an event does so, too. *)
LEMMA TakeTyped == TypeOK /\ HandleEvent => Queue(events')
<1> SUFFICES ASSUME TypeOK, HandleEvent PROVE Queue(events')
  OBVIOUS
<1>1. events \in Seq(Statuses) /\ Len(events) <= QueueSize /\ events # <<>>
  BY DEF TypeOK, Statuses, HandleEvent
<1>2. Tail(events) \in Seq(Statuses) /\ Len(Tail(events)) = Len(events) - 1
  BY <1>1
<1>3. Len(events) \in Nat /\ QueueSize \in Nat
  BY <1>1, AppAssumption
<1> QED
  BY <1>1, <1>2, <1>3 DEF HandleEvent, Queue

(* The types without the queue and the count of failures. *)
Types ==
  /\ pc \in {"flash", "board", "pipeline", "wifi", "wait", "listener", "run", "clock", "listen"}
  /\ flash \in {"ok", "noFreePages"}
  /\ wifi \in {"off", "searching", "up"}
  /\ lost \in BOOLEAN
  /\ ignored \subseteq {"board", "pipeline", "wifi", "listener", "run", "clock"}
  /\ listening \subseteq Elements
  /\ reader \in {"none", "made", "open", "offline", "refused"}
  /\ writer \in {"none", "made", "running"}
  /\ clk \in {NoFormat, DefaultFormat}
  /\ format \in Formats \cup {NoFormat}

LEMMA TypesSplit == TypeOK <=> Types /\ Queue(events) /\ faults \in 0 .. MaxFaults
BY DEF TypeOK, Types, Queue, Statuses

(* Init holds only of states of AppInv. *)
LEMMA InitApp == Init => AppInv
<1> SUFFICES ASSUME Init PROVE AppInv
  OBVIOUS
<1>1. Queue(events)
  BY NoEvents DEF Init
<1>2. faults \in 0 .. MaxFaults
  BY AppAssumption DEF Init
<1>3. Types
  BY DEF Init, Types
<1>4. TypeOK
  BY <1>1, <1>2, <1>3, TypesSplit
<1> QED
  BY <1>4 DEF Init, AppInv, Ready, OpensOnNetwork

(* Failures are counted up to their bound. *)
LEMMA FaultTyped == faults \in 0 .. MaxFaults /\ (Fault \/ NoFault) => faults' \in 0 .. MaxFaults
BY AppAssumption DEF Fault, NoFault

(* No step leads out of the types. *)
LEMMA StepTypes == TypeOK /\ [Next]_vars => TypeOK'
<1> SUFFICES ASSUME TypeOK, [Next]_vars PROVE TypeOK'
  OBVIOUS
<1>0. Types /\ Queue(events) /\ faults \in 0 .. MaxFaults
  BY TypesSplit
<1>a. (Types /\ Queue(events) /\ faults \in 0 .. MaxFaults)' => TypeOK'
  BY TypesSplit DEF TypeOK, Types, Queue, Statuses
<1>1. CASE Boot \/ SetListenerFails \/ IgnoreFailure
  <2>1. events' = events /\ (Fault \/ NoFault)
    BY <1>1 DEF Boot, InitFlash, InitBoard, MakePipeline, StartWifi, WaitForWifi, SetListener,
                RunPipeline, SetClock, SetListenerFails, IgnoreFailure, Step, Ignores, elements
  <2>2. Types'
    <3>1. CASE InitFlash
      BY <1>0, <3>1 DEF InitFlash, Recovered, Types, radio, elements
    <3>2. CASE InitBoard
      BY <1>0, <3>2 DEF InitBoard, Step, Types, radio, elements
    <3>3. CASE MakePipeline
      BY <1>0, <3>3 DEF MakePipeline, Step, Ignores, Types, radio
    <3>4. CASE StartWifi
      BY <1>0, <3>4 DEF StartWifi, Step, Types, elements
    <3>5. CASE WaitForWifi
      BY <1>0, <3>5 DEF WaitForWifi, Step, Types, radio, elements
    <3>6. CASE SetListener
      BY <1>0, <3>6 DEF SetListener, Step, Types, radio, elements
    <3>7. CASE RunPipeline
      BY <1>0, <3>7 DEF RunPipeline, Step, Types, radio, elements
    <3>8. CASE SetClock
      BY <1>0, <3>8 DEF SetClock, Step, Types, radio, elements
    <3>9. CASE SetListenerFails
      BY <1>0, <3>9 DEF SetListenerFails, Ignores, Types, radio, elements
    <3>10. CASE IgnoreFailure
      <4>1. UNCHANGED <<flash, wifi, lost, listening, clk, reader, writer, format>>
        BY <3>10 DEF IgnoreFailure, radio, elements
      <4>2. PICK from \in {"board", "wifi", "run", "clock"}, to \in {"pipeline", "wait", "clock", "listen"} :
              pc' = to /\ ignored' = ignored \cup {from}
        BY <3>10 DEF IgnoreFailure, Ignores
      <4> QED
        BY <1>0, <4>1, <4>2 DEF Types
    <3> QED
      BY <1>1, <3>1, <3>2, <3>3, <3>4, <3>5, <3>6, <3>7, <3>8, <3>9, <3>10 DEF Boot
  <2> QED
    BY <1>0, <1>a, <2>1, <2>2, FaultTyped DEF Queue
<1>2. CASE BootFails
  <2>1. Queue(events') /\ Fault
    BY <1>2, NoEvents DEF BootFails, Restart
  <2>2. Types'
    BY <1>0, <1>2 DEF BootFails, Restart, Types
  <2> QED
    BY <1>0, <1>a, <2>1, <2>2, FaultTyped DEF Queue
<1>3. CASE HandleEvent
  <2>1. Queue(events') /\ NoFault
    BY <1>3, TakeTyped DEF HandleEvent
  <2>2. Types'
    BY <1>0, <1>3 DEF HandleEvent, Types, started, radio
  <2> QED
    BY <1>0, <1>a, <2>1, <2>2, FaultTyped DEF Queue
<1>4. CASE ElementTasks
  <2>1. \E el \in Elements, e \in Statuses : Report(el, e)
    BY <1>4 DEF ElementTasks, OpenReader, OpenReaderOffline, OpenReaderRefused, RunWriter,
                Elements, Statuses
  <2>2. Queue(events')
    BY <2>1, ReportTyped
  <2>3. Fault \/ NoFault
    BY <1>4 DEF ElementTasks, OpenReader, OpenReaderOffline, OpenReaderRefused, RunWriter
  <2>4. Types'
    BY <1>0, <1>4 DEF ElementTasks, OpenReader, OpenReaderOffline, OpenReaderRefused, RunWriter,
                      Types, started, radio
  <2> QED
    BY <1>0, <1>a, <2>2, <2>3, <2>4, FaultTyped DEF Queue
<1>5. CASE ReceiveHeader
  <2>1. Types' /\ events' = events /\ NoFault
    BY <1>0, <1>5 DEF ReceiveHeader, Types, started, radio
  <2> QED
    BY <1>0, <1>a, <2>1, FaultTyped DEF Queue
<1>6. CASE Associate \/ LoseWifi
  <2>1. Types' /\ events' = events /\ (Fault \/ NoFault)
    BY <1>0, <1>6 DEF Associate, LoseWifi, Types, elements
  <2> QED
    BY <1>0, <1>a, <2>1, FaultTyped DEF Queue
<1>7. CASE UNCHANGED vars
  BY <1>7 DEF vars, started, radio, elements, TypeOK
<1> QED
  BY <1>1, <1>2, <1>3, <1>4, <1>5, <1>6, <1>7 DEF Next, BootSuffers

(* No step opens the element without a network before Wi-Fi was lost.      *)
LEMMA StepReady ==
  TypeOK /\ Ready /\ OpensOnNetwork /\ [Next]_vars => Ready' /\ OpensOnNetwork'
<1> SUFFICES ASSUME TypeOK, Ready, OpensOnNetwork, [Next]_vars
             PROVE  Ready' /\ OpensOnNetwork'
  OBVIOUS
<1> USE DEF Ready, OpensOnNetwork, Step, Ignores, radio, started, elements
<1>1. CASE Boot
  <2>1. CASE InitFlash
    BY <2>1 DEF InitFlash, Recovered
  <2>2. CASE InitBoard \/ MakePipeline \/ StartWifi
    BY <2>2 DEF InitBoard, MakePipeline, StartWifi
  <2>3. CASE WaitForWifi
    BY <2>3 DEF WaitForWifi, Waited
  <2>4. CASE SetListener \/ RunPipeline \/ SetClock
    BY <2>4 DEF SetListener, RunPipeline, SetClock
  <2> QED
    BY <1>1, <2>1, <2>2, <2>3, <2>4 DEF Boot
<1>2. CASE BootSuffers
  <2>1. CASE BootFails
    BY <2>1 DEF BootFails, Restart
  <2>2. CASE SetListenerFails \/ IgnoreFailure
    BY <2>2 DEF SetListenerFails, IgnoreFailure
  <2> QED
    BY <1>2, <2>1, <2>2 DEF BootSuffers
<1>3. CASE HandleEvent
  BY <1>3 DEF HandleEvent
<1>4. CASE ElementTasks
  <2>1. PipelineRuns /\ ~lost => wifi = "up"
    BY DEF PipelineRuns
  <2>2. CASE OpenReader \/ OpenReaderRefused
    BY <2>2 DEF OpenReader, OpenReaderRefused
  <2>3. CASE OpenReaderOffline
    BY <2>1, <2>3 DEF OpenReaderOffline, TypeOK
  <2>4. CASE RunWriter
    BY <2>4 DEF RunWriter
  <2> QED
    BY <1>4, <2>2, <2>3, <2>4 DEF ElementTasks
<1>5. CASE ReceiveHeader
  BY <1>5 DEF ReceiveHeader
<1>6. CASE Associate
  BY <1>6 DEF Associate
<1>7. CASE LoseWifi
  BY <1>7 DEF LoseWifi
<1>8. CASE UNCHANGED vars
  BY <1>8 DEF vars
<1> QED
  BY <1>1, <1>2, <1>3, <1>4, <1>5, <1>6, <1>7, <1>8 DEF Next

(* AppInv holds in every reachable state. *)
LEMMA AppInvariant == Spec => []AppInv
<1>1. AppInv /\ [Next]_vars => AppInv'
  BY StepTypes, StepReady DEF AppInv
<1> QED
  BY InitApp, <1>1, PTL DEF Spec

(* The variables of the program have their types, whatever the device      *)
(* finds in its flash and however often it restarts; the queue of events   *)
(* never exceeds its size.                                                 *)
THEOREM AppTyped == Spec => []TypeOK
<1>1. AppInv => TypeOK
  BY DEF AppInv
<1> QED
  BY AppInvariant, <1>1, PTL

(* The one open of the element is not tried without a network unless Wi-Fi *)
(* was lost, whichever failures app_main ignored and however often it was  *)
(* restarted.                                                              *)
THEOREM OpenedOnNetwork == Spec => []OpensOnNetwork
<1>1. AppInv => OpensOnNetwork
  BY DEF AppInv
<1> QED
  BY AppInvariant, <1>1, PTL
=============================================================================
