-------------------------------- MODULE App --------------------------------
(***************************************************************************)
(* The main program, app_main of main/snapclient.c: it brings up flash,    *)
(* board, pipeline and Wi-Fi, runs the pipeline once the network is there, *)
(* and then handles the events of the elements in a loop.  Next to it run  *)
(* the tasks of the two elements and of the Wi-Fi peripheral.  A call that *)
(* aborts, or a NULL pointer that is followed, restarts the device; only   *)
(* the flash survives.                                                     *)
(***************************************************************************)
EXTENDS Naturals, Sequences

CONSTANTS
  Formats,        \* sample formats a server may announce
  DefaultFormat,  \* 48000:16:2, set by app_main
  NoFormat,       \* no format was set or announced
  QueueSize,      \* events the event interface holds
  MaxFaults       \* bound on failing calls and losses of Wi-Fi

ASSUME AppAssumption ==
  /\ NoFormat \notin Formats
  /\ DefaultFormat \in Formats
  /\ QueueSize \in Nat
  /\ MaxFaults \in Nat

VARIABLES
  pc,         \* where app_main is
  flash,      \* the NVS partition: "ok", or "noFreePages"
  wifi,       \* the peripheral: "off", "searching" or "up"
  lost,       \* history: since the device started, Wi-Fi was lost
  ignored,    \* the blocks of app_main whose failure it has not looked at
  listening,  \* the elements whose events reach the queue
  reader,     \* the snapclient element: "none" or "made"; or what became of
              \* its open: "open", "offline" without a network, or "refused"
  writer,     \* the I2S element: "none", "made" or "running"
  clk,        \* the format of the I2S clock
  format,     \* history: the format of the last codec header
  events,     \* in the queue of the event interface
  faults

radio    == <<wifi, lost>>
started  == <<flash, radio, ignored, listening, clk>>
elements == <<reader, writer, format, events>>
vars     == <<pc, started, elements, faults>>

Elements == {"reader", "writer"}

AEL_STATUS_ERROR_OPEN    == "AEL_STATUS_ERROR_OPEN"
AEL_STATUS_STATE_RUNNING == "AEL_STATUS_STATE_RUNNING"

Fault   == faults < MaxFaults /\ faults' = faults + 1
NoFault == faults' = faults

Init ==
  /\ pc = "flash"
  /\ flash \in {"ok", "noFreePages"}
  /\ wifi = "off" /\ lost = FALSE
  /\ ignored = {} /\ listening = {}
  /\ reader = "none" /\ writer = "none"
  /\ clk = NoFormat /\ format = NoFormat
  /\ events = <<>>
  /\ faults = 0

(* The device starts again, with an empty memory.                          *)
Restart ==
  /\ pc' = "flash"
  /\ wifi' = "off" /\ lost' = FALSE
  /\ ignored' = {} /\ listening' = {}
  /\ reader' = "none" /\ writer' = "none"
  /\ clk' = NoFormat /\ format' = NoFormat
  /\ events' = <<>>

(* A block of app_main succeeds; or a call in it fails whose result        *)
(* app_main does not look at, and it goes on all the same.                 *)
Step(from, to)    == pc = from /\ pc' = to /\ NoFault /\ UNCHANGED ignored
Ignores(from, to) == pc = from /\ pc' = to /\ Fault /\ ignored' = ignored \cup {from}

-----------------------------------------------------------------------------
(* app_main, up to its loop. *)

(* Mutant of Recovered: the partition is not erased. *)
RecoveredNot == flash' = flash /\ pc' = "flash"

(* The partition was erased and initialised again. *)
Recovered == flash' = "ok" /\ pc' = "board"

(* nvs_flash_init; a partition without free pages is erased first.         *)
InitFlash ==
  /\ pc = "flash"
  /\ IF flash = "noFreePages" THEN Recovered ELSE flash' = flash /\ pc' = "board"
  /\ NoFault
  /\ UNCHANGED <<radio, ignored, listening, clk, elements>>

(* A call that must succeed does not: nvs_flash_init or nvs_flash_erase    *)
(* (ESP_ERROR_CHECK), a pipeline that is NULL (mem_assert); or a NULL is   *)
(* followed: of the board, an element, the set of peripherals, the Wi-Fi   *)
(* peripheral or the event interface.                                      *)
BootFails ==
  /\ pc \in {"flash", "board", "pipeline", "wifi", "listener"}
  /\ Fault
  /\ Restart
  /\ flash' \in {flash, "ok"}

InitBoard ==
  /\ Step("board", "pipeline")
  /\ UNCHANGED <<flash, radio, listening, clk, elements>>

(* The pipeline is made of the snapclient element and the I2S writer.      *)
(* Registering or linking them may fail unnoticed.                         *)
MakePipeline ==
  /\ Step("pipeline", "wifi") \/ Ignores("pipeline", "wifi")
  /\ reader' = "made" /\ writer' = "made"
  /\ UNCHANGED <<flash, radio, listening, clk, format, events>>

StartWifi ==
  /\ Step("wifi", "wait")
  /\ wifi' = "searching"
  /\ UNCHANGED <<flash, lost, listening, clk, elements>>

(* Mutant of Waited: the wait is given up after its first timeout. *)
WaitedOnce == TRUE

(* periph_wifi_wait_for_connected is called again when it times out.       *)
Waited == wifi = "up"

WaitForWifi ==
  /\ Step("wait", "listener")
  /\ Waited
  /\ UNCHANGED <<flash, radio, listening, clk, elements>>

SetListener ==
  /\ Step("listener", "run")
  /\ listening' = Elements
  /\ UNCHANGED <<flash, radio, clk, elements>>

(* There is no event interface, or not every element could be told of it:  *)
(* the elements run all the same, and app_main hears only some, or none.   *)
SetListenerFails ==
  /\ Ignores("listener", "run")
  /\ listening' \in SUBSET Elements
  /\ UNCHANGED <<flash, radio, clk, elements>>

(* audio_pipeline_run lets the elements' tasks run.                        *)
RunPipeline ==
  /\ Step("run", "clock")
  /\ UNCHANGED <<flash, radio, listening, clk, elements>>

(* Mutant of SetClock: the clock is set to what the element announced.     *)
SetClockFromInfo ==
  /\ Step("clock", "listen")
  /\ clk' = format
  /\ UNCHANGED <<flash, radio, listening, elements>>

SetClock ==
  /\ Step("clock", "listen")
  /\ clk' = DefaultFormat
  /\ UNCHANGED <<flash, radio, listening, elements>>

(* The codec, the Wi-Fi peripheral, the pipeline or the clock could not be *)
(* started or set, and app_main goes on without.                           *)
IgnoreFailure ==
  /\ \/ Ignores("board", "pipeline")
     \/ Ignores("wifi", "wait")
     \/ Ignores("run", "clock")
     \/ Ignores("clock", "listen")
  /\ UNCHANGED <<flash, radio, listening, clk, elements>>

(* The loop takes an event and logs it.  Only music info would set the     *)
(* clock, and nothing reports it.                                          *)
HandleEvent ==
  /\ pc = "listen"
  /\ events # <<>>
  /\ events' = Tail(events)
  /\ NoFault
  /\ UNCHANGED <<pc, started, reader, writer, format>>

-----------------------------------------------------------------------------
(* The other tasks. *)

(* The elements' tasks may have been started: a pipeline that failed to    *)
(* run may have started some.                                              *)
PipelineRuns == pc \in {"clock", "listen"}

(* An event is lost if app_main does not listen to the element, or if the  *)
(* queue is full.                                                          *)
Report(element, event) ==
  events' = IF element \in listening /\ Len(events) < QueueSize
              THEN Append(events, event) ELSE events

(* The element opens once; a failure is reported and that is all.          *)
OpenReader ==
  /\ PipelineRuns /\ reader = "made"
  /\ wifi = "up"
  /\ reader' = "open"
  /\ NoFault
  /\ Report("reader", AEL_STATUS_STATE_RUNNING)
  /\ UNCHANGED <<pc, started, writer, format>>

(* There is no network. *)
OpenReaderOffline ==
  /\ PipelineRuns /\ reader = "made"
  /\ wifi # "up"
  /\ reader' = "offline"
  /\ NoFault
  /\ Report("reader", AEL_STATUS_ERROR_OPEN)
  /\ UNCHANGED <<pc, started, writer, format>>

(* There is a network, but no such host, a server that does not answer, or *)
(* no memory for the transport or for Hello.                               *)
OpenReaderRefused ==
  /\ PipelineRuns /\ reader = "made"
  /\ wifi = "up"
  /\ reader' = "refused"
  /\ Fault
  /\ Report("reader", AEL_STATUS_ERROR_OPEN)
  /\ UNCHANGED <<pc, started, writer, format>>

RunWriter ==
  /\ PipelineRuns /\ writer = "made"
  /\ writer' = "running"
  /\ NoFault
  /\ Report("writer", AEL_STATUS_STATE_RUNNING)
  /\ UNCHANGED <<pc, started, reader, format>>

(* A codec header announces a sample format.  The lines that would report  *)
(* it to app_main follow a break.                                          *)
ReceiveHeader ==
  /\ reader = "open" /\ wifi = "up"
  /\ \E f \in Formats : format' = f
  /\ NoFault
  /\ UNCHANGED <<pc, started, reader, writer, events>>

(* The Wi-Fi peripheral finds the access point, again after it lost it.    *)
Associate ==
  /\ wifi = "searching"
  /\ wifi' = "up"
  /\ NoFault
  /\ UNCHANGED <<pc, flash, lost, ignored, listening, clk, elements>>

LoseWifi ==
  /\ wifi = "up"
  /\ wifi' = "searching" /\ lost' = TRUE
  /\ Fault
  /\ UNCHANGED <<pc, flash, ignored, listening, clk, elements>>

-----------------------------------------------------------------------------
Boot ==
  \/ InitFlash \/ InitBoard \/ MakePipeline \/ StartWifi
  \/ WaitForWifi \/ SetListener \/ RunPipeline \/ SetClock

BootSuffers == BootFails \/ SetListenerFails \/ IgnoreFailure

ElementTasks == OpenReader \/ OpenReaderOffline \/ OpenReaderRefused \/ RunWriter

Next ==
  \/ Boot \/ BootSuffers \/ HandleEvent
  \/ ElementTasks \/ ReceiveHeader
  \/ Associate \/ LoseWifi

Spec == Init /\ [][Next]_vars

(* The pipeline was linked and run, as far as app_main is to be believed.  *)
Running == ignored \cap {"pipeline", "run"} = {}

(* All tasks are scheduled, and an access point that is there is found; a  *)
(* server need not send, and nothing is obliged to fail.                   *)
FairSpec ==
  /\ Spec
  /\ WF_vars(Boot)
  /\ WF_vars(HandleEvent)
  /\ WF_vars(Running /\ (OpenReader \/ OpenReaderOffline \/ RunWriter))
  /\ WF_vars(Associate)

-----------------------------------------------------------------------------
(* Types of the variables; the clock is only ever set to the default, and  *)
(* the queue of events stays within its size.                              *)
TypeOK ==
  /\ pc \in {"flash", "board", "pipeline", "wifi", "wait", "listener", "run", "clock", "listen"}
  /\ flash \in {"ok", "noFreePages"}
  /\ wifi \in {"off", "searching", "up"}
  /\ lost \in BOOLEAN
  /\ ignored \subseteq {"board", "pipeline", "wifi", "listener", "run", "clock"}
  /\ listening \subseteq Elements
  /\ reader \in {"none", "made", "open", "offline", "refused"}
  /\ writer \in {"none", "made", "running"}
  /\ clk \in {NoFormat, DefaultFormat}
  /\ format \in Formats \cup {NoFormat}
  /\ events \in Seq({AEL_STATUS_ERROR_OPEN, AEL_STATUS_STATE_RUNNING})
  /\ Len(events) <= QueueSize
  /\ faults \in 0 .. MaxFaults

(* The one open of the element that follows a start of the device is not   *)
(* tried without a network, whichever failures app_main ignored before it, *)
(* unless Wi-Fi was lost in the meantime.  (On a network it may still      *)
(* fail, for reasons of the server or of the device.)                      *)
OpensOnNetwork == reader = "offline" => lost

(* Whatever fails while the device boots, and whatever state the flash is  *)
(* in, app_main gets to its loop in the end and handles what it hears; but *)
(* if the start of the Wi-Fi peripheral fails, which nobody looks at, it   *)
(* waits for ever.                                                         *)
Boots == <>[]("wifi" \notin ignored) => <>[](pc = "listen" /\ events = <<>>)

(* After any number of restarts, if in the end Wi-Fi is not lost, the one  *)
(* open is not refused, and no failure but that of the listener goes       *)
(* unnoticed, then the pipeline plays: connected, with the writer running  *)
(* and a clock.  So no event need be heard for it, and the queue may       *)
(* overflow.  (A single refusal of the one open, or a loss of Wi-Fi just   *)
(* before it, silences the device until it is reset.)                      *)
Plays ==
  <>[](~lost /\ reader # "refused" /\ ignored \subseteq {"listener"})
    => <>[](reader = "open" /\ writer = "running" /\ clk # NoFormat)

(* Line 429 of snapclient_stream.c says "notify the codec infos", and      *)
(* app_main sets the clock to the music info it receives: the clock        *)
(* follows the sample format that the stream has announced.                *)
ClockFollows == \A f \in Formats : <>[](format = f) => <>[](clk = f)
=============================================================================
