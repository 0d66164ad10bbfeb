# A verification of snapclient-esp-adf

snapclient-esp-adf is a Snapcast client for the ESP32, written in C on top of
Espressif's ESP-ADF. A Snapcast server sends timed chunks of audio over TCP; the
client receives them in an *audio element*, a task of the ESP-ADF pipeline, and
hands them to an I2S writer that feeds an amplifier. This directory models the
client in TLA+, checks the models with TLC and proves theorems about them with
TLAPS.

1. [The system](#1-the-system): its parts, their state, how they interact
2. [The modules](#2-the-modules) and their correspondence to the code
3. [The runs](#3-the-runs): what each shows, its bounds
4. [Fairness](#4-fairness)
5. [The proofs](#5-the-proofs)
6. [What the checks found](#6-what-the-checks-found)
7. [What is not modelled](#7-what-is-not-modelled)
8. [The plan](#8-the-plan)

Paths below are relative to the repository; `snapclient_stream.c` stands for
`components/snapclient_stream/snapclient_stream.c`.

## 1. The system

| Part | State | Operations | Interacts with |
|---|---|---|---|
| Stream reader, `snapclient_stream.c` 278-600 | the current base message, `received_header`, the latency, the element's 4096-byte buffer, the budget `in_len` of a call | `_snapclient_read`, `_snapclient_process` | called again and again by the element's task; reads the TCP transport; gives samples to the next element's ring buffer |
| Element life cycle and Time messages, `snapclient_stream.c` 19-96, 129-276, 602-614 | `is_open`, the transport `t`, the static pointer `snapclient`, a FreeRTOS timer per open | `_snapclient_open`, `_close`, `_destroy`, `send_time_timer_cb` | open, close and destroy run in the element's task, the timer callback in the timer service task; both use the same struct and write to the same transport, without a lock |
| Snapcast messages, `lightsnapcast/snapcast.c` | none | serialize and deserialize base and Time messages, chunks, codec headers, the Hello and settings JSON | called by the two parts above |
| libbuffer, `libbuffer/buffer.c` | an array, its size, an index | bounded little-endian reads and writes | called by snapcast.c |
| Amplifier driver, `my_board/tas57xx_driver/tas57xx.c` | the bus handle, the address of the chip; the chip's registers | init, set and get volume and mute | called through the audio HAL; I2C |
| Board, `my_board_v1_0/board.c` | `board_handle` | init, deinit, get | called by `app_main`; initialises the driver |
| Main program, `main/snapclient.c` | the pipeline, the event interface, the clock of the I2S writer; the flash, which survives a restart | start-up, the wait for Wi-Fi, the event loop | everything above; aborts restart the device |
| Wi-Fi station and SNTP, `main/wifi.c` | an event group, a retry counter | `wifi_init_sta`, `event_handler` | the task that waits, and the task of the system event loop; not part of the CMake build (the program uses the peripheral of ESP-ADF) |

What makes the code hard:

- TCP may cut the stream anywhere, and process() must find messages in it across
  reads, calls and budgets, with `base_message.type` as its only memory;
- a read may stall for `timeout_ms`, fail in the middle of a message, or be
  followed by a failing `gettimeofday`, and sizes come from the wire;
- two tasks write to one transport; the timer is started by open and stopped by
  nothing, so it outlives connections and even the element;
- the struct and the element's buffer outlive a connection that was closed in the
  middle of a message, and open must forget what must not be remembered;
- the pipeline is run once, its tasks start before `app_main` reaches its loop, what
  they report is only logged, and `app_main` does not look at the results of most of
  the calls that start them;
- the event group of `wifi_init_sta` is used by one task and deleted by another;
- allocations and bus transfers fail, one of several, at any point.

What each part must guarantee: the reader handles every message once and in
order, plays only what a supported codec header announced, stays inside its
buffer and starves on nothing; the life cycle leaves no connection behind and
lets a server see Hello and then whole Time messages; the serializers and
libbuffer carry every value and say when one is missing; the driver reports what
it could not do; a new connection owes nothing to the one before; the main program
gets to its loop from any state of the flash, tries the one open of the element on
a network that is up, and plays although nobody hears what the elements report; the
station reports what happened to it.

## 2. The modules

| Module | What it is |
|---|---|
| `SnapStream` | what a server sends, as cells; the well-formed streams |
| `StreamReader` | `_snapclient_read` and `_snapclient_process` over such a stream |
| `Delivery` | the abstract promise of the reader for one connection |
| `Service` | the abstract promise of the element over successive connections, from `Delivery` |
| `Conversation` | what servers are promised to see of the element's two tasks |
| `MCStreamReader` | streams for TLC |
| `StreamReaderProofs` | theorems about `StreamReader`, and that it implements `Delivery` |
| `SnapclientStream`, `SnapclientStreamProofs` | open, close, destroy and the timer callback; theorems about them, and that they implement `Conversation` |
| `Session`, `MCSession`, `SessionProofs` | `SnapclientStream` and `StreamReader` composed, over successive connections; theorems that follow from those of the parts, and that the whole implements `Service` |
| `Buffer` | libbuffer |
| `Messages`, `MCMessages` | (de)serialization of messages, over `Buffer` |
| `MessagesProofs` | the round trip of a field through libbuffer, and theorems about whole messages |
| `Hello`, `HelloProofs` | how the Hello message is built while allocations fail; theorems about it |
| `Tas57xx`, `MCTas57xx`, `Tas57xxProofs` | the amplifier driver and the board; theorems about them |
| `App`, `AppProofs` | `app_main`, and the tasks it starts as it sees them; theorems about them |
| `Wifi`, `WifiProofs` | `wifi_init_sta` and `event_handler`; theorems about them |

**SnapStream** abstracts bytes to *cells*: a cell is a field or a unit of
payload. A header has `BASE_MESSAGE_SIZE` cells, the first its type, the last the
size of the body. The server honours the protocol (`IsMessage`); its messages
may be as large as an int.

**StreamReader** follows the program counter of the element's task: `loop` (the
head of `while (true)`), `read` (inside `_snapclient_read`) and `switch`.
`BudgetSpent` is the break at line 339, `EmptyRead` the one at 345, `BeginRead`
and `ReadSome(n)` the read loop, in which the transport chooses n. `ReadStalls`
is `esp_transport_read` returning 0, after which the function still returns
`len`: the cells not read keep their older values, and since `r_size` equals
`message_size` the branch at lines 348-354 is never taken. `ReadFails` is its
returning an error. Each case of the switch is an action, with its early breaks
as actions of their own: `ClockFails`, `CodecHeaderTruncated`,
`CodecHeaderNoMemory`, `IgnoreWireChunk`, `ServerSettingsTruncated`. The lines
behind the unconditional `break` at 428 are dead and absent. `AsInt` is the
conversion of the unsigned size into the int `message_size`. Cells keep their
meaning when the framing is lost: a body cell may be read as a type or size.
`slipped`, `handled` and `faults` are history: `slipped` becomes true when cells
are taken for a message they do not belong to.

The framework is external: after process() returns 1 it calls it again with the
whole buffer (the comment at line 599 counts on it), `audio_element_output`
blocks until the ring buffer took everything.

**SnapclientStream** splits open at every access the timer task can observe:
`Connect` sets `is_open` and `t` (lines 151-152), `Reset` the other fields, then
the two writes of Hello, then the timer. `Connect` is one step although it holds
two assignments, since the callback reads neither `is_open` nor, before a codec
header, `t`. The callback is three steps: its tests, the write of the header, the
write of the body, each through the static pointer and to the transport of that
moment. `After` is how a server sees the bytes: Hello, then Time messages;
anything else, a short write included, is `"garbled"`. A transport that is closed
refuses writes. Once it has seen a whole Hello, a server is `greeted` and may
send. `ReceiveHeader` stands for the reader's handling of a codec
header. `Second` lets the started timers expire; it assumes the callbacks of one
second end before the next.

**Session** instantiates both over one element: they share `received_header`, and
take turns in the element's task. The framework calls process() while the element
is open, and open, close and destroy only between two calls of process()
(`BetweenCalls`: the budget of a call is the whole buffer). `Connect` gives the
reader the stream of another server; what the reader remembers, the buffer
included, stays as it is until `Reset` forgets the current message, the latency
and `received_header`, as lines 153-163 do. `HandleHeader` is one step of both
parts, the reader's handling of a supported codec header and `ReceiveHeader` of
the life cycle. All other steps belong to one part and leave the other alone. The
socket errors of process() do not close anything: the code does not reconnect on
its own.

**Buffer** and **Messages** translate the functions as operators, with the number
of values of a byte, `RADIX`, as a constant: 256 in the proofs, 2 for TLC. `x >> 8`
of a negative int is `\div`. A serializer in `Messages` writes its fields one after
another (`WriteField`), a deserializer reads them so (`ReadField`): a field without
room is left out, `result` becomes 1, and the next one is tried, as
`result |= buffer_...` does. A message makes one journey through serializer, wire
and deserializer, and may be cut anywhere.

**Hello** counts what is on the heap while `hello_message_to_json` and
`hello_message_serialize` run, and any allocation may fail, the copy of the key in
`cJSON_AddItemToObject` (whose result is ignored) too.

**Tas57xx** has an action per driver function, each with every subset of its bus
transfers failing; a transfer to an address where no chip is always fails. The
registers are bytes, as the code writes them. What `get_volume` and `get_mute` return
is left out; of these calls the model has the status and the failing transfer.

**App** has one step per block of `app_main`, from `nvs_flash_init` to the loop,
and `HandleEvent` for the loop. A call that aborts (`ESP_ERROR_CHECK`,
`mem_assert`) or a NULL pointer that is followed (of the board, an element, the set
of peripherals, the Wi-Fi peripheral, the event interface) is `BootFails`: the device
restarts and keeps only its flash. Calls whose result `app_main` does not look at
fail in `Ignores`: the start of the codec (line 86), the linking of the pipeline
(108-115), the start of the Wi-Fi peripheral (131), the listener (154, 157), the run
of the pipeline (163) and the clock (165). It then goes on without, and `ignored`
remembers the block; where a NULL event interface is not followed by ESP-ADF, it is
the same as a listener that was not set. The elements' tasks, the event queue and
the Wi-Fi peripheral are ESP-ADF's: an element opens once when the pipeline runs and
reports the outcome, which is lost if the element has no listener or the queue is
full (`Report`); the peripheral searches again after it lost its access point. The
open of the snapclient element ends as `"open"`, as `"offline"` if there is no
network, or as `"refused"` on a network: by the server, or by the device itself,
which may lack the memory for a transport or for Hello
(`snapclient_stream.c:143-149`, 207-210). `lost` is history: since the device
started, Wi-Fi was lost.

**Wifi** interleaves `wifi_init_sta`, split at each call on the event group and the
event loop, with `event_handler`, whose `xEventGroupSetBits` is a step of its own,
and with a driver that may fail to join, lose a connection or refuse a call of
`esp_wifi_connect`, whose result the handler ignores. Unregistering a handler is
ESP-IDF's: it takes the lock of the event loop, so it waits for a handler that is
running. `attempts` and `gotIp` are history.

## 3. The runs

Passing runs:

| Run | Shows | Bounds |
|---|---|---|
| `reader` | `Framed`: unless it slipped, the reader is exactly where it should be in the stream and `base_message` is the header the server sent. `NoOverrun`: with bodies larger than the buffer and garbage sizes, no read leaves the buffer or its budget. `HandlersSafe`: while the framing holds, memmove does not wrap and no chunk plays foreign memory. `LeakBounded`: codec headers leave on the heap two allocations per unsupported codec, at most one per failed malloc, nothing else. `DeliverySpec`: it implements `Delivery`. `AllHandled`: every message of a stream that fits the buffer is handled in the end. | all streams of up to two of six messages, each message between a header and a chunk, and streams of up to three with one kind larger than the buffer; buffer of 4 cells; two faults |
| `life` | `NoConnectionLost`: the only connected transport is the one the next close or destroy reaches. `Converses`: what servers see of the two tasks is a `Conversation`. `FirstConnection`: the first connection is never garbled when no write fails, and carries no Time before its codec header. `TimeKeepsFlowing`: failing writes do not end the synchronisation. | two opens, two failing calls |
| `session` | `FramedAgain`: a connection that ended in the middle of a message, or whose framing was lost, does not disturb the framing of the next. `OwnConnection`: that a header was received, and the latency sent back, come from the server of this connection. `Serves`: on every connection the element does what `Delivery` promises, from its first message on (`Service`). `ConnectionServed`: on the connection that stays open every message is handled in the end, unless the framing is lost or a message does not fit the buffer. | two connections, to any of four servers, one with a message larger than the buffer; one failure in the life cycle and one in the reader |
| `messages` | `FieldsExact`, `SizesSuffice`, `ChunkInPlace`, `CodecHeaderExact`: what arrives whole has the sender's value, what does not is reported and keeps its old one, for every cut. | bytes of one bit, so that four-byte fields have 16 values; strings up to 3 bytes |
| `hello` | `SentHelloClean`, `FailedHelloBounded`: a Hello that is sent leaves nothing behind but fields whose key had no memory; one that is given up leaves nothing, the object, or its text. | the nine fields of Hello, three failures |
| `amplifier` | `OkMeansWritten`: a call that sets volume or mute and returns ESP_OK was written to the chip with all its transfers, to both channels; nothing is said of the meaning of the byte, nor of `get_volume`. `ReadyHasChip`: a HAL exists only for a chip that was found, its address is the chip's, and its configuration lacks only what failed to be written. | chip at the first, second, last or no address; volumes below, in and above the range; three failures |
| `app` | `OpensOnNetwork`: the one open is not tried without a network unless Wi-Fi was lost after the wait. `Boots`: `app_main` gets to its loop whatever failed before and whatever state the flash was in, unless the start of the Wi-Fi peripheral failed unnoticed. `Plays`: then the pipeline plays, even if events are lost, unless Wi-Fi is lost, the open is refused, or a failure other than that of the listener is ignored. | three failures, which may be three restarts, or restarts followed by a loss of Wi-Fi; a queue of one event, so that the second one may find it full; two sample formats |
| `wifi` | `GroupAlive`: no handler sets bits of a deleted group. `VerdictTrue`: what is logged is what happened. `RetriesBounded`: no more attempts than configured without an address. `VerdictReached`: `wifi_init_sta` returns, unless a call was refused. | five retries, as by default; three lost connections; one refused call |

The bounds are enough for the interesting cases: the buffer of 4 cells makes
budgets end between header and body and in front of a body, bodies of 1 to 4 cells
fill it less than and exactly, and those of 7 do not fit; the bodies in
`MCStreamReader` read as headers of every kind, so that a lost framing leads to
wrapped sizes, truncated codec headers and settings without a prefix. Two opens
are enough for a timer to survive its connection, two faults for one failure in
the recovery from another. Two connections are enough for `session`, since what
the second one finds is what the first one left, and nothing else survives. The
servers of `MCSession` send one message of each kind that changes what is
remembered, and the cells of the chunk in `Mute` read as a Time message, so that
a message that was not forgotten would be seen. In `wifi` both bits can be set
before the waiting task looks, and an address be followed by all the retries.

Deadlock is checked in `life` and `amplifier`. The element of `session` may be left
open with a silent server, the loop of `app_main` waits for events that need not
come, and `wifi_init_sta` returns. The
reader may stop for good (the server falls silent, or the task does not survive a
negative memmove), a message makes one journey and a Hello is built once, so the
other configurations switch it off.

Runs that are expected to find a violation state what a comment or a log message
of the program says; section 6 lists them.

## 4. Fairness

`StreamReader!FairSpec`: weak fairness of everything the element's task does on
its own, cells arriving included (`Progress`). The framework calls process() in a
loop and TCP delivers what the server sent; no fault is obliged to happen, and a
stall takes a fault from the bounded supply. Under it `AllHandled` is about the
code: a wrong test of the budget starves a message (the mutant of the property
shows it).

`SnapclientStream!FairSpec`: weak fairness of the steps of an open under way, of
the timer task, and of `Second`, because FreeRTOS schedules both tasks and time
goes on. Nothing obliges the framework to open or close, or the server to send.

`Session!FairSpec`: the two together. A fault of the reader counts against the
bounded supply, so fairness is of the steps of process() that take none.

`App!FairSpec`: weak fairness of `app_main`, of its loop, and of the opens of the
elements, which FreeRTOS schedules, and of `Associate`: an access point that is
there is found in the end, also after it was lost. An open on a network that is
down fails; one on a network that is up succeeds or takes a failure. The tasks of the
elements are only relied on (`Running`) if the pipeline was linked and run without an
ignored failure. No failure is obliged to happen, and none to stop happening, but
their number is bounded.

`Wifi!FairSpec`: weak fairness of the two tasks and of the driver, each of whose
attempts to join ends in an address or in a disconnection. Connections are lost a
bounded number of times.

## 5. The proofs

All of them hold for every value of the constants that satisfies the assumptions of
the modules: any buffer size of at least one header, any set of well-formed streams,
any number of connections, retries and faults. The assumptions are
`StreamAssumption` (header and prefix have at least two cells, the streams are
well formed), `ReaderAssumption`, `LifeAssumption`, `SessionAssumption` (those three
again, for the composition), `MessageAssumption` (values fit their fields),
`HelloAssumption`, `DriverAssumption`, `WifiAssumption` and `AppAssumption`. The
theorems about messages are stated for bytes of 256 values (`RADIX = 256`), those of
the code; the run of `Messages` has smaller ones. What ESP-ADF, ESP-IDF and TCP do
is what the modules say of them (section 2).

The reader:

- `TypeCorrect` and `ReadsStayInside` (`StreamReaderProofs`) are proved together:
  `TypeOK /\ NoOverrun` is inductive. `TypeOK` alone is not: that the budget stays
  non-negative after a read, and `got` inside the buffer, needs `NoOverrun`'s
  statement that a read in progress was begun within the budget; that the budget
  test keeps garbage sizes out needs only the test itself.
- `KeepsFraming`: `Framed` is inductive relative to those. It ties the position in
  the stream, the number of handled messages, the cells in the buffer and the
  current base message together; each alone says too little to survive a header,
  a body, or a call that ends between them. The arithmetic (the body of message i
  ends where message i+1 starts) is in lemmas about `SnapStream`.
- `SafeHandlers`: `HandlersSafe` follows step by step, since `Framed` makes the
  body in the buffer a message the server honoured the protocol in.
- `LeakOnlyUnsupported`: `LeakBounded` is inductive relative to `Framed`, which makes
  the codec that decides between freeing and leaking the one in the message that is
  counted; the set of unsupported headers grows by one element or not at all
  (`OneMore`).
- `Refinement`: `Spec => DeliverySpec`, with `lost <- slipped`.
  Initial states map to initial states; each case of the switch maps to one
  `Deliver`, a fault that slips to `Lose`, whatever happens afterwards to
  `Adrift`, and everything else stutters.

The messages (`MessagesProofs`):

- `RoundTrip`: for each of the six kinds of field and every value of it, negative
  ones included, decoding the bytes written gives the value back.
- `WritesField` and `ReadsField` say what one field does to the array, the index and
  the result. The index is behind the last field that had room; a field without room
  leaves it there. That a later one cannot be squeezed into what is left needs that
  the widths of the fields of a message never decrease (2, 2, 2, 4, 4, ...), which the
  chains `WritesNext` and `ReadsNext` ask of each step. `BaseSerialized`,
  `TimeSerialized`, `BaseDeserialized` and `TimeDeserialized` are these chains.
- `FieldsArrive`, `SizesAreRight`, `ChunksArrive` and `CodecHeadersArrive` follow from
  `MessagesInv`: while a message is on its way its bytes are those the sender built
  (`Journey`), so what the receiver gets is a beginning of them (`Beginning`).

Hello (`HelloProofs`): `SentClean`, `FailedBounded` and `HelloTyped` follow from
`HelloInv`, one formula for each call: the fields that were made and not attached are
as many as the allocations that failed. The two properties alone say nothing before
the end; the count, kept with the library's facts on finite sets, is what survives
each field (`OneMoreMissing`).

The life cycle (`SnapclientStreamProofs`): `NoneLeftBehind`, `FirstIsFramed` and
`LifeTypes` follow from `LifeInv`. `NoConnectionLost` alone is not inductive, since a
connect must find the element closed (`Lively`: where the task is tells what the
struct holds). `FirstConnection` needs two more parts. `FirstHeader`: as long as there
was one connection only, a timer callback past its tests implies that the server of
that connection sent its header, so it cannot run between the two writes of Hello,
which come before. `FirstWire`: the places of both tasks together tell what the
server has been sent; this is what makes the unsynchronised writes harmless. The
number of Time messages in a second is bounded by what the timers still owe (`Paced`).

`TasksConverse` is `Spec => Converses`: `met` is the number of transports connected,
`at` the one that is open, `talk` what each server was sent and whether it has sent a
header, `firm` that no call has failed. Each write of either task is a `Greet`, an
`AskTime`, a `Disturb` or, on a closed transport, a stutter (`WriteStep`); on the first
connection `LifeInv` leaves only the first two (`InTurn`). A connect is a `Meet`, so
that it must find no open connection, and a close or destroy a `Leave`, for which the
struct must hold the transport that is open as long as the element is (`Held`).

The composition (`SessionProofs`) is proved from the lemmas about its parts, taken
through `INSTANCE`; `SameLife` and `SameReader` say that these are the parts
`Session` composes. `SessionIsLife` shows that every step of the composition is a step
of the life cycle or leaves it alone, so its theorems hold of the whole element.
`EachConnectionFramed` and `BelievesOwnServer` need `SessionInv`: outside `running` no
call of process() is under way; from `Connect` to `Reset` nothing is claimed of the
framing; `Reset` establishes it, because the position is that of a fresh stream and
the current message is forgotten; afterwards the reader's own `StepFramed` and
`StepBelieved` keep it. `ServesEach` (`Spec => Serves`) goes on from there. To
`Service`, the element is `lost` whenever it is not running or has slipped. The step in
which open returns ESP_OK is a `Begin`, which must find nothing handled, no codec
header and no latency: between `Reset` and that step nothing was read (`Fresh`), so
`Believed` says that nothing is remembered. Steps of process() are steps of `Delivery`
by the reader's own refinement (`SamePromise`), a close is a `Lose`, and the steps of
the other task are not seen.

The driver (`Tas57xxProofs`): `SetMeansWritten` holds after each call whatever was before
it, by the exact effect of the transfers that got through; `DriverTyped` needs the clamp
of `set_volume`; `HalMeansChip` counts the transfers, with the library's facts on
finite sets: what an initialisation leaves unwritten is a subset of what failed in it,
and later calls only add failures.

The station (`WifiProofs`): `WifiInv` lists what can be the case before the first
address (`BeforeAddress`: the start of the station, an attempt to join, the event that
it failed and its handler are never under way at the same time, and each attempt but
the first was counted) and after it (`AfterAddress`: it is signalled before anything
that came later is handled). `GroupOutlivesHandlers` needs what `wifi_init_sta` may rely on at
each of its steps (`Waiting`): handlers are unregistered, and none is running, when
the group is deleted. `VerdictIsTrue`, `RetriesEnd` and `WifiTypes` (the counter of
retries stays in its range) follow from the journey.

The main program (`AppProofs`): `OpenedOnNetwork` needs `Ready`: past its wait
`app_main` is on a network that is up or was lost since. `AppTyped` needs no more than
`TypeOK`, which is inductive by itself; that the queue keeps within its size is the
one arithmetic fact in it.

Only model-checked: `AllHandled`, `TimeKeepsFlowing`, `ConnectionServed`, `Boots`,
`Plays` and `VerdictReached`. They are liveness properties under fairness, which is
out of the prover's reach; every other property of a passing run is a theorem.

## 6. What the checks found

| Run | The program says | What it does |
|---|---|---|
| `fits_later` | "not enough data available, exit this loop" (`snapclient_stream.c:336`) | a body larger than the buffer is never read, process() is called for ever |
| `short_read` | "Retrieved only %d bytes ... ABORT" (350) | `_snapclient_read` never returns less than it was asked for; stale bytes are parsed |
| `dangling_timer` | "snapclient not initialized, ignoring" (50) | after destroy the callback uses freed memory |
| `clock_follows` | "notify the codec infos" (429) | a `break` precedes the lines that would, so `app_main` never sets the I2S clock to the format of the stream |

Seen while modelling, and part of the models without a run of their own:

- each open creates and starts another auto-reload timer and close stops none
  (`snapclient_stream.c:240`), so that an element that was opened twice sends two
  Time messages where the comments say "the one second timer" (239) and "sent once
  a second" (518): `sent` may reach the number of opens;
- a field of Hello that finds no memory does not make the serializer fail:
  `hello_message_to_json` deletes the object and returns its address
  (`snapcast.c:131`), which is printed and deleted again (145); `pc = "undefined"`
  in `Hello`, and "Failed to serialize hello message" (`snapclient_stream.c:209`)
  is not logged;
- only the status of the last register write counts (`tas57xx.c:79`), so an
  amplifier that missed another one is initialised without "Fail to load
  configuration to tas57xx" (86) being logged: in `Tas57xx` ESP_OK leaves `loaded`
  incomplete;
- `app_main` ignores that the codec could not be started (`snapclient.c:86`), and
  goes on with a board that has no HAL; it ignores likewise that the pipeline was not
  linked (115) or run (163), and the clock not set (165) (`ignored`);
- if the start of the Wi-Fi peripheral fails (131) the wait at 133 has no end
  (`Boots` names this case);
- the event interface may be NULL (154) and the listener not set (157), and events
  that find the queue full are dropped: the elements then run unheard, which changes
  nothing in what is played, since the loop only logs (`Plays`);
- `tas57xx.c:165` says "FIXME: Got the digit volume is not right" of `get_volume`,
  and `tas57xx.h:86` and 97 promise a volume of 0~100, where the driver clamps to, and
  returns, a register of 0..255 in which 0 is the loudest and 255 mute (138-142).
  Nothing in the program calls either function. No property says that what
  `get_volume` returns is right, and `OkMeansWritten` speaks of the byte in the
  registers only;
- "TODO currently copies" (`snapcast.h:94`) is out of date: the payload of a chunk
  points into the data it was read from (`snapcast.c:262`; `WireChunkDeserialize`,
  `ChunkInPlace`), so it must be played before the next read;
- after a failed open (`OpenReaderOffline`, `OpenReaderRefused`) nothing runs the
  pipeline again, and after
  `wifi_init_sta` has returned no handler is left to reconnect the station;
- a call of `esp_wifi_connect` that is refused is followed by no event, so
  `wifi_init_sta` waits for ever (`VerdictReached` names this case);
- the NUL that ends the settings JSON (`snapclient_stream.c:486`) is one byte too
  far, so a stale byte follows the JSON, which cJSON does not mind
  (`ServerSettings`);
- a codec header that is refused leaves `received_header` set (413), so the chunks
  of that codec are played as those of the older one (`Delivery!Play`);
- a second open replaces the transport (152) before it clears `received_header`
  (158), so the timer of the first connection can send a Time message before Hello
  (`FirstConnection` says why the first connection is safe from this);
- a board whose codec could not be initialised is kept (`board.c:44`), and the next
  call returns it with no HAL (`BoardInitAgain`; `board = "noHal"`).

## 7. What is not modelled

- The copying of the configuration in `snapclient_stream_init`, the event hook and
  byte positions: they run once, or only keep statistics.
- The settings a server sends are parsed by cJSON and only logged; of the case,
  the move and the NUL are modelled.
- A malformed codec header whose inner lengths disagree with its size is, in
  `StreamReader`, only one that is too short; `Messages` has the lengths. A server
  that honours the protocol sends neither.
- The torn read of `time_message.latency` by the timer callback: its value is sent
  to the server, and what the server makes of it is outside the program.
  `id_counter` and `last_sync`; transport objects that are not connected.
- What the ESP-ADF framework does with an element whose input failed: it may go on
  calling process(), which is modelled, or stop the element, which is a `Close` at
  that moment.
- The end of `app_main` behind its endless loop, `wait_for_sntp` and the SNTP
  functions of `wifi.c`, which nothing calls; the tables of pin numbers, the keys
  and the SD card; the cJSON library.

## 8. The plan

Done: the reader and its promise, the life cycle and what servers see of it, their
composition over successive connections and its promise, messages and libbuffer,
Hello, the amplifier and the board, the main program and the Wi-Fi station, and
theorems about all of them. To come:

1. A server that does not honour the protocol, as far as the code means to handle it:
   codec headers whose inner lengths disagree with their size.
2. `NoConnectionLost` for transport objects as well as connections.
