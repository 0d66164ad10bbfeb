------------------------- MODULE SnapclientStream -------------------------
(***************************************************************************)
(* The life of the snapclient element and its sending half: the callbacks  *)
(* _snapclient_open, _snapclient_close and _snapclient_destroy, run by the *)
(* element's task, and send_time_timer_cb, run by the timer service task,  *)
(* which reads the element through the static pointer snapclient and       *)
(* writes to the same transport.  The two tasks run on different cores     *)
(* and share no lock: every access of one may fall between two accesses    *)
(* of the other.                                                           *)
(***************************************************************************)
EXTENDS Naturals

CONSTANTS
  MaxOpens,    \* bound on the connections the element makes
  MaxFaults    \* bound on failures of calls that may fail

ASSUME LifeAssumption == MaxOpens \in Nat \ {0} /\ MaxFaults \in Nat

VARIABLES
  pc,               \* where the element's task is: "idle" between callbacks
                    \* of a closed element, "running" when open returned OK
  published,        \* the static pointer snapclient is not NULL
  freed,            \* what it points to has been freed
  is_open,
  t,                \* the element's transport: its number, 0 for NULL
  received_header,
  conn,             \* what the server at the end of transport h has seen
  opened,           \* transports connected so far
  timers,           \* timers created and started so far
  due,              \* timers that expired and whose callback has not run
  tm,               \* where the timer service task is in the callback
  sent,             \* Time messages put on a transport in this second
  unstarted,        \* history: a timer could not be started
  dangling,         \* history: the callback used a freed element
  faults            \* history: calls that failed

struct == <<is_open, t, received_header>>
clock  == <<timers, due, sent, unstarted>>
vars   == <<pc, published, freed, struct, conn, opened, clock, tm, dangling, faults>>

Handles == 1 .. MaxOpens

(***************************************************************************)
(* What a server has been sent: nothing, the header of the Hello message,  *)
(* whole messages only ("ready"), the header of a Time message, or bytes   *)
(* that are not a sequence of Hello, Time, Time, ... ("garbled").  Once it *)
(* has seen a whole Hello the client has greeted it, and it may send.      *)
(***************************************************************************)
After(wire, part) ==
  CASE wire = "nothing"     /\ part = "helloHeader" -> "helloHeader"
    [] wire = "helloHeader" /\ part = "helloBody"   -> "ready"
    [] wire = "ready"       /\ part = "timeHeader"  -> "timeHeader"
    [] wire = "timeHeader"  /\ part = "timeBody"    -> "ready"
    [] OTHER                                        -> "garbled"

Init ==
  /\ pc = "idle"
  /\ published = FALSE
  /\ freed = FALSE
  /\ is_open = FALSE
  /\ t = 0
  /\ received_header = FALSE
  /\ conn = [h \in Handles |-> [open |-> FALSE, wire |-> "nothing", greeted |-> FALSE,
                                header |-> FALSE, early |-> FALSE]]
  /\ opened = 0
  /\ timers = 0
  /\ due = 0
  /\ tm = "idle"
  /\ sent = 0
  /\ unstarted = FALSE
  /\ dangling = FALSE
  /\ faults = 0

Fault   == faults < MaxFaults /\ faults' = faults + 1
NoFault == faults' = faults

(* esp_transport_write puts a part of a message on transport h, or only    *)
(* some of its bytes, or returns an error; on a closed transport it can    *)
(* only do the latter.                                                     *)
Whole(h, part) ==
  /\ conn[h].open
  /\ NoFault
  /\ conn' = [conn EXCEPT ![h].wire = After(@, part),
                          ![h].greeted = @ \/ After(conn[h].wire, part) = "ready",
                          ![h].early = @ \/ (part = "timeHeader" /\ ~conn[h].header)]

Short(h) ==
  /\ conn[h].open
  /\ Fault
  /\ conn' = [conn EXCEPT ![h].wire = "garbled"]

Error(h) ==
  /\ IF conn[h].open THEN Fault ELSE NoFault
  /\ UNCHANGED conn

-----------------------------------------------------------------------------
(* _snapclient_open, called by the framework on an element at rest.        *)

(* Mutant of OpenCall: an element that is already open is opened again.    *)
OpenCallUnchecked ==
  /\ pc = "idle" /\ ~freed
  /\ opened < MaxOpens
  /\ published' = TRUE
  /\ pc' = "connect"
  /\ UNCHANGED <<freed, struct, conn, opened, clock, tm, dangling, faults>>

(* An element that is already open is refused. *)
OpenCall ==
  /\ pc = "idle" /\ ~freed
  /\ opened < MaxOpens
  /\ published' = TRUE
  /\ pc' = IF is_open THEN "idle" ELSE "connect"
  /\ UNCHANGED <<freed, struct, conn, opened, clock, tm, dangling, faults>>

Connect ==
  /\ pc = "connect"
  /\ opened' = opened + 1
  /\ conn' = [conn EXCEPT ![opened'].open = TRUE]
  /\ is_open' = TRUE
  /\ t' = opened'
  /\ pc' = "reset"
  /\ UNCHANGED <<published, freed, received_header, clock, tm, dangling, faults>>

(* No transport, or no connection: open returns ESP_FAIL. *)
ConnectFails ==
  /\ pc = "connect"
  /\ Fault
  /\ pc' = "idle"
  /\ UNCHANGED <<published, freed, struct, conn, opened, clock, tm, dangling>>

(* Mutant of Reset: the new connection believes the codec header of the    *)
(* one before.                                                             *)
ResetKeepingHeader ==
  /\ pc = "reset"
  /\ \/ pc' = "helloHeader" /\ NoFault
     \/ pc' = "idle" /\ Fault
  /\ UNCHANGED <<published, freed, struct, conn, opened, clock, tm, dangling>>

(* The fields of the struct are reset for the new connection; then the     *)
(* Hello message is built, or the clock or malloc fails and open returns   *)
(* ESP_FAIL with the connection still open.                                *)
Reset ==
  /\ pc = "reset"
  /\ received_header' = FALSE
  /\ \/ pc' = "helloHeader" /\ NoFault
     \/ pc' = "idle" /\ Fault
  /\ UNCHANGED <<published, freed, is_open, t, conn, opened, clock, tm, dangling>>

(* Only a negative result makes open fail: a short write passes. *)
SendHelloHeader ==
  /\ pc = "helloHeader"
  /\ \/ (Whole(t, "helloHeader") \/ Short(t)) /\ pc' = "helloBody"
     \/ Error(t) /\ pc' = "idle"
  /\ UNCHANGED <<published, freed, struct, opened, clock, tm, dangling>>

SendHelloBody ==
  /\ pc = "helloBody"
  /\ \/ (Whole(t, "helloBody") \/ Short(t)) /\ pc' = "start"
     \/ Error(t) /\ pc' = "idle"
  /\ UNCHANGED <<published, freed, struct, opened, clock, tm, dangling>>

(* Mutant of StartTimer: a one-shot timer, whose first expiry is its last. *)
StartTimerOnce ==
  /\ pc = "start"
  /\ due' = due + 1 /\ NoFault
  /\ pc' = "running"
  /\ UNCHANGED <<published, freed, struct, conn, opened, timers, sent, unstarted, tm, dangling>>

(* A new auto-reload timer is created and started, whether or not an older *)
(* one still runs; open returns ESP_OK even if it could not be started.    *)
StartTimer ==
  /\ pc = "start"
  /\ \/ timers' = timers + 1 /\ NoFault /\ UNCHANGED unstarted
     \/ timers' = timers /\ Fault /\ unstarted' = TRUE
  /\ pc' = "running"
  /\ UNCHANGED <<published, freed, struct, conn, opened, due, sent, tm, dangling>>

(* process() handles a codec header, which the server sends to a client    *)
(* that has said Hello, on this connection.                                *)
ReceiveHeader ==
  /\ pc = "running"
  /\ conn[t].greeted
  /\ received_header' = TRUE
  /\ conn' = [conn EXCEPT ![t].header = TRUE]
  /\ UNCHANGED <<pc, published, freed, is_open, t, opened, clock, tm, dangling, faults>>

(* Mutant of Close: the element counts as closed even if closing failed.   *)
CloseAnyway ==
  /\ pc \in {"running", "idle"} /\ is_open /\ ~freed
  /\ pc' = "idle"
  /\ is_open' = FALSE
  /\ \/ conn' = [conn EXCEPT ![t].open = FALSE] /\ NoFault
     \/ UNCHANGED conn /\ Fault
  /\ UNCHANGED <<published, freed, t, received_header, opened, clock, tm, dangling>>

(* The framework stops the element, or cleans up after a failed open.  The *)
(* timer is left running.                                                  *)
Close ==
  /\ pc \in {"running", "idle"} /\ is_open /\ ~freed
  /\ pc' = "idle"
  /\ \/ is_open' = FALSE /\ conn' = [conn EXCEPT ![t].open = FALSE] /\ NoFault
     \/ UNCHANGED <<is_open, conn>> /\ Fault
  /\ UNCHANGED <<published, freed, t, received_header, opened, clock, tm, dangling>>

(* The transport is destroyed and the struct freed; the static pointer and *)
(* the timers are left as they are.                                        *)
Destroy ==
  /\ pc = "idle" /\ ~freed
  /\ conn' = [h \in Handles |-> IF h = t THEN [conn[h] EXCEPT !.open = FALSE] ELSE conn[h]]
  /\ t' = 0
  /\ freed' = TRUE
  /\ UNCHANGED <<pc, published, is_open, received_header, opened, clock, tm, dangling, faults>>

-----------------------------------------------------------------------------
(* send_time_timer_cb, run once a second for every started timer.          *)

(* The callbacks of a second end before the next one begins. *)
Second ==
  /\ tm = "idle" /\ due = 0
  /\ due' = timers
  /\ sent' = 0
  /\ UNCHANGED <<pc, published, freed, struct, conn, opened, timers, unstarted, tm, dangling, faults>>

(* The callback follows the static pointer: a freed element is used. *)
UseFreed ==
  /\ published /\ freed
  /\ dangling' = TRUE
  /\ tm' = "idle"
  /\ UNCHANGED <<conn, sent, faults>>

(* Mutant of TimerCallback: the test of received_header is left out.       *)
TimerCallbackUnchecked ==
  /\ tm = "idle" /\ due > 0
  /\ due' = due - 1
  /\ IF published /\ freed THEN UseFreed
     ELSE /\ \/ tm' = (IF published THEN "header" ELSE "idle") /\ NoFault
             \/ published /\ tm' = "idle" /\ Fault
          /\ UNCHANGED <<conn, sent, dangling>>
  /\ UNCHANGED <<pc, published, freed, struct, opened, timers, unstarted>>

(* No element, no codec header yet, or a clock that fails: the callback    *)
(* returns.  Otherwise it builds the header of a Time message.             *)
TimerCallback ==
  /\ tm = "idle" /\ due > 0
  /\ due' = due - 1
  /\ IF published /\ freed THEN UseFreed
     ELSE /\ \/ tm' = (IF published /\ received_header THEN "header" ELSE "idle") /\ NoFault
             \/ published /\ received_header /\ tm' = "idle" /\ Fault
          /\ UNCHANGED <<conn, sent, dangling>>
  /\ UNCHANGED <<pc, published, freed, struct, opened, timers, unstarted>>

(* Both writes go to the element's transport of the moment, and their      *)
(* results are ignored.                                                    *)
SendTimeHeader ==
  /\ tm = "header"
  /\ IF freed THEN UseFreed
     ELSE /\ \/ Whole(t, "timeHeader") /\ sent' = sent + 1
             \/ (Short(t) \/ Error(t)) /\ sent' = sent
          /\ tm' = "body"
          /\ UNCHANGED dangling
  /\ UNCHANGED <<pc, published, freed, struct, opened, timers, due, unstarted>>

SendTimeBody ==
  /\ tm = "body"
  /\ IF freed THEN UseFreed
     ELSE /\ Whole(t, "timeBody") \/ Short(t) \/ Error(t)
          /\ tm' = "idle"
          /\ UNCHANGED <<sent, dangling>>
  /\ UNCHANGED <<pc, published, freed, struct, opened, timers, due, unstarted>>

-----------------------------------------------------------------------------
Opening   == Connect \/ ConnectFails \/ Reset \/ SendHelloHeader \/ SendHelloBody \/ StartTimer
Framework == OpenCall \/ Close \/ Destroy
TimerTask == TimerCallback \/ SendTimeHeader \/ SendTimeBody

Next == Framework \/ Opening \/ ReceiveHeader \/ Second \/ TimerTask

Spec == Init /\ [][Next]_vars

(* The scheduler runs both tasks and time goes on; nothing obliges the     *)
(* framework to call the element or the server to send.                    *)
FairSpec == Spec /\ WF_vars(Opening) /\ WF_vars(TimerTask) /\ WF_vars(Second)

-----------------------------------------------------------------------------
(* Types of the variables. *)
TypeOK ==
  /\ pc \in {"idle", "connect", "reset", "helloHeader", "helloBody", "start", "running"}
  /\ published \in BOOLEAN /\ freed \in BOOLEAN /\ is_open \in BOOLEAN
  /\ t \in 0 .. opened
  /\ received_header \in BOOLEAN
  /\ conn \in [Handles -> [open : BOOLEAN, greeted : BOOLEAN, header : BOOLEAN, early : BOOLEAN,
        wire : {"nothing", "helloHeader", "ready", "timeHeader", "garbled"}]]
  /\ opened \in 0 .. MaxOpens
  /\ timers \in 0 .. opened
  /\ due \in 0 .. timers
  /\ sent \in 0 .. timers
  /\ tm \in {"idle", "header", "body"}
  /\ unstarted \in BOOLEAN /\ dangling \in BOOLEAN
  /\ faults \in 0 .. MaxFaults

(* No connection is left behind: whatever calls fail, in whatever order    *)
(* the framework opens, closes and destroys the element, the only          *)
(* transport that is connected is the one a close or destroy will reach.   *)
NoConnectionLost == \A h \in Handles : conn[h].open => h = t /\ is_open /\ ~freed

(* On the element's first connection the server gets one Hello and then    *)
(* whole Time messages, in spite of the two unsynchronised writers and of  *)
(* a close or destroy at any moment, as long as no write fails; and no     *)
(* Time message comes before the server's codec header.                    *)
FirstConnection ==
  /\ faults = 0 => conn[1].wire # "garbled"
  /\ ~conn[1].early

(* What the servers see is what module Conversation promises them.         *)
C == INSTANCE Conversation
       WITH met  <- opened,
            at   <- IF \E h \in Handles : conn[h].open THEN t ELSE 0,
            talk <- [h \in Handles |-> [wire |-> conn[h].wire, greeted |-> conn[h].greeted,
                                        header |-> conn[h].header]],
            firm <- faults = 0

Converses == C!Spec

(* Failed and short writes do not stop the clock synchronisation: while    *)
(* the element stays open with a codec header and its timers could be      *)
(* started, a Time message is attempted again and again.                   *)
TimeKeepsFlowing ==
  <>[](pc = "running" /\ received_header /\ ~unstarted) => []<>(tm = "body")

(* Line 50: a callback that finds no initialised element ignores it, so it *)
(* never touches one that was destroyed.                                   *)
NoDanglingTimer == ~dangling
=============================================================================
