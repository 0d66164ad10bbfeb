-------------------------------- MODULE Wifi --------------------------------
(***************************************************************************)
(* The Wi-Fi station of main/wifi.c: the task that calls wifi_init_sta     *)
(* waits on an event group until event_handler, run by the task of the     *)
(* system event loop, says that the station is connected or that it gave   *)
(* up; then the handlers are unregistered and the group is deleted.        *)
(***************************************************************************)
EXTENDS Naturals, Sequences

CONSTANTS
  ESP_MAXIMUM_RETRY,
  MaxDrops,    \* bound on established connections that are lost
  MaxFaults    \* bound on calls of esp_wifi_connect that are refused

ASSUME WifiAssumption ==
  /\ ESP_MAXIMUM_RETRY \in Nat
  /\ MaxDrops \in Nat
  /\ MaxFaults \in Nat

VARIABLES
  main,         \* where wifi_init_sta is
  returned,     \* what xEventGroupWaitBits returned
  verdict,      \* what wifi_init_sta logged
  group,        \* s_wifi_event_group: "none", "live" or "deleted"
  bits,         \* the bits set in it
  handlers,     \* the events event_handler is registered for
  s_retry_num,
  events,       \* posted to the event loop and not dispatched yet
  task,         \* where the event loop's task is in event_handler
  station,      \* the driver: "down", "joining", "joined" or "up"
  attempts,     \* history: calls of esp_wifi_connect since the last address
  gotIp,        \* history: the station ever had an address
  drops, faults

wait == <<main, returned, verdict, group, handlers>>
vars == <<wait, bits, s_retry_num, events, task, station, attempts, gotIp, drops, faults>>

WIFI_CONNECTED_BIT == "connected"
WIFI_FAIL_BIT      == "fail"

(* The registration through which an event reaches the handler. *)
BaseOf(event) == IF event = "got_ip" THEN "IP_EVENT" ELSE "WIFI_EVENT"

Init ==
  /\ main = "start"
  /\ returned = {}
  /\ verdict = "none"
  /\ group = "none"
  /\ bits = {}
  /\ handlers = {}
  /\ s_retry_num = 0
  /\ events = <<>>
  /\ task = "idle"
  /\ station = "down"
  /\ attempts = 0
  /\ gotIp = FALSE
  /\ drops = 0
  /\ faults = 0

-----------------------------------------------------------------------------
(* wifi_init_sta *)

(* The group is made and the handlers registered before the driver starts. *)
Start ==
  /\ main = "start"
  /\ group' = "live"
  /\ handlers' = {"WIFI_EVENT", "IP_EVENT"}
  /\ events' = <<"sta_start">>
  /\ main' = "enter"
  /\ UNCHANGED <<returned, verdict, bits, s_retry_num, task, station, attempts,
                 gotIp, drops, faults>>

(* Bits that are set already are returned at once; otherwise the call      *)
(* blocks until one is set.                                                *)
EnterWait ==
  /\ main = "enter"
  /\ returned' = bits
  /\ main' = IF bits = {} THEN "blocked" ELSE "report"
  /\ UNCHANGED <<verdict, group, bits, handlers, s_retry_num, events, task,
                 station, attempts, gotIp, drops, faults>>

Report ==
  /\ main = "report"
  /\ verdict' = CASE WIFI_CONNECTED_BIT \in returned -> "connected"
                  [] WIFI_CONNECTED_BIT \notin returned /\ WIFI_FAIL_BIT \in returned -> "failed"
                  [] OTHER -> "unexpected"
  /\ main' = "unregisterIp"
  /\ UNCHANGED <<returned, group, bits, handlers, s_retry_num, events, task,
                 station, attempts, gotIp, drops, faults>>

(* Unregistering waits for a handler that runs, and removes it.            *)
Unregister(base) ==
  /\ task = "idle"
  /\ handlers' = handlers \ {base}
  /\ UNCHANGED <<returned, verdict, group, bits, s_retry_num, events, task,
                 station, attempts, gotIp, drops, faults>>

UnregisterIp   == main = "unregisterIp"   /\ main' = "unregisterWifi" /\ Unregister("IP_EVENT")

(* Mutant of UnregisterWifi: the handler of IP events only is removed.     *)
UnregisterIpAgain ==
  main = "unregisterWifi" /\ main' = "delete" /\ Unregister("IP_EVENT")

UnregisterWifi == main = "unregisterWifi" /\ main' = "delete" /\ Unregister("WIFI_EVENT")

DeleteGroup ==
  /\ main = "delete"
  /\ group' = "deleted"
  /\ main' = "done"
  /\ UNCHANGED <<returned, verdict, bits, handlers, s_retry_num, events, task,
                 station, attempts, gotIp, drops, faults>>

-----------------------------------------------------------------------------
(* event_handler *)

(* The loop's task takes an event, and drops it if nothing is registered.  *)
Dispatch ==
  /\ task = "idle" /\ events # <<>>
  /\ events' = Tail(events)
  /\ task' = IF BaseOf(Head(events)) \in handlers THEN Head(events) ELSE "idle"
  /\ UNCHANGED <<wait, bits, s_retry_num, station, attempts, gotIp, drops, faults>>

(* The history of attempts is not counted beyond one too many.             *)
TooMany == ESP_MAXIMUM_RETRY + 2

(* esp_wifi_connect makes the driver join the access point, or is refused, *)
(* which the handler does not look at.                                     *)
esp_wifi_connect ==
  /\ attempts' = IF attempts < TooMany THEN attempts + 1 ELSE attempts
  /\ \/ station' = "joining" /\ faults' = faults
     \/ faults < MaxFaults /\ faults' = faults + 1 /\ station' = station

HandleStart ==
  /\ task = "sta_start"
  /\ esp_wifi_connect
  /\ task' = "idle"
  /\ UNCHANGED <<wait, bits, s_retry_num, events, gotIp, drops>>

(* Mutants of Retry: one retry too many, and retries that are not counted. *)
RetryOnceMore ==
  /\ task = "sta_disconnected"
  /\ s_retry_num <= ESP_MAXIMUM_RETRY
  /\ esp_wifi_connect
  /\ s_retry_num' = s_retry_num + 1
  /\ task' = "idle"
  /\ UNCHANGED <<wait, bits, events, gotIp, drops>>

RetryUncounted ==
  /\ task = "sta_disconnected"
  /\ s_retry_num < ESP_MAXIMUM_RETRY
  /\ esp_wifi_connect
  /\ task' = "idle"
  /\ UNCHANGED <<wait, bits, s_retry_num, events, gotIp, drops>>

Retry ==
  /\ task = "sta_disconnected"
  /\ s_retry_num < ESP_MAXIMUM_RETRY
  /\ esp_wifi_connect
  /\ s_retry_num' = s_retry_num + 1
  /\ task' = "idle"
  /\ UNCHANGED <<wait, bits, events, gotIp, drops>>

GiveUp ==
  /\ task = "sta_disconnected"
  /\ s_retry_num >= ESP_MAXIMUM_RETRY
  /\ task' = "setFail"
  /\ UNCHANGED <<wait, bits, s_retry_num, events, station, attempts, gotIp, drops, faults>>

HandleGotIp ==
  /\ task = "got_ip"
  /\ s_retry_num' = 0
  /\ attempts' = 0
  /\ task' = "setConnected"
  /\ UNCHANGED <<wait, bits, events, station, gotIp, drops, faults>>

(* Mutant of BitOf: the bits are swapped. *)
BitOfOther(step) == IF step = "setFail" THEN WIFI_CONNECTED_BIT ELSE WIFI_FAIL_BIT

BitOf(step) == IF step = "setFail" THEN WIFI_FAIL_BIT ELSE WIFI_CONNECTED_BIT

(* Setting a bit wakes a task that waits, with the bits of this moment.    *)
SetBits ==
  /\ task \in {"setFail", "setConnected"}
  /\ bits' = bits \cup {BitOf(task)}
  /\ IF main = "blocked"
       THEN main' = "report" /\ returned' = bits'
       ELSE UNCHANGED <<main, returned>>
  /\ task' = "idle"
  /\ UNCHANGED <<verdict, group, handlers, s_retry_num, events, station,
                 attempts, gotIp, drops, faults>>

-----------------------------------------------------------------------------
(* The driver: an attempt to join succeeds and an address is given, or the *)
(* access point is not there, refuses, or is lost.                         *)
Post(event) == events' = Append(events, event)

Join ==
  /\ station = "joining"
  /\ station' = "joined"
  /\ UNCHANGED <<wait, bits, s_retry_num, events, task, attempts, gotIp, drops, faults>>

GetAddress ==
  /\ station = "joined"
  /\ station' = "up"
  /\ gotIp' = TRUE
  /\ Post("got_ip")
  /\ UNCHANGED <<wait, bits, s_retry_num, task, attempts, drops, faults>>

JoinFails ==
  /\ station \in {"joining", "joined"}
  /\ station' = "down"
  /\ Post("sta_disconnected")
  /\ UNCHANGED <<wait, bits, s_retry_num, task, attempts, gotIp, drops, faults>>

Drop ==
  /\ station = "up" /\ drops < MaxDrops
  /\ drops' = drops + 1
  /\ station' = "down"
  /\ Post("sta_disconnected")
  /\ UNCHANGED <<wait, bits, s_retry_num, task, attempts, gotIp, faults>>

-----------------------------------------------------------------------------
wifi_init_sta ==
  Start \/ EnterWait \/ Report \/ UnregisterIp \/ UnregisterWifi \/ DeleteGroup

event_handler ==
  Dispatch \/ HandleStart \/ Retry \/ GiveUp \/ HandleGotIp \/ SetBits

Joining == Join \/ GetAddress \/ JoinFails

Next == wifi_init_sta \/ event_handler \/ Joining \/ Drop

Spec == Init /\ [][Next]_vars

(* Both tasks are scheduled, and the driver and the DHCP server answer or  *)
(* the attempt to join fails; a connection need not be lost.               *)
FairSpec ==
  /\ Spec
  /\ WF_vars(wifi_init_sta)
  /\ WF_vars(event_handler)
  /\ WF_vars(Joining)

-----------------------------------------------------------------------------
(* Types of the variables. *)
TypeOK ==
  /\ main \in {"start", "enter", "blocked", "report", "unregisterIp",
               "unregisterWifi", "delete", "done"}
  /\ bits \subseteq {WIFI_CONNECTED_BIT, WIFI_FAIL_BIT}
  /\ returned \subseteq bits
  /\ verdict \in {"none", "connected", "failed", "unexpected"}
  /\ group \in {"none", "live", "deleted"}
  /\ handlers \subseteq {"WIFI_EVENT", "IP_EVENT"}
  /\ s_retry_num \in 0 .. ESP_MAXIMUM_RETRY
  /\ events \in Seq({"sta_start", "sta_disconnected", "got_ip"})
  /\ task \in {"idle", "sta_start", "sta_disconnected", "got_ip", "setFail", "setConnected"}
  /\ station \in {"down", "joining", "joined", "up"}
  /\ attempts \in 0 .. TooMany
  /\ gotIp \in BOOLEAN
  /\ drops \in 0 .. MaxDrops /\ faults \in 0 .. MaxFaults

(* The handler never sets a bit of a group that was deleted: an event that *)
(* is dispatched while wifi_init_sta returns finds the handler gone, and a *)
(* handler that runs is waited for.                                        *)
GroupAlive == task \in {"setFail", "setConnected"} => group = "live"

(* What wifi_init_sta reports is what happened: "connected" if the station *)
(* ever had an address, even when both bits were set before it looked,     *)
(* "failed" only if none was ever given and all the retries were used.     *)
VerdictTrue ==
  /\ verdict = "connected" => gotIp
  /\ verdict = "failed" => ~gotIp /\ attempts = ESP_MAXIMUM_RETRY + 1
  /\ verdict # "unexpected"

(* An access point that is not there is not tried for ever: the first      *)
(* attempt and the retries of the configuration, and no more until an      *)
(* address was given.                                                      *)
RetriesBounded == attempts <= ESP_MAXIMUM_RETRY + 1

(* wifi_init_sta comes back with a verdict, however attempts end, although *)
(* it waits without a timeout; unless esp_wifi_connect refused a call, for *)
(* then no event follows.                                                  *)
VerdictReached == <>(main = "done" \/ faults > 0)
=============================================================================
