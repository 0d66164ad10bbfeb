----------------------------- MODULE WifiProofs -----------------------------
(***************************************************************************)
(* Proofs about Wifi, for every number of retries, of lost connections and *)
(* of refused calls.                                                       *)
(***************************************************************************)
EXTENDS Wifi, TLAPS

(* Types of the variables that the proofs need.                            *)
Typed ==
  /\ s_retry_num \in 0 .. ESP_MAXIMUM_RETRY
  /\ attempts \in Nat
  /\ bits \subseteq {WIFI_CONNECTED_BIT, WIFI_FAIL_BIT}
  /\ events \in Seq({"sta_start", "sta_disconnected", "got_ip"})

(* An address has not been given yet.  Then at most one thing is under way *)
(* at a time: the start of the station, an attempt to join, the event that *)
(* it failed, or the handler of that event; and each attempt but the first *)
(* was counted.                                                            *)
Unused == station = "down" /\ attempts = 0 /\ s_retry_num = 0 /\ bits = {}

Counted == attempts = s_retry_num + 1 /\ bits = {}

GivenUp ==
  /\ station = "down" /\ events = <<>> /\ task = "idle"
  /\ bits = {WIFI_FAIL_BIT}
  /\ attempts = ESP_MAXIMUM_RETRY + 1

BeforeAddress ==
  \/ Unused /\ events = <<>> /\ task = "idle" /\ main = "start"
  \/ Unused /\ events = <<"sta_start">> /\ task = "idle" /\ main # "start"
  \/ Unused /\ events = <<>> /\ task = "sta_start" /\ main # "start"
  \/ Counted /\ events = <<>> /\ task = "idle" /\ main # "start" /\ station # "up"
  \/ Counted /\ events = <<"sta_disconnected">> /\ task = "idle" /\ station = "down" /\ main # "start"
  \/ Counted /\ events = <<>> /\ task = "sta_disconnected" /\ station = "down" /\ main # "start"
  \/ Counted /\ events = <<>> /\ task = "setFail" /\ station = "down" /\ main # "start"
       /\ s_retry_num = ESP_MAXIMUM_RETRY
  \/ GivenUp /\ main # "start"

(* An address was given: the first one is signalled before anything that   *)
(* happened after it.                                                      *)
AfterAddress ==
  /\ main # "start"
  /\ events \in Seq({"sta_disconnected", "got_ip"})
  /\ task # "sta_start"
  /\ attempts <= s_retry_num + 1
  /\ \/ WIFI_CONNECTED_BIT \in bits
     \/ bits = {} /\ task \in {"got_ip", "setConnected"}
     \/ bits = {} /\ task = "idle" /\ events # <<>> /\ Head(events) = "got_ip"

Journey == IF gotIp THEN AfterAddress ELSE BeforeAddress

(* What wifi_init_sta may rely on at each of its steps.                    *)
Waiting ==
  /\ main = "start" => group = "none" /\ handlers = {} /\ task = "idle"
  /\ main \in {"enter", "blocked"} =>
       handlers = {"WIFI_EVENT", "IP_EVENT"} /\ returned = {}
  /\ main = "blocked" => bits = {}
  /\ main = "unregisterWifi" => handlers \subseteq {"WIFI_EVENT"}
  /\ main \in {"delete", "done"} => handlers = {} /\ task = "idle"
  /\ main \notin {"start", "done"} => group = "live"
  /\ main \notin {"start", "enter", "blocked"} => returned # {}
  /\ returned \subseteq bits
  /\ handlers \subseteq {"WIFI_EVENT", "IP_EVENT"}
  /\ main \in {"start", "enter", "blocked", "report"} => verdict = "none"

(* A failure that was returned alone was the end of all attempts.          *)
Judged ==
  /\ returned = {WIFI_FAIL_BIT} => ~gotIp /\ bits = {WIFI_FAIL_BIT}
  /\ verdict = "connected" => WIFI_CONNECTED_BIT \in returned
  /\ verdict = "failed" => returned = {WIFI_FAIL_BIT}
  /\ verdict # "unexpected"

WifiInv == Typed /\ Journey /\ Waiting /\ Judged

(* What the queue of the event loop does to its ends.                      *)
LEMMA Queue ==
  ASSUME NEW e
  PROVE  /\ <<e>> # <<>>
         /\ Head(<<e>>) = e
         /\ Tail(<<e>>) = <<>>
         /\ Append(<<>>, e) = <<e>>
OBVIOUS

(* And to the ends of a queue that is not empty.                           *)
LEMMA LongQueue ==
  ASSUME NEW S, NEW q \in Seq(S), NEW e \in S
  PROVE  /\ Append(q, e) \in Seq(S)
         /\ Append(q, e) # <<>>
         /\ q # <<>> => Head(Append(q, e)) = Head(q)
         /\ q # <<>> => Head(q) \in S /\ Tail(q) \in Seq(S)
         /\ <<>> \in Seq(S)
OBVIOUS

(* Init holds only of states of WifiInv. *)
LEMMA InitWifi == Init => WifiInv
<1> SUFFICES ASSUME Init PROVE WifiInv
  OBVIOUS
<1>1. events \in Seq({"sta_start", "sta_disconnected", "got_ip"})
  BY LongQueue DEF Init
<1>2. Typed
  BY <1>1, WifiAssumption DEF Init, Typed
<1>3. Journey
  BY DEF Init, Journey, BeforeAddress, Unused
<1>4. Waiting /\ Judged
  BY DEF Init, Waiting, Judged, WIFI_CONNECTED_BIT, WIFI_FAIL_BIT
<1> QED
  BY <1>2, <1>3, <1>4 DEF WifiInv

(* Every step keeps the invariant. *)
LEMMA StepWifi == WifiInv /\ [Next]_vars => WifiInv'
<1> SUFFICES ASSUME WifiInv, [Next]_vars PROVE WifiInv'
  OBVIOUS
<1> USE WifiAssumption DEF WifiInv, wait, WIFI_CONNECTED_BIT, WIFI_FAIL_BIT
<1>1. CASE Start
  <2>1. Typed'
    BY <1>1, Queue, LongQueue DEF Start, Typed
  <2>2. Journey'
    BY <1>1, Queue, LongQueue
    DEF Start, Typed, Journey, BeforeAddress, AfterAddress, Unused, Counted, GivenUp, Waiting
  <2>3. Waiting'
    BY <1>1
    DEF Start, Typed, Waiting, Journey, BeforeAddress, AfterAddress, Unused, Counted, GivenUp
  <2>4. Judged'
    BY <1>1
    DEF Start, Typed, Waiting, Judged, Journey, BeforeAddress, AfterAddress, Unused, Counted,
        GivenUp
  <2> QED
    BY <2>1, <2>2, <2>3, <2>4
<1>2. CASE EnterWait
  <2>1. Typed'
    BY <1>2, Queue, LongQueue DEF EnterWait, Typed
  <2>2. Journey'
    BY <1>2, Queue, LongQueue
    DEF EnterWait, Typed, Journey, BeforeAddress, AfterAddress, Unused, Counted, GivenUp,
        Waiting
  <2>3. Waiting'
    BY <1>2
    DEF EnterWait, Typed, Waiting, Journey, BeforeAddress, AfterAddress, Unused, Counted,
        GivenUp
  <2>4. Judged'
    BY <1>2
    DEF EnterWait, Typed, Waiting, Judged, Journey, BeforeAddress, AfterAddress, Unused,
        Counted, GivenUp
  <2> QED
    BY <2>1, <2>2, <2>3, <2>4
<1>3. CASE Report
  <2>1. Typed'
    BY <1>3, Queue, LongQueue DEF Report, Typed
  <2>2. Journey'
    BY <1>3, Queue, LongQueue
    DEF Report, Typed, Journey, BeforeAddress, AfterAddress, Unused, Counted, GivenUp, Waiting
  <2>3. Waiting'
    BY <1>3
    DEF Report, Typed, Waiting, Journey, BeforeAddress, AfterAddress, Unused, Counted, GivenUp
  <2>4. Judged'
    BY <1>3
    DEF Report, Typed, Waiting, Judged, Journey, BeforeAddress, AfterAddress, Unused, Counted,
        GivenUp
  <2> QED
    BY <2>1, <2>2, <2>3, <2>4
<1>4. CASE UnregisterIp
  <2>1. Typed'
    BY <1>4, Queue, LongQueue DEF UnregisterIp, Unregister, Typed
  <2>2. Journey'
    BY <1>4, Queue, LongQueue
    DEF UnregisterIp, Unregister, Typed, Journey, BeforeAddress, AfterAddress, Unused,
        Counted, GivenUp, Waiting
  <2>3. Waiting'
    BY <1>4
    DEF UnregisterIp, Unregister, Typed, Waiting, Journey, BeforeAddress, AfterAddress,
        Unused, Counted, GivenUp
  <2>4. Judged'
    BY <1>4
    DEF UnregisterIp, Unregister, Typed, Waiting, Judged, Journey, BeforeAddress,
        AfterAddress, Unused, Counted, GivenUp
  <2> QED
    BY <2>1, <2>2, <2>3, <2>4
<1>5. CASE UnregisterWifi
  <2>1. Typed'
    BY <1>5, Queue, LongQueue DEF UnregisterWifi, Unregister, Typed
  <2>2. Journey'
    BY <1>5, Queue, LongQueue
    DEF UnregisterWifi, Unregister, Typed, Journey, BeforeAddress, AfterAddress, Unused,
        Counted, GivenUp, Waiting
  <2>3. Waiting'
    BY <1>5
    DEF UnregisterWifi, Unregister, Typed, Waiting, Journey, BeforeAddress, AfterAddress,
        Unused, Counted, GivenUp
  <2>4. Judged'
    BY <1>5
    DEF UnregisterWifi, Unregister, Typed, Waiting, Judged, Journey, BeforeAddress,
        AfterAddress, Unused, Counted, GivenUp
  <2> QED
    BY <2>1, <2>2, <2>3, <2>4
<1>6. CASE DeleteGroup
  <2>1. Typed'
    BY <1>6, Queue, LongQueue DEF DeleteGroup, Typed
  <2>2. Journey'
    BY <1>6, Queue, LongQueue
    DEF DeleteGroup, Typed, Journey, BeforeAddress, AfterAddress, Unused, Counted, GivenUp,
        Waiting
  <2>3. Waiting'
    BY <1>6
    DEF DeleteGroup, Typed, Waiting, Journey, BeforeAddress, AfterAddress, Unused, Counted,
        GivenUp
  <2>4. Judged'
    BY <1>6
    DEF DeleteGroup, Typed, Waiting, Judged, Journey, BeforeAddress, AfterAddress, Unused,
        Counted, GivenUp
  <2> QED
    BY <2>1, <2>2, <2>3, <2>4
<1>7. CASE Dispatch
  <2>1. Typed'
    BY <1>7, Queue, LongQueue DEF Dispatch, BaseOf, Typed
  <2>2. Journey'
    <3>1. CASE gotIp
      <4>1. events \in Seq({"sta_disconnected", "got_ip"}) /\ events # <<>> /\ AfterAddress
        BY <1>7, <3>1 DEF Dispatch, Journey, AfterAddress
      <4>2. /\ Tail(events) \in Seq({"sta_disconnected", "got_ip"})
            /\ Head(events) \in {"sta_disconnected", "got_ip"}
        BY <4>1, LongQueue
      <4>3. bits = {} => handlers = {"WIFI_EVENT", "IP_EVENT"}
        BY <4>1 DEF Waiting, AfterAddress
      <4> QED
        BY <1>7, <3>1, <4>1, <4>2, <4>3 DEF Dispatch, BaseOf, Journey, AfterAddress
    <3>2. CASE ~gotIp
      <4>1. BeforeAddress /\ events # <<>> /\ task = "idle"
        BY <1>7, <3>2 DEF Dispatch, Journey
      <4>2. bits = {} /\ main # "start"
        BY <4>1 DEF BeforeAddress, Unused, Counted, GivenUp
      <4>3. handlers = {"WIFI_EVENT", "IP_EVENT"}
        BY <4>2 DEF Waiting, Typed
      <4>4. CASE Unused /\ events = <<"sta_start">>
        BY <1>7, <3>2, <4>2, <4>3, <4>4, Queue
        DEF Dispatch, BaseOf, Journey, BeforeAddress, Unused
      <4>5. CASE Counted /\ events = <<"sta_disconnected">> /\ station = "down"
        BY <1>7, <3>2, <4>2, <4>3, <4>5, Queue
        DEF Dispatch, BaseOf, Journey, BeforeAddress, Counted
      <4> QED
        BY <4>1, <4>4, <4>5 DEF BeforeAddress, GivenUp
    <3> QED
      BY <3>1, <3>2
  <2>3. Waiting'
    BY <1>7
    DEF Dispatch, BaseOf, Typed, Waiting, Journey, BeforeAddress, AfterAddress, Unused,
        Counted, GivenUp
  <2>4. Judged'
    BY <1>7
    DEF Dispatch, BaseOf, Typed, Waiting, Judged, Journey, BeforeAddress, AfterAddress,
        Unused, Counted, GivenUp
  <2> QED
    BY <2>1, <2>2, <2>3, <2>4
<1>8. CASE HandleStart
  <2>1. Typed'
    BY <1>8, Queue, LongQueue DEF HandleStart, esp_wifi_connect, TooMany, Typed
  <2>2. Journey'
    BY <1>8, Queue, LongQueue
    DEF HandleStart, esp_wifi_connect, TooMany, Typed, Journey, BeforeAddress, AfterAddress,
        Unused, Counted, GivenUp, Waiting
  <2>3. Waiting'
    BY <1>8
    DEF HandleStart, esp_wifi_connect, TooMany, Typed, Waiting, Journey, BeforeAddress,
        AfterAddress, Unused, Counted, GivenUp
  <2>4. Judged'
    BY <1>8
    DEF HandleStart, esp_wifi_connect, TooMany, Typed, Waiting, Judged, Journey,
        BeforeAddress, AfterAddress, Unused, Counted, GivenUp
  <2> QED
    BY <2>1, <2>2, <2>3, <2>4
<1>9. CASE Retry
  <2>1. Typed'
    BY <1>9, Queue, LongQueue DEF Retry, esp_wifi_connect, TooMany, Typed
  <2>2. Journey'
    BY <1>9, Queue, LongQueue
    DEF Retry, esp_wifi_connect, TooMany, Typed, Journey, BeforeAddress, AfterAddress, Unused,
        Counted, GivenUp, Waiting
  <2>3. Waiting'
    BY <1>9
    DEF Retry, esp_wifi_connect, TooMany, Typed, Waiting, Journey, BeforeAddress,
        AfterAddress, Unused, Counted, GivenUp
  <2>4. Judged'
    BY <1>9
    DEF Retry, esp_wifi_connect, TooMany, Typed, Waiting, Judged, Journey, BeforeAddress,
        AfterAddress, Unused, Counted, GivenUp
  <2> QED
    BY <2>1, <2>2, <2>3, <2>4
<1>10. CASE GiveUp
  <2>1. Typed'
    BY <1>10, Queue, LongQueue DEF GiveUp, Typed
  <2>2. Journey'
    BY <1>10, Queue, LongQueue
    DEF GiveUp, Typed, Journey, BeforeAddress, AfterAddress, Unused, Counted, GivenUp, Waiting
  <2>3. Waiting'
    BY <1>10
    DEF GiveUp, Typed, Waiting, Journey, BeforeAddress, AfterAddress, Unused, Counted, GivenUp
  <2>4. Judged'
    BY <1>10
    DEF GiveUp, Typed, Waiting, Judged, Journey, BeforeAddress, AfterAddress, Unused, Counted,
        GivenUp
  <2> QED
    BY <2>1, <2>2, <2>3, <2>4
<1>11. CASE HandleGotIp
  <2>1. Typed'
    BY <1>11, Queue, LongQueue DEF HandleGotIp, Typed
  <2>2. Journey'
    BY <1>11, Queue, LongQueue
    DEF HandleGotIp, Typed, Journey, BeforeAddress, AfterAddress, Unused, Counted, GivenUp,
        Waiting
  <2>3. Waiting'
    BY <1>11
    DEF HandleGotIp, Typed, Waiting, Journey, BeforeAddress, AfterAddress, Unused, Counted,
        GivenUp
  <2>4. Judged'
    BY <1>11
    DEF HandleGotIp, Typed, Waiting, Judged, Journey, BeforeAddress, AfterAddress, Unused,
        Counted, GivenUp
  <2> QED
    BY <2>1, <2>2, <2>3, <2>4
<1>12. CASE SetBits
  <2>1. Typed'
    BY <1>12, Queue, LongQueue DEF SetBits, BitOf, Typed
  <2>2. Journey'
    BY <1>12, Queue, LongQueue
    DEF SetBits, BitOf, Typed, Journey, BeforeAddress, AfterAddress, Unused, Counted, GivenUp,
        Waiting
  <2>3. Waiting'
    BY <1>12
    DEF SetBits, BitOf, Typed, Waiting, Journey, BeforeAddress, AfterAddress, Unused, Counted,
        GivenUp
  <2>4. Judged'
    BY <1>12
    DEF SetBits, BitOf, Typed, Waiting, Judged, Journey, BeforeAddress, AfterAddress, Unused,
        Counted, GivenUp
  <2> QED
    BY <2>1, <2>2, <2>3, <2>4
<1>13. CASE Join
  <2>1. Typed'
    BY <1>13, Queue, LongQueue DEF Join, Typed
  <2>2. Journey'
    BY <1>13, Queue, LongQueue
    DEF Join, Typed, Journey, BeforeAddress, AfterAddress, Unused, Counted, GivenUp, Waiting
  <2>3. Waiting'
    BY <1>13
    DEF Join, Typed, Waiting, Journey, BeforeAddress, AfterAddress, Unused, Counted, GivenUp
  <2>4. Judged'
    BY <1>13
    DEF Join, Typed, Waiting, Judged, Journey, BeforeAddress, AfterAddress, Unused, Counted,
        GivenUp
  <2> QED
    BY <2>1, <2>2, <2>3, <2>4
<1>14. CASE GetAddress
  <2>1. Typed'
    BY <1>14, Queue, LongQueue DEF GetAddress, Post, Typed
  <2>2. Journey'
    BY <1>14, Queue, LongQueue
    DEF GetAddress, Post, Typed, Journey, BeforeAddress, AfterAddress, Unused, Counted,
        GivenUp, Waiting
  <2>3. Waiting'
    BY <1>14
    DEF GetAddress, Post, Typed, Waiting, Journey, BeforeAddress, AfterAddress, Unused,
        Counted, GivenUp
  <2>4. Judged'
    BY <1>14
    DEF GetAddress, Post, Typed, Waiting, Judged, Journey, BeforeAddress, AfterAddress,
        Unused, Counted, GivenUp
  <2> QED
    BY <2>1, <2>2, <2>3, <2>4
<1>15. CASE JoinFails
  <2>1. Typed'
    BY <1>15, Queue, LongQueue DEF JoinFails, Post, Typed
  <2>2. Journey'
    <3>1. CASE gotIp
      <4>1. AfterAddress
        BY <3>1 DEF Journey
      <4>2. /\ events' \in Seq({"sta_disconnected", "got_ip"})
            /\ events # <<>> => events' # <<>> /\ Head(events') = Head(events)
        BY <1>15, <4>1, LongQueue DEF JoinFails, Post, AfterAddress
      <4> QED
        BY <1>15, <3>1, <4>1, <4>2 DEF JoinFails, Journey, AfterAddress
    <3>2. CASE ~gotIp
      <4>1. Counted /\ events = <<>> /\ task = "idle" /\ main # "start"
        BY <1>15, <3>2 DEF JoinFails, Journey, BeforeAddress, Unused, GivenUp
      <4> QED
        BY <1>15, <3>2, <4>1, Queue DEF JoinFails, Post, Journey, BeforeAddress, Counted
    <3> QED
      BY <3>1, <3>2
  <2>3. Waiting'
    BY <1>15
    DEF JoinFails, Post, Typed, Waiting, Journey, BeforeAddress, AfterAddress, Unused,
        Counted, GivenUp
  <2>4. Judged'
    BY <1>15
    DEF JoinFails, Post, Typed, Waiting, Judged, Journey, BeforeAddress, AfterAddress, Unused,
        Counted, GivenUp
  <2> QED
    BY <2>1, <2>2, <2>3, <2>4
<1>16. CASE Drop
  <2>1. Typed'
    BY <1>16, Queue, LongQueue DEF Drop, Post, Typed
  <2>2. Journey'
    BY <1>16, Queue, LongQueue
    DEF Drop, Post, Typed, Journey, BeforeAddress, AfterAddress, Unused, Counted, GivenUp,
        Waiting
  <2>3. Waiting'
    BY <1>16
    DEF Drop, Post, Typed, Waiting, Journey, BeforeAddress, AfterAddress, Unused, Counted,
        GivenUp
  <2>4. Judged'
    BY <1>16
    DEF Drop, Post, Typed, Waiting, Judged, Journey, BeforeAddress, AfterAddress, Unused,
        Counted, GivenUp
  <2> QED
    BY <2>1, <2>2, <2>3, <2>4
<1>17. CASE UNCHANGED vars
  BY <1>17
  DEF vars, Typed, Waiting, Judged, Journey, BeforeAddress, AfterAddress, Unused, Counted,
      GivenUp
<1> QED
  BY <1>1, <1>2, <1>3, <1>4, <1>5, <1>6, <1>7, <1>8, <1>9, <1>10, <1>11, <1>12, <1>13, <1>14, <1>15, <1>16, <1>17
  DEF Next, wifi_init_sta, event_handler, Joining

(* WifiInv holds in every reachable state. *)
LEMMA WifiInvariant == Spec => []WifiInv
BY InitWifi, StepWifi, PTL DEF Spec

(* Every step keeps the types. *)
LEMMA StepTypes == WifiInv /\ WifiInv' /\ TypeOK /\ [Next]_vars => TypeOK'
<1> SUFFICES ASSUME WifiInv, WifiInv', TypeOK, [Next]_vars PROVE TypeOK'
  OBVIOUS
<1>0. /\ bits' \subseteq {WIFI_CONNECTED_BIT, WIFI_FAIL_BIT}
      /\ returned' \subseteq bits'
      /\ s_retry_num' \in 0 .. ESP_MAXIMUM_RETRY
      /\ events' \in Seq({"sta_start", "sta_disconnected", "got_ip"})
      /\ handlers' \subseteq {"WIFI_EVENT", "IP_EVENT"}
  BY DEF WifiInv, Typed, Waiting
<1> USE WifiAssumption DEF wait
<1>1. CASE Start
  BY <1>0, <1>1 DEF Start, TypeOK
<1>2. CASE EnterWait
  BY <1>0, <1>2 DEF EnterWait, TypeOK
<1>3. CASE Report
  BY <1>0, <1>3 DEF Report, TypeOK
<1>4. CASE UnregisterIp
  BY <1>0, <1>4 DEF UnregisterIp, Unregister, TypeOK
<1>5. CASE UnregisterWifi
  BY <1>0, <1>5 DEF UnregisterWifi, Unregister, TypeOK
<1>6. CASE DeleteGroup
  BY <1>0, <1>6 DEF DeleteGroup, TypeOK
<1>7. CASE Dispatch
  BY <1>0, <1>7, LongQueue DEF Dispatch, BaseOf, TypeOK
<1>8. CASE HandleStart
  BY <1>0, <1>8 DEF HandleStart, esp_wifi_connect, TypeOK, TooMany
<1>9. CASE Retry
  BY <1>0, <1>9 DEF Retry, esp_wifi_connect, TypeOK, TooMany
<1>10. CASE GiveUp
  BY <1>0, <1>10 DEF GiveUp, TypeOK
<1>11. CASE HandleGotIp
  BY <1>0, <1>11 DEF HandleGotIp, TypeOK, TooMany
<1>12. CASE SetBits
  BY <1>0, <1>12 DEF SetBits, BitOf, TypeOK
<1>13. CASE Join
  BY <1>0, <1>13 DEF Join, TypeOK
<1>14. CASE GetAddress
  BY <1>0, <1>14 DEF GetAddress, Post, TypeOK
<1>15. CASE JoinFails
  BY <1>0, <1>15 DEF JoinFails, Post, TypeOK
<1>16. CASE Drop
  BY <1>0, <1>16 DEF Drop, Post, TypeOK
<1>17. CASE UNCHANGED vars
  BY <1>0, <1>17 DEF vars, TypeOK
<1> QED
  BY <1>1, <1>2, <1>3, <1>4, <1>5, <1>6, <1>7, <1>8, <1>9, <1>10, <1>11, <1>12, <1>13, <1>14, <1>15, <1>16, <1>17
  DEF Next, wifi_init_sta, event_handler, Joining

(* The variables keep their types; the counter of retries never exceeds    *)
(* the configured number.                                                  *)
THEOREM WifiTypes == Spec => []TypeOK
<1>1. Init => TypeOK
  <2>1. Init => events \in Seq({"sta_start", "sta_disconnected", "got_ip"})
    BY LongQueue DEF Init
  <2>2. Init => /\ s_retry_num \in 0 .. ESP_MAXIMUM_RETRY
                /\ attempts \in 0 .. TooMany
                /\ drops \in 0 .. MaxDrops
                /\ faults \in 0 .. MaxFaults
    BY WifiAssumption DEF Init, TooMany
  <2> QED
    BY <2>1, <2>2 DEF Init, TypeOK
<1> QED
  BY <1>1, WifiInvariant, StepTypes, PTL DEF Spec

(* No handler sets a bit of the event group after it was deleted. *)
THEOREM GroupOutlivesHandlers == Spec => []GroupAlive
<1>1. WifiInv => GroupAlive
  BY DEF WifiInv, Waiting, GroupAlive
<1> QED
  BY WifiInvariant, <1>1, PTL

(* wifi_init_sta reports what happened: an address, or the end of all the  *)
(* retries without one.                                                    *)
THEOREM VerdictIsTrue == Spec => []VerdictTrue
<1>1. ASSUME WifiInv PROVE VerdictTrue
  <2> USE <1>1 DEF WifiInv, WIFI_CONNECTED_BIT, WIFI_FAIL_BIT
  <2>1. verdict = "connected" => gotIp
    BY DEF Judged, Waiting, Journey, BeforeAddress, Unused, Counted, GivenUp
  <2>2. verdict = "failed" => ~gotIp /\ attempts = ESP_MAXIMUM_RETRY + 1
    BY DEF Judged, Journey, BeforeAddress, Unused, Counted, GivenUp
  <2> QED
    BY <2>1, <2>2 DEF Judged, VerdictTrue
<1> QED
  BY WifiInvariant, <1>1, PTL

(* Between two addresses the station is tried no more often than the       *)
(* configuration allows.                                                   *)
THEOREM RetriesEnd == Spec => []RetriesBounded
<1>1. ASSUME WifiInv PROVE RetriesBounded
  BY <1>1, WifiAssumption
  DEF WifiInv, Typed, Journey, BeforeAddress, AfterAddress, Unused, Counted, GivenUp,
      RetriesBounded
<1> QED
  BY WifiInvariant, <1>1, PTL
=============================================================================
