---------------------- MODULE SnapclientStreamProofs ----------------------
(***************************************************************************)
(* Proofs about SnapclientStream, for every number of opens and failures.  *)
(***************************************************************************)
EXTENDS SnapclientStream, TLAPS

Wires == {"nothing", "helloHeader", "ready", "timeHeader", "garbled"}
Conn  == [open : BOOLEAN, greeted : BOOLEAN, header : BOOLEAN, early : BOOLEAN, wire : Wires]

(* Where the element's task is tells what the struct holds, and the timer  *)
(* task sends one message for a timer that expired.                        *)
Lively ==
  /\ t = IF freed THEN 0 ELSE opened
  /\ pc # "idle" => ~freed
  /\ pc = "connect" => ~is_open /\ opened < MaxOpens
  /\ pc \notin {"idle", "connect"} => opened > 0
  /\ is_open => opened > 0

Paced ==
  /\ sent + due + (IF tm = "header" THEN 1 ELSE 0) <= timers
  /\ pc \in {"reset", "helloHeader", "helloBody", "start"} => timers < opened

(* The first connection: only a codec header received on it can make the   *)
(* timer task write to it, and while it is open and nothing failed, the    *)
(* places of the two tasks tell what its server has seen.                  *)
FirstHeader ==
  /\ opened = 0 => ~received_header /\ tm = "idle" /\ ~conn[1].header
  /\ opened = 1 /\ (received_header \/ tm # "idle") => conn[1].header

FirstWire ==
  faults = 0 =>
    /\ opened = 0 => conn[1].wire = "nothing"
    /\ opened = 1 /\ pc \in {"reset", "helloHeader", "helloBody", "start"} => ~conn[1].header
    /\ conn[1].open =>
         /\ pc \notin {"idle", "connect"}
         /\ pc \in {"reset", "helloHeader"} => conn[1].wire = "nothing"
         /\ pc = "helloBody" => conn[1].wire = "helloHeader"
         /\ pc \in {"start", "running"} =>
              conn[1].wire = (IF tm = "body" THEN "timeHeader" ELSE "ready")

LifeInv ==
  TypeOK /\ Lively /\ Paced /\ NoConnectionLost /\ FirstHeader /\ FirstWire /\ FirstConnection

(* What a server has seen after a write is one of its five values.         *)
LEMMA Wired ==
  ASSUME NEW wire \in Wires, NEW part
  PROVE  After(wire, part) \in Wires
BY DEF After, Wires

(* A write changes nothing but what the server at its end has seen, and a  *)
(* write to an open transport that fails or falls short is a fault.        *)
LEMMA Written ==
  ASSUME conn \in [Handles -> Conn], faults \in 0 .. MaxFaults, NEW h \in Handles, NEW part,
         Whole(h, part) \/ Short(h) \/ Error(h)
  PROVE  /\ conn' \in [Handles -> Conn]
         /\ \A g \in Handles : conn'[g].open = conn[g].open /\ conn'[g].header = conn[g].header
         /\ \A g \in Handles \ {h} : conn'[g] = conn[g]
         /\ conn'[h].early => conn[h].early \/ (part = "timeHeader" /\ ~conn[h].header)
         /\ faults' = 0 /\ conn[h].open => conn'[h].wire = After(conn[h].wire, part)
         /\ ~conn[h].open => conn'[h] = conn[h]
         /\ faults' = 0 => faults = 0
         /\ faults' \in 0 .. MaxFaults
<1>1. conn[h] \in Conn
  OBVIOUS
<1>2. CASE Whole(h, part)
  <2> DEFINE w == After(conn[h].wire, part)
             c == [conn[h] EXCEPT !.wire = w, !.greeted = @ \/ w = "ready",
                                  !.early = @ \/ (part = "timeHeader" /\ ~conn[h].header)]
  <2>1. w \in Wires
    BY <1>1, Wired DEF Conn
  <2>2. conn' = [conn EXCEPT ![h] = c]
    BY <1>2 DEF Whole
  <2> HIDE DEF w
  <2>3. /\ c \in Conn /\ c.open = conn[h].open /\ c.header = conn[h].header
        /\ c.wire = w
        /\ c.early => conn[h].early \/ (part = "timeHeader" /\ ~conn[h].header)
    BY <1>1, <2>1 DEF Conn
  <2>4. faults' = faults /\ conn[h].open
    BY <1>2 DEF Whole, NoFault
  <2> HIDE DEF c
  <2>5. conn'[h] = c /\ \A g \in Handles \ {h} : conn'[g] = conn[g]
    BY <2>2
  <2>6. conn' \in [Handles -> Conn]
    BY <2>2, <2>3
  <2>7. conn'[h].wire = After(conn[h].wire, part)
    BY <2>3, <2>5 DEF w
  <2> QED
    BY <2>3, <2>4, <2>5, <2>6, <2>7
<1>3. CASE Short(h)
  <2>1. conn' = [conn EXCEPT ![h] = [conn[h] EXCEPT !.wire = "garbled"]]
    BY <1>3 DEF Short
  <2>2. [conn[h] EXCEPT !.wire = "garbled"] \in Conn
    BY <1>1 DEF Conn, Wires
  <2>3. /\ conn'[h].open = conn[h].open /\ conn'[h].header = conn[h].header
        /\ conn'[h].early = conn[h].early
    BY <1>1, <2>1 DEF Conn
  <2>4. faults' = faults + 1 /\ faults < MaxFaults /\ conn[h].open
    BY <1>3 DEF Short, Fault
  <2>5. conn' \in [Handles -> Conn] /\ \A g \in Handles \ {h} : conn'[g] = conn[g]
    BY <2>1, <2>2
  <2>6. faults' # 0 /\ faults' \in 0 .. MaxFaults
    BY <2>4, LifeAssumption
  <2>7. conn[h].open
    BY <2>4
  <2> QED
    BY <2>3, <2>5, <2>6, <2>7
<1>4. CASE Error(h)
  <2>1. conn' = conn /\ (faults' = faults \/ (faults' = faults + 1 /\ faults < MaxFaults))
    BY <1>4 DEF Error, Fault, NoFault
  <2>2. conn[h].open => Fault
    BY <1>4 DEF Error
  <2>3. faults' \in 0 .. MaxFaults /\ (faults' = 0 => faults = 0) /\ (Fault => faults' # 0)
    BY <2>1, LifeAssumption DEF Fault
  <2> QED
    BY <2>1, <2>2, <2>3
<1> QED
  BY <1>2, <1>3, <1>4

(* Setting a flag of a transport changes no other and no other transport.  *)
LEMMA SetOpen ==
  ASSUME conn \in [Handles -> Conn], NEW h \in Handles, NEW x \in BOOLEAN,
         conn' = [conn EXCEPT ![h].open = x]
  PROVE  /\ conn' \in [Handles -> Conn]
         /\ conn'[h].open = x
         /\ \A g \in Handles : conn'[g].header = conn[g].header /\ conn'[g].wire = conn[g].wire
                              /\ conn'[g].early = conn[g].early
         /\ \A g \in Handles \ {h} : conn'[g].open = conn[g].open
<1>1. conn[h] \in Conn
  OBVIOUS
<1> DEFINE c == [conn[h] EXCEPT !.open = x]
<1>2. /\ c \in Conn /\ c.open = x /\ c.header = conn[h].header /\ c.wire = conn[h].wire
      /\ c.early = conn[h].early
  BY <1>1 DEF Conn
<1>3. conn' = [conn EXCEPT ![h] = c]
  OBVIOUS
<1> HIDE DEF c
<1> QED
  BY <1>2, <1>3

(* The same for the mark that the codec header has arrived.                *)
LEMMA SetHeader ==
  ASSUME conn \in [Handles -> Conn], NEW h \in Handles,
         conn' = [conn EXCEPT ![h].header = TRUE]
  PROVE  /\ conn' \in [Handles -> Conn]
         /\ conn'[h].header = TRUE
         /\ \A g \in Handles : conn'[g].open = conn[g].open /\ conn'[g].wire = conn[g].wire
                              /\ conn'[g].early = conn[g].early
         /\ \A g \in Handles \ {h} : conn'[g].header = conn[g].header
<1>1. conn[h] \in Conn
  OBVIOUS
<1> DEFINE c == [conn[h] EXCEPT !.header = TRUE]
<1>2. /\ c \in Conn /\ c.header = TRUE /\ c.open = conn[h].open /\ c.wire = conn[h].wire
      /\ c.early = conn[h].early
  BY <1>1 DEF Conn
<1>3. conn' = [conn EXCEPT ![h] = c]
  OBVIOUS
<1> HIDE DEF c
<1> QED
  BY <1>2, <1>3

(* Whole messages in the order of the protocol. *)
LEMMA AfterValues ==
  /\ After("nothing", "helloHeader") = "helloHeader"
  /\ After("helloHeader", "helloBody") = "ready"
  /\ After("ready", "timeHeader") = "timeHeader"
  /\ After("timeHeader", "timeBody") = "ready"
BY DEF After

(* The types, apart: what is counted, what is not, and the transports. *)
Counts ==
  /\ t \in 0 .. opened
  /\ opened \in 0 .. MaxOpens
  /\ timers \in 0 .. opened
  /\ due \in 0 .. timers
  /\ sent \in 0 .. timers
  /\ faults \in 0 .. MaxFaults

Flags ==
  /\ pc \in {"idle", "connect", "reset", "helloHeader", "helloBody", "start", "running"}
  /\ published \in BOOLEAN /\ freed \in BOOLEAN /\ is_open \in BOOLEAN
  /\ received_header \in BOOLEAN
  /\ tm \in {"idle", "header", "body"}
  /\ unstarted \in BOOLEAN /\ dangling \in BOOLEAN

(* Together they are TypeOK. *)
LEMMA Types == TypeOK <=> Counts /\ Flags /\ conn \in [Handles -> Conn]
BY DEF TypeOK, Counts, Flags, Conn, Wires

(* LifeInv holds at the start. *)
LEMMA InitLife == Init => LifeInv
<1> SUFFICES ASSUME Init PROVE LifeInv
  OBVIOUS
<1>1. 1 \in Handles
  BY LifeAssumption DEF Handles
<1>2. conn \in [Handles -> Conn] /\ ~conn[1].header /\ ~conn[1].early
      /\ \A h \in Handles : ~conn[h].open
  BY <1>1 DEF Init, Conn, Wires
<1>3. conn[1].wire = "nothing"
  BY <1>1 DEF Init
<1>4. /\ t \in 0 .. opened /\ opened \in 0 .. MaxOpens /\ timers \in 0 .. opened
      /\ due \in 0 .. timers /\ sent \in 0 .. timers /\ faults \in 0 .. MaxFaults
  BY LifeAssumption DEF Init
<1>5. TypeOK
  BY <1>2, <1>4 DEF Init, TypeOK, Conn, Wires
<1>6. Lively /\ Paced
  BY DEF Init, Lively, Paced
<1>7. NoConnectionLost /\ FirstHeader /\ FirstWire /\ FirstConnection
  BY <1>1, <1>2, <1>3 DEF Init, NoConnectionLost, FirstHeader, FirstWire, FirstConnection
<1> QED
  BY <1>5, <1>6, <1>7 DEF LifeInv

(* Every step keeps LifeInv. *)
LEMMA StepLife == LifeInv /\ [Next]_vars => LifeInv'
<1> SUFFICES ASSUME LifeInv, [Next]_vars PROVE LifeInv'
  OBVIOUS
<1> USE LifeAssumption DEF LifeInv, struct, clock
<1>0. /\ Counts /\ Flags /\ conn \in [Handles -> Conn]
      /\ 1 \in Handles /\ faults \in 0 .. MaxFaults
      /\ (~freed /\ opened > 0 => t \in Handles)
  BY Types DEF Lively, Counts, Handles
<1>20. ASSUME Counts', Flags', (conn \in [Handles -> Conn])' PROVE TypeOK'
  BY <1>20 DEF TypeOK, Counts, Flags, Conn, Wires
<1>1. CASE OpenCall
  <2>11. conn' = conn
    BY <1>1 DEF OpenCall
  <2>1. Counts'
    BY <1>0, <1>1, <2>11 DEF OpenCall, Counts, Lively, Paced, Fault, NoFault, Handles
  <2>2. Flags'
    BY <1>0, <1>1, <2>11 DEF OpenCall, Flags
  <2>3. Lively' /\ Paced'
    BY <1>0, <1>1, <2>11 DEF OpenCall, Counts, Lively, Paced, Fault, NoFault
  <2>4. NoConnectionLost'
    BY <1>0, <1>1, <2>11 DEF OpenCall, Lively, NoConnectionLost
  <2>5. FirstHeader'
    BY <1>0, <1>1, <2>11 DEF OpenCall, Counts, Lively, FirstHeader
  <2>6. FirstWire' /\ FirstConnection'
    BY <1>0, <1>1, <2>11
    DEF OpenCall, Counts, Lively, NoConnectionLost, FirstHeader, FirstWire, FirstConnection,
        Fault, NoFault, After
  <2> QED
    BY <1>0, <1>20, <2>11, <2>1, <2>2, <2>3, <2>4, <2>5, <2>6
<1>2. CASE Close
  <2>10. /\ t \in Handles
         /\ conn' = conn \/ conn' = [conn EXCEPT ![t].open = FALSE]
    BY <1>0, <1>2 DEF Close, Lively
  <2>11. /\ conn' \in [Handles -> Conn]
         /\ \A g \in Handles : /\ conn'[g].header = conn[g].header /\ conn'[g].wire = conn[g].wire
                               /\ conn'[g].early = conn[g].early
                               /\ conn'[g].open => conn[g].open
    BY <1>0, <2>10, SetOpen
  <2>12. ASSUME ~is_open' PROVE ~conn'[t].open
    <3>1. conn' = [conn EXCEPT ![t].open = FALSE]
      BY <1>0, <1>2, <2>12 DEF Close, Flags
    <3>2. t \in Handles /\ conn \in [Handles -> Conn]
      BY <1>0, <2>10
    <3> QED
      BY <3>1, <3>2, SetOpen
  <2>13. is_open' => Fault
    BY <1>2 DEF Close
  <2>14. faults' = faults \/ Fault
    BY <1>2 DEF Close, NoFault
  <2>15. faults' \in 0 .. MaxFaults /\ (faults' = 0 => ~Fault /\ faults = 0)
    BY <1>0, <2>14 DEF Fault, Counts
  <2>1. Counts'
    BY <1>0, <1>2, <2>15 DEF Close, Counts
  <2>2. Flags'
    BY <1>0, <1>2, <2>10, <2>11, <2>12, <2>13, <2>15 DEF Close, Flags
  <2>3. Lively' /\ Paced'
    BY <1>0, <1>2, <2>10, <2>11, <2>12, <2>13, <2>15 DEF Close, Counts, Lively, Paced
  <2>4. NoConnectionLost'
    BY <1>0, <1>2, <2>10, <2>11, <2>12, <2>13, <2>15 DEF Close, Lively, NoConnectionLost
  <2>5. FirstHeader'
    BY <1>0, <1>2, <2>10, <2>11, <2>12, <2>13, <2>15 DEF Close, Counts, Lively, FirstHeader
  <2>6. FirstWire' /\ FirstConnection'
    BY <1>0, <1>2, <2>10, <2>11, <2>12, <2>13, <2>15
    DEF Close, Counts, Lively, NoConnectionLost, FirstHeader, FirstWire, FirstConnection
  <2> QED
    BY <1>0, <1>20, <2>11, <2>1, <2>2, <2>3, <2>4, <2>5, <2>6
<1>3. CASE Destroy
  <2>11. /\ conn' \in [Handles -> Conn]
         /\ \A g \in Handles : /\ conn'[g].header = conn[g].header /\ conn'[g].wire = conn[g].wire
                               /\ conn'[g].early = conn[g].early
                               /\ conn'[g].open => conn[g].open /\ g # t
    <3> DEFINE c(h) == IF h = t THEN [conn[h] EXCEPT !.open = FALSE] ELSE conn[h]
    <3>1. ASSUME NEW g \in Handles
          PROVE  /\ c(g) \in Conn /\ c(g).header = conn[g].header /\ c(g).wire = conn[g].wire
                 /\ c(g).early = conn[g].early /\ (c(g).open => conn[g].open /\ g # t)
      <4>1. conn[g] \in Conn
        BY <1>0
      <4> QED
        BY <4>1 DEF Conn
    <3>2. conn' = [g \in Handles |-> c(g)]
      BY <1>3 DEF Destroy
    <3> HIDE DEF c
    <3> QED
      BY <3>1, <3>2
  <2>1. Counts'
    BY <1>0, <1>3, <2>11 DEF Destroy, Counts, Lively, Paced, Fault, NoFault, Handles
  <2>2. Flags'
    BY <1>0, <1>3, <2>11 DEF Destroy, Flags
  <2>3. Lively' /\ Paced'
    BY <1>0, <1>3, <2>11 DEF Destroy, Counts, Lively, Paced, Fault, NoFault
  <2>4. NoConnectionLost'
    BY <1>0, <1>3, <2>11 DEF Destroy, Lively, NoConnectionLost
  <2>5. FirstHeader'
    BY <1>0, <1>3, <2>11 DEF Destroy, Counts, Lively, FirstHeader
  <2>6. FirstWire' /\ FirstConnection'
    BY <1>0, <1>3, <2>11
    DEF Destroy, Counts, Lively, NoConnectionLost, FirstHeader, FirstWire, FirstConnection,
        Fault, NoFault, After
  <2> QED
    BY <1>0, <1>20, <2>11, <2>1, <2>2, <2>3, <2>4, <2>5, <2>6
<1>4. CASE Connect
  <2>10. /\ opened' = opened + 1 /\ opened' \in Handles
         /\ conn' = [conn EXCEPT ![opened'].open = TRUE]
    BY <1>0, <1>4 DEF Connect, Lively, Counts, Handles
  <2>11. /\ conn' \in [Handles -> Conn]
         /\ \A g \in Handles : /\ conn'[g].header = conn[g].header /\ conn'[g].wire = conn[g].wire
                               /\ conn'[g].early = conn[g].early
         /\ \A g \in Handles \ {opened'} : conn'[g].open = conn[g].open
    BY <1>0, <2>10, SetOpen
  <2>1. Counts'
    BY <1>0, <1>4, <2>10, <2>11 DEF Connect, Counts, Lively, Paced, Fault, NoFault, Handles
  <2>2. Flags'
    BY <1>0, <1>4, <2>10, <2>11 DEF Connect, Flags
  <2>3. Lively' /\ Paced'
    BY <1>0, <1>4, <2>10, <2>11 DEF Connect, Counts, Lively, Paced, Fault, NoFault
  <2>4. NoConnectionLost'
    BY <1>0, <1>4, <2>10, <2>11 DEF Connect, Lively, NoConnectionLost
  <2>5. FirstHeader'
    BY <1>0, <1>4, <2>10, <2>11 DEF Connect, Counts, Lively, FirstHeader
  <2>6. FirstWire' /\ FirstConnection'
    BY <1>0, <1>4, <2>10, <2>11
    DEF Connect, Counts, Lively, NoConnectionLost, FirstHeader, FirstWire, FirstConnection,
        Fault, NoFault, After
  <2> QED
    BY <1>0, <1>20, <2>11, <2>1, <2>2, <2>3, <2>4, <2>5, <2>6
<1>5. CASE ConnectFails
  <2>11. conn' = conn
    BY <1>5 DEF ConnectFails
  <2>1. Counts'
    BY <1>0, <1>5, <2>11 DEF ConnectFails, Counts, Lively, Paced, Fault, NoFault, Handles
  <2>2. Flags'
    BY <1>0, <1>5, <2>11 DEF ConnectFails, Flags
  <2>3. Lively' /\ Paced'
    BY <1>0, <1>5, <2>11 DEF ConnectFails, Counts, Lively, Paced, Fault, NoFault
  <2>4. NoConnectionLost'
    BY <1>0, <1>5, <2>11 DEF ConnectFails, Lively, NoConnectionLost
  <2>5. FirstHeader'
    BY <1>0, <1>5, <2>11 DEF ConnectFails, Counts, Lively, FirstHeader
  <2>6. FirstWire' /\ FirstConnection'
    BY <1>0, <1>5, <2>11
    DEF ConnectFails, Counts, Lively, NoConnectionLost, FirstHeader, FirstWire,
        FirstConnection, Fault, NoFault, After
  <2> QED
    BY <1>0, <1>20, <2>11, <2>1, <2>2, <2>3, <2>4, <2>5, <2>6
<1>6. CASE Reset
  <2>11. conn' = conn
    BY <1>6 DEF Reset
  <2>1. Counts'
    BY <1>0, <1>6, <2>11 DEF Reset, Counts, Lively, Paced, Fault, NoFault, Handles
  <2>2. Flags'
    BY <1>0, <1>6, <2>11 DEF Reset, Flags
  <2>3. Lively' /\ Paced'
    BY <1>0, <1>6, <2>11 DEF Reset, Counts, Lively, Paced, Fault, NoFault
  <2>4. NoConnectionLost'
    BY <1>0, <1>6, <2>11 DEF Reset, Lively, NoConnectionLost
  <2>5. FirstHeader'
    BY <1>0, <1>6, <2>11 DEF Reset, Counts, Lively, FirstHeader
  <2>6. FirstWire' /\ FirstConnection'
    BY <1>0, <1>6, <2>11
    DEF Reset, Counts, Lively, NoConnectionLost, FirstHeader, FirstWire, FirstConnection,
        Fault, NoFault, After
  <2> QED
    BY <1>0, <1>20, <2>11, <2>1, <2>2, <2>3, <2>4, <2>5, <2>6
<1>7. CASE SendHelloHeader
  <2>10. t \in Handles
    BY <1>0, <1>7, LifeAssumption DEF SendHelloHeader, Lively, FirstHeader, Counts, Flags
  <2>11. Whole(t, "helloHeader") \/ Short(t) \/ Error(t)
    BY <1>7 DEF SendHelloHeader
  <2>12. faults' \in 0 .. MaxFaults /\ (faults' = 0 => faults = 0)
    BY <1>0, <2>10, <2>11, Written
  <2>13. /\ conn' \in [Handles -> Conn]
         /\ \A g \in Handles : conn'[g].open = conn[g].open /\ conn'[g].header = conn[g].header
         /\ \A g \in Handles \ {t} : conn'[g] = conn[g]
         /\ ~conn[t].open => conn'[t] = conn[t]
    BY <1>0, <2>10, <2>11, Written
  <2>14. conn'[t].early => conn[t].early \/ ("helloHeader" = "timeHeader" /\ ~conn[t].header)
    BY <1>0, <2>10, <2>11, Written
  <2>15. faults' = 0 /\ conn[t].open => conn'[t].wire = After(conn[t].wire, "helloHeader")
    BY <1>0, <2>10, <2>11, Written
  <2>1. Counts'
    BY <1>0, <1>7, <2>12 DEF SendHelloHeader, Counts, Paced
  <2>2. Flags'
    BY <1>0, <1>7, <2>10, <2>12, <2>13 DEF SendHelloHeader, Flags
  <2>3. Lively' /\ Paced'
    BY <1>0, <1>7, <2>10, <2>12, <2>13
    DEF SendHelloHeader, Counts, Lively, Paced, Fault, NoFault
  <2>4. NoConnectionLost'
    BY <1>0, <1>7, <2>10, <2>12, <2>13 DEF SendHelloHeader, Lively, NoConnectionLost
  <2>5. FirstHeader'
    BY <1>0, <1>7, <2>10, <2>12, <2>13 DEF SendHelloHeader, Counts, Lively, FirstHeader
  <2>6. FirstWire' /\ FirstConnection'
    <3>0. t = opened /\ opened' = opened /\ opened # 0
      BY <1>0, <1>7, <2>10 DEF SendHelloHeader, Lively, Counts, Handles
    <3>1. CASE opened # 1
      <4>1. t # 1
        BY <3>0, <3>1
      <4>2. conn'[1] = conn[1]
        BY <1>0, <2>13, <4>1
      <4>3. ~conn[1].open
        BY <1>0, <4>1 DEF NoConnectionLost
      <4>4. (faults' = 0 => faults = 0) /\ opened # 0 /\ opened # 1 /\ opened' = opened
        BY <2>12, <3>0, <3>1
      <4> QED
        BY <4>2, <4>3, <4>4 DEF FirstWire, FirstConnection
    <3>2. CASE opened = 1
      <4>1. t = 1 /\ conn'[1].open = conn[1].open /\ conn'[1].header = conn[1].header
        BY <1>0, <2>12, <2>13, <2>14, <2>15, <3>0, <3>2
      <4>2. ~conn'[1].early
        BY <1>0, <1>7, <2>12, <2>13, <2>14, <2>15, <3>2, <4>1
        DEF SendHelloHeader, FirstHeader, FirstConnection
      <4>3. faults' = 0 /\ conn[1].open =>
              conn[1].wire = "nothing" /\ conn'[1].wire = "helloHeader" /\ pc \notin {"idle", "connect"}
        BY <1>0, <1>7, <2>12, <2>13, <2>14, <2>15, <3>0, <3>2, <4>1, AfterValues
        DEF SendHelloHeader, FirstWire, FirstHeader, Flags
      <4>4. ~conn[1].open => conn'[1].wire = conn[1].wire
        BY <2>13, <4>1
      <4>5. conn[1].open /\ Error(t) => faults' # 0
        BY <1>0, <4>1 DEF Error, Fault, Counts
      <4>6. ASSUME faults' = 0, conn[1].open PROVE pc' = "helloBody"
        BY <1>7, <4>5, <4>6 DEF SendHelloHeader
      <4>7. tm = "idle" \/ conn[1].header
        BY <3>2 DEF FirstHeader
      <4>8. ASSUME faults' = 0
            PROVE  ~conn[1].header /\ ~conn'[1].header /\ tm' = "idle"
        BY <1>7, <2>12, <3>2, <4>1, <4>7, <4>8 DEF SendHelloHeader, FirstWire
      <4>9. ASSUME faults' = 0 PROVE conn'[1].wire # "garbled"
        BY <2>12, <4>3, <4>4, <4>9 DEF FirstConnection
      <4>10. FirstWire'
        BY <3>0, <3>2, <4>1, <4>3, <4>6, <4>8 DEF FirstWire
      <4> QED
        BY <4>2, <4>9, <4>10 DEF FirstConnection
    <3> QED
      BY <3>1, <3>2
  <2> QED
    BY <1>0, <1>20, <2>12, <2>13, <2>14, <2>15, <2>1, <2>2, <2>3, <2>4, <2>5, <2>6
<1>8. CASE SendHelloBody
  <2>10. t \in Handles
    BY <1>0, <1>8, LifeAssumption DEF SendHelloBody, Lively, FirstHeader, Counts, Flags
  <2>11. Whole(t, "helloBody") \/ Short(t) \/ Error(t)
    BY <1>8 DEF SendHelloBody
  <2>12. faults' \in 0 .. MaxFaults /\ (faults' = 0 => faults = 0)
    BY <1>0, <2>10, <2>11, Written
  <2>13. /\ conn' \in [Handles -> Conn]
         /\ \A g \in Handles : conn'[g].open = conn[g].open /\ conn'[g].header = conn[g].header
         /\ \A g \in Handles \ {t} : conn'[g] = conn[g]
         /\ ~conn[t].open => conn'[t] = conn[t]
    BY <1>0, <2>10, <2>11, Written
  <2>14. conn'[t].early => conn[t].early \/ ("helloBody" = "timeHeader" /\ ~conn[t].header)
    BY <1>0, <2>10, <2>11, Written
  <2>15. faults' = 0 /\ conn[t].open => conn'[t].wire = After(conn[t].wire, "helloBody")
    BY <1>0, <2>10, <2>11, Written
  <2>1. Counts'
    BY <1>0, <1>8, <2>12 DEF SendHelloBody, Counts, Paced
  <2>2. Flags'
    BY <1>0, <1>8, <2>10, <2>12, <2>13 DEF SendHelloBody, Flags
  <2>3. Lively' /\ Paced'
    BY <1>0, <1>8, <2>10, <2>12, <2>13 DEF SendHelloBody, Counts, Lively, Paced, Fault, NoFault
  <2>4. NoConnectionLost'
    BY <1>0, <1>8, <2>10, <2>12, <2>13 DEF SendHelloBody, Lively, NoConnectionLost
  <2>5. FirstHeader'
    BY <1>0, <1>8, <2>10, <2>12, <2>13 DEF SendHelloBody, Counts, Lively, FirstHeader
  <2>6. FirstWire' /\ FirstConnection'
    <3>0. t = opened /\ opened' = opened /\ opened # 0
      BY <1>0, <1>8, <2>10 DEF SendHelloBody, Lively, Counts, Handles
    <3>1. CASE opened # 1
      <4>1. t # 1
        BY <3>0, <3>1
      <4>2. conn'[1] = conn[1]
        BY <1>0, <2>13, <4>1
      <4>3. ~conn[1].open
        BY <1>0, <4>1 DEF NoConnectionLost
      <4>4. (faults' = 0 => faults = 0) /\ opened # 0 /\ opened # 1 /\ opened' = opened
        BY <2>12, <3>0, <3>1
      <4> QED
        BY <4>2, <4>3, <4>4 DEF FirstWire, FirstConnection
    <3>2. CASE opened = 1
      <4>1. t = 1 /\ conn'[1].open = conn[1].open /\ conn'[1].header = conn[1].header
        BY <1>0, <2>12, <2>13, <2>14, <2>15, <3>0, <3>2
      <4>2. ~conn'[1].early
        BY <1>0, <1>8, <2>12, <2>13, <2>14, <2>15, <3>2, <4>1
        DEF SendHelloBody, FirstHeader, FirstConnection
      <4>3. faults' = 0 /\ conn[1].open =>
              conn[1].wire = "helloHeader" /\ conn'[1].wire = "ready" /\ pc \notin {"idle", "connect"}
        BY <1>0, <1>8, <2>12, <2>13, <2>14, <2>15, <3>0, <3>2, <4>1, AfterValues
        DEF SendHelloBody, FirstWire, FirstHeader, Flags
      <4>4. ~conn[1].open => conn'[1].wire = conn[1].wire
        BY <2>13, <4>1
      <4>5. conn[1].open /\ Error(t) => faults' # 0
        BY <1>0, <4>1 DEF Error, Fault, Counts
      <4>6. ASSUME faults' = 0, conn[1].open PROVE pc' = "start"
        BY <1>8, <4>5, <4>6 DEF SendHelloBody
      <4>7. tm = "idle" \/ conn[1].header
        BY <3>2 DEF FirstHeader
      <4>8. ASSUME faults' = 0
            PROVE  ~conn[1].header /\ ~conn'[1].header /\ tm' = "idle"
        BY <1>8, <2>12, <3>2, <4>1, <4>7, <4>8 DEF SendHelloBody, FirstWire
      <4>9. ASSUME faults' = 0 PROVE conn'[1].wire # "garbled"
        BY <2>12, <4>3, <4>4, <4>9 DEF FirstConnection
      <4>10. FirstWire'
        BY <3>0, <3>2, <4>1, <4>3, <4>6, <4>8 DEF FirstWire
      <4> QED
        BY <4>2, <4>9, <4>10 DEF FirstConnection
    <3> QED
      BY <3>1, <3>2
  <2> QED
    BY <1>0, <1>20, <2>12, <2>13, <2>14, <2>15, <2>1, <2>2, <2>3, <2>4, <2>5, <2>6
<1>9. CASE StartTimer
  <2>11. conn' = conn
    BY <1>9 DEF StartTimer
  <2>1. Counts'
    BY <1>0, <1>9, <2>11 DEF StartTimer, Counts, Lively, Paced, Fault, NoFault, Handles
  <2>2. Flags'
    BY <1>0, <1>9, <2>11 DEF StartTimer, Flags
  <2>3. Lively' /\ Paced'
    BY <1>0, <1>9, <2>11 DEF StartTimer, Counts, Lively, Paced, Fault, NoFault
  <2>4. NoConnectionLost'
    BY <1>0, <1>9, <2>11 DEF StartTimer, Lively, NoConnectionLost
  <2>5. FirstHeader'
    BY <1>0, <1>9, <2>11 DEF StartTimer, Counts, Lively, FirstHeader
  <2>6. FirstWire' /\ FirstConnection'
    BY <1>0, <1>9, <2>11
    DEF StartTimer, Counts, Lively, NoConnectionLost, FirstHeader, FirstWire, FirstConnection,
        Fault, NoFault, After
  <2> QED
    BY <1>0, <1>20, <2>11, <2>1, <2>2, <2>3, <2>4, <2>5, <2>6
<1>10. CASE ReceiveHeader
  <2>10. t \in Handles /\ conn' = [conn EXCEPT ![t].header = TRUE]
    BY <1>0, <1>10 DEF ReceiveHeader, Lively
  <2>11. /\ conn' \in [Handles -> Conn]
         /\ conn'[t].header
         /\ \A g \in Handles : /\ conn'[g].open = conn[g].open /\ conn'[g].wire = conn[g].wire
                               /\ conn'[g].early = conn[g].early
                               /\ conn[g].header => conn'[g].header
         /\ \A g \in Handles \ {t} : conn'[g].header = conn[g].header
    BY <1>0, <2>10, SetHeader
  <2>1. Counts'
    BY <1>0, <1>10, <2>10, <2>11
    DEF ReceiveHeader, Counts, Lively, Paced, Fault, NoFault, Handles
  <2>2. Flags'
    BY <1>0, <1>10, <2>10, <2>11 DEF ReceiveHeader, Flags
  <2>3. Lively' /\ Paced'
    BY <1>0, <1>10, <2>10, <2>11 DEF ReceiveHeader, Counts, Lively, Paced, Fault, NoFault
  <2>4. NoConnectionLost'
    BY <1>0, <1>10, <2>10, <2>11 DEF ReceiveHeader, Lively, NoConnectionLost
  <2>5. FirstHeader'
    BY <1>0, <1>10, <2>10, <2>11 DEF ReceiveHeader, Counts, Lively, FirstHeader
  <2>6. FirstWire' /\ FirstConnection'
    BY <1>0, <1>10, <2>10, <2>11
    DEF ReceiveHeader, Counts, Lively, NoConnectionLost, FirstHeader, FirstWire,
        FirstConnection, Fault, NoFault, After
  <2> QED
    BY <1>0, <1>20, <2>11, <2>1, <2>2, <2>3, <2>4, <2>5, <2>6
<1>11. CASE Second
  <2>11. conn' = conn
    BY <1>11 DEF Second
  <2>1. Counts'
    BY <1>0, <1>11, <2>11 DEF Second, Counts, Lively, Paced, Fault, NoFault, Handles
  <2>2. Flags'
    BY <1>0, <1>11, <2>11 DEF Second, Flags
  <2>3. Lively' /\ Paced'
    BY <1>0, <1>11, <2>11 DEF Second, Counts, Lively, Paced, Fault, NoFault
  <2>4. NoConnectionLost'
    BY <1>0, <1>11, <2>11 DEF Second, Lively, NoConnectionLost
  <2>5. FirstHeader'
    BY <1>0, <1>11, <2>11 DEF Second, Counts, Lively, FirstHeader
  <2>6. FirstWire' /\ FirstConnection'
    BY <1>0, <1>11, <2>11
    DEF Second, Counts, Lively, NoConnectionLost, FirstHeader, FirstWire, FirstConnection,
        Fault, NoFault, After
  <2> QED
    BY <1>0, <1>20, <2>11, <2>1, <2>2, <2>3, <2>4, <2>5, <2>6
<1>12. CASE TimerCallback
  <2>11. conn' = conn
    BY <1>12 DEF TimerCallback, UseFreed
  <2>1. Counts'
    BY <1>0, <1>12, <2>11
    DEF TimerCallback, UseFreed, Counts, Lively, Paced, Fault, NoFault, Handles
  <2>2. Flags'
    BY <1>0, <1>12, <2>11 DEF TimerCallback, UseFreed, Flags
  <2>3. Lively' /\ Paced'
    BY <1>0, <1>12, <2>11 DEF TimerCallback, UseFreed, Counts, Lively, Paced, Fault, NoFault
  <2>4. NoConnectionLost'
    BY <1>0, <1>12, <2>11 DEF TimerCallback, UseFreed, Lively, NoConnectionLost
  <2>5. FirstHeader'
    BY <1>0, <1>12, <2>11 DEF TimerCallback, UseFreed, Counts, Lively, FirstHeader
  <2>6. FirstWire' /\ FirstConnection'
    BY <1>0, <1>12, <2>11
    DEF TimerCallback, UseFreed, Counts, Lively, NoConnectionLost, FirstHeader, FirstWire,
        FirstConnection, Fault, NoFault, After
  <2> QED
    BY <1>0, <1>20, <2>11, <2>1, <2>2, <2>3, <2>4, <2>5, <2>6
<1>13. CASE SendTimeHeader
  <2>1. CASE ~freed
    <3>10. t \in Handles
      BY <1>0, <1>13, <2>1, LifeAssumption
      DEF SendTimeHeader, Lively, FirstHeader, Counts, Flags
    <3>11. Whole(t, "timeHeader") \/ Short(t) \/ Error(t)
      BY <1>13, <2>1 DEF SendTimeHeader
    <3>12. faults' \in 0 .. MaxFaults /\ (faults' = 0 => faults = 0)
      BY <1>0, <3>10, <3>11, Written
    <3>13. /\ conn' \in [Handles -> Conn]
           /\ \A g \in Handles : conn'[g].open = conn[g].open /\ conn'[g].header = conn[g].header
           /\ \A g \in Handles \ {t} : conn'[g] = conn[g]
           /\ ~conn[t].open => conn'[t] = conn[t]
      BY <1>0, <3>10, <3>11, Written
    <3>14. conn'[t].early => conn[t].early \/ ("timeHeader" = "timeHeader" /\ ~conn[t].header)
      BY <1>0, <3>10, <3>11, Written
    <3>15. faults' = 0 /\ conn[t].open => conn'[t].wire = After(conn[t].wire, "timeHeader")
      BY <1>0, <3>10, <3>11, Written
    <3>1. Counts'
      BY <1>0, <1>13, <2>1, <3>12 DEF SendTimeHeader, Counts, Paced
    <3>2. Flags'
      BY <1>0, <1>13, <2>1, <3>10, <3>12, <3>13 DEF SendTimeHeader, UseFreed, Flags
    <3>3. Lively' /\ Paced'
      BY <1>0, <1>13, <2>1, <3>10, <3>12, <3>13
      DEF SendTimeHeader, UseFreed, Counts, Lively, Paced, Fault, NoFault
    <3>4. NoConnectionLost'
      BY <1>0, <1>13, <2>1, <3>10, <3>12, <3>13
      DEF SendTimeHeader, UseFreed, Lively, NoConnectionLost
    <3>5. FirstHeader'
      BY <1>0, <1>13, <2>1, <3>10, <3>12, <3>13
      DEF SendTimeHeader, UseFreed, Counts, Lively, FirstHeader
    <3>6. FirstWire' /\ FirstConnection'
      <4>0. t = opened /\ opened' = opened /\ opened # 0
        BY <1>0, <1>13, <2>1, <3>10 DEF SendTimeHeader, Lively, Counts, Handles
      <4>1. CASE opened # 1
        <5>1. t # 1
          BY <4>0, <4>1
        <5>2. conn'[1] = conn[1]
          BY <1>0, <3>13, <5>1
        <5>3. ~conn[1].open
          BY <1>0, <5>1 DEF NoConnectionLost
        <5>4. (faults' = 0 => faults = 0) /\ opened # 0 /\ opened # 1 /\ opened' = opened
          BY <3>12, <4>0, <4>1
        <5> QED
          BY <5>2, <5>3, <5>4 DEF FirstWire, FirstConnection
      <4>2. CASE opened = 1
        <5>1. t = 1 /\ conn'[1].open = conn[1].open /\ conn'[1].header = conn[1].header
          BY <1>0, <3>12, <3>13, <3>14, <3>15, <4>0, <4>2
        <5>2. ~conn'[1].early
          BY <1>0, <1>13, <2>1, <3>12, <3>13, <3>14, <3>15, <4>2, <5>1
          DEF SendTimeHeader, FirstHeader, FirstConnection
        <5>3. faults' = 0 /\ conn[1].open =>
                conn[1].wire = "ready" /\ conn'[1].wire = "timeHeader" /\ pc \notin {"idle", "connect"}
          BY <1>0, <1>13, <2>1, <3>12, <3>13, <3>14, <3>15, <4>0, <4>2, <5>1, AfterValues
          DEF SendTimeHeader, FirstWire, FirstHeader, Flags
        <5>4. ~conn[1].open => conn'[1].wire = conn[1].wire
          BY <3>13, <5>1
        <5> QED
          BY <1>0, <1>13, <2>1, <3>12, <3>13, <3>14, <3>15, <4>0, <4>2, <5>1, <5>2, <5>3, <5>4
          DEF SendTimeHeader, FirstWire, FirstHeader, FirstConnection, Flags
      <4> QED
        BY <4>1, <4>2
    <3> QED
      BY <1>0, <1>20, <3>12, <3>13, <3>14, <3>15, <3>1, <3>2, <3>3, <3>4, <3>5, <3>6
  <2>2. CASE freed
    <3>1. UseFreed /\ tm # "idle" /\ opened # 0
      BY <1>0, <1>13, <2>2 DEF SendTimeHeader, Lively, FirstHeader, Counts
    <3>2. Counts' /\ Flags' /\ conn' = conn
      BY <1>0, <1>13, <3>1 DEF SendTimeHeader, UseFreed, Counts, Flags
    <3>3. Lively' /\ Paced'
      BY <1>0, <1>13, <3>1 DEF SendTimeHeader, UseFreed, Lively, Paced, Counts
    <3>4. NoConnectionLost'
      BY <1>13, <3>2 DEF SendTimeHeader, NoConnectionLost
    <3>5. FirstHeader' /\ FirstWire' /\ FirstConnection'
      BY <1>0, <1>13, <2>2, <3>1, <3>2
      DEF SendTimeHeader, UseFreed, Lively, FirstHeader, FirstWire, FirstConnection,
          NoConnectionLost
    <3> QED
      BY <1>0, <1>20, <3>2, <3>3, <3>4, <3>5
  <2> QED
    BY <1>0, <2>1, <2>2 DEF Flags
<1>14. CASE SendTimeBody
  <2>1. CASE ~freed
    <3>10. t \in Handles
      BY <1>0, <1>14, <2>1, LifeAssumption DEF SendTimeBody, Lively, FirstHeader, Counts, Flags
    <3>11. Whole(t, "timeBody") \/ Short(t) \/ Error(t)
      BY <1>14, <2>1 DEF SendTimeBody
    <3>12. faults' \in 0 .. MaxFaults /\ (faults' = 0 => faults = 0)
      BY <1>0, <3>10, <3>11, Written
    <3>13. /\ conn' \in [Handles -> Conn]
           /\ \A g \in Handles : conn'[g].open = conn[g].open /\ conn'[g].header = conn[g].header
           /\ \A g \in Handles \ {t} : conn'[g] = conn[g]
           /\ ~conn[t].open => conn'[t] = conn[t]
      BY <1>0, <3>10, <3>11, Written
    <3>14. conn'[t].early => conn[t].early \/ ("timeBody" = "timeHeader" /\ ~conn[t].header)
      BY <1>0, <3>10, <3>11, Written
    <3>15. faults' = 0 /\ conn[t].open => conn'[t].wire = After(conn[t].wire, "timeBody")
      BY <1>0, <3>10, <3>11, Written
    <3>1. Counts'
      BY <1>0, <1>14, <2>1, <3>12 DEF SendTimeBody, Counts, Paced
    <3>2. Flags'
      BY <1>0, <1>14, <2>1, <3>10, <3>12, <3>13 DEF SendTimeBody, UseFreed, Flags
    <3>3. Lively' /\ Paced'
      BY <1>0, <1>14, <2>1, <3>10, <3>12, <3>13
      DEF SendTimeBody, UseFreed, Counts, Lively, Paced, Fault, NoFault
    <3>4. NoConnectionLost'
      BY <1>0, <1>14, <2>1, <3>10, <3>12, <3>13
      DEF SendTimeBody, UseFreed, Lively, NoConnectionLost
    <3>5. FirstHeader'
      BY <1>0, <1>14, <2>1, <3>10, <3>12, <3>13
      DEF SendTimeBody, UseFreed, Counts, Lively, FirstHeader
    <3>6. FirstWire' /\ FirstConnection'
      <4>0. t = opened /\ opened' = opened /\ opened # 0
        BY <1>0, <1>14, <2>1, <3>10 DEF SendTimeBody, Lively, Counts, Handles
      <4>1. CASE opened # 1
        <5>1. t # 1
          BY <4>0, <4>1
        <5>2. conn'[1] = conn[1]
          BY <1>0, <3>13, <5>1
        <5>3. ~conn[1].open
          BY <1>0, <5>1 DEF NoConnectionLost
        <5>4. (faults' = 0 => faults = 0) /\ opened # 0 /\ opened # 1 /\ opened' = opened
          BY <3>12, <4>0, <4>1
        <5> QED
          BY <5>2, <5>3, <5>4 DEF FirstWire, FirstConnection
      <4>2. CASE opened = 1
        <5>1. t = 1 /\ conn'[1].open = conn[1].open /\ conn'[1].header = conn[1].header
          BY <1>0, <3>12, <3>13, <3>14, <3>15, <4>0, <4>2
        <5>2. ~conn'[1].early
          BY <1>0, <1>14, <2>1, <3>12, <3>13, <3>14, <3>15, <4>2, <5>1
          DEF SendTimeBody, FirstHeader, FirstConnection
        <5>3. faults' = 0 /\ conn[1].open =>
                conn[1].wire = "timeHeader" /\ conn'[1].wire = "ready" /\ pc \notin {"idle", "connect"}
          BY <1>0, <1>14, <2>1, <3>12, <3>13, <3>14, <3>15, <4>0, <4>2, <5>1, AfterValues
          DEF SendTimeBody, FirstWire, FirstHeader, Flags
        <5>4. ~conn[1].open => conn'[1].wire = conn[1].wire
          BY <3>13, <5>1
        <5> QED
          BY <1>0, <1>14, <2>1, <3>12, <3>13, <3>14, <3>15, <4>0, <4>2, <5>1, <5>2, <5>3, <5>4
          DEF SendTimeBody, FirstWire, FirstHeader, FirstConnection, Flags
      <4> QED
        BY <4>1, <4>2
    <3> QED
      BY <1>0, <1>20, <3>12, <3>13, <3>14, <3>15, <3>1, <3>2, <3>3, <3>4, <3>5, <3>6
  <2>2. CASE freed
    <3>1. UseFreed /\ tm # "idle" /\ opened # 0
      BY <1>0, <1>14, <2>2 DEF SendTimeBody, Lively, FirstHeader, Counts
    <3>2. Counts' /\ Flags' /\ conn' = conn
      BY <1>0, <1>14, <3>1 DEF SendTimeBody, UseFreed, Counts, Flags
    <3>3. Lively' /\ Paced'
      BY <1>0, <1>14, <3>1 DEF SendTimeBody, UseFreed, Lively, Paced, Counts
    <3>4. NoConnectionLost'
      BY <1>14, <3>2 DEF SendTimeBody, NoConnectionLost
    <3>5. FirstHeader' /\ FirstWire' /\ FirstConnection'
      BY <1>0, <1>14, <2>2, <3>1, <3>2
      DEF SendTimeBody, UseFreed, Lively, FirstHeader, FirstWire, FirstConnection,
          NoConnectionLost
    <3> QED
      BY <1>0, <1>20, <3>2, <3>3, <3>4, <3>5
  <2> QED
    BY <1>0, <2>1, <2>2 DEF Flags
<1>15. CASE UNCHANGED vars
  BY <1>15
  DEF vars, TypeOK, Lively, Paced, NoConnectionLost, FirstHeader, FirstWire, FirstConnection,
      Handles
<1> QED
  BY <1>1, <1>2, <1>3, <1>4, <1>5, <1>6, <1>7, <1>8, <1>9, <1>10, <1>11, <1>12, <1>13, <1>14, <1>15
  DEF Next, Framework, Opening, TimerTask

-----------------------------------------------------------------------------
(* LifeInv is an invariant of every behaviour. *)
LEMMA LifeInvariant == Spec => []LifeInv
BY InitLife, StepLife, PTL DEF Spec

(* The variables of the two tasks have their types: with any number of     *)
(* opens no more timers run than opens were made, and no second sees more  *)
(* Time messages than timers.                                              *)
THEOREM LifeTypes == Spec => []TypeOK
<1>1. LifeInv => TypeOK
  BY DEF LifeInv
<1> QED
  BY <1>1, LifeInvariant, PTL

(* The element never leaves a connection behind: whatever calls fail, the  *)
(* only open transport is the one _snapclient_close will close, and none   *)
(* is open once the element has been destroyed.                            *)
THEOREM NoneLeftBehind == Spec => []NoConnectionLost
<1>1. LifeInv => NoConnectionLost
  BY DEF LifeInv
<1> QED
  BY <1>1, LifeInvariant, PTL

(* The first connection carries one Hello and then whole Time messages,    *)
(* none of them before the server's codec header, although the timer task  *)
(* writes to the transport without asking the task that opens and closes.  *)
THEOREM FirstIsFramed == Spec => []FirstConnection
<1>1. LifeInv => FirstConnection
  BY DEF LifeInv
<1> QED
  BY <1>1, LifeInvariant, PTL
-----------------------------------------------------------------------------
(* What the servers see, by the names of module Conversation. *)
At   == IF \E h \in Handles : conn[h].open THEN t ELSE 0
Heard(c) == [wire |-> c.wire, greeted |-> c.greeted, header |-> c.header]
Talk == [h \in Handles |-> Heard(conn[h])]
Heards == [wire : Wires, greeted : BOOLEAN, header : BOOLEAN]

(* An element that is open has a connection, and only open and close of an *)
(* element that is not open are without one.                               *)
Held ==
  /\ is_open /\ ~freed => conn[t].open
  /\ pc \notin {"idle", "connect"} => is_open

(* It talks with the server its transport goes to, or with none. *)
LEMMA TalksWith ==
  ASSUME LifeInv, Held
  PROVE  At = (IF is_open /\ ~freed THEN t ELSE 0)
<1>1. CASE is_open /\ ~freed
  <2>1. t \in Handles /\ conn[t].open
    BY <1>1, Types DEF LifeInv, Held, Lively, Counts, Handles
  <2> QED
    BY <1>1, <2>1 DEF At
<1>2. CASE ~(is_open /\ ~freed)
  BY <1>2 DEF LifeInv, NoConnectionLost, At
<1> QED
  BY <1>1, <1>2

(* A change of the transports shows when it changes what was heard. *)
LEMMA SameTalk ==
  ASSUME \A h \in Handles : /\ conn'[h].wire = conn[h].wire
                            /\ conn'[h].greeted = conn[h].greeted
                            /\ conn'[h].header = conn[h].header
  PROVE  Talk' = Talk
BY DEF Talk, Heard, Handles

LEMMA OtherTalk ==
  ASSUME NEW g \in Handles, NEW c, NEW d,
         conn' = [conn EXCEPT ![g] = c], conn \in [Handles -> Conn], d = Heard(c)
  PROVE  Talk' = [Talk EXCEPT ![g] = d]
<1>1. Talk' = [h \in Handles |-> Heard(conn'[h])]
  BY DEF Talk, Handles, Heard
<1>2. \A h \in Handles : conn'[h] = IF h = g THEN c ELSE conn[h]
  OBVIOUS
<1>3. \A h \in Handles : Heard(conn'[h]) = IF h = g THEN d ELSE Heard(conn[h])
  BY <1>2
<1>4. Talk' = [h \in Handles |-> IF h = g THEN d ELSE Heard(conn[h])]
  BY <1>1, <1>3
<1>5. [Talk EXCEPT ![g] = d] = [h \in Handles |-> IF h = g THEN d ELSE Heard(conn[h])]
  BY DEF Talk
<1> QED
  BY <1>4, <1>5

(* The server at the end of a transport hears the bytes it was sent. *)
Says(h, wire) ==
  Talk' = [Talk EXCEPT ![h].wire = wire, ![h].greeted = @ \/ wire = "ready"]

LEMMA Spoken ==
  ASSUME conn \in [Handles -> Conn], NEW h \in Handles, NEW wire \in Wires,
         NEW early \in BOOLEAN,
         conn' = [conn EXCEPT ![h].wire = wire, ![h].greeted = @ \/ wire = "ready",
                              ![h].early = early]
  PROVE  Says(h, wire)
<1>1. conn[h] \in Conn
  OBVIOUS
<1> DEFINE g == conn[h].greeted \/ wire = "ready"
           c == [conn[h] EXCEPT !.wire = wire, !.greeted = g, !.early = early]
           d == [Talk[h] EXCEPT !.wire = wire, !.greeted = g]
<1>2. g \in BOOLEAN
  BY <1>1 DEF Conn
<1>3. Talk[h] \in Heards /\ Talk[h].greeted = conn[h].greeted /\ Talk[h].header = conn[h].header
  BY <1>1 DEF Talk, Heard, Heards, Conn
<1>4. conn' = [conn EXCEPT ![h] = c]
  OBVIOUS
<1>5. [Talk EXCEPT ![h].wire = wire, ![h].greeted = @ \/ wire = "ready"] = [Talk EXCEPT ![h] = d]
  BY <1>3, Zenon DEF Talk
<1> HIDE DEF g
<1>6. c \in Conn /\ c.wire = wire /\ c.greeted = g /\ c.header = conn[h].header
  BY <1>1, <1>2 DEF Conn
<1>7. Heard(c) \in Heards /\ Heard(c).wire = wire /\ Heard(c).greeted = g
      /\ Heard(c).header = conn[h].header
  BY <1>2, <1>6 DEF Heard, Heards, Conn
<1>8. d \in Heards /\ d.wire = wire /\ d.greeted = g /\ d.header = conn[h].header
  BY <1>2, <1>3 DEF Heards
<1> HIDE DEF c, d
<1>9. d = Heard(c)
  <2> DEFINE e == Heard(c)
  <2> HIDE DEF e
  <2>1. e \in Heards /\ e.wire = wire /\ e.greeted = g /\ e.header = conn[h].header
    BY <1>7 DEF e
  <2>2. d = e
    BY <1>8, <2>1 DEF Heards
  <2> QED
    BY <2>2 DEF e
<1>10. Talk' = [Talk EXCEPT ![h] = d]
  BY ONLY <1>4, <1>9, conn \in [Handles -> Conn], h \in Handles, OtherTalk
<1> QED
  BY <1>5, <1>10 DEF Says

(* A codec header changes the same in both. *)
LEMMA Answered ==
  ASSUME conn \in [Handles -> Conn], NEW h \in Handles, conn' = [conn EXCEPT ![h].header = TRUE]
  PROVE  Talk' = [Talk EXCEPT ![h].header = TRUE]
<1>1. conn[h] \in Conn
  OBVIOUS
<1> DEFINE c == [conn[h] EXCEPT !.header = TRUE]
           d == [Talk[h] EXCEPT !.header = TRUE]
<1>2. Talk[h] \in Heards /\ Talk[h].wire = conn[h].wire /\ Talk[h].greeted = conn[h].greeted
  BY <1>1 DEF Talk, Heard, Heards, Conn
<1>3. conn' = [conn EXCEPT ![h] = c]
  OBVIOUS
<1>4. [Talk EXCEPT ![h].header = TRUE] = [Talk EXCEPT ![h] = d]
  BY DEF Talk
<1>5. c \in Conn /\ c.header = TRUE /\ c.wire = conn[h].wire /\ c.greeted = conn[h].greeted
  BY <1>1 DEF Conn
<1>6. Heard(c) \in Heards /\ Heard(c).header = TRUE /\ Heard(c).wire = conn[h].wire
      /\ Heard(c).greeted = conn[h].greeted
  BY <1>5 DEF Heard, Heards, Conn
<1>7. d \in Heards /\ d.header = TRUE /\ d.wire = conn[h].wire /\ d.greeted = conn[h].greeted
  BY <1>2 DEF Heards
<1> HIDE DEF c, d
<1>8. d = Heard(c)
  <2> DEFINE e == Heard(c)
  <2> HIDE DEF e
  <2>1. e \in Heards /\ e.header = TRUE /\ e.wire = conn[h].wire /\ e.greeted = conn[h].greeted
    BY <1>6 DEF e
  <2>2. d = e
    BY <1>7, <2>1 DEF Heards
  <2> QED
    BY <2>2 DEF e
<1>9. Talk' = [Talk EXCEPT ![h] = d]
  BY ONLY <1>3, <1>8, conn \in [Handles -> Conn], h \in Handles, OtherTalk
<1> QED
  BY <1>4, <1>9

-----------------------------------------------------------------------------
(* The steps of a conversation, one lemma for each.                        *)

(* Nothing is said, and at most a call fails. *)
LEMMA Quiet ==
  ASSUME faults \in Nat, Talk' = Talk, At' = At, opened' = opened,
         faults' = faults \/ Fault
  PROVE  [C!Next]_C!vars
<1>1. CASE faults' = faults
  BY <1>1 DEF C!vars, At, Talk, Heard, Handles
<1>2. CASE Fault
  <2>1. (faults' = 0) = FALSE
    BY <1>2 DEF Fault
  <2>2. C!Fail
    BY <2>1 DEF C!Fail, At, Talk, Heard, Handles
  <2> QED
    BY <2>2 DEF C!Next
<1> QED
  BY <1>1, <1>2

LEMMA MeetStep ==
  ASSUME At = 0, opened < MaxOpens, opened' = opened + 1, At' = opened', Talk' = Talk,
         faults' = faults
  PROVE  C!Next
<1>1. C!Meet
  BY DEF C!Meet, At, Talk, Heard, Handles
<1> QED
  BY <1>1 DEF C!Next

LEMMA LeaveStep ==
  ASSUME At # 0, At' = 0, opened' = opened, Talk' = Talk, faults' = faults
  PROVE  C!Next
<1>1. C!Leave
  BY DEF C!Leave, At, Talk, Heard, Handles
<1> QED
  BY <1>1 DEF C!Next

LEMMA AnswerStep ==
  ASSUME At # 0, Talk[At].greeted, Talk' = [Talk EXCEPT ![At].header = TRUE], At' = At,
         opened' = opened, faults' = faults
  PROVE  C!Next
<1>1. C!Answer
  BY DEF C!Answer, At, Talk, Heard, Handles
<1> QED
  BY <1>1 DEF C!Next

(* To a later server, or once a call has failed, anything may be said. *)
LEMMA DisturbStep ==
  ASSUME At # 0, NEW wire \in Wires, Says(At, wire), At' = At, opened' = opened,
         opened > 1 \/ faults' # 0, faults' = 0 => faults = 0
  PROVE  C!Next
<1>1. C!Say(wire)
  BY DEF C!Say, Says, At, Talk, Heard, Handles
<1>2. C!Disturb
  BY <1>1 DEF C!Disturb, C!Wires, Wires, At
<1> QED
  BY <1>2 DEF C!Next

(* The part that comes next in a conversation without failures. *)
LEMMA GreetStep ==
  ASSUME At # 0, NEW wire, Says(At, wire), At' = At, opened' = opened, faults' = faults,
         \/ Talk[At].wire = "nothing" /\ wire = "helloHeader"
         \/ Talk[At].wire = "helloHeader" /\ wire = "ready"
  PROVE  C!Next
<1>1. C!Say(wire)
  BY DEF C!Say, Says, At, Talk, Heard, Handles
<1>2. C!Greet
  BY <1>1 DEF C!Greet, At, Talk, Heard
<1> QED
  BY <1>2 DEF C!Next

LEMMA AskTimeStep ==
  ASSUME At # 0, NEW wire, Says(At, wire), At' = At, opened' = opened, faults' = faults,
         Talk[At].header,
         \/ Talk[At].wire = "ready" /\ wire = "timeHeader"
         \/ Talk[At].wire = "timeHeader" /\ wire = "ready"
  PROVE  C!Next
<1>1. C!Say(wire)
  BY DEF C!Say, Says, At, Talk, Heard, Handles
<1>2. C!AskTime
  BY <1>1 DEF C!AskTime, At, Talk, Heard
<1> QED
  BY <1>2 DEF C!Next


-----------------------------------------------------------------------------
(* The part that comes next on the first connection. *)
InTurn(part) ==
  \/ conn[1].wire = "nothing"     /\ part = "helloHeader"
  \/ conn[1].wire = "helloHeader" /\ part = "helloBody"
  \/ conn[1].wire = "ready"       /\ part = "timeHeader" /\ conn[1].header
  \/ conn[1].wire = "timeHeader"  /\ part = "timeBody"   /\ conn[1].header

(* A write of either task is a step of a conversation. *)
LEMMA WriteStep ==
  ASSUME LifeInv, t \in Handles, t = opened, t' = t, opened' = opened, NEW part,
         Whole(t, part) \/ Short(t) \/ Error(t),
         opened = 1 /\ faults = 0 /\ conn[1].open => InTurn(part)
  PROVE  [C!Next]_C!vars
<1>1. conn \in [Handles -> Conn] /\ faults \in 0 .. MaxFaults /\ opened \in 0 .. MaxOpens
  BY Types DEF LifeInv, Counts
<1>2. /\ \A g \in Handles : conn'[g].open = conn[g].open
      /\ ~conn[t].open => \A g \in Handles : conn'[g] = conn[g]
      /\ faults' = 0 => faults = 0
  BY <1>1, Written
<1>3. At' = At
  BY <1>2 DEF At, Handles
<1>4. faults \in Nat
  BY <1>1, LifeAssumption
<1>5. CASE Error(t) \/ ~conn[t].open
  <2>1. \A g \in Handles : conn'[g] = conn[g]
    BY <1>2, <1>5 DEF Error
  <2>2. Talk' = Talk
    BY <2>1, SameTalk
  <2>3. faults' = faults \/ Fault
    BY <1>5 DEF Error, Whole, Short, NoFault
  <2> QED
    BY <1>3, <1>4, <2>2, <2>3, Quiet
<1>6. CASE Short(t) /\ conn[t].open
  <2>1. conn' = [conn EXCEPT ![t].wire = "garbled"] /\ faults' = faults + 1
    BY <1>6 DEF Short, Fault
  <2> DEFINE c == [conn[t] EXCEPT !.wire = "garbled"]
             b == conn[t].greeted \/ "garbled" = "ready"
             d == [conn[t] EXCEPT !.wire = "garbled", !.greeted = b, !.early = conn[t].early]
  <2>2. c = d
    <3>1. conn[t] \in Conn /\ b = conn[t].greeted
      BY <1>1 DEF Conn
    <3>2. b \in BOOLEAN
      BY <3>1 DEF Conn
    <3> HIDE DEF b
    <3> QED
      BY <3>1, <3>2 DEF Conn, Wires
  <2>3. conn' = [conn EXCEPT ![t] = d]
    BY <2>1, <2>2
  <2>4. conn' = [conn EXCEPT ![t].wire = "garbled", ![t].greeted = @ \/ "garbled" = "ready",
                             ![t].early = conn[t].early]
    BY <2>3
  <2>5. conn[t].early \in BOOLEAN /\ "garbled" \in Wires
    BY <1>1 DEF Conn, Wires
  <2>6. Says(t, "garbled")
    BY <1>1, <2>4, <2>5, Spoken
  <2>7. At = t /\ At # 0
    BY <1>6 DEF At, Handles
  <2>8. faults' # 0
    BY <1>4, <2>1
  <2> QED
    BY <1>2, <1>3, <2>5, <2>6, <2>7, <2>8, DisturbStep
<1>7. CASE Whole(t, part) /\ conn[t].open
  <2> DEFINE w == After(conn[t].wire, part)
             early == conn[t].early \/ (part = "timeHeader" /\ ~conn[t].header)
  <2>1. w \in Wires /\ early \in BOOLEAN
    BY <1>1, Wired DEF Conn
  <2>2. conn' = [conn EXCEPT ![t].wire = w, ![t].greeted = @ \/ w = "ready",
                             ![t].early = early]
    BY <1>7 DEF Whole
  <2>3. faults' = faults
    BY <1>7 DEF Whole, NoFault
  <2> HIDE DEF early
  <2>4. Says(t, w)
    <3> HIDE DEF w
    <3> QED
      BY <1>1, <2>1, <2>2, Spoken
  <2>5. At = t /\ At # 0
    BY <1>7 DEF At, Handles
  <2>6. Talk[t].wire = conn[t].wire /\ Talk[t].header = conn[t].header
    BY DEF Talk, Heard
  <2>7. CASE opened > 1 \/ faults # 0
    <3> HIDE DEF w
    <3> QED
      BY <1>2, <1>3, <2>1, <2>3, <2>4, <2>5, <2>7, DisturbStep
  <2>8. CASE ~(opened > 1 \/ faults # 0)
    <3>1. opened = 1 /\ t = 1 /\ faults = 0
      BY <1>1, <2>8 DEF Handles
    <3>2. InTurn(part)
      BY <1>7, <3>1
    <3>3. CASE part \in {"helloHeader", "helloBody"}
      <4>1. \/ Talk[At].wire = "nothing" /\ w = "helloHeader"
            \/ Talk[At].wire = "helloHeader" /\ w = "ready"
        BY <2>5, <2>6, <3>1, <3>2, <3>3, AfterValues DEF InTurn
      <4> HIDE DEF w
      <4> QED
        BY <1>3, <2>3, <2>4, <2>5, <4>1, GreetStep
    <3>4. CASE part \notin {"helloHeader", "helloBody"}
      <4>1. \/ Talk[At].wire = "ready" /\ w = "timeHeader"
            \/ Talk[At].wire = "timeHeader" /\ w = "ready"
        BY <2>5, <2>6, <3>1, <3>2, <3>4, AfterValues DEF InTurn
      <4>2. Talk[At].header
        BY <2>5, <2>6, <3>1, <3>2, <3>4 DEF InTurn
      <4> HIDE DEF w
      <4> QED
        BY <1>3, <2>3, <2>4, <2>5, <4>1, <4>2, AskTimeStep
    <3> QED
      BY <3>3, <3>4
  <2> QED
    BY <2>7, <2>8
<1> QED
  BY <1>5, <1>6, <1>7


(* An element that is open keeps its connection. *)
LEMMA InitHeld == Init => Held
BY DEF Init, Held

LEMMA StepHeld == LifeInv /\ Held /\ [Next]_vars => Held'
<1> SUFFICES ASSUME LifeInv, Held, [Next]_vars PROVE Held'
  OBVIOUS
<1> USE DEF struct, clock
<1>1. /\ conn \in [Handles -> Conn] /\ faults \in 0 .. MaxFaults
      /\ opened \in 0 .. MaxOpens
      /\ t = IF freed THEN 0 ELSE opened
      /\ ~freed /\ opened > 0 => t \in Handles
      /\ is_open => opened > 0
  BY Types DEF LifeInv, Lively, Counts, Handles
<1>2. ASSUME conn' = conn, t' = t, freed' = freed, is_open' = is_open,
             pc' \notin {"idle", "connect"} => pc \notin {"idle", "connect"}
      PROVE  Held'
  BY <1>2 DEF Held
<1>3. ASSUME NEW part, ~freed, opened > 0, Whole(t, part) \/ Short(t) \/ Error(t),
             t' = t, freed' = freed, is_open' = is_open,
             pc' \notin {"idle", "connect"} => pc \notin {"idle", "connect"}
      PROVE  Held'
  <2>1. conn'[t].open = conn[t].open
    BY <1>1, <1>3, Written
  <2> QED
    BY <1>3, <2>1 DEF Held
<1>4. CASE OpenCall
  BY <1>2, <1>4 DEF OpenCall
<1>5. CASE Close
  <2>1. CASE is_open' = FALSE
    BY <1>5, <2>1 DEF Close, Held
  <2>2. CASE is_open' = is_open /\ conn' = conn
    BY <1>2, <1>5, <2>2 DEF Close
  <2> QED
    BY <1>5, <2>1, <2>2 DEF Close
<1>6. CASE Destroy
  BY <1>6 DEF Destroy, Held
<1>7. CASE Connect
  <2>1. opened' \in Handles /\ conn' = [conn EXCEPT ![opened'].open = TRUE]
    BY <1>1, <1>7, LifeAssumption DEF Connect, LifeInv, Lively, Handles
  <2>2. conn'[opened'].open
    BY <1>1, <2>1, SetOpen
  <2> QED
    BY <1>7, <2>2 DEF Connect, Held
<1>8. CASE ConnectFails
  BY <1>2, <1>8 DEF ConnectFails
<1>9. CASE Reset
  BY <1>2, <1>9 DEF Reset
<1>10. CASE SendHelloHeader
  <2>1. ~freed /\ opened > 0
    BY <1>10 DEF SendHelloHeader, LifeInv, Lively
  <2> QED
    BY <1>3, <1>10, <2>1 DEF SendHelloHeader
<1>11. CASE SendHelloBody
  <2>1. ~freed /\ opened > 0
    BY <1>11 DEF SendHelloBody, LifeInv, Lively
  <2> QED
    BY <1>3, <1>11, <2>1 DEF SendHelloBody
<1>12. CASE StartTimer
  BY <1>2, <1>12 DEF StartTimer
<1>13. CASE ReceiveHeader
  <2>1. ~freed /\ t \in Handles /\ conn' = [conn EXCEPT ![t].header = TRUE]
    BY <1>1, <1>13 DEF ReceiveHeader, LifeInv, Lively
  <2>2. conn'[t].open = conn[t].open
    BY <1>1, <2>1, SetHeader
  <2> QED
    BY <1>13, <2>2 DEF ReceiveHeader, Held
<1>14. CASE Second
  BY <1>2, <1>14 DEF Second
<1>15. CASE TimerCallback
  BY <1>2, <1>15 DEF TimerCallback, UseFreed
<1>16. CASE SendTimeHeader
  <2>1. CASE freed
    BY <1>2, <1>16, <2>1 DEF SendTimeHeader, UseFreed
  <2>2. CASE ~freed
    <3>1. opened > 0
      BY <1>1, <1>16 DEF SendTimeHeader, LifeInv, FirstHeader
    <3> QED
      BY <1>3, <1>16, <2>2, <3>1 DEF SendTimeHeader
  <2> QED
    BY <2>1, <2>2
<1>17. CASE SendTimeBody
  <2>1. CASE freed
    BY <1>2, <1>17, <2>1 DEF SendTimeBody, UseFreed
  <2>2. CASE ~freed
    <3>1. opened > 0
      BY <1>1, <1>17 DEF SendTimeBody, LifeInv, FirstHeader
    <3> QED
      BY <1>3, <1>17, <2>2, <3>1 DEF SendTimeBody
  <2> QED
    BY <2>1, <2>2
<1>18. CASE UNCHANGED vars
  BY <1>2, <1>18 DEF vars
<1> QED
  BY <1>4, <1>5, <1>6, <1>7, <1>8, <1>9, <1>10, <1>11, <1>12, <1>13, <1>14, <1>15, <1>16, <1>17,
     <1>18
  DEF Next, Framework, Opening, TimerTask

(* The element starts as a conversation that has not begun, and each of    *)
(* its steps is a step of a conversation or is not heard.                  *)
LEMMA InitConverses == Init => C!Init
<1> SUFFICES ASSUME Init PROVE C!Init
  OBVIOUS
<1>1. \A h \in Handles : ~conn[h].open /\ Heard(conn[h])
        = [wire |-> "nothing", greeted |-> FALSE, header |-> FALSE]
  BY DEF Init, Heard
<1>2. Talk = [h \in Handles |-> [wire |-> "nothing", greeted |-> FALSE, header |-> FALSE]]
  BY <1>1 DEF Talk
<1>3. At = 0 /\ opened = 0 /\ (faults = 0) = TRUE
  BY <1>1 DEF Init, At
<1> QED
  BY <1>2, <1>3 DEF C!Init, At, Talk, Heard, Handles

LEMMA StepConverses == LifeInv /\ LifeInv' /\ Held /\ Held' /\ [Next]_vars => [C!Next]_C!vars
<1> SUFFICES ASSUME LifeInv, LifeInv', Held, Held', [Next]_vars PROVE [C!Next]_C!vars
  OBVIOUS
<1> USE DEF struct, clock
<1>1. /\ conn \in [Handles -> Conn] /\ faults \in Nat
      /\ opened \in 0 .. MaxOpens
      /\ t = IF freed THEN 0 ELSE opened
      /\ ~freed /\ opened > 0 => t \in Handles
      /\ is_open => opened > 0
  BY Types, LifeAssumption DEF LifeInv, Lively, Counts, Handles
<1>2. At = (IF is_open /\ ~freed THEN t ELSE 0)
  BY TalksWith
<1>3. At' = (IF is_open' /\ ~freed' THEN t' ELSE 0)
  <2>1. (LifeInv /\ Held => At = (IF is_open /\ ~freed THEN t ELSE 0))'
    BY TalksWith, PTL
  <2> QED
    BY <2>1
<1>4. ASSUME conn' = conn, t' = t, opened' = opened, faults' = faults \/ Fault
      PROVE  [C!Next]_C!vars
  <2>1. Talk' = Talk /\ At' = At
    BY <1>4 DEF Talk, At, Handles, Heard
  <2> QED
    BY <1>1, <1>4, <2>1, Quiet
<1>5. CASE OpenCall
  BY <1>4, <1>5 DEF OpenCall
<1>6. CASE Close
  <2>1. CASE UNCHANGED <<is_open, conn>> /\ Fault
    BY <1>4, <1>6, <2>1 DEF Close
  <2>2. CASE is_open' = FALSE /\ conn' = [conn EXCEPT ![t].open = FALSE] /\ NoFault
    <3>1. t \in Handles /\ At = t /\ At' = 0
      BY <1>1, <1>2, <1>3, <1>6, <2>2 DEF Close
    <3>2. Talk' = Talk
      <4> DEFINE c == [conn[t] EXCEPT !.open = FALSE]
                 d == Talk[t]
      <4>1. conn[t] \in Conn /\ d = Heard(conn[t])
        BY <1>1, <3>1 DEF Talk
      <4>2. Heard(c) = Heard(conn[t])
        BY <4>1 DEF Heard, Conn
      <4>3. conn' = [conn EXCEPT ![t] = c]
        BY <2>2
      <4> HIDE DEF c, d
      <4>4. Talk' = [Talk EXCEPT ![t] = d]
        BY <1>1, <3>1, <4>1, <4>2, <4>3, OtherTalk
      <4> QED
        BY <4>4 DEF d, Talk
    <3>3. At # 0
      BY <3>1 DEF Handles
    <3> QED
      BY <1>6, <2>2, <3>1, <3>2, <3>3, LeaveStep DEF Close, NoFault
  <2> QED
    BY <1>6, <2>1, <2>2 DEF Close
<1>7. CASE Destroy
  <2>1. Talk' = Talk
    <3>1. ASSUME NEW h \in Handles
          PROVE  /\ conn'[h].wire = conn[h].wire
                 /\ conn'[h].greeted = conn[h].greeted
                 /\ conn'[h].header = conn[h].header
      <4>1. conn[h] \in Conn
        BY <1>1
      <4>2. conn'[h] = IF h = t THEN [conn[h] EXCEPT !.open = FALSE] ELSE conn[h]
        BY <1>7 DEF Destroy
      <4> QED
        BY <4>1, <4>2 DEF Conn
    <3> QED
      BY <3>1, SameTalk
  <2>2. At' = 0 /\ opened' = opened /\ faults' = faults
    BY <1>3, <1>7 DEF Destroy
  <2>3. CASE At = 0
    BY <1>1, <2>1, <2>2, <2>3, Quiet
  <2>4. CASE At # 0
    BY <2>1, <2>2, <2>4, LeaveStep
  <2> QED
    BY <2>3, <2>4
<1>8. CASE Connect
  <2>1. opened' \in Handles /\ conn' = [conn EXCEPT ![opened'].open = TRUE]
    BY <1>1, <1>8, LifeAssumption DEF Connect, LifeInv, Lively, Handles
  <2>2. Talk' = Talk
    <3> DEFINE g == opened'
    <3>1. \A h \in Handles : /\ conn'[h].wire = conn[h].wire
                             /\ conn'[h].greeted = conn[h].greeted
                             /\ conn'[h].header = conn[h].header
      <4> SUFFICES ASSUME NEW h \in Handles
                   PROVE  /\ conn'[h].wire = conn[h].wire
                          /\ conn'[h].greeted = conn[h].greeted
                          /\ conn'[h].header = conn[h].header
        OBVIOUS
      <4>1. conn[h] \in Conn
        BY <1>1
      <4>2. conn'[h] = IF h = g THEN [conn[h] EXCEPT !.open = TRUE] ELSE conn[h]
        BY <1>1, <2>1
      <4> HIDE DEF g
      <4> QED
        BY <4>1, <4>2 DEF Conn
    <3> QED
      BY <3>1, SameTalk
  <2>3. At = 0 /\ opened < MaxOpens
    BY <1>2, <1>8 DEF Connect, LifeInv, Lively
  <2>4. At' = opened' /\ opened' = opened + 1 /\ faults' = faults
    BY <1>3, <1>8 DEF Connect, LifeInv, Lively
  <2> QED
    BY <2>2, <2>3, <2>4, MeetStep
<1>9. CASE ConnectFails
  BY <1>4, <1>9 DEF ConnectFails
<1>10. CASE Reset
  BY <1>4, <1>10 DEF Reset, NoFault
<1>11. CASE SendHelloHeader
  <2>1. t \in Handles /\ t = opened
    BY <1>1, <1>11 DEF SendHelloHeader, LifeInv, Lively
  <2>2. opened = 1 /\ faults = 0 /\ conn[1].open => InTurn("helloHeader")
    BY <1>11 DEF SendHelloHeader, LifeInv, FirstWire, InTurn
  <2> QED
    BY <1>11, <2>1, <2>2, WriteStep DEF SendHelloHeader
<1>12. CASE SendHelloBody
  <2>1. t \in Handles /\ t = opened
    BY <1>1, <1>12 DEF SendHelloBody, LifeInv, Lively
  <2>2. opened = 1 /\ faults = 0 /\ conn[1].open => InTurn("helloBody")
    BY <1>12 DEF SendHelloBody, LifeInv, FirstWire, InTurn
  <2> QED
    BY <1>12, <2>1, <2>2, WriteStep DEF SendHelloBody
<1>13. CASE StartTimer
  BY <1>4, <1>13 DEF StartTimer, NoFault
<1>14. CASE ReceiveHeader
  <2>1. is_open /\ ~freed /\ t \in Handles /\ conn[t].greeted
    BY <1>1, <1>14 DEF ReceiveHeader, LifeInv, Lively, Held
  <2>2. At = t /\ At # 0 /\ At' = At
    BY <1>2, <1>3, <1>14, <2>1 DEF ReceiveHeader, Handles
  <2>3. Talk[t].greeted
    BY <2>1 DEF Talk, Heard
  <2>4. Talk' = [Talk EXCEPT ![t].header = TRUE]
    BY <1>1, <1>14, <2>1, Answered DEF ReceiveHeader
  <2> QED
    BY <1>14, <2>2, <2>3, <2>4, AnswerStep DEF ReceiveHeader
<1>15. CASE Second
  BY <1>4, <1>15 DEF Second
<1>16. CASE TimerCallback
  BY <1>4, <1>16 DEF TimerCallback, UseFreed, NoFault
<1>17. CASE SendTimeHeader
  <2>1. CASE freed
    BY <1>4, <1>17, <2>1 DEF SendTimeHeader, UseFreed
  <2>2. CASE ~freed
    <3>1. t \in Handles /\ t = opened /\ tm = "header"
      BY <1>1, <1>17, <2>2 DEF SendTimeHeader, LifeInv, FirstHeader
    <3>2. opened = 1 /\ faults = 0 /\ conn[1].open => InTurn("timeHeader")
      <4> SUFFICES ASSUME opened = 1, faults = 0, conn[1].open
                   PROVE  conn[1].wire = "ready" /\ conn[1].header
        BY DEF InTurn
      <4>1. conn[1].header
        BY <3>1 DEF LifeInv, FirstHeader
      <4>2. pc \in {"start", "running"}
        BY <4>1 DEF LifeInv, FirstWire, TypeOK
      <4> QED
        BY <3>1, <4>1, <4>2 DEF LifeInv, FirstWire
    <3> QED
      BY <1>17, <2>2, <3>1, <3>2, WriteStep DEF SendTimeHeader
  <2> QED
    BY <2>1, <2>2
<1>18. CASE SendTimeBody
  <2>1. CASE freed
    BY <1>4, <1>18, <2>1 DEF SendTimeBody, UseFreed
  <2>2. CASE ~freed
    <3>1. t \in Handles /\ t = opened /\ tm = "body"
      BY <1>1, <1>18, <2>2 DEF SendTimeBody, LifeInv, FirstHeader
    <3>2. opened = 1 /\ faults = 0 /\ conn[1].open => InTurn("timeBody")
      <4> SUFFICES ASSUME opened = 1, faults = 0, conn[1].open
                   PROVE  conn[1].wire = "timeHeader" /\ conn[1].header
        BY DEF InTurn
      <4>1. conn[1].header
        BY <3>1 DEF LifeInv, FirstHeader
      <4>2. pc \in {"start", "running"}
        BY <4>1 DEF LifeInv, FirstWire, TypeOK
      <4> QED
        BY <3>1, <4>1, <4>2 DEF LifeInv, FirstWire
    <3> QED
      BY <1>18, <2>2, <3>1, <3>2, WriteStep DEF SendTimeBody
  <2> QED
    BY <2>1, <2>2
<1>19. CASE UNCHANGED vars
  BY <1>4, <1>19 DEF vars
<1> QED
  BY <1>5, <1>6, <1>7, <1>8, <1>9, <1>10, <1>11, <1>12, <1>13, <1>14, <1>15, <1>16, <1>17,
     <1>18, <1>19
  DEF Next, Framework, Opening, TimerTask

(* What the servers see of the two unsynchronised tasks is a conversation: *)
(* one server at a time and no return to an earlier one, no codec header   *)
(* before a Hello, and with the first server, while no call has failed, a  *)
(* Hello and then Time messages, each only after the codec header.         *)
THEOREM TasksConverse == Spec => Converses
<1>1. Init => C!Init
  BY InitConverses
<1>2. Spec => []Held
  BY LifeInvariant, InitHeld, StepHeld, PTL DEF Spec
<1>3. LifeInv /\ LifeInv' /\ Held /\ Held' /\ [Next]_vars => [C!Next]_C!vars
  BY StepConverses
<1> QED
  BY <1>1, <1>2, <1>3, LifeInvariant, PTL DEF Spec, Converses, C!Spec
=============================================================================
