------------------------------ MODULE Service ------------------------------
(***************************************************************************)
(* What the snapclient element promises over successive connections: on    *)
(* each of them what Delivery promises of one, beginning with the first    *)
(* message of its server and owing nothing to the servers before.  Between *)
(* two connections, and once the framing of one is lost, it promises       *)
(* nothing (lost) until the next one begins.                               *)
(***************************************************************************)
EXTENDS Delivery

(* No server has been met. *)
ServiceInit ==
  /\ stream \in Streams
  /\ handled = 0
  /\ received_header = FALSE
  /\ codec = NoCodec
  /\ latency = 0
  /\ out = <<>>
  /\ lost = TRUE

(* A connection begins: nothing was received from its server.  The codec   *)
(* announced to the pipeline and the samples it was given remain.          *)
Begin ==
  /\ lost /\ ~lost'
  /\ stream' \in Streams
  /\ handled' = 0
  /\ received_header' = FALSE
  /\ latency' = 0
  /\ UNCHANGED <<codec, out>>

Between == lost /\ lost'

ServiceNext == Begin \/ Deliver \/ Lose \/ Between

ServiceSpec == ServiceInit /\ [][ServiceNext]_vars
=============================================================================
