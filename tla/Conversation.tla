--------------------------- MODULE Conversation ---------------------------
(***************************************************************************)
(* What servers see of the snapclient element.  It meets one server at a   *)
(* time and never comes back to one it has left.  The first one, as long   *)
(* as no call fails, hears a Hello, and after it has sent a codec header   *)
(* whole Time messages.  Later ones may be disturbed by the timers of the  *)
(* earlier ones.                                                           *)
(***************************************************************************)
EXTENDS Naturals

CONSTANT MaxOpens   \* bound on the servers that are met

VARIABLES
  met,    \* how many servers have been met
  at,     \* the one the element talks with, 0 for none
  talk,   \* what was said with each
  firm    \* no call has failed

vars == <<met, at, talk, firm>>

Wires == {"nothing", "helloHeader", "ready", "timeHeader", "garbled"}

Init ==
  /\ met = 0
  /\ at = 0
  /\ talk = [h \in 1 .. MaxOpens |->
               [wire |-> "nothing", greeted |-> FALSE, header |-> FALSE]]
  /\ firm = TRUE

Meet ==
  /\ at = 0
  /\ met < MaxOpens
  /\ met' = met + 1
  /\ at' = met'
  /\ UNCHANGED <<talk, firm>>

Leave ==
  /\ at # 0
  /\ at' = 0
  /\ UNCHANGED <<met, talk, firm>>

(* The bytes the server has got now make up this.  It has been greeted     *)
(* once they were a whole Hello.                                           *)
Say(wire) ==
  /\ talk' = [talk EXCEPT ![at].wire = wire, ![at].greeted = @ \/ wire = "ready"]
  /\ UNCHANGED <<met, at>>

Greet ==
  /\ at # 0
  /\ \/ talk[at].wire = "nothing" /\ Say("helloHeader")
     \/ talk[at].wire = "helloHeader" /\ Say("ready")
  /\ UNCHANGED firm

AskTime ==
  /\ at # 0
  /\ talk[at].header
  /\ \/ talk[at].wire = "ready" /\ Say("timeHeader")
     \/ talk[at].wire = "timeHeader" /\ Say("ready")
  /\ UNCHANGED firm

(* Anything may be said to later servers, and when a call has failed.      *)
Disturb ==
  /\ at # 0
  /\ met > 1 \/ ~firm'
  /\ \E wire \in Wires : Say(wire)
  /\ firm' => firm

(* A server that was greeted sends a codec header. *)
Answer ==
  /\ at # 0
  /\ talk[at].greeted
  /\ talk' = [talk EXCEPT ![at].header = TRUE]
  /\ UNCHANGED <<met, at, firm>>

Fail ==
  /\ firm' = FALSE
  /\ UNCHANGED <<met, at, talk>>

Next == Meet \/ Leave \/ Greet \/ AskTime \/ Disturb \/ Answer \/ Fail

Spec == Init /\ [][Next]_vars
=============================================================================
