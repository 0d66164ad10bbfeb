------------------------------- MODULE Hello -------------------------------
(***************************************************************************)
(* How _snapclient_open gets its Hello message                             *)
(* (components/lightsnapcast/snapcast.c): hello_message_to_json builds a   *)
(* JSON object field by field, hello_message_serialize prints it and puts  *)
(* the length in front of the text, open writes the bytes and frees them.  *)
(* Every allocation may fail.                                              *)
(***************************************************************************)
EXTENDS Naturals, FiniteSets

CONSTANTS
  Fields,      \* how many fields the object gets
  MaxFaults    \* bound on failing allocations

ASSUME HelloAssumption == Fields \in Nat \ {0} /\ MaxFaults \in Nat

VARIABLES
  pc,        \* the next call: "object", "field", "attach", "print", "delete",
             \* "prefix", "write"; "done" after open, "undefined" after a use
             \* of freed memory
  i,         \* the field being made
  heap,      \* live allocations besides the fields: "json", "str", "bytes"
  items,     \* the fields that are allocated
  attached,  \* those that belong to the object
  text,      \* the fields that were printed
  result,    \* what hello_message_serialize returned: "none" yet, "NULL" or "bytes"
  faults

vars == <<pc, i, heap, items, attached, text, result, faults>>

Init ==
  /\ pc = "object"
  /\ i = 1
  /\ heap = {}
  /\ items = {}
  /\ attached = {}
  /\ text = {}
  /\ result = "none"
  /\ faults = 0

Fault   == faults < MaxFaults /\ faults' = faults + 1
NoFault == faults' = faults

(* cJSON_Delete frees the object with what is attached to it. *)
DeleteObject ==
  /\ heap' = heap \ {"json"}
  /\ items' = items \ attached
  /\ attached' = {}

(* hello_message_serialize returns NULL and open gives up. *)
GiveUp == pc' = "done" /\ result' = "NULL"

CreateObject ==
  /\ pc = "object"
  /\ \/ NoFault /\ heap' = {"json"} /\ pc' = "field" /\ UNCHANGED result
     \/ Fault /\ GiveUp /\ UNCHANGED heap
  /\ UNCHANGED <<i, items, attached, text>>

CreateField ==
  /\ pc = "field"
  /\ NoFault
  /\ items' = items \cup {i}
  /\ pc' = "attach"
  /\ UNCHANGED <<i, heap, attached, text, result>>

(* Mutant of FieldFails: the object that was made so far is not deleted. *)
FieldFailsUndeleted ==
  /\ pc = "field"
  /\ Fault
  /\ GiveUp
  /\ UNCHANGED <<i, heap, items, attached, text>>

(* Mutant of FieldFails: a field is attached unseen, made or not. *)
FieldFailsUnseen ==
  /\ pc = "field"
  /\ Fault
  /\ attached' = attached \cup {i}
  /\ i' = i + 1
  /\ pc' = IF i = Fields THEN "print" ELSE "field"
  /\ UNCHANGED <<heap, items, text, result>>

(* The object is deleted, and its address is returned all the same. *)
FieldFails ==
  /\ pc = "field"
  /\ Fault
  /\ DeleteObject
  /\ pc' = "print"
  /\ UNCHANGED <<i, text, result>>

(* cJSON_AddItemToObject copies the key; its result is not looked at.      *)
AttachField ==
  /\ pc = "attach"
  /\ \/ NoFault /\ attached' = attached \cup {i}
     \/ Fault /\ UNCHANGED attached
  /\ i' = i + 1
  /\ pc' = IF i = Fields THEN "print" ELSE "field"
  /\ UNCHANGED <<heap, items, text, result>>

PrintJson ==
  /\ pc = "print"
  /\ "json" \in heap
  /\ \/ NoFault /\ heap' = heap \cup {"str"} /\ text' = attached /\ pc' = "delete"
        /\ UNCHANGED result
     \/ Fault /\ GiveUp /\ UNCHANGED <<heap, text>>
  /\ UNCHANGED <<i, items, attached>>

PrintFreed ==
  /\ pc = "print"
  /\ "json" \notin heap
  /\ pc' = "undefined"
  /\ UNCHANGED <<i, heap, items, attached, text, result, faults>>

DeleteJson ==
  /\ pc = "delete"
  /\ DeleteObject
  /\ pc' = "prefix"
  /\ UNCHANGED <<i, text, result, faults>>

(* Mutant of Prefix: the printed text is not freed. *)
PrefixKeepingText ==
  /\ pc = "prefix"
  /\ \/ NoFault /\ heap' = heap \cup {"bytes"} /\ pc' = "write" /\ result' = "bytes"
     \/ Fault /\ GiveUp /\ UNCHANGED heap
  /\ UNCHANGED <<i, items, attached, text>>

(* The text is copied behind its length and freed; without memory for the  *)
(* copy it is left behind.                                                 *)
Prefix ==
  /\ pc = "prefix"
  /\ \/ NoFault /\ heap' = (heap \ {"str"}) \cup {"bytes"} /\ pc' = "write"
        /\ result' = "bytes"
     \/ Fault /\ GiveUp /\ UNCHANGED heap
  /\ UNCHANGED <<i, items, attached, text>>

(* open writes the bytes and frees them, whether or not a write fails.     *)
WriteAndFree ==
  /\ pc = "write"
  /\ heap' = heap \ {"bytes"}
  /\ pc' = "done"
  /\ UNCHANGED <<i, items, attached, text, result, faults>>

Next ==
  \/ CreateObject
  \/ CreateField \/ FieldFails \/ AttachField
  \/ PrintJson \/ PrintFreed
  \/ DeleteJson
  \/ Prefix
  \/ WriteAndFree

Spec == Init /\ [][Next]_vars

-----------------------------------------------------------------------------
AllFields == 1 .. Fields

(* Types of the variables. *)
TypeOK ==
  /\ pc \in {"object", "field", "attach", "print", "delete", "prefix", "write",
             "done", "undefined"}
  /\ i \in 1 .. Fields + 1
  /\ heap \subseteq {"json", "str", "bytes"}
  /\ items \subseteq AllFields /\ attached \subseteq items /\ text \subseteq AllFields
  /\ result \in {"none", "NULL", "bytes"}
  /\ faults \in 0 .. MaxFaults

(***************************************************************************)
(* A Hello that is sent lacks only fields whose key found no memory, one   *)
(* for each failed allocation, and those fields are all it leaves on the   *)
(* heap: the object, its text and the bytes are freed exactly once.        *)
(***************************************************************************)
SentHelloClean ==
  pc = "done" /\ result = "bytes" =>
    /\ heap = {}
    /\ items = AllFields \ text
    /\ Cardinality(items) = faults

(* An open that gives up leaves behind whole generations only: nothing, or *)
(* the object with every field, or the printed text, and besides them only *)
(* fields that were never attached.  (A field that finds no memory does    *)
(* not make open give up: pc is then "undefined", and nothing is claimed.) *)
FailedHelloBounded ==
  pc = "done" /\ result = "NULL" =>
    \/ heap = {} /\ items = {}
    \/ heap = {"json"} /\ items = AllFields
    \/ heap = {"str"} /\ items = AllFields \ text
=============================================================================
