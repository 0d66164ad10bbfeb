---------------------------- MODULE HelloProofs ----------------------------
(***************************************************************************)
(* Proofs about Hello, for every number of fields and of failing           *)
(* allocations.                                                            *)
(***************************************************************************)
EXTENDS Hello, FiniteSetTheorems, TLAPS

(* The object is being built: of the first n fields, one is missing for    *)
(* each allocation that failed.                                            *)
Building(n) ==
  /\ heap = {"json"} /\ text = {} /\ result = "none"
  /\ attached \subseteq 1 .. n
  /\ Cardinality((1 .. n) \ attached) = faults

(* What holds at each call.  An object that was deleted on the way is only *)
(* ever printed.                                                           *)
AtObject ==
  pc = "object" =>
    /\ i = 1 /\ heap = {} /\ items = {} /\ attached = {} /\ text = {}
    /\ result = "none" /\ faults = 0

AtField == pc = "field" => i <= Fields /\ items = 1 .. i - 1 /\ Building(i - 1)

AtAttach == pc = "attach" => i <= Fields /\ items = 1 .. i /\ Building(i - 1)

AtPrint == pc = "print" /\ "json" \in heap => items = AllFields /\ Building(Fields)

AtDelete ==
  pc = "delete" =>
    /\ heap = {"json", "str"} /\ items = AllFields /\ text = attached
    /\ Cardinality(AllFields \ text) = faults

AtPrefix ==
  pc = "prefix" =>
    /\ heap = {"str"} /\ items = AllFields \ text /\ Cardinality(items) = faults
    /\ attached = {}

AtWrite ==
  pc = "write" =>
    /\ heap = {"bytes"} /\ items = AllFields \ text /\ Cardinality(items) = faults
    /\ result = "bytes"

(* The inductive invariant: the fields not attached are as many as the     *)
(* faults, from the first field to the last byte.                          *)
HelloInv ==
  /\ TypeOK
  /\ AtObject /\ AtField /\ AtAttach /\ AtPrint /\ AtDelete /\ AtPrefix /\ AtWrite
  /\ SentHelloClean /\ FailedHelloBounded

-----------------------------------------------------------------------------
(* A field that was made and not attached counts as one more missing. *)
LEMMA OneMoreMissing ==
  ASSUME NEW n \in Nat \ {0}, NEW A, A \subseteq 1 .. n - 1
  PROVE  /\ A \subseteq 1 .. n
         /\ Cardinality((1 .. n) \ A) = Cardinality((1 .. n - 1) \ A) + 1
<1> DEFINE missing == (1 .. n - 1) \ A
<1>1. IsFiniteSet(missing)
  <2>1. IsFiniteSet(1 .. n - 1)
    BY FS_Interval
  <2> QED BY <2>1, FS_Subset
<1>2. n \notin missing /\ (1 .. n) \ A = missing \cup {n}
  OBVIOUS
<1> HIDE DEF missing
<1>3. Cardinality(missing \cup {n}) = Cardinality(missing) + 1
  BY <1>1, <1>2, FS_AddElement
<1> QED BY <1>2, <1>3 DEF missing

(* One that is attached does not. *)
LEMMA NoneMoreMissing ==
  ASSUME NEW n \in Nat \ {0}, NEW A, A \subseteq 1 .. n - 1
  PROVE  /\ A \cup {n} \subseteq 1 .. n
         /\ (1 .. n) \ (A \cup {n}) = (1 .. n - 1) \ A
OBVIOUS

(* Nothing is missing from no fields. *)
LEMMA NothingMissing == Cardinality((1 .. 0) \ {}) = 0
BY FS_EmptySet

-----------------------------------------------------------------------------
(* Before the first call nothing is allocated. *)
LEMMA InitHello == Init => HelloInv
BY HelloAssumption
DEF Init, HelloInv, TypeOK, AllFields, AtObject, AtField, AtAttach, AtPrint, AtDelete,
    AtPrefix, AtWrite, SentHelloClean, FailedHelloBounded

(* Every call preserves the invariant. *)
LEMMA StepHello == HelloInv /\ [Next]_vars => HelloInv'
<1> SUFFICES ASSUME HelloInv, [Next]_vars PROVE HelloInv'
  OBVIOUS
<1> USE HelloAssumption
<1>0. TypeOK /\ faults \in Nat /\ i \in Nat
  BY DEF HelloInv, TypeOK
<1>1. CASE CreateObject
  <2>1. /\ pc = "object" /\ i = 1 /\ items = {} /\ attached = {} /\ text = {}
        /\ heap = {} /\ result = "none" /\ faults = 0
        /\ i' = 1 /\ items' = {} /\ attached' = {} /\ text' = {}
    BY <1>1 DEF HelloInv, AtObject, CreateObject
  <2>2. CASE pc' = "field"
    <3>1. heap' = {"json"} /\ faults' = 0 /\ result' = "none"
      BY <1>1, <2>1, <2>2 DEF CreateObject, GiveUp, NoFault
    <3>2. Building(0)'
      BY <2>1, <3>1, NothingMissing DEF Building
    <3>3. AtField'
      BY <2>1, <3>2 DEF AtField
    <3>4. TypeOK'
      BY <1>0, <2>1, <2>2, <3>1 DEF TypeOK, AllFields
    <3> QED BY <2>2, <3>3, <3>4
            DEF HelloInv, AtObject, AtAttach, AtPrint, AtDelete, AtPrefix, AtWrite,
                SentHelloClean, FailedHelloBounded
  <2>3. CASE pc' # "field"
    <3>1. pc' = "done" /\ heap' = {} /\ result' = "NULL" /\ faults' \in 0 .. MaxFaults
      BY <1>0, <1>1, <2>1, <2>3 DEF CreateObject, GiveUp, Fault
    <3>2. TypeOK'
      BY <1>0, <2>1, <3>1 DEF TypeOK, AllFields
    <3> QED BY <2>1, <3>1, <3>2
            DEF HelloInv, AtObject, AtField, AtAttach, AtPrint, AtDelete, AtPrefix, AtWrite,
                SentHelloClean, FailedHelloBounded
  <2> QED BY <2>2, <2>3
<1>2. CASE CreateField
  <2>1. /\ i <= Fields /\ items = 1 .. i - 1 /\ Building(i - 1)
        /\ pc' = "attach" /\ items' = items \cup {i}
        /\ UNCHANGED <<i, heap, attached, text, result, faults>>
    BY <1>2 DEF HelloInv, AtField, CreateField, NoFault
  <2>2. items' = 1 .. i
    BY <1>0, <2>1 DEF TypeOK
  <2>3. Building(i - 1)'
    BY <2>1 DEF Building
  <2>4. TypeOK'
    BY <1>0, <2>1, <2>2 DEF TypeOK, AllFields
  <2> QED BY <2>1, <2>2, <2>3, <2>4
          DEF HelloInv, AtObject, AtField, AtAttach, AtPrint, AtDelete, AtPrefix, AtWrite,
              SentHelloClean, FailedHelloBounded
<1>3. CASE FieldFails
  <2>1. /\ heap' = heap \ {"json"} /\ items' = items \ attached /\ attached' = {}
        /\ pc' = "print" /\ faults' \in 0 .. MaxFaults /\ UNCHANGED <<i, text, result>>
    BY <1>0, <1>3 DEF FieldFails, DeleteObject, Fault
  <2>2. TypeOK'
    BY <1>0, <2>1 DEF TypeOK
  <2> QED BY <2>1, <2>2
          DEF HelloInv, AtObject, AtField, AtAttach, AtPrint, AtDelete, AtPrefix, AtWrite,
              SentHelloClean, FailedHelloBounded
<1>4. CASE AttachField
  <2>1. /\ i <= Fields /\ items = 1 .. i /\ Building(i - 1)
        /\ i' = i + 1 /\ pc' = IF i = Fields THEN "print" ELSE "field"
        /\ UNCHANGED <<heap, items, text, result>>
    BY <1>4 DEF HelloInv, AtAttach, AttachField
  <2>2. i \in Nat \ {0} /\ attached \subseteq 1 .. i - 1
    BY <1>0, <2>1 DEF TypeOK, Building
  <2>3. /\ heap' = {"json"} /\ text' = {} /\ result' = "none" /\ i' - 1 = i
    BY <1>0, <2>1 DEF Building
  <2>4. /\ attached' \subseteq 1 .. i /\ faults' \in 0 .. MaxFaults
        /\ Cardinality((1 .. i) \ attached') = faults'
    <3>1. Cardinality((1 .. i - 1) \ attached) = faults
      BY <2>1 DEF Building
    <3>2. CASE NoFault /\ attached' = attached \cup {i}
      <4>1. /\ attached' \subseteq 1 .. i
            /\ (1 .. i) \ attached' = (1 .. i - 1) \ attached
        BY <2>2, <3>2, NoneMoreMissing
      <4> QED BY <1>0, <3>1, <3>2, <4>1 DEF NoFault, TypeOK
    <3>3. CASE Fault /\ UNCHANGED attached
      <4>1. /\ attached \subseteq 1 .. i
            /\ Cardinality((1 .. i) \ attached) = Cardinality((1 .. i - 1) \ attached) + 1
        BY <2>2, OneMoreMissing
      <4> QED BY <1>0, <3>1, <3>3, <4>1 DEF Fault
    <3> QED BY <1>4, <3>2, <3>3 DEF AttachField
  <2>5. TypeOK'
    BY <1>0, <2>1, <2>3, <2>4 DEF TypeOK, AllFields
  <2>6. CASE i = Fields
    <3>1. pc' = "print" /\ items' = AllFields /\ Building(Fields)'
      BY <2>1, <2>3, <2>4, <2>6 DEF Building, AllFields
    <3> QED BY <2>5, <3>1
            DEF HelloInv, AtObject, AtField, AtAttach, AtPrint, AtDelete, AtPrefix, AtWrite,
                SentHelloClean, FailedHelloBounded
  <2>7. CASE i # Fields
    <3>1. pc' = "field" /\ i' <= Fields /\ items' = 1 .. i' - 1
      BY <1>0, <2>1, <2>3, <2>7
    <3>2. Building(i - 1)'
      BY <2>3, <2>4 DEF Building
    <3> QED BY <2>5, <3>1, <3>2
            DEF HelloInv, AtObject, AtField, AtAttach, AtPrint, AtDelete, AtPrefix, AtWrite,
                SentHelloClean, FailedHelloBounded
  <2> QED BY <2>6, <2>7
<1>5. CASE PrintJson
  <2>1. /\ items = AllFields /\ Building(Fields)
        /\ UNCHANGED <<i, items, attached>>
    BY <1>5 DEF HelloInv, AtPrint, PrintJson
  <2>2. /\ heap = {"json"} /\ text = {} /\ result = "none"
        /\ Cardinality(AllFields \ attached) = faults
    BY <2>1 DEF Building, AllFields
  <2>3. CASE pc' = "delete"
    <3>1. /\ heap' = {"json", "str"} /\ text' = attached /\ faults' = faults
          /\ UNCHANGED result
      BY <1>5, <2>2, <2>3 DEF PrintJson, NoFault, GiveUp
    <3>2. TypeOK'
      BY <1>0, <2>1, <2>3, <3>1 DEF TypeOK
    <3> QED BY <2>1, <2>2, <2>3, <3>1, <3>2
            DEF HelloInv, AtObject, AtField, AtAttach, AtPrint, AtDelete, AtPrefix, AtWrite,
                SentHelloClean, FailedHelloBounded, AllFields
  <2>4. CASE pc' # "delete"
    <3>1. /\ pc' = "done" /\ result' = "NULL" /\ UNCHANGED <<heap, text>>
          /\ faults' \in 0 .. MaxFaults
      BY <1>0, <1>5, <2>4 DEF PrintJson, Fault, GiveUp
    <3>2. TypeOK'
      BY <1>0, <2>1, <3>1 DEF TypeOK
    <3> QED BY <2>1, <2>2, <3>1, <3>2
            DEF HelloInv, AtObject, AtField, AtAttach, AtPrint, AtDelete, AtPrefix, AtWrite,
                SentHelloClean, FailedHelloBounded, AllFields
  <2> QED BY <2>3, <2>4
<1>6. CASE PrintFreed
  <2>1. pc' = "undefined" /\ UNCHANGED <<i, heap, items, attached, text, result, faults>>
    BY <1>6 DEF PrintFreed
  <2>2. TypeOK'
    BY <1>0, <2>1 DEF TypeOK
  <2> QED BY <2>1, <2>2
          DEF HelloInv, AtObject, AtField, AtAttach, AtPrint, AtDelete, AtPrefix, AtWrite,
              SentHelloClean, FailedHelloBounded
<1>7. CASE DeleteJson
  <2>1. /\ heap = {"json", "str"} /\ items = AllFields /\ text = attached
        /\ Cardinality(AllFields \ text) = faults
        /\ pc' = "prefix" /\ UNCHANGED <<i, text, result, faults>>
        /\ heap' = heap \ {"json"} /\ items' = items \ attached /\ attached' = {}
    BY <1>7 DEF HelloInv, AtDelete, DeleteJson, DeleteObject
  <2>2. heap' = {"str"} /\ items' = AllFields \ text'
    BY <2>1
  <2>3. TypeOK'
    BY <1>0, <2>1, <2>2 DEF TypeOK
  <2> QED BY <2>1, <2>2, <2>3
          DEF HelloInv, AtObject, AtField, AtAttach, AtPrint, AtDelete, AtPrefix, AtWrite,
              SentHelloClean, FailedHelloBounded, AllFields
<1>8. CASE Prefix
  <2>1. /\ heap = {"str"} /\ items = AllFields \ text /\ Cardinality(items) = faults
        /\ UNCHANGED <<i, items, attached, text>>
    BY <1>8 DEF HelloInv, AtPrefix, Prefix
  <2>2. CASE pc' = "write"
    <3>1. heap' = {"bytes"} /\ result' = "bytes" /\ faults' = faults
      BY <1>8, <2>1, <2>2 DEF Prefix, NoFault, GiveUp
    <3>2. TypeOK'
      BY <1>0, <2>1, <2>2, <3>1 DEF TypeOK
    <3> QED BY <2>1, <2>2, <3>1, <3>2
            DEF HelloInv, AtObject, AtField, AtAttach, AtPrint, AtDelete, AtPrefix, AtWrite,
                SentHelloClean, FailedHelloBounded, AllFields
  <2>3. CASE pc' # "write"
    <3>1. /\ pc' = "done" /\ result' = "NULL" /\ heap' = heap /\ faults' \in 0 .. MaxFaults
      BY <1>0, <1>8, <2>3 DEF Prefix, Fault, GiveUp
    <3>2. TypeOK'
      BY <1>0, <2>1, <3>1 DEF TypeOK
    <3> QED BY <2>1, <3>1, <3>2
            DEF HelloInv, AtObject, AtField, AtAttach, AtPrint, AtDelete, AtPrefix, AtWrite,
                SentHelloClean, FailedHelloBounded, AllFields
  <2> QED BY <2>2, <2>3
<1>9. CASE WriteAndFree
  <2>1. /\ heap = {"bytes"} /\ items = AllFields \ text /\ Cardinality(items) = faults
        /\ result = "bytes" /\ heap' = heap \ {"bytes"} /\ pc' = "done"
        /\ UNCHANGED <<i, items, attached, text, result, faults>>
    BY <1>9 DEF HelloInv, AtWrite, WriteAndFree
  <2>2. TypeOK'
    BY <1>0, <2>1 DEF TypeOK
  <2> QED BY <2>1, <2>2
          DEF HelloInv, AtObject, AtField, AtAttach, AtPrint, AtDelete, AtPrefix, AtWrite,
              SentHelloClean, FailedHelloBounded, AllFields
<1>10. CASE UNCHANGED vars
  BY <1>10
  DEF vars, HelloInv, TypeOK, Building, AtObject, AtField, AtAttach, AtPrint, AtDelete,
      AtPrefix, AtWrite, SentHelloClean, FailedHelloBounded, AllFields
<1> QED BY <1>1, <1>2, <1>3, <1>4, <1>5, <1>6, <1>7, <1>8, <1>9, <1>10 DEF Next

(* The invariant holds in every reachable state. *)
THEOREM HelloInvariant == Spec => []HelloInv
BY InitHello, StepHello, PTL DEF Spec

(* The variables have their types. *)
THEOREM HelloTyped == Spec => []TypeOK
<1>1. HelloInv => TypeOK
  BY DEF HelloInv
<1> QED BY <1>1, HelloInvariant, PTL

(* A Hello that is sent lacks one field for each allocation that failed,   *)
(* and nothing but those fields is left of it.                             *)
THEOREM SentClean == Spec => []SentHelloClean
<1>1. HelloInv => SentHelloClean
  BY DEF HelloInv
<1> QED BY <1>1, HelloInvariant, PTL

(* An open that gives up before the Hello leaves no more than one object,  *)
(* or one text, and the fields that were never attached.                   *)
THEOREM FailedBounded == Spec => []FailedHelloBounded
<1>1. HelloInv => FailedHelloBounded
  BY DEF HelloInv
<1> QED BY <1>1, HelloInvariant, PTL
=============================================================================
