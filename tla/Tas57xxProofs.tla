--------------------------- MODULE Tas57xxProofs ---------------------------
(***************************************************************************)
(* Proofs about Tas57xx, for every chip, set of volumes, power-on value    *)
(* and number of failing transfers.                                        *)
(***************************************************************************)
EXTENDS Tas57xx, FiniteSetTheorems, TLAPS

(* The types, apart: what the driver holds, and what the chip holds.       *)
DriverTypes ==
  /\ chip \in Chips
  /\ board \in {"none", "noHal", "ready"}
  /\ addr \in -1 .. 3
  /\ faults \in 0 .. MaxFaults

ChipTypes ==
  /\ loaded \subseteq Entries
  /\ volL \in 0 .. 255 /\ volR \in 0 .. 255
  /\ mute \in BOOLEAN

Reported == last.ret \in {ESP_OK, ESP_FAIL}

DriverInv == DriverTypes /\ ChipTypes /\ Reported /\ ReadyHasChip /\ OkMeansWritten

(* There are eight entries, each a register and a byte.                    *)
LEMMA EightEntries ==
  /\ Entries = 1 .. 8
  /\ \A e \in Entries : tas57xx_init_seq[e][2] \in 0 .. 255
  /\ Len(tas57xx_init_seq) = 8
BY DEF Entries, tas57xx_init_seq

(* A set of transfers of a call is finite.                                 *)
LEMMA FiniteFailures ==
  /\ IsFiniteSet(Entries) /\ IsFiniteSet({"L", "R"}) /\ IsFiniteSet({"read", "write"})
  /\ IsFiniteSet({"read"}) /\ IsFiniteSet({"bus"}) /\ IsFiniteSet({"calloc"})
  /\ IsFiniteSet({chip} \cap 0 .. 3)
<1>1. IsFiniteSet(Entries)
  <2>1. IsFiniteSet(1 .. 8)
    BY FS_Interval, 1 \in Int, 8 \in Int, Zenon
  <2> QED
    BY <2>1, EightEntries
<1>2. \A x : IsFiniteSet({x})
  BY FS_Singleton
<1>3. IsFiniteSet({"L"} \cup {"R"}) /\ IsFiniteSet({"read"} \cup {"write"})
  BY <1>2, FS_Union
<1>4. {"L"} \cup {"R"} = {"L", "R"} /\ {"read"} \cup {"write"} = {"read", "write"}
  OBVIOUS
<1>5. IsFiniteSet({chip} \cap 0 .. 3)
  BY <1>2, FS_Subset
<1> QED
  BY <1>1, <1>2, <1>3, <1>4, <1>5

(* Failures are counted: the count stays within its bound, never falls,    *)
(* and grows by the transfers that failed.                                 *)
LEMMA Failures ==
  ASSUME faults \in 0 .. MaxFaults, NEW all, NEW bad \in SUBSET all, IsFiniteSet(all),
         Failing(bad)
  PROVE  /\ faults' \in 0 .. MaxFaults /\ faults' >= faults
         /\ IsFiniteSet(bad) /\ Cardinality(bad) \in Nat /\ Cardinality(bad) <= faults'
<1>1. IsFiniteSet(bad)
  BY FS_Subset
<1>2. Cardinality(bad) \in Nat
  BY <1>1, FS_CardinalityType
<1> QED
  BY <1>1, <1>2, DriverAssumption DEF Failing

(* A volume in range fits a register.                                      *)
LEMMA ClampByte == ASSUME NEW vol \in Int PROVE Clamp(vol) \in 0 .. 255
BY DEF Clamp, TAS57XX_VOLUME_MIN, TAS57XX_VOLUME_MAX

(* A register holds a byte after the entries were written.                 *)
LEMMA WrittenByte ==
  ASSUME NEW good \in SUBSET Entries, NEW reg, NEW old \in 0 .. 255
  PROVE  Written(good, reg, old) \in 0 .. 255
<1>1. CASE \E e \in good : tas57xx_init_seq[e][1] = reg
  <2> DEFINE e == CHOOSE e \in good : tas57xx_init_seq[e][1] = reg
  <2>1. e \in Entries
    BY <1>1
  <2>2. Written(good, reg, old) = tas57xx_init_seq[e][2]
    BY <1>1 DEF Written
  <2> HIDE DEF e
  <2> QED
    BY <2>1, <2>2, EightEntries
<1>2. CASE ~ \E e \in good : tas57xx_init_seq[e][1] = reg
  BY <1>2 DEF Written
<1> QED
  BY <1>1, <1>2

(* At the start no call was made and no board exists.                      *)
LEMMA InitDriver == Init => DriverInv
<1> SUFFICES ASSUME Init PROVE DriverInv
  OBVIOUS
<1>1. 0 \in 0 .. MaxFaults
  BY DriverAssumption
<1>2. addr = -1 /\ faults = 0 /\ volL = PowerOn /\ volR = PowerOn
  BY DEF Init
<1>3. addr \in -1 .. 3 /\ volL \in 0 .. 255 /\ volR \in 0 .. 255
  BY <1>2, DriverAssumption
<1>4. DriverTypes /\ ChipTypes
  BY <1>1, <1>2, <1>3 DEF Init, DriverTypes, ChipTypes
<1>5. last = [op |-> "none", ret |-> ESP_OK] /\ board = "none"
  BY DEF Init
<1> QED
  BY <1>4, <1>5 DEF DriverInv, Reported, ReadyHasChip, OkMeansWritten

(* A search that fails leaves the last address it tried.                   *)
LEMMA NotFound ==
  ASSUME DriverTypes, DriverNotFound
  PROVE  addr' \in -1 .. 3 /\ faults' \in 0 .. MaxFaults
<1>1. CASE Failing({"bus"}) /\ UNCHANGED addr
  BY <1>1, Failures, FiniteFailures DEF DriverTypes
<1>2. ASSUME NEW silent \in SUBSET ({chip} \cap 0 .. 3), Failing(silent), addr' = 3
      PROVE  addr' \in -1 .. 3 /\ faults' \in 0 .. MaxFaults
  BY <1>2, Failures, FiniteFailures DEF DriverTypes
<1> QED
  BY <1>1, <1>2 DEF DriverNotFound

(* When it succeeds the chip was found, and what it lacks failed.          *)
LEMMA Initialised ==
  ASSUME DriverTypes, ChipTypes, NEW ret \in {ESP_OK, ESP_FAIL}, tas57xx_init(ret)
  PROVE  /\ addr' \in -1 .. 3 /\ faults' \in 0 .. MaxFaults /\ ChipTypes'
         /\ ret = ESP_OK => addr' = chip /\ Cardinality(Entries \ loaded') <= faults'
<1>1. CASE DriverNotFound /\ ret = ESP_FAIL /\ UNCHANGED registers
  BY <1>1, NotFound DEF registers, ChipTypes, ESP_OK, ESP_FAIL
<1>2. ASSUME Detected({}) # 4, addr' = Detected({}), NEW bad \in SUBSET Entries, Failing(bad),
             tas57xx_transmit_registers(bad)
      PROVE  /\ addr' \in -1 .. 3 /\ faults' \in 0 .. MaxFaults /\ ChipTypes'
             /\ addr' = chip /\ Cardinality(Entries \ loaded') <= faults'
  <2>1. addr' = chip /\ addr' \in -1 .. 3
    BY <1>2 DEF Detected
  <2>2. /\ faults' \in 0 .. MaxFaults /\ IsFiniteSet(bad)
        /\ Cardinality(bad) \in Nat /\ Cardinality(bad) <= faults'
    BY <1>2, Failures, FiniteFailures DEF DriverTypes
  <2>3. Entries \ loaded' \subseteq bad
    BY <1>2 DEF tas57xx_transmit_registers
  <2>4. Cardinality(Entries \ loaded') \in Nat /\ Cardinality(Entries \ loaded') <= Cardinality(bad)
    BY <2>2, <2>3, FS_Subset, FS_CardinalityType
  <2>5. ChipTypes'
    <3>1. Entries \ bad \in SUBSET Entries
      OBVIOUS
    <3>2. loaded' \subseteq Entries /\ mute' \in BOOLEAN
      BY <1>2 DEF tas57xx_transmit_registers, ChipTypes
    <3>3. volL' \in 0 .. 255 /\ volR' \in 0 .. 255
      BY <1>2, <3>1, WrittenByte DEF tas57xx_transmit_registers, ChipTypes
    <3> QED
      BY <3>2, <3>3 DEF ChipTypes
  <2> QED
    BY <2>1, <2>2, <2>4, <2>5
<1> QED
  BY <1>1, <1>2 DEF tas57xx_init

(* What every action but the initialisation keeps.                         *)
LEMMA Kept ==
  ASSUME ReadyHasChip, DriverTypes, UNCHANGED <<chip, addr, loaded>>, board' = board \/ board' = "none",
         faults' \in 0 .. MaxFaults, faults' >= faults
  PROVE  DriverTypes' /\ ReadyHasChip'
<1>1. board' \in {"none", "noHal", "ready"}
  BY DEF DriverTypes
<1>2. DriverTypes'
  BY <1>1 DEF DriverTypes
<1>3. Cardinality(Entries \ loaded) \in Nat
  BY FiniteFailures, FS_Subset, FS_CardinalityType
<1> QED
  BY <1>2, <1>3 DEF ReadyHasChip, DriverTypes

(* Every step keeps the invariant.                                         *)
LEMMA StepDriver == DriverInv /\ [Next]_vars => DriverInv'
<1> SUFFICES ASSUME DriverInv, [Next]_vars PROVE DriverInv'
  OBVIOUS
<1> USE DEF DriverInv
<1>0. faults \in 0 .. MaxFaults /\ faults \in Int
  BY DEF DriverTypes
<1>1. CASE BoardInit
  <2>1. PICK ret \in {ESP_OK, ESP_FAIL} :
          /\ tas57xx_init(ret)
          /\ board' = IF ret = ESP_OK THEN "ready" ELSE "noHal"
          /\ last' = [op |-> "board_init", ret |-> ret]
    BY <1>1 DEF BoardInit
  <2>2. /\ addr' \in -1 .. 3 /\ faults' \in 0 .. MaxFaults /\ ChipTypes'
        /\ ret = ESP_OK => addr' = chip /\ Cardinality(Entries \ loaded') <= faults'
    BY <2>1, Initialised
  <2>3. chip' = chip
    BY <1>1 DEF BoardInit
  <2>4. DriverTypes'
    BY <2>1, <2>2, <2>3 DEF DriverTypes
  <2>5. ReadyHasChip'
    BY <2>1, <2>2, <2>3 DEF ReadyHasChip
  <2>6. Reported' /\ OkMeansWritten'
    BY <2>1 DEF Reported, OkMeansWritten
  <2> QED
    BY <2>2, <2>4, <2>5, <2>6
<1>2. CASE BoardInitNoMemory
  <2>1. faults' \in 0 .. MaxFaults /\ faults' >= faults
    BY <1>0, <1>2, Failures, FiniteFailures DEF BoardInitNoMemory
  <2>2. ChipTypes'
    BY <1>2 DEF BoardInitNoMemory, registers, ChipTypes
  <2>3. DriverTypes' /\ ReadyHasChip'
    BY <1>2, <2>1, Kept DEF BoardInitNoMemory, registers
  <2>4. Reported' /\ OkMeansWritten'
    BY <1>2 DEF BoardInitNoMemory, Reported, OkMeansWritten
  <2> QED
    BY <2>2, <2>3, <2>4
<1>3. CASE BoardInitAgain \/ BoardDeinit
  <2>1. faults' \in 0 .. MaxFaults /\ faults' >= faults
    BY <1>0, <1>3 DEF BoardInitAgain, BoardDeinit
  <2>2. ChipTypes'
    BY <1>3 DEF BoardInitAgain, BoardDeinit, registers, ChipTypes
  <2>3. DriverTypes' /\ ReadyHasChip'
    BY <1>3, <2>1, Kept DEF BoardInitAgain, BoardDeinit, registers
  <2>4. \/ last' = [op |-> "board_init_again", ret |-> ESP_OK]
        \/ last' = [op |-> "board_deinit", ret |-> Status(board = "noHal")]
    BY <1>3 DEF BoardInitAgain, BoardDeinit
  <2>5. Reported' /\ OkMeansWritten'
    BY <2>4 DEF Reported, OkMeansWritten, Status
  <2> QED
    BY <2>2, <2>3, <2>5
<1>4. ASSUME NEW vol \in Volumes, tas57xx_set_volume(vol) PROVE DriverInv'
  <2> DEFINE lost(bad) == Unreached(bad, {"L", "R"})
  <2>1. PICK bad \in SUBSET {"L", "R"} :
          /\ Failing(bad)
          /\ volL' = IF "L" \in lost(bad) THEN volL ELSE Clamp(vol)
          /\ volR' = IF "R" \in lost(bad) THEN volR ELSE Clamp(vol)
          /\ last' = [op |-> "set_volume", ret |-> Both(lost(bad), "L", "R"), asked |-> vol]
    BY <1>4 DEF tas57xx_set_volume
  <2> HIDE DEF lost
  <2>2. faults' \in 0 .. MaxFaults /\ faults' >= faults
    BY <1>0, <2>1, Failures, FiniteFailures
  <2>3. UNCHANGED <<chip, board, addr, loaded, mute>>
    BY <1>4 DEF tas57xx_set_volume
  <2>4. Clamp(vol) \in 0 .. 255
    BY ClampByte, DriverAssumption
  <2>5. ChipTypes'
    BY <2>1, <2>3, <2>4 DEF ChipTypes
  <2>6. DriverTypes' /\ ReadyHasChip'
    BY <2>2, <2>3, Kept
  <2>7. Both(lost(bad), "L", "R") = ESP_OK => volL' = Clamp(vol) /\ volR' = Clamp(vol)
    BY <2>1 DEF Both, Status, ESP_OK, ESP_FAIL
  <2>8. Both(lost(bad), "L", "R") \in {ESP_OK, ESP_FAIL}
    BY DEF Both, Status
  <2>9. Reported' /\ OkMeansWritten'
    BY <2>1, <2>7, <2>8 DEF Reported, OkMeansWritten
  <2> QED
    BY <2>5, <2>6, <2>9
<1>5. ASSUME NEW enable \in BOOLEAN, tas57xx_set_mute(enable) PROVE DriverInv'
  <2> DEFINE lost(bad) == Unreached(bad, {"read", "write"})
  <2>1. PICK bad \in SUBSET {"read", "write"} :
          /\ Failing(bad)
          /\ mute' = IF "write" \in lost(bad) THEN mute ELSE enable
          /\ last' = [op |-> "set_mute", ret |-> Both(lost(bad), "read", "write"),
                      asked |-> enable]
    BY <1>5 DEF tas57xx_set_mute
  <2> HIDE DEF lost
  <2>2. faults' \in 0 .. MaxFaults /\ faults' >= faults
    BY <1>0, <2>1, Failures, FiniteFailures
  <2>3. UNCHANGED <<chip, board, addr, loaded, volL, volR>>
    BY <1>5 DEF tas57xx_set_mute
  <2>4. ChipTypes'
    BY <2>1, <2>3 DEF ChipTypes
  <2>5. DriverTypes' /\ ReadyHasChip'
    BY <2>2, <2>3, Kept
  <2>6. Both(lost(bad), "read", "write") = ESP_OK => mute' = enable
    BY <2>1 DEF Both, Status, ESP_OK, ESP_FAIL
  <2>7. Both(lost(bad), "read", "write") \in {ESP_OK, ESP_FAIL}
    BY DEF Both, Status
  <2>8. Reported' /\ OkMeansWritten'
    BY <2>1, <2>6, <2>7 DEF Reported, OkMeansWritten
  <2> QED
    BY <2>4, <2>5, <2>8
<1>6. CASE tas57xx_get_volume \/ tas57xx_get_mute
  <2>1. PICK bad \in SUBSET {"read"} : Failing(bad)
    BY <1>6 DEF tas57xx_get_volume, tas57xx_get_mute
  <2>2. faults' \in 0 .. MaxFaults /\ faults' >= faults
    BY <1>0, <2>1, Failures, FiniteFailures
  <2>3. UNCHANGED <<chip, board, addr, registers>>
    BY <1>6 DEF tas57xx_get_volume, tas57xx_get_mute
  <2>4. ChipTypes'
    BY <2>3 DEF registers, ChipTypes
  <2>5. DriverTypes' /\ ReadyHasChip'
    BY <2>2, <2>3, Kept DEF registers
  <2>6. \E ret \in {ESP_OK, ESP_FAIL} :
          last' = [op |-> "get_volume", ret |-> ret] \/ last' = [op |-> "get_mute", ret |-> ret]
    BY <1>6 DEF tas57xx_get_volume, tas57xx_get_mute, Status
  <2>7. Reported' /\ OkMeansWritten'
    BY <2>6 DEF Reported, OkMeansWritten
  <2> QED
    BY <2>4, <2>5, <2>7
<1>7. CASE UNCHANGED vars
  BY <1>7 DEF vars, registers, DriverTypes, ChipTypes, Reported, ReadyHasChip, OkMeansWritten
<1> QED
  BY <1>1, <1>2, <1>3, <1>4, <1>5, <1>6, <1>7 DEF Next

-----------------------------------------------------------------------------
(* DriverInv holds in every reachable state. *)
LEMMA DriverInvariant == Spec => []DriverInv
BY InitDriver, StepDriver, PTL DEF Spec

(* The driver's variables have their types: a volume register holds a byte *)
(* for every volume an application may ask for.                            *)
THEOREM DriverTyped == Spec => []TypeOK
<1>1. DriverInv => TypeOK
  BY DEF DriverInv, DriverTypes, ChipTypes, Reported, TypeOK
<1> QED
  BY <1>1, DriverInvariant, PTL

(* tas57xx_init gives a HAL only to a chip it found, at that chip's        *)
(* address, and each entry of its configuration that is missing is a write *)
(* that failed, however often the board was initialised.                   *)
THEOREM HalMeansChip == Spec => []ReadyHasChip
<1>1. DriverInv => ReadyHasChip
  BY DEF DriverInv
<1> QED
  BY <1>1, DriverInvariant, PTL

(* A call that sets volume or mute and returns ESP_OK was written to the   *)
(* chip, on both channels, whichever transfers failed before.              *)
THEOREM SetMeansWritten == Spec => []OkMeansWritten
<1>1. DriverInv => OkMeansWritten
  BY DEF DriverInv
<1> QED
  BY <1>1, DriverInvariant, PTL
=============================================================================
