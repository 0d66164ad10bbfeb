------------------------------ MODULE Tas57xx ------------------------------
(***************************************************************************)
(* The amplifier driver (components/my_board/tas57xx_driver/tas57xx.c) and *)
(* the board that owns it (my_board_v1_0/board.c): the chip is searched on *)
(* the I2C bus, its registers are loaded, and volume and mute are set and  *)
(* read through the audio HAL, which lets one call at a time reach the     *)
(* driver.  Any transfer on the bus may fail.                              *)
(***************************************************************************)
EXTENDS Integers, Sequences, FiniteSets

CONSTANTS
  Chips,       \* which of the four addresses the chip may answer at; 4: none
  Volumes,     \* the volumes callers ask for
  PowerOn,     \* what the volume registers hold at power on
  MaxFaults    \* bound on failing transfers and allocations

ASSUME DriverAssumption ==
  /\ Chips \subseteq 0 .. 4
  /\ Volumes \subseteq Int
  /\ PowerOn \in 0 .. 255
  /\ MaxFaults \in Nat

VARIABLES
  chip,       \* the address the chip answers at
  board,      \* board_handle: "none", "noHal" when its audio_hal is NULL, "ready"
  addr,       \* tas57xx_addr: the address in use, -1 before any search
  loaded,     \* the entries of tas57xx_init_seq that ever reached the chip
  volL, volR, \* the volume registers
  mute,       \* the mute bits, 0x11, of the mute register are set
  last,       \* the last call: op, ret, what was asked and what was returned
  faults

registers == <<loaded, volL, volR, mute>>
vars      == <<chip, board, addr, registers, last, faults>>

ESP_OK   == 0
ESP_FAIL == -1

TAS57XX_VOLUME_MIN == 0
TAS57XX_VOLUME_MAX == 255
TAS57XX_REG_MUTE   == \h03
TAS57XX_REG_VOL_L  == \h3d
TAS57XX_REG_VOL_R  == \h3e

(* The registers loaded by tas57xx_init, with their values. *)
tas57xx_init_seq ==
  <<<<\h00, \h00>>, <<\h03, \h00>>, <<\h2a, \h11>>, <<\h02, \h00>>,
    <<\h0d, \h10>>, <<\h25, \h08>>, <<\h3d, \h55>>, <<\h3e, \h55>>>>

Entries == DOMAIN tas57xx_init_seq

Init ==
  /\ chip \in Chips
  /\ board = "none"
  /\ addr = -1
  /\ loaded = {}
  /\ volL = PowerOn /\ volR = PowerOn
  /\ mute = FALSE
  /\ last = [op |-> "none", ret |-> ESP_OK]
  /\ faults = 0

(* The transfers that fail in one call, each named once.                   *)
Failing(bad) ==
  /\ faults + Cardinality(bad) <= MaxFaults
  /\ faults' = faults + Cardinality(bad)

Status(failed) == IF failed THEN ESP_FAIL ELSE ESP_OK

(* The register reg after the entries of good were written to it. *)
Written(good, reg, old) ==
  IF \E e \in good : tas57xx_init_seq[e][1] = reg
    THEN LET e == CHOOSE e \in good : tas57xx_init_seq[e][1] = reg
         IN  tas57xx_init_seq[e][2]
    ELSE old

(* All entries are tried; those in bad do not reach the chip. *)
tas57xx_transmit_registers(bad) ==
  LET good == Entries \ bad
  IN  /\ loaded' = loaded \cup good
      /\ volL' = Written(good, TAS57XX_REG_VOL_L, volL)
      /\ volR' = Written(good, TAS57XX_REG_VOL_R, volR)
      /\ mute' = (Written(good, TAS57XX_REG_MUTE, IF mute THEN \h11 ELSE 0) # 0)

(* Mutant of Detected: the search goes on when the chip has answered. *)
DetectedLast(silent) == IF chip \in 0 .. 3 \ silent THEN 3 ELSE 4

(* The four addresses are tried until one answers; 4: none of them did.    *)
Detected(silent) == IF chip \in 0 .. 3 \ silent THEN chip ELSE 4

(* No bus, or no chip: nothing is written. *)
DriverNotFound ==
  \/ Failing({"bus"}) /\ UNCHANGED addr
  \/ \E silent \in SUBSET ({chip} \cap 0 .. 3) :
       Failing(silent) /\ Detected(silent) = 4 /\ addr' = 3

(* The status of the last entry stands for that of all of them.            *)
tas57xx_init(ret) ==
  \/ DriverNotFound /\ ret = ESP_FAIL /\ UNCHANGED registers
  \/ /\ Detected({}) # 4
     /\ addr' = Detected({})
     /\ \E bad \in SUBSET Entries :
          /\ Failing(bad)
          /\ tas57xx_transmit_registers(bad)
          /\ ret = Status(Len(tas57xx_init_seq) \in bad)

(* audio_board_init allocates the board and gives it a HAL, or NULL if the *)
(* driver could not be initialised.                                        *)
BoardInit ==
  /\ board = "none"
  /\ \E ret \in {ESP_OK, ESP_FAIL} :
       /\ tas57xx_init(ret)
       /\ board' = IF ret = ESP_OK THEN "ready" ELSE "noHal"
       /\ last' = [op |-> "board_init", ret |-> ret]
  /\ UNCHANGED chip

BoardInitNoMemory ==
  /\ board = "none"
  /\ Failing({"calloc"})
  /\ last' = [op |-> "board_init", ret |-> ESP_FAIL]
  /\ UNCHANGED <<chip, board, addr, registers>>

(* A board that exists is returned as it is. *)
BoardInitAgain ==
  /\ board # "none"
  /\ last' = [op |-> "board_init_again", ret |-> ESP_OK]
  /\ UNCHANGED <<chip, board, addr, registers, faults>>

(* tas57xx_deinit does nothing: the chip is left as it is. *)
BoardDeinit ==
  /\ board # "none"
  /\ board' = "none"
  /\ last' = [op |-> "board_deinit", ret |-> Status(board = "noHal")]
  /\ UNCHANGED <<chip, addr, registers, faults>>

-----------------------------------------------------------------------------
(* Mutant of Clamp: the upper bound is one too high. *)
ClampHigh(vol) ==
  IF vol < TAS57XX_VOLUME_MIN THEN TAS57XX_VOLUME_MIN
  ELSE IF vol > TAS57XX_VOLUME_MAX THEN TAS57XX_VOLUME_MAX + 1 ELSE vol

(* The volume in the range of a register. *)
Clamp(vol) ==
  IF vol < TAS57XX_VOLUME_MIN THEN TAS57XX_VOLUME_MIN
  ELSE IF vol > TAS57XX_VOLUME_MAX THEN TAS57XX_VOLUME_MAX ELSE vol

(* Transfers reach the chip only at the address it answers at. *)
Unreached(bad, all) == IF addr = chip THEN bad ELSE all

(* Mutant of Both: the status of the second transfer replaces the first's. *)
BothLast(lost, first, second) == Status(second \in lost)

(* ret |= ...: a call of two transfers fails if one of them does. *)
Both(lost, first, second) == Status(first \in lost \/ second \in lost)

(* Both channels are written, the second whether or not the first was.     *)
(* The registers hold an attenuation, 0 .. 255 (lines 138-142), not the    *)
(* volume of 0~100 that tas57xx.h describes.                               *)
tas57xx_set_volume(vol) ==
  /\ board = "ready"
  /\ \E bad \in SUBSET {"L", "R"} :
       LET lost == Unreached(bad, {"L", "R"})
       IN  /\ Failing(bad)
           /\ volL' = IF "L" \in lost THEN volL ELSE Clamp(vol)
           /\ volR' = IF "R" \in lost THEN volR ELSE Clamp(vol)
           /\ last' = [op |-> "set_volume", ret |-> Both(lost, "L", "R"), asked |-> vol]
  /\ UNCHANGED <<chip, board, addr, loaded, mute>>

(* The register of the left channel is read.  What the caller may conclude *)
(* from its value is left open: "the digit volume is not right" (line 165).*)
tas57xx_get_volume ==
  /\ board = "ready"
  /\ \E bad \in SUBSET {"read"} :
       /\ Failing(bad)
       /\ last' = [op |-> "get_volume", ret |-> Status(Unreached(bad, {"read"}) # {})]
  /\ UNCHANGED <<chip, board, addr, registers>>

(* The register is read, changed and written back, even if it could not be *)
(* read.                                                                   *)
tas57xx_set_mute(enable) ==
  /\ board = "ready"
  /\ \E bad \in SUBSET {"read", "write"} :
       LET lost == Unreached(bad, {"read", "write"})
       IN  /\ Failing(bad)
           /\ mute' = IF "write" \in lost THEN mute ELSE enable
           /\ last' = [op |-> "set_mute", ret |-> Both(lost, "read", "write"),
                       asked |-> enable]
  /\ UNCHANGED <<chip, board, addr, loaded, volL, volR>>

(* Only the status of the transfer matters to the properties below. *)
tas57xx_get_mute ==
  /\ board = "ready"
  /\ \E bad \in SUBSET {"read"} :
       /\ Failing(bad)
       /\ last' = [op |-> "get_mute", ret |-> Status(Unreached(bad, {"read"}) # {})]
  /\ UNCHANGED <<chip, board, addr, registers>>

Next ==
  \/ BoardInit \/ BoardInitNoMemory \/ BoardInitAgain \/ BoardDeinit
  \/ \E vol \in Volumes : tas57xx_set_volume(vol)
  \/ \E enable \in BOOLEAN : tas57xx_set_mute(enable)
  \/ tas57xx_get_volume \/ tas57xx_get_mute

Spec == Init /\ [][Next]_vars

-----------------------------------------------------------------------------
(* Types of the variables: a volume register holds a byte, whatever volume *)
(* is asked for.                                                           *)
TypeOK ==
  /\ chip \in Chips
  /\ board \in {"none", "noHal", "ready"}
  /\ addr \in -1 .. 3
  /\ loaded \subseteq Entries
  /\ volL \in 0 .. 255 /\ volR \in 0 .. 255
  /\ mute \in BOOLEAN
  /\ last.ret \in {ESP_OK, ESP_FAIL}
  /\ faults \in 0 .. MaxFaults

(* A call of two transfers that returns ESP_OK reached the chip with both, *)
(* after any failures, initialisations and searches before it: a volume is *)
(* in the registers of both channels, so that they do not differ, and the  *)
(* mute bits are as asked for, although they were written after a failed   *)
(* read, or at an address where no chip is.  Nothing is said of what the   *)
(* register value sounds like, nor of what get_volume returns.             *)
OkMeansWritten ==
  last.ret = ESP_OK =>
    /\ last.op = "set_volume" => volL = volR /\ volL = Clamp(last.asked)
    /\ last.op = "set_mute" => mute = last.asked

(* A HAL exists only for a chip that was found, and the driver then talks  *)
(* to that chip's address and no other, over any number of failed and      *)
(* repeated initialisations; and of the configuration that chip should     *)
(* have, it lacks no more than the writes that failed, since a failed      *)
(* write does not end the loading.                                         *)
ReadyHasChip ==
  board = "ready" => addr = chip /\ Cardinality(Entries \ loaded) <= faults
=============================================================================
