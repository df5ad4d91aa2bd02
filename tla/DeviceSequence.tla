--------------------------- MODULE DeviceSequence ---------------------------
(***************************************************************************)
(* device_seq: protocol/sequence_reservation.h over the NVS key of         *)
(* protocol/ids.cpp.  A block of numbers is reserved in NVS before any of  *)
(* it is handed out, so that a number is never handed out twice, whenever  *)
(* the power goes.                                                         *)
(***************************************************************************)
EXTENDS Integers

CONSTANTS
  BlockSize,  \* DEVICE_SEQ_RESERVE_BLOCK
  MaxNumber   \* bound: the highest number explored

ASSUME SequenceAssumption == BlockSize \in Nat \ {0} /\ MaxNumber \in Nat

VARIABLES
  hwm,       \* NVS: the high-water mark
  current,   \* RAM: the last number handed out in this boot
  ceiling,   \* RAM: reserved_ceiling_
  seqStep,   \* "off", "up", or "persist": reserve_next_block() has raised the ceiling
  handed     \* history: the highest number ever handed out

seqVars == <<hwm, current, ceiling, seqStep, handed>>

SeqInit ==
  /\ hwm = 0 /\ current = 0 /\ ceiling = 0
  /\ seqStep = "off"
  /\ handed = 0

SeqBootWrong ==                                            \* hands out before it persists
  /\ seqStep = "off"
  /\ hwm + BlockSize <= MaxNumber
  /\ current' = hwm
  /\ ceiling' = hwm + BlockSize
  /\ seqStep' = "up"
  /\ UNCHANGED <<hwm, handed>>

(* DeviceSequence::init() loads the mark and reserves a block above it.      *)
SeqBoot ==
  /\ seqStep = "off"
  /\ hwm + BlockSize <= MaxNumber
  /\ current' = hwm
  /\ ceiling' = hwm + BlockSize
  /\ seqStep' = "persist"
  /\ UNCHANGED <<hwm, handed>>

(* The mark is put.  The source makes a durable persist the condition of its *)
(* promise (see NumbersIncrease), and here it is: the callbacks of ids.cpp   *)
(* ignore what begin() and the put return.                                   *)
Persist ==
  /\ seqStep = "persist"
  /\ hwm' = ceiling
  /\ seqStep' = "up"
  /\ UNCHANGED <<current, ceiling, handed>>

(* next() inside the block, and at its end.                                  *)
HandOut ==
  /\ seqStep = "up" /\ current < ceiling
  /\ current' = current + 1
  /\ handed' = current + 1
  /\ UNCHANGED <<hwm, ceiling, seqStep>>

ReserveNextBlock ==
  /\ seqStep = "up" /\ current >= ceiling
  /\ current + BlockSize <= MaxNumber
  /\ ceiling' = current + BlockSize
  /\ seqStep' = "persist"
  /\ UNCHANGED <<hwm, current, handed>>

SeqPowerLoss ==
  /\ seqStep # "off"
  /\ seqStep' = "off"
  /\ current' = 0 /\ ceiling' = 0
  /\ UNCHANGED <<hwm, handed>>

SeqNext == SeqBoot \/ Persist \/ HandOut \/ ReserveNextBlock \/ SeqPowerLoss

SeqSpec == SeqInit /\ [][SeqNext]_seqVars

-----------------------------------------------------------------------------
SeqTypeOK ==
  /\ hwm \in Nat /\ current \in Nat /\ ceiling \in Nat /\ handed \in Nat
  /\ seqStep \in {"off", "up", "persist"}

(* Every number handed out is higher than all those before it, those of      *)
(* earlier boots included: "Never returns the same value twice, even across  *)
(* construction (reboot) boundaries, as long as `persist` actually writes    *)
(* durably." (sequence_reservation.h:41-43), which Persist does.             *)
NumbersIncrease == [][current' > current /\ seqStep = "up" => current' > handed]_seqVars

(* What NVS holds covers every number ever handed out.                       *)
MarkCoversHanded == handed <= hwm
=============================================================================
