------------------------------ MODULE HpmcuMcu ------------------------------
(***************************************************************************)
(* The HPMCU and the mailbox block between it and the application          *)
(* processor (AP): the firmware of mcu_heartbeat.c and the registers both  *)
(* ends use.  The block itself is hardware; what its B2A_STATUS does when  *)
(* the MCU writes 1 to it is left open, because the firmware takes the     *)
(* write for "ready" where the AP takes the same write for "clear".  One   *)
(* ping is under way at a time, so a message need only say whether it is   *)
(* of the last ping or of an earlier one.                                  *)
(***************************************************************************)
EXTENDS Integers

CONSTANT Datas  \* the data words of pings

\* What a pair of CMD and DATA registers holds: nothing, the boot message, a
\* ping (OMEGA4_MBOX_PING_CMD) with its data.
Zero == "zero"
Boot == "boot"
Words == {Zero, Boot} \cup Datas

ASSUME McuAssumption == Datas \cap {Zero, Boot} = {}

\* A ping on its way, and whether it is the last one that began.
Pings == [word : Datas, last : BOOLEAN]

\* Registers or a variable that hold one ping or none.
OneOrNone == {{}} \cup {{p} : p \in Pings}

Older(p) == [p EXCEPT !.last = FALSE]

VARIABLES
  mcu,       \* where the firmware is: "reset", "init", "boot", "loop", "answer", "mark"
  taken,     \* the ping it is about to answer, if any
  a2b,       \* the ping in the registers to the MCU, if its status is up
  b2a,       \* the registers to the AP: [up, word]
  enabled,   \* INTEN of both directions
  markSets,  \* whether writing 1 to B2A_STATUS sets it: a property of the hardware
  answered   \* whether the firmware has answered the last ping

mcuVars == <<mcu, taken, a2b, b2a, enabled, markSets, answered>>

McuInit ==
  /\ mcu = "reset"
  /\ taken = {}
  /\ a2b = {}
  /\ b2a = [up |-> FALSE, word |-> Zero]
  /\ enabled \in BOOLEAN
  /\ markSets \in BOOLEAN
  /\ answered = FALSE

McuTypeOK ==
  /\ mcu \in {"reset", "init", "boot", "loop", "answer", "mark"}
  /\ taken \in OneOrNone
  /\ a2b \in OneOrNone
  /\ b2a \in [up : BOOLEAN, word : Words]
  /\ enabled \in BOOLEAN
  /\ markSets \in BOOLEAN
  /\ answered \in BOOLEAN

-----------------------------------------------------------------------------
\* omega4_mbox_init: both directions enabled, nothing pending.
McuSetup ==
  /\ mcu = "init"
  /\ mcu' = "boot"
  /\ enabled' = TRUE
  /\ a2b' = {}
  /\ b2a' = [b2a EXCEPT !.up = markSets]
  /\ UNCHANGED <<taken, markSets, answered>>

\* omega4_mbox_send up to its last write: where the mark does not, the data
\* register raises the status (the trigger method the AP selects).
Write(w) == b2a' = [up |-> b2a.up \/ ~markSets, word |-> w]

McuBoot ==
  /\ mcu = "boot"
  /\ mcu' = "mark"
  /\ Write(Boot)
  /\ UNCHANGED <<taken, a2b, enabled, markSets, answered>>

\* "Mark response ready for AP side polling".
McuMark ==
  /\ mcu = "mark"
  /\ mcu' = "loop"
  /\ b2a' = [b2a EXCEPT !.up = markSets]
  /\ UNCHANGED <<taken, a2b, enabled, markSets, answered>>

\* omega4_mbox_handle: the ping is taken ...
McuRead ==
  /\ mcu = "loop"
  /\ a2b # {}
  /\ mcu' = "answer"
  /\ taken' = a2b
  /\ a2b' = {}
  /\ UNCHANGED <<b2a, enabled, markSets, answered>>

\* ... and answered in its own words.
McuAnswer ==
  \E p \in taken :
    /\ mcu = "answer"
    /\ mcu' = "mark"
    /\ Write(p.word)
    /\ answered' = (answered \/ p.last)
    /\ taken' = {}
    /\ UNCHANGED <<a2b, enabled, markSets>>

McuStep == McuSetup \/ McuBoot \/ McuMark \/ McuRead \/ McuAnswer

Released == mcu # "reset"

\* The reset lines: the firmware stops where it is, and starts over; the
\* mailbox keeps its registers.
HoldInReset == mcu' = "reset" /\ taken' = {}
Deassert == mcu' = "init" /\ taken' = {}

\* What the mailbox may expect of the loader: the MCU is stopped at any time,
\* and released only from reset.
Power ==
  /\ HoldInReset \/ (~Released /\ Deassert)
  /\ UNCHANGED <<a2b, b2a, enabled, markSets, answered>>
=============================================================================
