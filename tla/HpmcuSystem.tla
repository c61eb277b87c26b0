----------------------------- MODULE HpmcuSystem -----------------------------
(***************************************************************************)
(* The two drivers and the firmware together: HpmcuLoader and HpmcuMbox    *)
(* over one MCU.  They share its variables and nothing else; neither       *)
(* driver calls the other or takes the other's lock.                       *)
(***************************************************************************)
EXTENDS HpmcuLoader, Hpmcu

systemVars == <<mcuVars, loaderVars, mboxVars>>

SystemInit == McuInit /\ LoaderInit /\ MboxInit

FirmwareRuns == McuStep /\ UNCHANGED <<loaderVars, mboxVars>>

\* A start or stop goes on; a ping notices it when it reaches the MCU.
LoaderRuns ==
  /\ LoaderCommand
  /\ IF UNCHANGED mcuVars THEN UNCHANGED mboxVars ELSE Disturbed

WorkRuns == HeartbeatWork /\ UNCHANGED mboxVars

MboxRuns == MboxStep /\ UNCHANGED loaderVars

SystemNext ==
  \/ FirmwareRuns
  \/ LoaderRuns
  \/ WorkRuns
  \/ MboxRuns

SystemSpec == SystemInit /\ [][SystemNext]_systemVars
=============================================================================
