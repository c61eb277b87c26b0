-------------------------------- MODULE Hpmcu --------------------------------
(***************************************************************************)
(* Pings of an MCU that is stopped and started at any time, also in the    *)
(* middle of a ping: the mailbox driver beside any loader that does to the *)
(* MCU what Power allows.  HpmcuSystem puts HpmcuLoader in its place.      *)
(***************************************************************************)
EXTENDS HpmcuMbox

pingsVars == <<mcuVars, mboxVars>>

PingsInit == McuInit /\ MboxInit

\* The values of the variables, in particular one message at most in either
\* direction and no more pointers to mb->msg than the queue takes.
PingsTypeOK == McuTypeOK /\ MboxTypeOK

-----------------------------------------------------------------------------
McuRuns == McuStep /\ UNCHANGED mboxVars

\* A ping into which a stop or a start falls is not left in peace.
Disturbed ==
  /\ quiet' = FALSE
  /\ clean' = FALSE
  /\ UNCHANGED <<ping, msg, done, irq, active, queued, clearing, outcome>>

Loader == Power /\ Disturbed

PingsNext ==
  \/ McuRuns
  \/ Loader
  \/ MboxStep

PingsSpec == PingsInit /\ [][PingsNext]_pingsVars
=============================================================================
