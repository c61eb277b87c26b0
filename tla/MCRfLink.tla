------------------------------ MODULE MCRfLink ------------------------------
(***************************************************************************)
(* RfLink under four settings in one run.  setting is chosen once and      *)
(* never changes; each is an instance of RfLink, and of what RfLinkProofs  *)
(* shows of it, with constants of its own; the cfg gives those all share.  *)
(*                                                                         *)
(*   failing     every call may fail, the receiver is restarted, frames    *)
(*               are lost and reordered                                    *)
(*   reordering  frames are lost, reordered and repeated, over two blocks  *)
(*   mismatch    FEC 2:1 at the transmitter, 3:1 at the receiver, both     *)
(*               restarted                                                 *)
(*   plain       FEC off at the transmitter, sequence numbers of 3 bits    *)
(***************************************************************************)
EXTENDS RfLink

VARIABLE setting

mcVars == <<vars, setting>>

Failing ==
  INSTANCE RfLinkProofs WITH MaxFeed <- 5, SendMayFail <- TRUE, EmitMayFail <- TRUE,
                             MaxDup <- 0, MaxGap <- 3, Restarts <- {"rx"}

Reordering == INSTANCE RfLinkProofs WITH MaxFeed <- 5, MaxLate <- 3

Mismatched ==
  INSTANCE RfLinkProofs WITH RxK <- 3, MaxFeed <- 4, MaxGap <- 3, Restarts <- {"tx", "rx"}

PlainFrames ==
  INSTANCE RfLinkProofs WITH TxK <- 0, Mod <- 8, MaxFeed <- 10, SendMayFail <- TRUE,
                             Ordered <- TRUE, MaxDup <- 0, MaxGap <- 3

MCInit ==
  \/ setting = "failing" /\ Failing!Init
  \/ setting = "reordering" /\ Reordering!Init
  \/ setting = "mismatch" /\ Mismatched!Init
  \/ setting = "plain" /\ PlainFrames!Init

FailingStep == setting = "failing" /\ Failing!Next /\ UNCHANGED setting
ReorderingStep == setting = "reordering" /\ Reordering!Next /\ UNCHANGED setting
MismatchedStep == setting = "mismatch" /\ Mismatched!Next /\ UNCHANGED setting
PlainStep == setting = "plain" /\ PlainFrames!Next /\ UNCHANGED setting

MCNext == FailingStep \/ ReorderingStep \/ MismatchedStep \/ PlainStep

MCSpec == MCInit /\ [][MCNext]_mcVars

-----------------------------------------------------------------------------
\* The table keeps its shape (SlotTable) and what comes out was handed in
\* (Genuine, DatagramService) in every setting.  The rest of RfLink's
\* properties are stated for the settings that meet their conditions.

\* Frames, entries and the open block trace back to datagrams as long as no
\* transmitter is restarted and block numbers do not wrap around.
ProvenanceKept ==
  /\ setting = "failing" => Failing!Provenance
  /\ setting = "reordering" => Reordering!Provenance

\* One missing frame per block is repaired by fec_try_recover in whatever
\* order the others come, and come again.
RepairedOutOfOrder == setting = "reordering" => Reordering!OneLossRepaired

\* The counters of rx_loop tell exactly what went missing, with failed sends
\* and after a wrap of the sequence numbers.
CountedExactly == setting = "plain" => PlainFrames!LossesCounted

\* rx_fec_payload refuses and counts every frame of another geometry,
\* whichever end procd restarts.
RefusedAndReported == setting = "mismatch" => Mismatched!MismatchIsReported
=============================================================================
