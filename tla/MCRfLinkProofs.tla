--------------------------- MODULE MCRfLinkProofs ---------------------------
(***************************************************************************)
(* What RfLinkProofs shows of a link with any constants, shown of the four *)
(* settings of MCRfLink: each setting meets the conditions of the theorems *)
(* it is checked for, and a run never leaves the setting it began in.      *)
(***************************************************************************)
EXTENDS MCRfLink, TLAPS

-----------------------------------------------------------------------------
\* The constants of each setting meet the assumptions of RfLink.
LEMMA FailingAssumptions ==
  /\ Failing!FrameAssumption /\ Failing!TxAssumption
  /\ Failing!RxAssumption /\ Failing!LinkAssumption /\ Failing!LateAssumption
  BY FrameAssumption, TxAssumption, RxAssumption, LinkAssumption, LateAssumption
  DEF FrameAssumption, TxAssumption, RxAssumption, LinkAssumption, LateAssumption,
      Failing!FrameAssumption, Failing!TxAssumption, Failing!RxAssumption,
      Failing!LinkAssumption, Failing!LateAssumption

\* Likewise.
LEMMA ReorderingAssumptions ==
  /\ Reordering!FrameAssumption /\ Reordering!TxAssumption
  /\ Reordering!RxAssumption /\ Reordering!LinkAssumption /\ Reordering!LateAssumption
  BY FrameAssumption, TxAssumption, RxAssumption, LinkAssumption, LateAssumption
  DEF FrameAssumption, TxAssumption, RxAssumption, LinkAssumption, LateAssumption,
      Reordering!FrameAssumption, Reordering!TxAssumption, Reordering!RxAssumption,
      Reordering!LinkAssumption, Reordering!LateAssumption

\* Likewise.
LEMMA MismatchedAssumptions ==
  /\ Mismatched!FrameAssumption /\ Mismatched!TxAssumption
  /\ Mismatched!RxAssumption /\ Mismatched!LinkAssumption /\ Mismatched!LateAssumption
  BY FrameAssumption, TxAssumption, RxAssumption, LinkAssumption, LateAssumption
  DEF FrameAssumption, TxAssumption, RxAssumption, LinkAssumption, LateAssumption,
      Mismatched!FrameAssumption, Mismatched!TxAssumption, Mismatched!RxAssumption,
      Mismatched!LinkAssumption, Mismatched!LateAssumption

\* Likewise.
LEMMA PlainAssumptions ==
  /\ PlainFrames!FrameAssumption /\ PlainFrames!TxAssumption
  /\ PlainFrames!RxAssumption /\ PlainFrames!LinkAssumption /\ PlainFrames!LateAssumption
  BY FrameAssumption, TxAssumption, RxAssumption, LinkAssumption, LateAssumption
  DEF FrameAssumption, TxAssumption, RxAssumption, LinkAssumption, LateAssumption,
      PlainFrames!FrameAssumption, PlainFrames!TxAssumption, PlainFrames!RxAssumption,
      PlainFrames!LinkAssumption, PlainFrames!LateAssumption

-----------------------------------------------------------------------------
\* A run that began in a setting is a run of that setting's link throughout.
LEMMA SettingKept ==
  ASSUME NEW s, [MCNext]_mcVars
  PROVE  (setting = s)' <=> setting = s
  BY DEF MCNext, mcVars, FailingStep, ReorderingStep, MismatchedStep, PlainStep

\* Hence a run under a setting is a run of RfLink with its constants.
LEMMA FailingRuns ==
  /\ MCInit /\ setting = "failing" => Failing!Init
  /\ setting = "failing" /\ [MCNext]_mcVars => [Failing!Next]_Failing!vars /\ (setting = "failing")'
  /\ ~(setting = "failing") /\ [MCNext]_mcVars => (~(setting = "failing"))'
<1>1. MCInit /\ setting = "failing" => Failing!Init
  BY DEF MCInit
<1>2. setting = "failing" /\ [MCNext]_mcVars => [Failing!Next]_Failing!vars
  BY DEF MCNext, mcVars, vars, Failing!vars, FailingStep, ReorderingStep, MismatchedStep, PlainStep
<1> QED
  BY <1>1, <1>2, SettingKept

\* Likewise.
LEMMA ReorderingRuns ==
  /\ MCInit /\ setting = "reordering" => Reordering!Init
  /\ setting = "reordering" /\ [MCNext]_mcVars => [Reordering!Next]_Reordering!vars /\ (setting = "reordering")'
  /\ ~(setting = "reordering") /\ [MCNext]_mcVars => (~(setting = "reordering"))'
<1>1. MCInit /\ setting = "reordering" => Reordering!Init
  BY DEF MCInit
<1>2. setting = "reordering" /\ [MCNext]_mcVars => [Reordering!Next]_Reordering!vars
  BY DEF MCNext, mcVars, vars, Reordering!vars, FailingStep, ReorderingStep, MismatchedStep, PlainStep
<1> QED
  BY <1>1, <1>2, SettingKept

\* Likewise.
LEMMA MismatchedRuns ==
  /\ MCInit /\ setting = "mismatch" => Mismatched!Init
  /\ setting = "mismatch" /\ [MCNext]_mcVars => [Mismatched!Next]_Mismatched!vars /\ (setting = "mismatch")'
  /\ ~(setting = "mismatch") /\ [MCNext]_mcVars => (~(setting = "mismatch"))'
<1>1. MCInit /\ setting = "mismatch" => Mismatched!Init
  BY DEF MCInit
<1>2. setting = "mismatch" /\ [MCNext]_mcVars => [Mismatched!Next]_Mismatched!vars
  BY DEF MCNext, mcVars, vars, Mismatched!vars, FailingStep, ReorderingStep, MismatchedStep, PlainStep
<1> QED
  BY <1>1, <1>2, SettingKept

\* Likewise.
LEMMA PlainRuns ==
  /\ MCInit /\ setting = "plain" => PlainFrames!Init
  /\ setting = "plain" /\ [MCNext]_mcVars => [PlainFrames!Next]_PlainFrames!vars /\ (setting = "plain")'
  /\ ~(setting = "plain") /\ [MCNext]_mcVars => (~(setting = "plain"))'
<1>1. MCInit /\ setting = "plain" => PlainFrames!Init
  BY DEF MCInit
<1>2. setting = "plain" /\ [MCNext]_mcVars => [PlainFrames!Next]_PlainFrames!vars
  BY DEF MCNext, mcVars, vars, PlainFrames!vars, FailingStep, ReorderingStep, MismatchedStep, PlainStep
<1> QED
  BY <1>1, <1>2, SettingKept

-----------------------------------------------------------------------------
\* Failed sends, failed emissions and restarts of the receiver, losses and
\* reordering, repeated frames: the open block, the frames and the table entries
\* trace back to datagrams as long as block numbers do not wrap around.
THEOREM ProvenanceInSettings ==
  ASSUME 5 < Mod, "tx" \notin Restarts
  PROVE  MCSpec => []ProvenanceKept
<1>1. Failing!Spec => [](Failing!Provenance /\ Failing!Genuine)
  BY FailingAssumptions, Failing!GenuineAlways
<1>2. Reordering!Spec => [](Reordering!Provenance /\ Reordering!Genuine)
  <2>1. 5 < Mod
    BY FrameAssumption DEF FrameAssumption
  <2> QED
    BY <2>1, ReorderingAssumptions, Reordering!GenuineAlways
<1> QED
  BY <1>1, <1>2, FailingRuns, ReorderingRuns, PTL
  DEF MCSpec, Failing!Spec, Reordering!Spec, ProvenanceKept

\* No frame arrives more than 3 behind a newer one, no further than a table of
\* two 2:1 blocks allows: fec_rx_block_get gives the oldest entry away, yet whatever
\* one frame of a block is lost, and in whatever order, however often, the others
\* come, fec_try_recover repairs it.
THEOREM RepairedInAnyOrder ==
  ASSUME TxK = RxK, 3 <= (NSlots - 1) * (TxK + 1), 10 < Mod, "tx" \notin Restarts,
         ~SendMayFail, ~EmitMayFail
  PROVE  MCSpec => []RepairedOutOfOrder
<1>1. Reordering!Spec => []Reordering!OneLossRepaired
  BY ReorderingAssumptions, Reordering!OneLossRepairedAnyOrder
<1> QED
  BY <1>1, ReorderingRuns, PTL DEF MCSpec, Reordering!Spec, RepairedOutOfOrder

\* Sequence numbers of three bits that wrap around, gaps of up to three frames
\* and failed sends: the counters of rx_loop tell what went missing.
THEOREM CountedWhenPlain ==
  ASSUME "tx" \notin Restarts
  PROVE  MCSpec => []CountedExactly
<1>1. PlainFrames!Spec => []PlainFrames!LossesCounted
  BY PlainAssumptions, PlainFrames!LossesCountedExactly
<1> QED
  BY <1>1, PlainRuns, PTL DEF MCSpec, PlainFrames!Spec, CountedExactly

\* A receiver for 3:1 that hears a transmitter of any other geometry emits
\* nothing and counts every frame as bad, whichever end is restarted.
THEOREM MismatchInSettings == MCSpec => []RefusedAndReported
<1>1. Mismatched!Spec => []Mismatched!MismatchIsReported
  BY MismatchedAssumptions, Mismatched!MismatchReported
<1> QED
  BY <1>1, MismatchedRuns, PTL DEF MCSpec, Mismatched!Spec, RefusedAndReported
=============================================================================
