----------------------------- MODULE HpmcuProofs -----------------------------
(***************************************************************************)
(* The properties of the loader, for every number of values of the counter *)
(* above two; those of the pings, for any set of data words and any length *)
(* of the transmit queue; and that both hold of the two drivers together.  *)
(***************************************************************************)
EXTENDS HpmcuSystem, TLAPS

(***************************************************************************)
(* The loader: one inductive invariant, and what follows from it.          *)
(***************************************************************************)

\* Where the holder of the lock is says what the MCU does ...
OpAgrees ==
  /\ op = "release" => ~Released
  /\ op \in {"announce", "watch"} => Released
  /\ op = "watch" => running
  /\ op \in {"cancel", "drain"} => ~running /\ (result = "ok" => ~Released)
  /\ op = "none" /\ result = "ok" => (running <=> Released)

\* ... and, while the loader is not running, what is left of the work ...
WorkEnds ==
  ~running =>
    /\ op # "cancel" => ~pending
    /\ op \notin {"cancel", "drain"} => work = Idle

\* ... and, until a start finds the work of an earlier one, how the reads
\* made and those to come add up.
ReadsAddUp ==
  alone =>
    /\ work.at \in {"idle", "check", "read", "again"} => reads + readsLeft <= 2
    /\ work.at = "store" => reads + readsLeft <= 3
    /\ work.at \in {"check", "read", "store"} => readsLeft >= 1
    /\ work.at \in {"store", "again"} => work.val = readsLeft
    /\ pending => work = Idle /\ readsLeft >= 1
    /\ op = "watch" => ~pending /\ work = Idle /\ readsLeft >= 1

LoaderInv == TypeOK /\ OpAgrees /\ WorkEnds /\ ReadsAddUp

\* The reads that a counter of n leaves: one that is zero goes all the way round.
Round(n) == IF n = 0 THEN ByteMod ELSE n

\* Whoever started the work: the reads made, those of the round it is in and, when
\* it is queued or about to be once more, those of another.
Rounds ==
  LET queues == op = "watch"
      left == (work.val - 1) % ByteMod
  IN
    /\ reads <= 2 * ByteMod
    /\ work.at = "idle" =>
         /\ pending \/ queues => reads + Round(readsLeft) <= 2 * ByteMod
         /\ pending /\ queues => reads + Round(readsLeft) <= ByteMod
    /\ work.at \in {"check", "read"} =>
         /\ reads + Round(readsLeft) <= 2 * ByteMod
         /\ pending \/ queues => reads + Round(readsLeft) <= ByteMod
         /\ pending /\ queues => readsLeft = 2
    /\ work.at = "store" =>
         /\ reads + left <= 2 * ByteMod
         /\ pending \/ queues => reads + left <= ByteMod
         /\ pending /\ queues => reads + Round(left) <= ByteMod
    /\ work.at = "again" =>
         /\ pending \/ queues \/ work.val # 0 => reads + Round(readsLeft) <= 2 * ByteMod
         /\ (pending \/ work.val # 0) /\ queues => reads + Round(readsLeft) <= ByteMod

\* A decremented byte is a byte again, and one less unless it was 0.
LEMMA Decrement ==
  ASSUME NEW v \in 0..(ByteMod - 1)
  PROVE  /\ (v - 1) % ByteMod \in 0..(ByteMod - 1)
         /\ v >= 1 => (v - 1) % ByteMod = v - 1
<1>1. ByteMod \in Nat /\ ByteMod > 2 BY LoaderAssumption
<1>2. \A n \in Int, m \in Nat : m > 0 => n % m \in 0..(m - 1) OBVIOUS
<1>3. \A n, m \in Nat : n < m => n % m = n OBVIOUS
<1>4. v - 1 \in Int OBVIOUS
<1>5. v >= 1 => v - 1 \in Nat /\ v - 1 < ByteMod BY <1>1
<1> QED BY <1>1, <1>2, <1>3, <1>4, <1>5

\* The invariant of the loader holds initially, ...
LEMMA LoaderInvInit == Init => LoaderInv
<1> SUFFICES ASSUME Init PROVE LoaderInv
  OBVIOUS
<1>1. 0 \in 0..(ByteMod - 1) /\ ByteMod \in Nat
  BY LoaderAssumption
<1>2. McuTypeOK
  BY DEF Init, McuInit, McuTypeOK, OneOrNone, Words
<1>3. LoaderTypeOK
  BY <1>1 DEF Init, LoaderInit, LoaderTypeOK, Idle
<1>4. OpAgrees /\ WorkEnds /\ ReadsAddUp
  BY DEF Init, McuInit, LoaderInit, OpAgrees, WorkEnds, ReadsAddUp, Released, Idle
<1> QED BY <1>2, <1>3, <1>4 DEF LoaderInv, TypeOK

\* The firmware neither enters nor leaves reset, and keeps the registers in
\* their types.
LEMMA FirmwareStep ==
  ASSUME McuTypeOK, McuStep
  PROVE  McuTypeOK' /\ (Released <=> Released')
<1>1. CASE McuSetup
  BY <1>1 DEF McuSetup, McuTypeOK, Released, OneOrNone
<1>2. CASE McuBoot
  BY <1>2 DEF McuBoot, Write, McuTypeOK, Released, Words
<1>3. CASE McuMark
  BY <1>3 DEF McuMark, McuTypeOK, Released
<1>4. CASE McuRead
  BY <1>4 DEF McuRead, McuTypeOK, Released, OneOrNone
<1>5. CASE McuAnswer
  <2>1. PICK p \in taken : Write(p.word) /\ answered' = (answered \/ p.last)
    BY <1>5 DEF McuAnswer
  <2>2. p \in Pings
    BY <2>1 DEF McuTypeOK, OneOrNone
  <2>3. p.word \in Words /\ p.last \in BOOLEAN
    BY <2>2 DEF Pings, Words
  <2>4. b2a' \in [up : BOOLEAN, word : Words]
    BY <2>1, <2>3 DEF Write, McuTypeOK
  <2>5. answered' \in BOOLEAN
    BY <2>1, <2>3 DEF McuTypeOK
  <2> QED BY <1>5, <2>4, <2>5 DEF McuAnswer, McuTypeOK, Released, OneOrNone
<1> QED BY <1>1, <1>2, <1>3, <1>4, <1>5 DEF McuStep

\* HoldInReset and Deassert in the types of the MCU.
LEMMA PowerStep ==
  ASSUME McuTypeOK, Power
  PROVE  McuTypeOK'
BY DEF Power, HoldInReset, Deassert, McuTypeOK, OneOrNone

\* A step that leaves the MCU alone keeps what Power and the firmware read of it.
LEMMA McuUnchanged ==
  ASSUME UNCHANGED mcuVars
  PROVE  (McuTypeOK <=> McuTypeOK') /\ (Released <=> Released')
BY DEF mcuVars, McuTypeOK, Released

\* A start or stop resets the MCU, releases it from reset, or leaves it alone.
LEMMA CommandPower ==
  ASSUME LoaderInv, LoaderCommand
  PROVE  Power \/ UNCHANGED mcuVars
<1> USE DEF mcuVars, chipVars, Power
<1>1. CASE Start BY <1>1 DEF Start
<1>2. CASE StartRefused BY <1>2 DEF StartRefused
<1>3. CASE LoadInReset BY <1>3 DEF LoadInReset
<1>4. CASE Release BY <1>4 DEF Release, LoaderInv, OpAgrees
<1>5. CASE ReleaseFails BY <1>5 DEF ReleaseFails, LoaderInv, OpAgrees
<1>6. CASE Announce BY <1>6 DEF Announce
<1>7. CASE Watch BY <1>7 DEF Watch
<1>8. CASE Stop BY <1>8 DEF Stop
<1>9. CASE Cancel BY <1>9 DEF Cancel
<1>10. CASE Drain BY <1>10 DEF Drain
<1> QED
  BY <1>1, <1>2, <1>3, <1>4, <1>5, <1>6, <1>7, <1>8, <1>9, <1>10 DEF LoaderCommand

\* One step per command: types, then the three parts of the invariant.
LEMMA CommandInv ==
  ASSUME LoaderInv, LoaderCommand
  PROVE  LoaderInv'
<1>1. McuTypeOK'
  BY CommandPower, PowerStep, McuUnchanged DEF LoaderInv, TypeOK
<1> USE DEF LoaderInv, TypeOK, LoaderTypeOK, OpAgrees, WorkEnds, ReadsAddUp, Released, Idle,
            workVars, chipVars, mcuVars, HoldInReset, Deassert, Ends
<1>2. 0 \in 0..(ByteMod - 1) /\ 2 \in 0..(ByteMod - 1)
  BY LoaderAssumption
<1>3. CASE Start BY <1>1, <1>3 DEF Start
<1>4. CASE StartRefused BY <1>1, <1>4 DEF StartRefused
<1>5. CASE LoadInReset BY <1>1, <1>5 DEF LoadInReset
<1>6. CASE Release BY <1>1, <1>6 DEF Release
<1>7. CASE ReleaseFails BY <1>1, <1>7 DEF ReleaseFails
<1>8. CASE Announce
  <2>1. alone' \in BOOLEAN /\ (alone' => ~pending /\ work = Idle)
    BY <1>8 DEF Announce
  <2>2. LoaderTypeOK'
    BY <1>2, <1>8, <2>1 DEF Announce
  <2>3. ReadsAddUp'
    BY <1>8, <2>1 DEF Announce
  <2>4. OpAgrees' /\ WorkEnds'
    BY <1>8 DEF Announce
  <2> QED BY <1>1, <2>2, <2>3, <2>4
<1>9. CASE Watch BY <1>1, <1>9 DEF Watch
<1>10. CASE Stop BY <1>1, <1>10 DEF Stop
<1>11. CASE Cancel BY <1>1, <1>11 DEF Cancel
<1>12. CASE Drain BY <1>1, <1>12 DEF Drain
<1> QED
  BY <1>3, <1>4, <1>5, <1>6, <1>7, <1>8, <1>9, <1>10, <1>11, <1>12 DEF LoaderCommand

\* One step per step of the work; only its own variables change.
LEMMA WorkInv ==
  ASSUME LoaderInv, HeartbeatWork
  PROVE  LoaderInv'
<1>1. McuTypeOK' /\ (Released <=> Released')
  BY McuUnchanged DEF HeartbeatWork, LoaderInv, TypeOK
<1>2. UNCHANGED <<op, running, result, alone>>
  BY DEF HeartbeatWork
<1>3. OpAgrees'
  BY <1>1, <1>2 DEF LoaderInv, OpAgrees
<1>4. work.val \in 0..(ByteMod - 1) /\ readsLeft \in 0..(ByteMod - 1) /\ reads \in Nat
  BY DEF LoaderInv, TypeOK, LoaderTypeOK
<1>5. 0 \in 0..(ByteMod - 1)
  BY LoaderAssumption
<1> USE DEF LoaderInv, TypeOK, LoaderTypeOK, WorkEnds, ReadsAddUp, Idle
<1>6. CASE WorkDue BY <1>1, <1>2, <1>3, <1>5, <1>6 DEF WorkDue
<1>7. CASE WorkCheck BY <1>1, <1>2, <1>3, <1>5, <1>7 DEF WorkCheck
<1>8. CASE WorkRead BY <1>1, <1>2, <1>3, <1>4, <1>8 DEF WorkRead
<1>9. CASE WorkStore
  <2>1. /\ readsLeft' = (work.val - 1) % ByteMod
        /\ readsLeft' \in 0..(ByteMod - 1)
        /\ work.val >= 1 => readsLeft' = work.val - 1
        /\ work' = [at |-> "again", val |-> readsLeft']
    BY <1>4, <1>9, Decrement DEF WorkStore
  <2> QED BY <1>1, <1>2, <1>3, <1>4, <1>9, <2>1 DEF WorkStore
<1>10. CASE WorkAgain
  <2>1. pending' \in BOOLEAN /\ (pending' => pending \/ (work.val # 0 /\ op # "drain"))
    BY <1>10 DEF WorkAgain
  <2> QED BY <1>1, <1>2, <1>3, <1>4, <1>5, <1>10, <2>1 DEF WorkAgain
<1> QED
  BY <1>6, <1>7, <1>8, <1>9, <1>10 DEF HeartbeatWork

\* ... every step keeps it, the kernel's workqueue at any moment of a start or stop, ...
LEMMA LoaderInvNext ==
  ASSUME LoaderInv, [Next]_vars
  PROVE  LoaderInv'
<1>1. CASE Firmware
  <2>1. McuTypeOK' /\ (Released <=> Released')
    BY <1>1, FirmwareStep DEF Firmware, LoaderInv, TypeOK
  <2> QED
    BY <1>1, <2>1
    DEF Firmware, loaderVars, LoaderInv, TypeOK, LoaderTypeOK, OpAgrees, WorkEnds, ReadsAddUp, Idle
<1>2. CASE LoaderCommand BY <1>2, CommandInv
<1>3. CASE HeartbeatWork BY <1>3, WorkInv
<1>4. CASE UNCHANGED vars
  <2>1. McuTypeOK' /\ (Released <=> Released')
    BY <1>4, McuUnchanged DEF vars, LoaderInv, TypeOK
  <2> QED
    BY <1>4, <2>1
    DEF vars, loaderVars, LoaderInv, TypeOK, LoaderTypeOK, OpAgrees, WorkEnds, ReadsAddUp, Idle
<1> QED BY <1>1, <1>2, <1>3, <1>4 DEF Next

\* ... and so it always holds.
LEMMA LoaderInvariance == Spec => []LoaderInv
BY LoaderInvInit, LoaderInvNext, PTL DEF Spec

\* What a counter leaves is one less for the decremented one than for it.
LEMMA OneRound ==
  ASSUME NEW v \in 0..(ByteMod - 1)
  PROVE  /\ (v - 1) % ByteMod = Round(v) - 1
         /\ Round(v) \in Nat /\ Round(v) >= 1
<1>1. ByteMod \in Nat /\ ByteMod > 2 BY LoaderAssumption
<1>2. CASE v = 0
  <2>1. \A m \in Nat : m > 2 => (-1) % m = m - 1 OBVIOUS
  <2>2. (-1) % ByteMod = ByteMod - 1 BY <1>1, <2>1
  <2>3. v - 1 = -1 BY <1>2
  <2> QED BY <1>1, <1>2, <2>2, <2>3 DEF Round
<1>3. CASE v # 0
  BY <1>1, <1>3, Decrement DEF Round
<1> QED BY <1>2, <1>3

\* The bound on the reads holds initially and survives every start, every stop and
\* every step of the work.
LEMMA RoundsStep ==
  ASSUME LoaderInv, Rounds, LoaderCommand \/ HeartbeatWork \/ UNCHANGED loaderVars
  PROVE  Rounds'
<1> USE DEF Rounds
<1>1. /\ ByteMod \in Nat /\ ByteMod > 2
      /\ readsLeft \in 0..(ByteMod - 1) /\ reads \in Nat
      /\ work \in [at : {"idle", "check", "read", "store", "again"}, val : 0..(ByteMod - 1)]
  BY LoaderAssumption DEF LoaderInv, TypeOK, LoaderTypeOK
<1>2. Round(readsLeft) \in Nat /\ Round(readsLeft) <= ByteMod
  BY <1>1 DEF Round
<1>3. CASE UNCHANGED loaderVars
  BY <1>3 DEF loaderVars, Round
<1>4. CASE Announce
  <2>1. /\ op' = "watch" /\ readsLeft' = 2 /\ reads' = 0
        /\ pending' = pending /\ work' = work
    BY <1>4 DEF Announce
  <2>2. Round(readsLeft') = 2
    BY <2>1 DEF Round
  <2> DEFINE v == (work.val - 1) % ByteMod
  <2>3. v \in 0..(ByteMod - 1)
    BY <1>1, Decrement
  <2>4. Round(v) \in Nat /\ Round(v) <= ByteMod
    BY <1>1, <2>3 DEF Round
  <2>5. /\ (work'.val - 1) % ByteMod = v
        /\ Round((work'.val - 1) % ByteMod) = Round(v)
    BY <2>1
  <2> HIDE DEF v
  <2> QED
    BY <1>1, <2>1, <2>2, <2>3, <2>4, <2>5
<1>5. CASE LoaderCommand /\ ~Announce
  <2>1. /\ readsLeft' = readsLeft /\ reads' = reads /\ work' = work
        /\ op' # "watch"
        /\ pending' => pending \/ op = "watch"
    BY <1>5
    DEF LoaderCommand, Start, StartRefused, LoadInReset, Release, ReleaseFails, Watch, Stop,
        Cancel, Drain, Ends, workVars
  <2>2. (work.val - 1) % ByteMod \in 0..(ByteMod - 1)
    BY <1>1, Decrement
  <2> QED
    BY <1>1, <1>2, <2>1, <2>2 DEF Round
<1>6. CASE HeartbeatWork
  <2>1. op' = op
    BY <1>6 DEF HeartbeatWork
  <2>2. CASE WorkDue
    BY <1>1, <1>2, <2>1, <2>2 DEF WorkDue, Idle, Round
  <2>3. CASE WorkCheck
    BY <1>1, <1>2, <2>1, <2>3 DEF WorkCheck, Idle, Round
  <2>4. CASE WorkRead
    <3>1. /\ work.at = "read" /\ reads' = reads + 1 /\ pending' = pending
          /\ work'.at = "store" /\ work'.val = readsLeft
      BY <2>4 DEF WorkRead
    <3>2. (work'.val - 1) % ByteMod = Round(readsLeft) - 1
      BY <1>1, <3>1, OneRound
    <3>3. readsLeft = 2 => (work'.val - 1) % ByteMod = 1
      BY <3>2 DEF Round
    <3>4. readsLeft = 2 => Round((work'.val - 1) % ByteMod) = 1
      BY <3>3 DEF Round
    <3>5. reads' <= 2 * ByteMod
      BY <1>1, <1>2, <3>1, <3>2, OneRound
    <3> QED
      BY <1>1, <1>2, <2>1, <3>1, <3>2, <3>3, <3>4, <3>5
  <2>5. CASE WorkStore
    <3> DEFINE v == (work.val - 1) % ByteMod
    <3>1. /\ work.at = "store" /\ readsLeft' = v /\ pending' = pending /\ reads' = reads
          /\ work'.at = "again" /\ work'.val = v
      BY <2>5 DEF WorkStore
    <3>2. v \in 0..(ByteMod - 1)
      BY <1>1, Decrement
    <3>3. /\ Round(readsLeft') <= ByteMod
          /\ v # 0 => Round(readsLeft') = v
          /\ Round(readsLeft') <= v + ByteMod
          /\ Round(readsLeft') = Round(v) /\ Round(v) \in Nat
      BY <1>1, <3>1, <3>2 DEF Round
    <3> HIDE DEF v
    <3>4. /\ reads + v <= 2 * ByteMod
          /\ pending \/ op = "watch" => reads + v <= ByteMod
          /\ pending /\ op = "watch" => reads + Round(v) <= ByteMod
      BY <3>1 DEF v
    <3> QED
      BY <1>1, <2>1, <3>1, <3>2, <3>3, <3>4
  <2>6. CASE WorkAgain
    <3>1. /\ work.at = "again" /\ work'.at = "idle" /\ readsLeft' = readsLeft /\ reads' = reads
          /\ pending' => pending \/ work.val # 0
      BY <2>6 DEF WorkAgain, Idle
    <3> QED
      BY <1>1, <1>2, <2>1, <3>1 DEF Round
  <2> QED
    BY <1>6, <2>2, <2>3, <2>4, <2>5, <2>6 DEF HeartbeatWork
<1> QED
  BY <1>3, <1>4, <1>5, <1>6

\* ... and always holds.
LEMMA RoundsInvariance == Spec => []Rounds
<1>1. Init => Rounds
  BY LoaderAssumption DEF Init, LoaderInit, Rounds, Idle
<1>2. LoaderInv /\ Rounds /\ [Next]_vars => Rounds'
  BY RoundsStep DEF Next, Firmware, vars
<1> QED
  BY <1>1, <1>2, LoaderInvariance, PTL DEF Spec

\* What the invariants say once the lock is free and of the reads.
LEMMA LoaderInvMeans ==
  ASSUME LoaderInv
  PROVE  QuietWhenStopped /\ (Rounds => TwoReads) /\ HonestStatus
<1>1. QuietWhenStopped
  BY DEF LoaderInv, WorkEnds, QuietWhenStopped
<1>2. Rounds => TwoReads
  <2>1. reads \in Nat /\ readsLeft \in Nat
    BY LoaderAssumption DEF LoaderInv, TypeOK, LoaderTypeOK
  <2>2. work.at \in {"idle", "check", "read", "store", "again"}
    BY DEF LoaderInv, TypeOK, LoaderTypeOK
  <2> QED BY <2>1, <2>2 DEF LoaderInv, ReadsAddUp, Rounds, TwoReads
<1>3. HonestStatus
  BY DEF LoaderInv, OpAgrees, HonestStatus
<1> QED BY <1>1, <1>2, <1>3

-----------------------------------------------------------------------------
\* The state of the loader and of the mailbox stays in its types; the counter
\* stays a byte also when a start and the work collide on it.
THEOREM LoaderTypeCorrect == Spec => []TypeOK
<1>1. LoaderInv => TypeOK BY DEF LoaderInv
<1> QED BY <1>1, LoaderInvariance, PTL

\* No work is left, queued or running, once a stop has returned.
THEOREM Quiet == Spec => []QuietWhenStopped
BY LoaderInvMeans, LoaderInvariance, PTL

\* A start that found no earlier work is followed by two reads at most, any other
\* by two rounds of the counter at most.
THEOREM AtMostTwoReads == Spec => []TwoReads
BY LoaderInvMeans, LoaderInvariance, RoundsInvariance, PTL

\* After a start or stop that succeeded the status is that of the MCU.
THEOREM Honest == Spec => []HonestStatus
BY LoaderInvMeans, LoaderInvariance, PTL

\* The loader implements the power control that the mailbox is modelled with.
THEOREM PowerControl == Spec => PowerOnly
<1>1. ASSUME LoaderInv, [Next]_vars PROVE [McuStep \/ Power]_mcuVars
  <2>1. CASE Firmware BY <2>1 DEF Firmware
  <2>2. CASE LoaderCommand BY <1>1, <2>2, CommandPower
  <2>3. CASE HeartbeatWork BY <2>3 DEF HeartbeatWork
  <2>4. CASE UNCHANGED vars BY <2>4 DEF vars
  <2> QED BY <1>1, <2>1, <2>2, <2>3, <2>4 DEF Next
<1> QED BY <1>1, LoaderInvariance, PTL DEF Spec, PowerOnly

-----------------------------------------------------------------------------
(***************************************************************************)
(* What the loader promises to come, from its fairness.  That a step which *)
(* is ready is enabled (CommandGoesOn, WorkGoesOn) is assumed: ENABLED is  *)
(* beyond the prover.                                                      *)
(***************************************************************************)

\* The fairness of the loader, and what it is about: whenever a start or stop, or the
\* work, can go on its next step can be taken.
LoaderRunsOn == FairSpec /\ [](CommandGoesOn /\ WorkGoesOn)

\* The reads made and those to come add up to two exactly, and as long as one is
\* to come the work is about to be queued, queued, or at it.
ReadsToCome ==
  /\ work.at = "idle" => work = Idle
  /\ running /\ alone =>
       /\ work.at \in {"idle", "check", "read"} => reads + readsLeft = 2
       /\ work.at = "store" => reads >= 1 /\ work.val = readsLeft /\ reads + readsLeft = 3
       /\ work.at = "again" => reads >= 1 /\ work.val = readsLeft /\ reads + readsLeft = 2
       /\ reads < 2 => op = "watch" \/ pending \/ work.at # "idle"
       /\ op = "watch" => reads = 0

\* It holds initially, and every step keeps it.
LEMMA ReadsToComeNext ==
  ASSUME LoaderInv, ReadsToCome, [Next]_vars
  PROVE  ReadsToCome'
<1> USE DEF LoaderInv, TypeOK, LoaderTypeOK, ReadsAddUp, OpAgrees, ReadsToCome, Idle
<1>1. CASE Firmware \/ UNCHANGED vars
  BY <1>1 DEF Firmware, vars, loaderVars
<1>2. CASE LoaderCommand
  BY <1>2
  DEF LoaderCommand, Start, StartRefused, LoadInReset, Release, ReleaseFails, Announce, Watch,
      Stop, Cancel, Drain, Ends, workVars
<1>3. CASE HeartbeatWork
  <2>1. UNCHANGED <<op, running, alone>>
    BY <1>3 DEF HeartbeatWork
  <2>2. CASE WorkDue
    BY <2>1, <2>2 DEF WorkDue
  <2>3. CASE WorkCheck
    BY <2>1, <2>3 DEF WorkCheck
  <2>4. CASE WorkRead
    BY <2>1, <2>4 DEF WorkRead
  <2>5. CASE WorkStore
    <3>1. work.val \in 0..(ByteMod - 1)
      OBVIOUS
    <3>2. work.val >= 1 => (work.val - 1) % ByteMod = work.val - 1
      BY <3>1, Decrement
    <3> QED
      BY <2>1, <2>5, <3>1, <3>2 DEF WorkStore
  <2>6. CASE WorkAgain
    BY <2>1, <2>6 DEF WorkAgain
  <2> QED
    BY <1>3, <2>2, <2>3, <2>4, <2>5, <2>6 DEF HeartbeatWork
<1> QED
  BY <1>1, <1>2, <1>3 DEF Next

\* Hence it always holds.
LEMMA ReadsComeInvariance == Spec => []ReadsToCome
<1>1. Init => ReadsToCome
  BY DEF Init, LoaderInit, ReadsToCome, Idle
<1> QED
  BY <1>1, ReadsToComeNext, LoaderInvariance, PTL DEF Spec

\* Where a start or stop goes from each of its steps.
StepsTo(p) ==
  CASE p = "load" -> {"release", "none"}
    [] p = "release" -> {"announce", "none"}
    [] p = "announce" -> {"watch"}
    [] p = "watch" -> {"none"}
    [] p = "cancel" -> {"drain"}

\* Each of them can be taken, and no other.
LEMMA CommandStepTaken ==
  ASSUME NEW p \in {"load", "release", "announce", "watch", "cancel"}
  PROVE  /\ op = p /\ [Next]_vars => (op = p)' \/ (op \in StepsTo(p))'
         /\ op = p /\ <<op # "none" /\ LoaderCommand>>_vars => (op \in StepsTo(p))'
         /\ op = p => CommandReady
<1>1. op = p /\ [Next]_vars => (op = p)' \/ (op \in StepsTo(p))'
  BY DEF Next, Firmware, HeartbeatWork, vars, loaderVars, StepsTo,
         LoaderCommand, Start, StartRefused, LoadInReset, Release, ReleaseFails, Announce, Watch,
         Stop, Cancel, Drain, Ends
<1>2. op = p /\ <<op # "none" /\ LoaderCommand>>_vars => (op \in StepsTo(p))'
  BY DEF StepsTo,
         LoaderCommand, Start, StartRefused, LoadInReset, Release, ReleaseFails, Announce, Watch,
         Stop, Cancel, Drain, Ends
<1>3. op = p => CommandReady
  BY DEF CommandReady
<1> QED
  BY <1>1, <1>2, <1>3

\* While a stop waits for the work, it goes from each of its steps to a later one,
\* since the loader does not run and the work is not queued.
WorkStepsTo(q) ==
  CASE q = "check" -> "idle" [] q = "read" -> "store" [] q = "store" -> "again" [] q = "again" -> "idle"

Draining(q) == op = "drain" /\ work.at = q

\* Each of them can be taken, and no other.
LEMMA DrainStepTaken ==
  ASSUME NEW q \in {"check", "read", "store", "again"}
  PROVE  /\ LoaderInv /\ Draining(q) /\ [Next]_vars => Draining(q)' \/ Draining(WorkStepsTo(q))'
         /\ LoaderInv /\ Draining(q) /\ <<HeartbeatWork>>_vars => Draining(WorkStepsTo(q))'
         /\ Draining(q) => WorkReady
<1>1. ASSUME LoaderInv, Draining(q), LoaderCommand PROVE FALSE
  BY <1>1 DEF Draining, Idle, LoaderCommand, Start, StartRefused, LoadInReset, Release,
              ReleaseFails, Announce, Watch, Stop, Cancel, Drain
<1>2. ASSUME LoaderInv, Draining(q), HeartbeatWork PROVE Draining(WorkStepsTo(q))'
  BY <1>2 DEF LoaderInv, OpAgrees, Draining, WorkStepsTo, HeartbeatWork, WorkDue, WorkCheck,
              WorkRead, WorkStore, WorkAgain, Idle
<1>3. LoaderInv /\ Draining(q) /\ [Next]_vars => Draining(q)' \/ Draining(WorkStepsTo(q))'
  BY <1>1, <1>2 DEF Next, Firmware, vars, loaderVars, Draining
<1>4. Draining(q) => WorkReady
  BY DEF Draining, WorkReady, Idle
<1> QED
  BY <1>2, <1>3, <1>4

\* Once the work is idle it stays so, and the stop returns.
LEMMA DrainEnds == LoaderRunsOn => (Draining("idle") ~> op = "none")
<1>1. ASSUME LoaderInv, Draining("idle"), HeartbeatWork PROVE FALSE
  BY <1>1 DEF LoaderInv, OpAgrees, WorkEnds, Draining, HeartbeatWork, WorkDue, WorkCheck,
              WorkRead, WorkStore, WorkAgain
<1>2. ASSUME Draining("idle"), LoaderCommand PROVE (op = "none")'
  BY <1>2 DEF Draining, LoaderCommand, Start, StartRefused, LoadInReset, Release,
              ReleaseFails, Announce, Watch, Stop, Cancel, Drain
<1>3. LoaderInv /\ Draining("idle") /\ [Next]_vars => Draining("idle")' \/ (op = "none")'
  BY <1>1, <1>2 DEF Next, Firmware, vars, loaderVars, Draining
<1>4. Draining("idle") /\ <<op # "none" /\ LoaderCommand>>_vars => (op = "none")'
  BY <1>2
<1>5. ReadsToCome /\ Draining("idle") => CommandReady
  BY DEF ReadsToCome, Draining, CommandReady
<1> QED
  BY <1>3, <1>4, <1>5, LoaderInvariance, ReadsComeInvariance, PTL
  DEF LoaderRunsOn, FairSpec, Spec, CommandGoesOn

\* Every start and stop returns, whatever fails and wherever the work is:
\* cancel_delayed_work_sync may wait under the lock, because the work takes none and
\* cannot queue itself meanwhile.
THEOREM EveryCommandReturns == LoaderRunsOn => CommandsReturn
<1>1. LoaderRunsOn => (op = "load" ~> op \in StepsTo("load"))
  <2>1. /\ op = "load" /\ [Next]_vars => (op = "load")' \/ (op \in StepsTo("load"))'
        /\ op = "load" /\ <<op # "none" /\ LoaderCommand>>_vars => (op \in StepsTo("load"))'
        /\ op = "load" => CommandReady
    BY CommandStepTaken
  <2> QED
    BY <2>1, PTL DEF LoaderRunsOn, FairSpec, Spec, CommandGoesOn
<1>2. LoaderRunsOn => (op = "release" ~> op \in StepsTo("release"))
  <2>1. /\ op = "release" /\ [Next]_vars => (op = "release")' \/ (op \in StepsTo("release"))'
        /\ op = "release" /\ <<op # "none" /\ LoaderCommand>>_vars => (op \in StepsTo("release"))'
        /\ op = "release" => CommandReady
    BY CommandStepTaken
  <2> QED
    BY <2>1, PTL DEF LoaderRunsOn, FairSpec, Spec, CommandGoesOn
<1>3. LoaderRunsOn => (op = "announce" ~> op \in StepsTo("announce"))
  <2>1. /\ op = "announce" /\ [Next]_vars => (op = "announce")' \/ (op \in StepsTo("announce"))'
        /\ op = "announce" /\ <<op # "none" /\ LoaderCommand>>_vars => (op \in StepsTo("announce"))'
        /\ op = "announce" => CommandReady
    BY CommandStepTaken
  <2> QED
    BY <2>1, PTL DEF LoaderRunsOn, FairSpec, Spec, CommandGoesOn
<1>4. LoaderRunsOn => (op = "watch" ~> op \in StepsTo("watch"))
  <2>1. /\ op = "watch" /\ [Next]_vars => (op = "watch")' \/ (op \in StepsTo("watch"))'
        /\ op = "watch" /\ <<op # "none" /\ LoaderCommand>>_vars => (op \in StepsTo("watch"))'
        /\ op = "watch" => CommandReady
    BY CommandStepTaken
  <2> QED
    BY <2>1, PTL DEF LoaderRunsOn, FairSpec, Spec, CommandGoesOn
<1>5. LoaderRunsOn => (op = "cancel" ~> op \in StepsTo("cancel"))
  <2>1. /\ op = "cancel" /\ [Next]_vars => (op = "cancel")' \/ (op \in StepsTo("cancel"))'
        /\ op = "cancel" /\ <<op # "none" /\ LoaderCommand>>_vars => (op \in StepsTo("cancel"))'
        /\ op = "cancel" => CommandReady
    BY CommandStepTaken
  <2> QED
    BY <2>1, PTL DEF LoaderRunsOn, FairSpec, Spec, CommandGoesOn
<1>6. LoaderRunsOn => (Draining("check") ~> Draining(WorkStepsTo("check")))
  <2>1. /\ LoaderInv /\ Draining("check") /\ [Next]_vars => Draining("check")' \/ Draining(WorkStepsTo("check"))'
        /\ LoaderInv /\ Draining("check") /\ <<HeartbeatWork>>_vars => Draining(WorkStepsTo("check"))'
        /\ Draining("check") => WorkReady
    BY DrainStepTaken
  <2> QED
    BY <2>1, LoaderInvariance, PTL DEF LoaderRunsOn, FairSpec, Spec, WorkGoesOn
<1>7. LoaderRunsOn => (Draining("read") ~> Draining(WorkStepsTo("read")))
  <2>1. /\ LoaderInv /\ Draining("read") /\ [Next]_vars => Draining("read")' \/ Draining(WorkStepsTo("read"))'
        /\ LoaderInv /\ Draining("read") /\ <<HeartbeatWork>>_vars => Draining(WorkStepsTo("read"))'
        /\ Draining("read") => WorkReady
    BY DrainStepTaken
  <2> QED
    BY <2>1, LoaderInvariance, PTL DEF LoaderRunsOn, FairSpec, Spec, WorkGoesOn
<1>8. LoaderRunsOn => (Draining("store") ~> Draining(WorkStepsTo("store")))
  <2>1. /\ LoaderInv /\ Draining("store") /\ [Next]_vars => Draining("store")' \/ Draining(WorkStepsTo("store"))'
        /\ LoaderInv /\ Draining("store") /\ <<HeartbeatWork>>_vars => Draining(WorkStepsTo("store"))'
        /\ Draining("store") => WorkReady
    BY DrainStepTaken
  <2> QED
    BY <2>1, LoaderInvariance, PTL DEF LoaderRunsOn, FairSpec, Spec, WorkGoesOn
<1>9. LoaderRunsOn => (Draining("again") ~> Draining(WorkStepsTo("again")))
  <2>1. /\ LoaderInv /\ Draining("again") /\ [Next]_vars => Draining("again")' \/ Draining(WorkStepsTo("again"))'
        /\ LoaderInv /\ Draining("again") /\ <<HeartbeatWork>>_vars => Draining(WorkStepsTo("again"))'
        /\ Draining("again") => WorkReady
    BY DrainStepTaken
  <2> QED
    BY <2>1, LoaderInvariance, PTL DEF LoaderRunsOn, FairSpec, Spec, WorkGoesOn
<1>10. /\ op \in StepsTo("load") => op = "release" \/ op = "none"
       /\ op \in StepsTo("release") => op = "announce" \/ op = "none"
       /\ op \in StepsTo("announce") => op = "watch"
       /\ op \in StepsTo("watch") => op = "none"
       /\ op \in StepsTo("cancel") => op = "drain"
  BY DEF StepsTo
<1>11. /\ Draining(WorkStepsTo("check")) => Draining("idle")
       /\ Draining(WorkStepsTo("read")) => Draining("store")
       /\ Draining(WorkStepsTo("store")) => Draining("again")
       /\ Draining(WorkStepsTo("again")) => Draining("idle")
  BY DEF WorkStepsTo
<1>12. LoaderInv /\ op = "drain" =>
        \/ Draining("idle") \/ Draining("check") \/ Draining("read")
        \/ Draining("store") \/ Draining("again")
  BY DEF LoaderInv, TypeOK, LoaderTypeOK, Draining
<1>13. LoaderInv /\ op # "none" =>
        \/ op = "load" \/ op = "release" \/ op = "announce" \/ op = "watch"
        \/ op = "cancel" \/ op = "drain"
  BY DEF LoaderInv, TypeOK, LoaderTypeOK
<1>14. LoaderRunsOn => Spec
  BY PTL DEF LoaderRunsOn, FairSpec
<1> QED
  BY <1>1, <1>2, <1>3, <1>4, <1>5, <1>6, <1>7, <1>8, <1>9, <1>10, <1>11, <1>12, <1>13, <1>14,
     DrainEnds, LoaderInvariance, PTL DEF CommandsReturn

\* What BothReads waits for; and a start whose reads have come to r, with the work at q.
ReadsOver == reads = 2 \/ ~running \/ ~alone

ReadAt(r, q) ==
  running /\ alone /\ reads = r /\ work.at = q /\ (q = "idle" => pending)

\* The start itself is about to queue the work, and then it returns.
LEMMA ReadsBegin ==
  LoaderRunsOn => (op = "watch" /\ ~ReadsOver ~> ReadAt(0, "idle") \/ ReadsOver)
<1> DEFINE W == op = "watch" /\ ~ReadsOver
           Q == ReadAt(0, "idle") \/ ReadsOver
<1>1. ASSUME LoaderInv, ReadsToCome, W, HeartbeatWork PROVE FALSE
  BY <1>1 DEF LoaderInv, ReadsAddUp, ReadsOver, HeartbeatWork, WorkDue, WorkCheck, WorkRead,
              WorkStore, WorkAgain, Idle
<1>2. ASSUME LoaderInv, ReadsToCome, W, LoaderCommand PROVE Q'
  BY <1>2 DEF LoaderInv, ReadsAddUp, ReadsToCome, ReadsOver, ReadAt, Idle,
              LoaderCommand, Start, StartRefused, LoadInReset, Release,
              ReleaseFails, Announce, Watch, Stop, Cancel, Drain
<1>3. ASSUME W, Firmware \/ UNCHANGED vars PROVE W'
  BY <1>3 DEF Firmware, vars, loaderVars, ReadsOver
<1>4. /\ LoaderInv /\ ReadsToCome /\ W /\ [Next]_vars => W' \/ Q'
      /\ LoaderInv /\ ReadsToCome /\ W /\ <<op # "none" /\ LoaderCommand>>_vars => Q'
      /\ W => CommandReady
  BY <1>1, <1>2, <1>3 DEF Next, CommandReady
<1> QED
  BY <1>4, LoaderInvariance, ReadsComeInvariance, PTL
  DEF LoaderRunsOn, FairSpec, Spec, CommandGoesOn

\* Where the work goes from each of its steps, and what the reads have come to then.
NextRead(r, q) ==
  CASE q = "idle" -> ReadAt(r, "check")
    [] q = "check" -> ReadAt(r, "read")
    [] q = "read" -> ReadAt(r + 1, "store")
    [] q = "store" -> ReadAt(r, "again")
    [] q = "again" -> ReadAt(r, "idle")

\* Each of these can be taken, and no other unless a stop or another start comes:
\* in particular the work queues itself again after the first read.
LEMMA ReadStepTaken ==
  ASSUME NEW r \in {0, 1}, NEW q \in {"idle", "check", "read", "store", "again"}
  PROVE  /\ LoaderInv /\ ReadsToCome /\ ReadAt(r, q) /\ [Next]_vars =>
              ReadAt(r, q)' \/ NextRead(r, q)' \/ ReadsOver'
         /\ LoaderInv /\ ReadsToCome /\ ReadAt(r, q) /\ <<HeartbeatWork>>_vars =>
              NextRead(r, q)' \/ ReadsOver'
         /\ ReadAt(r, q) => WorkReady
<1>1. ASSUME LoaderInv, ReadsToCome, ReadAt(r, q), LoaderCommand
      PROVE  ReadAt(r, q)' \/ ReadsOver'
  <2>1. pending \/ work # Idle
    BY <1>1 DEF ReadAt, Idle
  <2>2. op # "watch" /\ op \notin {"cancel", "drain"}
    BY <1>1, <2>1 DEF LoaderInv, ReadsAddUp, OpAgrees, ReadAt
  <2>3. CASE Announce
    <3>1. ~alone'
      BY <2>1, <2>3 DEF Announce
    <3> QED
      BY <3>1 DEF ReadsOver
  <2>4. CASE Stop
    BY <2>4 DEF Stop, ReadsOver
  <2>5. CASE Start \/ StartRefused \/ LoadInReset \/ Release \/ ReleaseFails
    <3>1. UNCHANGED <<running, alone, reads, work, pending>>
      BY <2>5 DEF Start, StartRefused, LoadInReset, Release, ReleaseFails, workVars
    <3> QED
      BY <1>1, <3>1 DEF ReadAt
  <2> QED
    BY <1>1, <2>2, <2>3, <2>4, <2>5 DEF LoaderCommand, Watch, Cancel, Drain
<1>2. ASSUME LoaderInv, ReadsToCome, ReadAt(r, q), HeartbeatWork
      PROVE  NextRead(r, q)' \/ ReadsOver'
  <2> USE DEF LoaderInv, TypeOK, LoaderTypeOK, OpAgrees, ReadsToCome, ReadAt, NextRead, Idle
  <2>1. UNCHANGED <<running, alone, op>> /\ running /\ alone /\ op # "drain"
    BY <1>2 DEF HeartbeatWork
  <2>2. CASE WorkDue
    BY <1>2, <2>1, <2>2 DEF WorkDue
  <2>3. CASE WorkCheck
    BY <1>2, <2>1, <2>3 DEF WorkCheck
  <2>4. CASE WorkRead
    BY <1>2, <2>1, <2>4 DEF WorkRead
  <2>5. CASE WorkStore
    BY <1>2, <2>1, <2>5 DEF WorkStore
  <2>6. CASE WorkAgain
    <3>1. work.at = "again" /\ work' = Idle /\ reads' = reads /\ q = "again" /\ reads = r
      BY <1>2, <2>6 DEF WorkAgain
    <3>2. r = 2 \/ work.val # 0
      <4>1. work.val = readsLeft /\ reads + readsLeft = 2 /\ readsLeft \in Int
        BY <1>2, <2>1, <3>1, LoaderAssumption
      <4> QED
        BY <3>1, <4>1
    <3>3. r # 2
      OBVIOUS
    <3>4. pending'
      <4> USE <2>1, <2>6, <3>2, <3>3 DEF WorkAgain
      <4> QED
        OBVIOUS
    <3> QED
      BY <1>2, <2>1, <3>1, <3>4
  <2> QED
    BY <1>2, <2>2, <2>3, <2>4, <2>5, <2>6 DEF HeartbeatWork
<1>3. ASSUME ReadAt(r, q), Firmware \/ UNCHANGED vars PROVE ReadAt(r, q)'
  BY <1>3 DEF Firmware, vars, loaderVars, ReadAt
<1>4. ReadAt(r, q) => WorkReady
  BY DEF ReadAt, WorkReady, Idle
<1> QED
  BY <1>1, <1>2, <1>3, <1>4 DEF Next

\* A start that found no work of an earlier one is followed by two reads, one after
\* the other, unless a stop or another start comes first.
THEOREM BothReadsCome == LoaderRunsOn => BothReads
<1>1. LoaderRunsOn => (ReadAt(0, "idle") ~> NextRead(0, "idle") \/ ReadsOver)
  <2>1. /\ LoaderInv /\ ReadsToCome /\ ReadAt(0, "idle") /\ [Next]_vars =>
             ReadAt(0, "idle")' \/ NextRead(0, "idle")' \/ ReadsOver'
        /\ LoaderInv /\ ReadsToCome /\ ReadAt(0, "idle") /\ <<HeartbeatWork>>_vars => NextRead(0, "idle")' \/ ReadsOver'
        /\ ReadAt(0, "idle") => WorkReady
    BY ReadStepTaken
  <2> QED
    BY <2>1, LoaderInvariance, ReadsComeInvariance, PTL
    DEF LoaderRunsOn, FairSpec, Spec, WorkGoesOn
<1>2. LoaderRunsOn => (ReadAt(0, "check") ~> NextRead(0, "check") \/ ReadsOver)
  <2>1. /\ LoaderInv /\ ReadsToCome /\ ReadAt(0, "check") /\ [Next]_vars =>
             ReadAt(0, "check")' \/ NextRead(0, "check")' \/ ReadsOver'
        /\ LoaderInv /\ ReadsToCome /\ ReadAt(0, "check") /\ <<HeartbeatWork>>_vars => NextRead(0, "check")' \/ ReadsOver'
        /\ ReadAt(0, "check") => WorkReady
    BY ReadStepTaken
  <2> QED
    BY <2>1, LoaderInvariance, ReadsComeInvariance, PTL
    DEF LoaderRunsOn, FairSpec, Spec, WorkGoesOn
<1>3. LoaderRunsOn => (ReadAt(0, "read") ~> NextRead(0, "read") \/ ReadsOver)
  <2>1. /\ LoaderInv /\ ReadsToCome /\ ReadAt(0, "read") /\ [Next]_vars =>
             ReadAt(0, "read")' \/ NextRead(0, "read")' \/ ReadsOver'
        /\ LoaderInv /\ ReadsToCome /\ ReadAt(0, "read") /\ <<HeartbeatWork>>_vars => NextRead(0, "read")' \/ ReadsOver'
        /\ ReadAt(0, "read") => WorkReady
    BY ReadStepTaken
  <2> QED
    BY <2>1, LoaderInvariance, ReadsComeInvariance, PTL
    DEF LoaderRunsOn, FairSpec, Spec, WorkGoesOn
<1>4. LoaderRunsOn => (ReadAt(1, "store") ~> NextRead(1, "store") \/ ReadsOver)
  <2>1. /\ LoaderInv /\ ReadsToCome /\ ReadAt(1, "store") /\ [Next]_vars =>
             ReadAt(1, "store")' \/ NextRead(1, "store")' \/ ReadsOver'
        /\ LoaderInv /\ ReadsToCome /\ ReadAt(1, "store") /\ <<HeartbeatWork>>_vars => NextRead(1, "store")' \/ ReadsOver'
        /\ ReadAt(1, "store") => WorkReady
    BY ReadStepTaken
  <2> QED
    BY <2>1, LoaderInvariance, ReadsComeInvariance, PTL
    DEF LoaderRunsOn, FairSpec, Spec, WorkGoesOn
<1>5. LoaderRunsOn => (ReadAt(1, "again") ~> NextRead(1, "again") \/ ReadsOver)
  <2>1. /\ LoaderInv /\ ReadsToCome /\ ReadAt(1, "again") /\ [Next]_vars =>
             ReadAt(1, "again")' \/ NextRead(1, "again")' \/ ReadsOver'
        /\ LoaderInv /\ ReadsToCome /\ ReadAt(1, "again") /\ <<HeartbeatWork>>_vars => NextRead(1, "again")' \/ ReadsOver'
        /\ ReadAt(1, "again") => WorkReady
    BY ReadStepTaken
  <2> QED
    BY <2>1, LoaderInvariance, ReadsComeInvariance, PTL
    DEF LoaderRunsOn, FairSpec, Spec, WorkGoesOn
<1>6. LoaderRunsOn => (ReadAt(1, "idle") ~> NextRead(1, "idle") \/ ReadsOver)
  <2>1. /\ LoaderInv /\ ReadsToCome /\ ReadAt(1, "idle") /\ [Next]_vars =>
             ReadAt(1, "idle")' \/ NextRead(1, "idle")' \/ ReadsOver'
        /\ LoaderInv /\ ReadsToCome /\ ReadAt(1, "idle") /\ <<HeartbeatWork>>_vars => NextRead(1, "idle")' \/ ReadsOver'
        /\ ReadAt(1, "idle") => WorkReady
    BY ReadStepTaken
  <2> QED
    BY <2>1, LoaderInvariance, ReadsComeInvariance, PTL
    DEF LoaderRunsOn, FairSpec, Spec, WorkGoesOn
<1>7. LoaderRunsOn => (ReadAt(1, "check") ~> NextRead(1, "check") \/ ReadsOver)
  <2>1. /\ LoaderInv /\ ReadsToCome /\ ReadAt(1, "check") /\ [Next]_vars =>
             ReadAt(1, "check")' \/ NextRead(1, "check")' \/ ReadsOver'
        /\ LoaderInv /\ ReadsToCome /\ ReadAt(1, "check") /\ <<HeartbeatWork>>_vars => NextRead(1, "check")' \/ ReadsOver'
        /\ ReadAt(1, "check") => WorkReady
    BY ReadStepTaken
  <2> QED
    BY <2>1, LoaderInvariance, ReadsComeInvariance, PTL
    DEF LoaderRunsOn, FairSpec, Spec, WorkGoesOn
<1>8. LoaderRunsOn => (ReadAt(1, "read") ~> NextRead(1, "read") \/ ReadsOver)
  <2>1. /\ LoaderInv /\ ReadsToCome /\ ReadAt(1, "read") /\ [Next]_vars =>
             ReadAt(1, "read")' \/ NextRead(1, "read")' \/ ReadsOver'
        /\ LoaderInv /\ ReadsToCome /\ ReadAt(1, "read") /\ <<HeartbeatWork>>_vars => NextRead(1, "read")' \/ ReadsOver'
        /\ ReadAt(1, "read") => WorkReady
    BY ReadStepTaken
  <2> QED
    BY <2>1, LoaderInvariance, ReadsComeInvariance, PTL
    DEF LoaderRunsOn, FairSpec, Spec, WorkGoesOn
<1>9. /\ NextRead(0, "idle") => ReadAt(0, "check")
      /\ NextRead(0, "check") => ReadAt(0, "read")
      /\ NextRead(0, "read") => ReadAt(1, "store")
      /\ NextRead(1, "store") => ReadAt(1, "again")
      /\ NextRead(1, "again") => ReadAt(1, "idle")
      /\ NextRead(1, "idle") => ReadAt(1, "check")
      /\ NextRead(1, "check") => ReadAt(1, "read")
      /\ NextRead(1, "read") => ReadsOver
  BY DEF NextRead, ReadAt, ReadsOver
<1>10. LoaderInv /\ ReadsToCome /\ ~ReadsOver =>
         \/ op = "watch" /\ ~ReadsOver
         \/ ReadAt(0, "idle") \/ ReadAt(0, "check") \/ ReadAt(0, "read")
         \/ ReadAt(1, "store") \/ ReadAt(1, "again") \/ ReadAt(1, "idle")
         \/ ReadAt(1, "check") \/ ReadAt(1, "read")
  <2> SUFFICES ASSUME LoaderInv, ReadsToCome, ~ReadsOver, op # "watch"
               PROVE  \/ ReadAt(0, "idle") \/ ReadAt(0, "check") \/ ReadAt(0, "read")
                      \/ ReadAt(1, "store") \/ ReadAt(1, "again") \/ ReadAt(1, "idle")
                      \/ ReadAt(1, "check") \/ ReadAt(1, "read")
    OBVIOUS
  <2>1. running /\ alone /\ reads # 2 /\ reads \in Nat
    BY DEF ReadsOver, LoaderInv, TypeOK, LoaderTypeOK
  <2>2. readsLeft \in Nat /\ readsLeft >= 0
    BY LoaderAssumption DEF LoaderInv, TypeOK, LoaderTypeOK
  <2>3. work.at \in {"idle", "check", "read", "store", "again"}
    BY DEF LoaderInv, TypeOK, LoaderTypeOK
  <2>4. CASE work.at \in {"idle", "check", "read"}
    <3>1. reads + readsLeft = 2
      BY <2>1, <2>4 DEF ReadsToCome
    <3>2. reads = 0 \/ reads = 1
      BY <2>1, <2>2, <3>1
    <3>3. work.at = "idle" => pending
      BY <2>1, <3>2 DEF ReadsToCome
    <3> QED
      BY <2>1, <2>4, <3>2, <3>3 DEF ReadAt
  <2>5. CASE work.at = "store"
    <3>1. reads >= 1 /\ reads + readsLeft = 3 /\ readsLeft >= 1
      BY <2>1, <2>5 DEF ReadsToCome, LoaderInv, ReadsAddUp
    <3>2. reads = 1
      BY <2>1, <2>2, <3>1
    <3> QED
      BY <2>1, <2>5, <3>2 DEF ReadAt
  <2>6. CASE work.at = "again"
    <3>1. reads >= 1 /\ reads + readsLeft = 2
      BY <2>1, <2>6 DEF ReadsToCome
    <3>2. reads = 1
      BY <2>1, <2>2, <3>1
    <3> QED
      BY <2>1, <2>6, <3>2 DEF ReadAt
  <2> QED
    BY <2>3, <2>4, <2>5, <2>6
<1>11. LoaderRunsOn => Spec
  BY PTL DEF LoaderRunsOn, FairSpec
<1>12. LoaderRunsOn => (running /\ alone ~> ReadsOver)
  BY <1>1, <1>2, <1>3, <1>4, <1>5, <1>6, <1>7, <1>8, <1>9, <1>10, <1>11, ReadsBegin,
     LoaderInvariance, ReadsComeInvariance, PTL
<1> QED
  BY <1>12, PTL DEF BothReads, ReadsOver

-----------------------------------------------------------------------------
(***************************************************************************)
(* The pings, beside any loader that does what Power allows.               *)
(***************************************************************************)

Underway == taken \cup a2b

\* mb->msg is filled in before the framework gets a pointer to it.
Filled == ping = "send" \/ queued > 0 => msg \in Datas

\* The firmware holds a ping only to answer it, and takes them in order.
InOrder ==
  /\ mcu # "answer" => taken = {}
  /\ (\E p \in taken : p.last) => \A p \in a2b : p.last
  /\ answered => \A p \in Underway : p.last
  /\ \A p \in Underway : p.last => p.word = msg

\* What a ping that began with nothing under way can have seen before it is answered.
NothingForeign ==
  quiet /\ ~answered =>
    /\ mcu \in {"loop", "answer"}
    /\ \A p \in Underway : p.last
    /\ ~b2a.up /\ ~irq /\ ~done
    /\ ping # "poll" /\ outcome # "ok"

\* What the registers hold once a ping is answered, if it is left in peace.
AnswerStays ==
  /\ clean => ~clearing
  /\ clean /\ answered => b2a.word = msg /\ mcu \in {"mark", "loop", "answer"}

PingsInv == PingsTypeOK /\ Filled /\ InOrder /\ NothingForeign /\ AnswerStays

\* What has been sent for an earlier ping: one message or none still, and not
\* of the last ping.
LEMMA OlderOnes ==
  ASSUME NEW S \in OneOrNone
  PROVE  /\ {Older(p) : p \in S} \in OneOrNone
         /\ \A q \in {Older(p) : p \in S} : ~q.last
<1>1. \A p \in Pings : Older(p) \in Pings /\ ~Older(p).last
  BY DEF Older, Pings
<1>2. S \subseteq Pings
  BY DEF OneOrNone
<1>3. CASE S = {}
  <2>1. {Older(q) : q \in S} = {} BY <1>3
  <2> QED BY <2>1 DEF OneOrNone
<1>4. CASE \E p \in Pings : S = {p}
  <2>1. PICK p \in Pings : S = {p} BY <1>4
  <2>2. {Older(q) : q \in S} = {Older(p)} BY <2>1
  <2> QED BY <1>1, <2>1, <2>2 DEF OneOrNone
<1>5. S = {} \/ \E p \in Pings : S = {p}
  BY DEF OneOrNone
<1> QED BY <1>3, <1>4, <1>5

\* The invariant of the pings holds initially, ...
LEMMA PingsInvInit == PingsInit => PingsInv
<1> SUFFICES ASSUME PingsInit PROVE PingsInv
  OBVIOUS
<1>1. McuTypeOK
  BY DEF PingsInit, McuInit, McuTypeOK, OneOrNone, Words
<1>2. MboxTypeOK
  <2>1. 0 \in 0..QueueLen BY MboxAssumption
  <2> QED BY <2>1 DEF PingsInit, MboxInit, MboxTypeOK
<1>3. Filled /\ InOrder /\ NothingForeign /\ AnswerStays
  BY DEF PingsInit, McuInit, MboxInit, Filled, InOrder, NothingForeign, AnswerStays, Underway
<1> QED BY <1>1, <1>2, <1>3 DEF PingsInv, PingsTypeOK

\* The firmware's steps.
LEMMA McuRunsInv ==
  ASSUME PingsInv, McuRuns
  PROVE  PingsInv'
<1>1. MboxTypeOK' /\ Filled' /\ UNCHANGED <<ping, msg, done, irq, clearing, outcome, quiet, clean>>
  BY DEF McuRuns, mboxVars, PingsInv, PingsTypeOK, MboxTypeOK, Filled
<1> USE DEF PingsInv, PingsTypeOK, McuTypeOK, InOrder, NothingForeign, AnswerStays, Underway
<1>2. CASE McuSetup BY <1>1, <1>2 DEF McuSetup, OneOrNone
<1>3. CASE McuBoot BY <1>1, <1>3 DEF McuBoot, Write, Words
<1>4. CASE McuMark BY <1>1, <1>4 DEF McuMark
<1>5. CASE McuRead BY <1>1, <1>5 DEF McuRead, OneOrNone
<1>6. CASE McuAnswer
  <2>1. PICK p \in taken :
          /\ mcu = "answer" /\ mcu' = "mark"
          /\ Write(p.word)
          /\ answered' = (answered \/ p.last)
          /\ taken' = {}
          /\ UNCHANGED <<a2b, enabled, markSets>>
    BY <1>6 DEF McuAnswer
  <2>2. taken = {p} /\ p.word \in Words /\ p.last \in BOOLEAN
    BY <2>1 DEF OneOrNone, Pings, Words
  <2>3. answered' \in BOOLEAN /\ (answered' <=> p.last)
        /\ (answered => p.last)
    <3>1. answered => p.last BY <2>1
    <3> QED BY <2>1, <2>2, <3>1
  <2>4. McuTypeOK'
    BY <2>1, <2>2, <2>3 DEF Write, OneOrNone
  <2>5. InOrder'
    BY <1>1, <2>1, <2>2, <2>3
  <2>6. NothingForeign'
    <3>1. quiet /\ ~answered => p.last BY <2>1
    <3> QED BY <1>1, <2>1, <2>3, <3>1
  <2>7. AnswerStays'
    BY <1>1, <2>1, <2>2, <2>3 DEF Write
  <2> QED BY <1>1, <2>4, <2>5, <2>6, <2>7
<1> QED BY <1>2, <1>3, <1>4, <1>5, <1>6 DEF McuRuns, McuStep

\* A stop or a start: whatever ping is under way is no longer quiet or clean.
LEMMA DisturbedInv ==
  ASSUME PingsInv, Loader
  PROVE  PingsInv'
<1>1. /\ mcu' \in {"reset", "init"} /\ taken' = {}
      /\ quiet' = FALSE /\ clean' = FALSE
      /\ UNCHANGED <<a2b, b2a, enabled, markSets, answered>>
      /\ UNCHANGED <<ping, msg, done, irq, active, queued, clearing, outcome>>
  BY DEF Loader, Disturbed, Power, HoldInReset, Deassert
<1>2. MboxTypeOK' /\ Filled'
  BY <1>1 DEF PingsInv, PingsTypeOK, MboxTypeOK, Filled
<1>5. McuTypeOK'
  <2>1. taken' \in OneOrNone BY <1>1 DEF OneOrNone
  <2> QED BY <1>1, <2>1 DEF PingsInv, PingsTypeOK, McuTypeOK
<1>3. InOrder'
  BY <1>1 DEF PingsInv, InOrder, Underway
<1>4. NothingForeign' /\ AnswerStays'
  BY <1>1 DEF NothingForeign, AnswerStays
<1> QED BY <1>2, <1>3, <1>4, <1>5 DEF PingsInv, PingsTypeOK

\* A new ping makes everything under way that of an earlier one.
LEMMA PingInv ==
  ASSUME PingsInv, NEW d \in Datas, Ping(d)
  PROVE  PingsInv'
<1> USE DEF PingsInv, PingsTypeOK
<1>1. /\ mcu' = mcu /\ ping' = "send" /\ msg' = d /\ done' = FALSE /\ answered' = FALSE
      /\ outcome' = "none" /\ UNCHANGED <<markSets, irq, active, queued, clearing>>
      /\ taken' = {Older(p) : p \in taken}
  BY DEF Ping, Begin
<1>2. /\ a2b' \in {{}, {Older(p) : p \in a2b}}
      /\ b2a' \in [up : BOOLEAN, word : Words] /\ (b2a'.up => b2a.up)
      /\ enabled' \in BOOLEAN
  BY DEF Ping, Begin, Reinit, McuTypeOK
<1>3. /\ taken' \in OneOrNone /\ a2b' \in OneOrNone
      /\ \A p \in Underway' : ~p.last
  <2>1. taken \in OneOrNone /\ a2b \in OneOrNone /\ {} \in OneOrNone
    BY DEF McuTypeOK, OneOrNone
  <2> QED BY <1>1, <1>2, <2>1, OlderOnes DEF Underway
<1>4. /\ quiet' \in BOOLEAN /\ clean' \in BOOLEAN
      /\ quiet' => mcu = "loop" /\ a2b = {} /\ ~b2a.up /\ ~irq
      /\ clean' => ~clearing
  BY DEF Ping, Begin, NothingUnderWay, MboxTypeOK
<1>5. McuTypeOK'
  BY <1>1, <1>2, <1>3 DEF McuTypeOK
<1>6. MboxTypeOK'
  BY <1>1, <1>4 DEF MboxTypeOK
<1>7. InOrder' /\ Filled'
  BY <1>1, <1>3 DEF InOrder, Underway, Filled
<1>8. NothingForeign'
  <2>1. quiet' => taken' = {} /\ a2b' = {}
    BY <1>1, <1>2, <1>4 DEF InOrder
  <2> QED BY <1>1, <1>2, <1>4, <2>1 DEF NothingForeign, Underway
<1>9. AnswerStays'
  BY <1>1, <1>4 DEF AnswerStays
<1> QED BY <1>5, <1>6, <1>7, <1>8, <1>9

\* A step that leaves the messages to the MCU where they are.
LEMMA SameMessages ==
  ASSUME InOrder, UNCHANGED <<mcu, taken, a2b, answered, msg>>
  PROVE  InOrder'
BY DEF InOrder, Underway

\* A message handed to the controller is the last ping's, in the words of mb->msg.
LEMMA Submitted ==
  ASSUME PingsInv, Submit, msg \in Datas, UNCHANGED <<mcu, taken, answered, msg>>
  PROVE  InOrder' /\ a2b' \in OneOrNone /\ \A p \in a2b' : p.last
<1>1. PICK m \in Pings : a2b' = {m} /\ m.last /\ m.word = msg
  <2>1. [word |-> msg, last |-> TRUE] \in Pings BY DEF Pings
  <2> QED BY <2>1 DEF Submit
<1> QED BY <1>1 DEF PingsInv, InOrder, Underway, OneOrNone

\* The rest of a ping, from mbox_send_message to its return.
LEMMA SendInv ==
  ASSUME PingsInv, PingSend
  PROVE  PingsInv'
<1> USE DEF PingsInv, PingsTypeOK, chipButA2B
<1>1. /\ ping = "send" /\ msg \in Datas
      /\ UNCHANGED <<mcu, taken, b2a, enabled, markSets, answered>>
      /\ UNCHANGED <<msg, done, irq, clearing, quiet>>
  BY DEF PingSend, Filled
<1>2. QueueLen \in Nat
  BY MboxAssumption
<1>3. CASE ~active /\ Submit /\ active' = TRUE /\ ping' = "wait"
           /\ UNCHANGED <<queued, outcome, clean>>
  <2>1. InOrder' /\ a2b' \in OneOrNone /\ \A p \in a2b' : p.last
    BY <1>1, <1>3, Submitted
  <2>2. McuTypeOK' /\ MboxTypeOK' /\ Filled' /\ AnswerStays'
    BY <1>1, <1>3, <2>1 DEF McuTypeOK, MboxTypeOK, Filled, AnswerStays
  <2>3. NothingForeign'
    BY <1>1, <1>3, <2>1 DEF NothingForeign, Underway
  <2> QED BY <2>1, <2>2, <2>3
<1>4. CASE active /\ queued < QueueLen /\ queued' = queued + 1 /\ ping' = "wait"
           /\ UNCHANGED <<a2b, active, outcome, clean>>
  <2>1. queued' \in 0..QueueLen
    BY <1>2, <1>4 DEF MboxTypeOK
  <2> QED BY <1>1, <1>4, <2>1
    DEF McuTypeOK, MboxTypeOK, Filled, InOrder, NothingForeign, AnswerStays, Underway
<1>5. CASE active /\ queued = QueueLen /\ Returns("nobufs") /\ UNCHANGED <<a2b, active, queued>>
  <2> USE DEF Returns
  <2>1. McuTypeOK'
    BY <1>1, <1>5 DEF McuTypeOK
  <2>2. MboxTypeOK' /\ Filled'
    BY <1>1, <1>5 DEF MboxTypeOK, Filled
  <2>3. InOrder'
    BY <1>1, <1>5, SameMessages
  <2>4. NothingForeign' /\ AnswerStays'
    BY <1>1, <1>5 DEF NothingForeign, AnswerStays, Underway
  <2> QED
    BY <2>1, <2>2, <2>3, <2>4
<1> QED BY <1>3, <1>4, <1>5 DEF PingSend

\* The framework passes on the next message of its queue when the last one is taken.
LEMMA TxDoneInv ==
  ASSUME PingsInv, TxDone
  PROVE  PingsInv'
<1> USE DEF PingsInv, PingsTypeOK, chipButA2B
<1>1. /\ UNCHANGED <<mcu, taken, b2a, enabled, markSets, answered>>
      /\ UNCHANGED <<ping, msg, done, irq, clearing, outcome, quiet, clean>>
  BY DEF TxDone
<1>2. CASE queued > 0 /\ queued' = queued - 1 /\ Submit /\ UNCHANGED active
  <2>1. InOrder' /\ a2b' \in OneOrNone /\ \A p \in a2b' : p.last
    BY <1>1, <1>2, Submitted DEF Filled
  <2>2. queued' \in 0..QueueLen
    BY <1>2, MboxAssumption DEF MboxTypeOK
  <2>3. Filled'
    BY <1>1, <1>2 DEF Filled
  <2>4. McuTypeOK' /\ MboxTypeOK' /\ AnswerStays'
    BY <1>1, <1>2, <2>1, <2>2 DEF McuTypeOK, MboxTypeOK, AnswerStays
  <2>5. NothingForeign'
    BY <1>1, <2>1 DEF NothingForeign, Underway
  <2> QED BY <2>1, <2>3, <2>4, <2>5
<1>3. CASE queued = 0 /\ active' = FALSE /\ UNCHANGED <<a2b, queued>>
  <2>1. McuTypeOK' /\ Filled'
    BY <1>1, <1>3 DEF McuTypeOK, Filled
  <2>3. MboxTypeOK'
    BY <1>1, <1>3 DEF MboxTypeOK
  <2>2. NothingForeign' /\ AnswerStays'
    BY <1>1, <1>3 DEF NothingForeign, AnswerStays, Underway
  <2> QED BY <1>1, <1>3, <2>1, <2>2, <2>3, SameMessages
<1> QED BY <1>2, <1>3 DEF TxDone

\* Every step of the mailbox driver and of its controller keeps the invariant, ...
LEMMA MboxInv ==
  ASSUME PingsInv, MboxStep
  PROVE  PingsInv'
<1>1. CASE \E d \in Datas : Ping(d) BY <1>1, PingInv
<1>2. CASE PingSend BY <1>2, SendInv
<1>3. CASE TxDone BY <1>3, TxDoneInv
<1> USE DEF PingsInv, PingsTypeOK, mcuVars, chipButA2B, chipButB2A, restOfMbox, Returns, Rx
<1>4. CASE PingDone
  <2>1. McuTypeOK' BY <1>4 DEF PingDone, McuTypeOK
  <2>2. MboxTypeOK' /\ Filled' BY <1>4 DEF PingDone, MboxTypeOK, Filled
  <2>3. InOrder' BY <1>4, SameMessages DEF PingDone
  <2>4. NothingForeign' BY <1>4 DEF PingDone, NothingForeign, Underway
  <2>5. AnswerStays' BY <1>4 DEF PingDone, AnswerStays
  <2> QED BY <2>1, <2>2, <2>3, <2>4, <2>5
<1>5. CASE PingExpires
  <2>1. McuTypeOK' BY <1>5 DEF PingExpires, McuTypeOK
  <2>2. MboxTypeOK' /\ Filled' BY <1>5 DEF PingExpires, MboxTypeOK, Filled
  <2>3. InOrder' BY <1>5, SameMessages DEF PingExpires
  <2>4. NothingForeign' BY <1>5 DEF PingExpires, NothingForeign, Underway
  <2>5. AnswerStays' BY <1>5 DEF PingExpires, AnswerStays
  <2> QED BY <2>1, <2>2, <2>3, <2>4, <2>5
<1>6. CASE PingLook
  <2>1. McuTypeOK' BY <1>6 DEF PingLook, McuTypeOK
  <2>2. MboxTypeOK' /\ Filled' BY <1>6 DEF PingLook, MboxTypeOK, Filled
  <2>3. InOrder' BY <1>6, SameMessages DEF PingLook
  <2>4. NothingForeign' BY <1>6 DEF PingLook, NothingForeign, Underway
  <2>5. AnswerStays' BY <1>6 DEF PingLook, AnswerStays
  <2> QED BY <2>1, <2>2, <2>3, <2>4, <2>5
<1>7. CASE PingPoll
  <2>1. McuTypeOK' BY <1>7 DEF PingPoll, McuTypeOK
  <2>2. MboxTypeOK' /\ Filled' BY <1>7 DEF PingPoll, MboxTypeOK, Filled
  <2>3. InOrder' BY <1>7, SameMessages DEF PingPoll
  <2>4. NothingForeign' BY <1>7 DEF PingPoll, NothingForeign, Underway
  <2>5. AnswerStays' BY <1>7 DEF PingPoll, AnswerStays
  <2> QED BY <2>1, <2>2, <2>3, <2>4, <2>5
<1>8. CASE PingMatch
  <2>1. McuTypeOK' BY <1>8 DEF PingMatch, McuTypeOK
  <2>2. MboxTypeOK' /\ Filled' BY <1>8 DEF PingMatch, MboxTypeOK, Filled
  <2>3. InOrder' BY <1>8, SameMessages DEF PingMatch
  <2>4. NothingForeign' BY <1>8 DEF PingMatch, NothingForeign, Underway
  <2>5. AnswerStays' BY <1>8 DEF PingMatch, AnswerStays
  <2> QED BY <2>1, <2>2, <2>3, <2>4, <2>5
<1>9. CASE IrqTake
  <2>1. McuTypeOK' BY <1>9 DEF IrqTake, McuTypeOK
  <2>2. MboxTypeOK' /\ Filled' BY <1>9 DEF IrqTake, MboxTypeOK, Filled
  <2>3. InOrder' BY <1>9, SameMessages DEF IrqTake
  <2>4. NothingForeign' BY <1>9 DEF IrqTake, NothingForeign, Underway
  <2>5. AnswerStays' BY <1>9 DEF IrqTake, AnswerStays
  <2> QED BY <2>1, <2>2, <2>3, <2>4, <2>5
<1>10. CASE IrqDeliver
  <2>1. McuTypeOK' BY <1>10 DEF IrqDeliver, McuTypeOK
  <2>2. MboxTypeOK' /\ Filled' BY <1>10 DEF IrqDeliver, MboxTypeOK, Filled
  <2>3. InOrder' BY <1>10, SameMessages DEF IrqDeliver
  <2>4. NothingForeign' BY <1>10 DEF IrqDeliver, NothingForeign, Underway
  <2>5. AnswerStays' BY <1>10 DEF IrqDeliver, AnswerStays
  <2> QED BY <2>1, <2>2, <2>3, <2>4, <2>5
<1>11. CASE ClearA2B
  <2>1. McuTypeOK' BY <1>11 DEF ClearA2B, McuTypeOK, OneOrNone
  <2>2. MboxTypeOK' /\ Filled' BY <1>11 DEF ClearA2B, MboxTypeOK, Filled
  <2>3. InOrder' BY <1>11 DEF ClearA2B, InOrder, Underway
  <2>4. NothingForeign' BY <1>11 DEF ClearA2B, NothingForeign, Underway
  <2>5. AnswerStays' BY <1>11 DEF ClearA2B, AnswerStays
  <2> QED BY <2>1, <2>2, <2>3, <2>4, <2>5
<1>12. CASE ClearB2A
  <2>1. McuTypeOK' BY <1>12 DEF ClearB2A, McuTypeOK, Words
  <2>2. MboxTypeOK' /\ Filled' BY <1>12 DEF ClearB2A, MboxTypeOK, Filled
  <2>3. InOrder' BY <1>12 DEF ClearB2A, InOrder, Underway
  <2>4. NothingForeign' BY <1>12 DEF ClearB2A, NothingForeign, Underway
  <2>5. AnswerStays' BY <1>12 DEF ClearB2A, AnswerStays
  <2> QED BY <2>1, <2>2, <2>3, <2>4, <2>5
<1> QED
  BY <1>1, <1>2, <1>3, <1>4, <1>5, <1>6, <1>7, <1>8, <1>9, <1>10, <1>11, <1>12 DEF MboxStep

\* ... so does every other step, ...
LEMMA PingsInvNext ==
  ASSUME PingsInv, [PingsNext]_pingsVars
  PROVE  PingsInv'
<1>1. CASE UNCHANGED pingsVars
  BY <1>1
  DEF pingsVars, mcuVars, mboxVars, PingsInv, PingsTypeOK, McuTypeOK, MboxTypeOK, Filled, InOrder,
      NothingForeign, AnswerStays, Underway
<1> QED BY <1>1, McuRunsInv, DisturbedInv, MboxInv DEF PingsNext

\* ... and so it always holds.
LEMMA PingsInvariance == PingsSpec => []PingsInv
BY PingsInvInit, PingsInvNext, PTL DEF PingsSpec

-----------------------------------------------------------------------------
\* The state of the mailbox and its client stays in its types: one message at
\* most on its way to the MCU, and the queue within its length.
THEOREM PingsTypeCorrect == PingsSpec => []PingsTypeOK
<1>1. PingsInv => PingsTypeOK BY DEF PingsInv
<1> QED BY <1>1, PingsInvariance, PTL

\* A ping that began with nothing under way succeeds only when it was answered.
THEOREM SuccessIsReal == PingsSpec => []SuccessIsAnswer
<1>1. PingsInv => SuccessIsAnswer BY DEF PingsInv, NothingForeign, SuccessIsAnswer
<1> QED BY <1>1, PingsInvariance, PTL

\* A ping that was answered and left in peace does not time out.
THEOREM TimeoutsAreReal == PingsSpec => NoFalseTimeout
<1>1. ASSUME PingsInv, [PingsNext]_pingsVars
      PROVE  [outcome' = "timeout" /\ clean => ~answered]_outcome
  <2>1. CASE PingMatch
    BY <1>1, <2>1 DEF PingMatch, Returns, PingsInv, AnswerStays
  <2>2. CASE outcome' # outcome /\ ~PingMatch
    <3>1. outcome' # "timeout"
      BY <1>1, <2>2
      DEF PingsNext, McuRuns, Loader, Disturbed, MboxStep, Ping, Begin, PingSend, PingDone, PingExpires,
          PingLook, PingPoll, TxDone, IrqTake, IrqDeliver, ClearA2B, ClearB2A, Returns,
          pingsVars, mboxVars
    <3> QED BY <3>1
  <2> QED BY <2>1, <2>2
<1> QED BY <1>1, PingsInvariance, PTL DEF PingsSpec, NoFalseTimeout

-----------------------------------------------------------------------------
(***************************************************************************)
(* Both drivers.  Each needs of the other what was shown of it: the pings, *)
(* that the loader does to the MCU what Power allows, the loader, that a   *)
(* ping neither stops nor releases the MCU.                                *)
(***************************************************************************)

SystemInv == LoaderInv /\ Rounds /\ PingsInv

\* No ping, interrupt or clear moves the firmware into reset or out of it.
LEMMA MboxLeavesFirmware ==
  ASSUME MboxStep
  PROVE  mcu' = mcu
BY DEF MboxStep, Ping, Begin, PingSend, PingDone, PingExpires, PingLook, PingPoll, PingMatch,
       TxDone, IrqTake, IrqDeliver, ClearA2B, ClearB2A, chipButA2B, chipButB2A, mcuVars

\* What the loader knows of the MCU is its type and whether it is released.
LEMMA LoaderUndisturbed ==
  ASSUME LoaderInv, UNCHANGED loaderVars, McuTypeOK', Released' <=> Released
  PROVE  LoaderInv'
BY DEF loaderVars, LoaderInv, TypeOK, LoaderTypeOK, OpAgrees, WorkEnds, ReadsAddUp, Idle

\* Every step of the two drivers and the firmware is one of the pings', with
\* the loader's as the resets and releases it makes.
LEMMA SystemStepIsPings ==
  ASSUME LoaderInv, [SystemNext]_systemVars
  PROVE  [PingsNext]_pingsVars
<1>1. CASE FirmwareRuns
  BY <1>1 DEF FirmwareRuns, McuRuns, PingsNext
<1>2. CASE LoaderRuns
  <2>1. CASE UNCHANGED mcuVars
    BY <1>2, <2>1 DEF LoaderRuns, pingsVars
  <2>2. CASE ~UNCHANGED mcuVars
    <3>1. LoaderCommand /\ Disturbed
      BY <1>2, <2>2 DEF LoaderRuns
    <3>2. Power
      BY <2>2, <3>1, CommandPower
    <3> QED
      BY <3>1, <3>2 DEF Loader, PingsNext
  <2> QED
    BY <2>1, <2>2
<1>3. CASE WorkRuns
  BY <1>3 DEF WorkRuns, HeartbeatWork, pingsVars
<1>4. CASE MboxRuns
  BY <1>4 DEF MboxRuns, PingsNext
<1>5. CASE UNCHANGED systemVars
  BY <1>5 DEF systemVars, pingsVars
<1> QED
  BY <1>1, <1>2, <1>3, <1>4, <1>5 DEF SystemNext

\* The invariants of both survive every step of the system.
LEMMA SystemInvNext ==
  ASSUME SystemInv, [SystemNext]_systemVars
  PROVE  SystemInv'
<1>1. PingsInv'
  BY SystemStepIsPings, PingsInvNext DEF SystemInv
<1>2. McuTypeOK /\ McuTypeOK'
  BY <1>1 DEF SystemInv, PingsInv, PingsTypeOK
<1>3. LoaderInv'
  <2>1. CASE FirmwareRuns
    BY <2>1, <1>2, FirmwareStep, LoaderUndisturbed DEF FirmwareRuns, SystemInv
  <2>2. CASE LoaderRuns
    BY <2>2, CommandInv DEF LoaderRuns, SystemInv
  <2>3. CASE WorkRuns
    BY <2>3, WorkInv DEF WorkRuns, SystemInv
  <2>4. CASE MboxRuns
    BY <2>4, <1>2, MboxLeavesFirmware, LoaderUndisturbed DEF MboxRuns, Released, SystemInv
  <2>5. CASE UNCHANGED systemVars
    BY <2>5, <1>2, McuUnchanged, LoaderUndisturbed DEF systemVars, SystemInv
  <2> QED
    BY <2>1, <2>2, <2>3, <2>4, <2>5 DEF SystemNext
<1>4. LoaderCommand \/ HeartbeatWork \/ UNCHANGED loaderVars
  BY DEF SystemNext, FirmwareRuns, LoaderRuns, WorkRuns, MboxRuns, systemVars
<1>5. Rounds'
  BY <1>4, RoundsStep DEF SystemInv
<1> QED
  BY <1>1, <1>3, <1>5 DEF SystemInv

\* Initially, and always.
LEMMA SystemInvariance == SystemSpec => []SystemInv
<1>1. SystemInit => SystemInv
  <2>1. LoaderInit => Rounds
    BY LoaderAssumption DEF LoaderInit, Rounds, Idle
  <2> QED
    BY <2>1, LoaderInvInit, PingsInvInit DEF SystemInit, SystemInv, Init, PingsInit
<1> QED
  BY <1>1, SystemInvNext, PTL DEF SystemSpec

\* The loader in place of Power: the two drivers and the firmware implement the
\* pings beside any loader.
THEOREM SystemImplementsPings == SystemSpec => PingsSpec
<1>1. SystemInit => PingsInit
  BY DEF SystemInit, PingsInit
<1>2. SystemInv /\ [SystemNext]_systemVars => [PingsNext]_pingsVars
  BY SystemStepIsPings DEF SystemInv
<1> QED
  BY <1>1, <1>2, SystemInvariance, PTL DEF SystemSpec, PingsSpec

\* So what is shown of the pings holds with the loader as it is written: no
\* success without an answer, no time-out in spite of one.
THEOREM PingsInSystem == SystemSpec => []SuccessIsAnswer /\ NoFalseTimeout
BY SystemImplementsPings, SuccessIsReal, TimeoutsAreReal, PTL

\* And what is shown of the loader holds while pings are exchanged with the MCU.
THEOREM LoaderInSystem == SystemSpec => [](QuietWhenStopped /\ TwoReads /\ HonestStatus)
<1>1. SystemInv => QuietWhenStopped /\ TwoReads /\ HonestStatus
  BY LoaderInvMeans DEF SystemInv
<1> QED
  BY <1>1, SystemInvariance, PTL
=============================================================================
