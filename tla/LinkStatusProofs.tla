-------------------------- MODULE LinkStatusProofs --------------------------
(***************************************************************************)
(* The status file, for every interval, time-out and respawn time: always  *)
(* whole, and fresh as long as the loop does not go back to poll past      *)
(* write_status_file.                                                      *)
(***************************************************************************)
EXTENDS LinkStatus, TLAPS

\* The loop is never in a wait, or busy after it, for longer than Wait ...
InTime == pc \in {"waiting", "writing", "renaming"} => now - since <= Wait

\* ... the temporary file is one of the moment, and whole when it is renamed ...
TmpIsNew ==
  /\ pc \in {"waiting", "down"} => tmp = None
  /\ pc = "writing" => tmp = None \/ (~tmp.complete /\ tmp.at = now)
  /\ pc = "renaming" => tmp.complete /\ tmp.at = now

\* ... the first wait of a process ends in a write, and no later one begins an
\* interval after the last write, unless a write failed.
SinceWrite ==
  /\ pc # "down" /\ last # -1 => file.at = last
  /\ pc # "down" /\ ~failed => IF last = -1 THEN since = up ELSE since - last <= Interval

Inv == TypeOK /\ WholeOrAbsent /\ InTime /\ TmpIsNew

LEMMA InitInv == Init => Inv /\ SinceWrite
<1> SUFFICES ASSUME Init PROVE Inv /\ SinceWrite
  OBVIOUS
<1>1. Wait \in Nat /\ MaxTime \in Nat
  BY StatusAssumption
<1>a. None \in Snapshot
  BY <1>1, -1 \in -1..MaxTime DEF None, Snapshot
<1>2. TypeOK
  <2>1. 0 \in 0..MaxTime /\ 0 \in 0..0 /\ -1 \in -1..0
    BY <1>1
  <2> QED BY <1>a, <2>1 DEF Init, TypeOK
<1>3. InTime /\ TmpIsNew /\ WholeOrAbsent /\ SinceWrite
  BY <1>1 DEF Init, InTime, TmpIsNew, WholeOrAbsent, SinceWrite, None
<1> QED BY <1>2, <1>3 DEF Inv

LEMMA StepInv == Inv /\ [Next]_vars => Inv'
<1> SUFFICES ASSUME Inv, [Next]_vars PROVE Inv'
  OBVIOUS
<1> USE StatusAssumption DEF Inv, TypeOK, WholeOrAbsent, InTime, TmpIsNew, Snapshot, None
<1>a. None \in Snapshot
  OBVIOUS
<1>1. CASE Tick
  BY <1>1 DEF Tick, Busy, Expired
<1>2. CASE Read
  BY <1>2 DEF Read, ReachStatus, WaitAgain, NotDue
<1>3. CASE TimeOut
  BY <1>3 DEF TimeOut, ReachStatus, WaitAgain, NotDue
<1>4. CASE Create
  BY <1>4 DEF Create
<1>5. CASE Close
  <2>1. tmp' = [at |-> tmp.at, complete |-> TRUE]
    BY <1>5 DEF Close
  <2>2. tmp.at = now
    BY <1>5 DEF Close
  <2> QED BY <1>5, <2>1, <2>2 DEF Close
<1>6. CASE Fail
  BY <1>6 DEF Fail, WaitAgain
<1>7. CASE Rename
  <2>1. tmp.complete /\ file' = tmp /\ tmp' = None /\ pc' = "waiting"
    BY <1>7 DEF Rename, WaitAgain
  <2>2. TypeOK'
    <3>1. /\ now' = now /\ since' = now /\ up' = up /\ last' = now
          /\ failed' = FALSE /\ pc' = "waiting"
      BY <1>7 DEF Rename, WaitAgain
    <3>2. now \in 0..MaxTime /\ now \in 0..now /\ now \in -1..now
      OBVIOUS
    <3>3. tmp' \in Snapshot /\ file' \in Snapshot
      BY <1>a, <2>1
    <3>4. failed' \in BOOLEAN
      BY <3>1
    <3> QED BY <3>1, <3>2, <3>3, <3>4
  <2>3. WholeOrAbsent'
    BY <2>1
  <2>4. InTime' /\ TmpIsNew'
    BY <1>7 DEF Rename, WaitAgain
  <2> QED BY <2>2, <2>3, <2>4
<1>8. CASE Crash
  BY <1>8 DEF Crash
<1>9. CASE Start
  <2>1. TypeOK'
    <3>1. /\ now' = now /\ since' = now /\ up' = now /\ last' = -1
          /\ tmp' = tmp /\ file' = file /\ failed' = FALSE /\ pc' = "waiting"
      BY <1>9 DEF Start, WaitAgain
    <3>2. now \in Nat /\ now \in 0..MaxTime
      OBVIOUS
    <3>3. -1 \in -1..now /\ now \in 0..now
      BY <3>2
    <3> QED BY <3>1, <3>2, <3>3
  <2>2. WholeOrAbsent'
    BY <1>9 DEF Start, WaitAgain
  <2>3. InTime' /\ TmpIsNew'
    BY <1>9 DEF Start, WaitAgain
  <2> QED BY <2>1, <2>2, <2>3
<1>10. CASE UNCHANGED vars
  BY <1>10 DEF vars
<1> QED
  BY <1>1, <1>2, <1>3, <1>4, <1>5, <1>6, <1>7, <1>8, <1>9, <1>10 DEF Next

\* When every frame that can arrive leads to write_status_file, also the time
\* since the last write is kept within bounds.
LEMMA StepSinceWrite ==
  ASSUME \A kind \in Kinds : ~Continues(kind), Inv, SinceWrite, [Next]_vars
  PROVE  SinceWrite'
<1> USE StatusAssumption DEF Inv, TypeOK, TmpIsNew, SinceWrite, Snapshot, None
<1>1. CASE Tick
  BY <1>1 DEF Tick
<1>2. CASE Read
  <2>1. ReachStatus
    BY <1>2 DEF Read
  <2> QED BY <1>2, <2>1 DEF Read, ReachStatus, WaitAgain, NotDue
<1>3. CASE TimeOut
  BY <1>3 DEF TimeOut, ReachStatus, WaitAgain, NotDue
<1>4. CASE Create
  BY <1>4 DEF Create
<1>5. CASE Close
  BY <1>5 DEF Close
<1>6. CASE Fail
  BY <1>6 DEF Fail, WaitAgain
<1>7. CASE Rename
  BY <1>7 DEF Rename, WaitAgain
<1>8. CASE Crash
  BY <1>8 DEF Crash
<1>9. CASE Start
  BY <1>9 DEF Start, WaitAgain
<1>10. CASE UNCHANGED vars
  BY <1>10 DEF vars
<1> QED
  BY <1>1, <1>2, <1>3, <1>4, <1>5, <1>6, <1>7, <1>8, <1>9, <1>10 DEF Next

LEMMA InvAlways == Spec => []Inv
<1>1. Init => Inv
  BY InitInv
<1> QED BY <1>1, StepInv, PTL DEF Spec

-----------------------------------------------------------------------------
\* The clock, the snapshots and the times of the loop stay in their types.
THEOREM TypeCorrect == Spec => []TypeOK
<1>1. Inv => TypeOK
  BY DEF Inv
<1> QED BY <1>1, InvAlways, PTL

\* A reader of the status file finds no file or a whole one, whatever of
\* write_status_file fails and whenever the process ends.
THEOREM Whole == Spec => []WholeOrAbsent
<1>1. Inv => WholeOrAbsent
  BY DEF Inv
<1> QED BY <1>1, InvAlways, PTL

\* While the process runs and its last write did not fail, the file is no
\* older than the interval and one time-out of poll, provided that every frame
\* that arrives leads to write_status_file: the loops of tx and ping, and rx
\* without FEC, bad frames and frames of other streams.
THEOREM AlwaysFresh ==
  ASSUME \A kind \in Kinds : ~Continues(kind)
  PROVE  Spec => []Fresh
<1>1. Init => Inv /\ SinceWrite
  BY InitInv
<1>2. (Inv /\ SinceWrite) /\ [Next]_vars => (Inv /\ SinceWrite)'
  BY StepInv, StepSinceWrite
<1>3. Inv /\ SinceWrite => Fresh
  BY StatusAssumption DEF Inv, TypeOK, InTime, SinceWrite, Fresh, Snapshot
<1> QED BY <1>1, <1>2, <1>3, PTL DEF Spec
=============================================================================
