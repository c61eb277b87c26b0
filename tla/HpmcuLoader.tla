----------------------------- MODULE HpmcuLoader -----------------------------
(***************************************************************************)
(* omega4-hpmcu-loader: start and stop of the MCU from sysfs, and the      *)
(* delayed work that reads the heartbeat twice after a start.  The mutex   *)
(* is held from the first to the last step of a start or stop; the work    *)
(* takes no lock, and its --heartbeat_reads_left is a load and a store.    *)
(* The device tree names a reset line (core, or one for all); a firmware   *)
(* with a heartbeat is loaded (heartbeat_valid).                           *)
(***************************************************************************)
EXTENDS HpmcuMcu

CONSTANTS
  ByteMod,    \* values of heartbeat_reads_left: 2^8 in the code
  MayFail     \* whether request_firmware and the reset lines may fail

ASSUME LoaderAssumption ==
  /\ ByteMod \in Nat /\ ByteMod > 2
  /\ MayFail \in BOOLEAN

VARIABLES
  op,         \* what the holder of the lock is about to do: "none" when it is free
  running,    \* loader->running
  readsLeft,  \* loader->heartbeat_reads_left
  pending,    \* whether the delayed work is queued or its timer runs
  work,       \* where the work is: [at, val]
  result,     \* of the last start or stop: "none" before the first
  reads,      \* heartbeats read since the last start
  alone       \* whether that start found no work of an earlier one

loaderVars == <<op, running, readsLeft, pending, work, result, reads, alone>>
workVars == <<readsLeft, pending, work, reads>>
chipVars == <<a2b, b2a, enabled, markSets, answered>>

Idle == [at |-> "idle", val |-> 0]

LoaderInit ==
  /\ op = "none"
  /\ running = FALSE
  /\ readsLeft = 0
  /\ pending = FALSE
  /\ work = Idle
  /\ result = "none"
  /\ reads = 0
  /\ alone = TRUE

LoaderTypeOK ==
  /\ op \in {"none", "load", "release", "announce", "watch", "cancel", "drain"}
  /\ running \in BOOLEAN
  /\ readsLeft \in 0..(ByteMod - 1)
  /\ pending \in BOOLEAN
  /\ work \in [at : {"idle", "check", "read", "store", "again"}, val : 0..(ByteMod - 1)]
  /\ result \in {"none", "ok", "failed"}
  /\ reads \in Nat
  /\ alone \in BOOLEAN

-----------------------------------------------------------------------------
Ends(res) == op' = "none" /\ result' = res

\* omega4_hpmcu_start_locked: the firmware is loaded ...
Start ==
  /\ op = "none"
  /\ op' = "load"
  /\ UNCHANGED <<mcuVars, workVars, running, result, alone>>

\* ... or not, or the reset line cannot be asserted: the MCU goes on as it was ...
StartRefused ==
  /\ op = "load"
  /\ MayFail
  /\ Ends("failed")
  /\ UNCHANGED <<mcuVars, workVars, running, alone>>

\* A mistake: the memory written without a reset.
LoadRunning ==
  /\ op = "load"
  /\ op' = "release"
  /\ UNCHANGED <<mcuVars, workVars, running, result, alone>>

\* ... the MCU is put into reset and its memory written ...
LoadInReset ==
  /\ op = "load"
  /\ op' = "release"
  /\ HoldInReset
  /\ UNCHANGED <<chipVars, workVars, running, result, alone>>

\* A mistake: the error of the reset line overlooked.
ReleaseUnchecked ==
  /\ op = "release"
  /\ op' = "announce"
  /\ Deassert \/ (MayFail /\ UNCHANGED <<mcu, taken>>)
  /\ UNCHANGED <<chipVars, workVars, running, result, alone>>

\* ... it is released ...
Release ==
  /\ op = "release"
  /\ op' = "announce"
  /\ Deassert
  /\ UNCHANGED <<chipVars, workVars, running, result, alone>>

\* ... or the deassertion of one of its lines fails: the register write
\* before may have released it all the same ...
ReleaseFails ==
  /\ op = "release"
  /\ MayFail
  /\ Ends("failed")
  /\ Deassert \/ UNCHANGED <<mcu, taken>>
  /\ UNCHANGED <<chipVars, workVars, running, alone>>

\* ... running, and two reads of the heartbeat to come ...
Announce ==
  /\ op = "announce"
  /\ op' = "watch"
  /\ running' = TRUE
  /\ readsLeft' = 2
  /\ reads' = 0
  /\ alone' = (~pending /\ work = Idle)
  /\ UNCHANGED <<mcuVars, pending, work, result>>

\* ... scheduled, unless the work is queued already.
Watch ==
  /\ op = "watch"
  /\ pending' = TRUE
  /\ Ends("ok")
  /\ UNCHANGED <<mcuVars, readsLeft, work, reads, running, alone>>

\* omega4_hpmcu_stop_locked: reset asserted, whether that succeeds or not ...
Stop ==
  /\ op = "none"
  /\ op' = "cancel"
  /\ running' = FALSE
  /\ \/ HoldInReset /\ result' = "ok"
     \/ MayFail /\ UNCHANGED <<mcu, taken>> /\ result' = "failed"
  /\ UNCHANGED <<chipVars, workVars, alone>>

\* ... cancel_delayed_work_sync: dequeued, from now on not to be queued ...
Cancel ==
  /\ op = "cancel"
  /\ op' = "drain"
  /\ pending' = FALSE
  /\ UNCHANGED <<mcuVars, readsLeft, work, reads, running, result, alone>>

\* A mistake: cancel_delayed_work, which does not wait.
DrainNoWait ==
  /\ op = "drain"
  /\ op' = "none"
  /\ UNCHANGED <<mcuVars, workVars, running, result, alone>>

\* ... and waited for.
Drain ==
  /\ op = "drain"
  /\ work = Idle
  /\ op' = "none"
  /\ UNCHANGED <<mcuVars, workVars, running, result, alone>>

LoaderCommand ==
  \/ Start \/ StartRefused \/ LoadInReset \/ Release \/ ReleaseFails \/ Announce \/ Watch
  \/ Stop \/ Cancel \/ Drain

-----------------------------------------------------------------------------
\* omega4_hpmcu_heartbeat_work: its timer expires; a work item never runs twice at once ...
WorkDue ==
  /\ pending
  /\ work = Idle
  /\ pending' = FALSE
  /\ work' = [at |-> "check", val |-> 0]
  /\ UNCHANGED <<readsLeft, reads>>

\* A mistake: the lock taken to look at running.
WorkCheckLocked ==
  /\ work.at = "check"
  /\ op = "none"
  /\ work' = IF running THEN [at |-> "read", val |-> 0] ELSE Idle
  /\ UNCHANGED <<readsLeft, pending, reads>>

WorkCheck ==
  /\ work.at = "check"
  /\ work' = IF running THEN [at |-> "read", val |-> 0] ELSE Idle
  /\ UNCHANGED <<readsLeft, pending, reads>>

\* ... the heartbeat is read, and the counter loaded ...
WorkRead ==
  /\ work.at = "read"
  /\ reads' = reads + 1
  /\ work' = [at |-> "store", val |-> readsLeft]
  /\ UNCHANGED <<readsLeft, pending>>

\* A mistake: the counter tested before it is decremented.
WorkStoreOld ==
  /\ work.at = "store"
  /\ readsLeft' = (work.val - 1) % ByteMod
  /\ work' = [at |-> "again", val |-> work.val]
  /\ UNCHANGED <<pending, reads>>

\* A mistake: a wider counter that goes below zero.
WorkStoreWide ==
  /\ work.at = "store"
  /\ readsLeft' = work.val - 1
  /\ work' = [at |-> "again", val |-> (work.val - 1) % ByteMod]
  /\ UNCHANGED <<pending, reads>>

\* ... and stored, one less ...
WorkStore ==
  /\ work.at = "store"
  /\ readsLeft' = (work.val - 1) % ByteMod
  /\ work' = [at |-> "again", val |-> (work.val - 1) % ByteMod]
  /\ UNCHANGED <<pending, reads>>

\* A mistake: the last read but one taken for the last.
WorkAgainEarly ==
  /\ work.at = "again"
  /\ work' = Idle
  /\ pending' = (pending \/ (work.val > 1 /\ op # "drain"))
  /\ UNCHANGED <<readsLeft, reads>>

\* ... and the work queued again, but not while it is being cancelled.
WorkAgain ==
  /\ work.at = "again"
  /\ work' = Idle
  /\ pending' = (pending \/ (work.val # 0 /\ op # "drain"))
  /\ UNCHANGED <<readsLeft, reads>>

HeartbeatWork ==
  /\ WorkDue \/ WorkCheck \/ WorkRead \/ WorkStore \/ WorkAgain
  /\ UNCHANGED <<mcuVars, op, running, result, alone>>

Firmware == McuStep /\ UNCHANGED loaderVars

vars == <<mcuVars, loaderVars>>

Init == McuInit /\ LoaderInit

Next ==
  \/ Firmware
  \/ LoaderCommand
  \/ HeartbeatWork

Spec == Init /\ [][Next]_vars

\* The scheduler of the kernel: a start or stop that is under way goes on, and
\* so does the work once its timer has expired.  Nobody need start or stop
\* anything, and the MCU need not run.
FairSpec ==
  /\ Spec
  /\ WF_vars(op # "none" /\ LoaderCommand)
  /\ WF_vars(HeartbeatWork)

\* When a start or stop, or the work, can go on: only cancel_delayed_work_sync waits.
CommandReady == op # "none" /\ (op = "drain" => work = Idle)
WorkReady == pending \/ work # Idle

CommandGoesOn == CommandReady => ENABLED <<op # "none" /\ LoaderCommand>>_vars
WorkGoesOn == WorkReady => ENABLED <<HeartbeatWork>>_vars

\* The values of the variables (omega4_hpmcu_loader, the mailbox registers):
\* in particular the counter never leaves its byte.
TypeOK == McuTypeOK /\ LoaderTypeOK

-----------------------------------------------------------------------------
\* Once a stop has returned, and until the next start, the heartbeat work is
\* neither queued nor running (cancel_delayed_work_sync under the lock), so
\* that nothing touches the memory of a stopped MCU.
QuietWhenStopped == op = "none" /\ ~running => ~pending /\ work = Idle

\* After a start that found no work of an earlier one the heartbeat is read
\* twice at most (heartbeat_reads_left).  After one that did, the store of that
\* work may undo the start's, without the lock, and the counter go past zero:
\* the reads still end, within two rounds of the byte.
TwoReads ==
  /\ alone => reads <= 2
  /\ reads <= 2 * ByteMod

\* A start or stop that reports success leaves status_show telling the truth.
HonestStatus == op = "none" /\ result = "ok" => (running <=> Released)

\* The loader does to the MCU what the mailbox may expect and nothing else:
\* whatever fails, and also when a running MCU is started again, it is
\* released only after omega4_hpmcu_start_locked has held it in reset.
PowerOnly == [][McuStep \/ Power]_mcuVars

\* Every start and stop returns: cancel_delayed_work_sync waits, with the lock
\* held, for a work that queues itself again and takes no lock.
CommandsReturn == op # "none" ~> op = "none"

\* A start that found no work of an earlier one is followed by two reads of
\* the heartbeat, unless a stop or another start comes first.
BothReads == running /\ alone ~> reads = 2 \/ ~running \/ ~alone
=============================================================================
