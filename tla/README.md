# Verification of the Omega4 packages

This directory is the formal side of the package feed: TLA+ models of the
programs whose own logic lives here, TLC configurations that check them on small
instances, and theorems about them that TLAPS proves for every value of the
constants. Every definition is translated from the source under `src/`;
`PROJECT.json` names the lines each one stands for.

## 1. Inventory

The feed packages software for the Onion Omega4 (Rockchip RV1103B with an
AIC8800D radio and a small RISC-V core, the HPMCU). Most of its 313 000 lines are
vendor drivers, firmware images, tuning tables and prebuilt libraries that it
carries along. Its own logic is in five places.

### 1.1 The RF link, `utils/omega4-linkd`

| part | state | operations | talks to |
|---|---|---|---|
| `omega4-linkd --mode tx` | `sequence`, `struct fec_tx_state` (block, shards in it, parity), `struct stats` | one datagram in: one frame out, or with FEC one data shard and, at the end of a block, the parity shard | a UDP socket, a raw socket on a monitor interface |
| `omega4-linkd --mode rx` | `struct fec_rx_state` (16 blocks), `struct stats` | one frame in: accounting, at most one datagram out directly and one repaired | the raw socket, a UDP socket |
| `--mode ping` | `sequence`, `struct stats` | a frame per interval | the raw socket |
| status file | `struct status_state`, `FILE.tmp.PID`, `FILE` | written by all three loops, read by anybody | the file system |
| `omega4-mavlinkd` | one buffer, counters | copies UART to UDP and UDP to UART | the flight controller's UART, a UDP peer (a link in each direction) |
| `omega4-link` init script, `omega4-videod` | configuration | builds the command lines; procd restarts what ends (`respawn 5 5 0`) | procd |

Each process is one thread around `poll`. What is hard is between the processes:
the radio loses, repeats and reorders frames and nothing is acknowledged; each
end may be restarted while the other keeps its state; `send` and `sendto` fail
and the loops go on with whatever state they left; counters wrap around.

Correct means: what comes out was put in (never a mixture of payloads); a block
that lost one frame comes out whole; nothing comes out twice, and late datagrams
are late within their block only, on a radio that keeps the order; the counters
say what was lost; two ends configured differently say so; the status file is
fresh and whole; the serial bridge drops nothing but the end of a datagram.

### 1.2 The HPMCU, `kernel/omega4-hpmcu-loader`, `kernel/omega4-hpmcu-mbox`

| part | state | operations | talks to |
|---|---|---|---|
| loader (`omega4_hpmcu_loader.c`) | `running`, `heartbeat_reads_left`, `heartbeat_last` and what the firmware image says of the heartbeat, a mutex, reset lines, clocks, the firmware in SRAM | probe, sysfs `start`, `stop`, `status`, `firmware`, `heartbeat`, the delayed work, remove | clocks, reset and GRF registers, `request_firmware`, the MCU's memory |
| mailbox client (`omega4_hpmcu_mbox.c`) | `msg`, the completion `rx_done`, `rx_count`, `last_cmd`, `last_data`, `last_status`, a mutex | probe, sysfs `ping`, `clear`, `status`, the receive callback, remove | the mailbox controller and its registers, the MCU |
| firmware (`firmware-src/mcu_heartbeat.c`) | the heartbeat counter | boot message, heartbeat, answer to a ping | mailbox registers |

What is hard: work items, sysfs calls and interrupts of several processors on
the same fields, only some under the lock; an answer that comes after the
time-out of the question; the MCU reset in the middle of a conversation.

### 1.3 The video encoder, `multimedia/omega4-vencd`

One program around the camera (V4L2 buffers), the hardware encoder (MPP) and RTP
over UDP: ownership of camera buffers along success and error paths, splitting
of access units at start codes, fragmentation of units larger than a packet
(FU-A), sequence numbers, markers and timestamps, restart by procd. Hard are the
ways out of the loop while something is held, and the sizes at the boundary of
a packet. Correct means: every buffer goes back exactly once, and what a
receiver reassembles from the packets is the access unit.

### 1.4 Tools

| part | state | operations | talks to |
|---|---|---|---|
| `mfg-aic-uart load` | the block being sent, the byte that ends the file | wait for an invitation, send blocks of 1024 bytes until each is acknowledged, announce the end, jump | the boot ROM of the radio, over a serial line |
| `mfg-aic-uart probe`, `cmd`, `monitor`; `mfg-camera-test` | - | copy bytes; capture frames and measure them | a serial line; the camera |
| `omega4-pinmux` | - | one register write per call, through `/dev/mem` | GRF and IOC registers |
| `multimedia/rockchip-rknn/src/omega4-*` | - | demos of the NPU | the NPU driver |

Hard in the XMODEM sender are the time-outs: acknowledgements are counted and
not matched, the loop on a block has no limit, and the reply at the end of the
file is read into the variable that is sent. Correct means: the chip has the
whole file when it is told to jump, and the transfer ends.

### 1.5 Vendor code that is packaged

`kernel/rknpu-rockchip` (NPU: job queue per core, interrupts, time-outs, aborts).
Every inference of the board goes through its job queue: threads that submit, wait
and abort, an interrupt handler that finishes a job and starts the next, and a
reset any process may ask for, with only some of it under `irq_lock`. Correct
means: a job waits in one place, the registers are written for the job that has
the core, success is a job's own, every submission returns. The rest is packaged
and not examined: `kernel/video-rockchip-mpp` (codec: task queues, sessions, IOMMU),
`kernel/aic8800d-sdio` (Wi-Fi: command manager, TCP ACK filter, SDIO queues, power
states), `kernel/video-rockchip-{cif,isp,rkisp1,mipi-csi2}`, `kernel/phy-rockchip-*`,
`kernel/video-sc3336`, `utils/aicrf-test`, `firmware/aic8800d-firmware`,
`multimedia/rockchip-{aiq,mpp,rknn}` (tables, binaries, patches).

The hazards of all of these, each at its line and with the properties that
watch it, are listed in `PROJECT.json`.

## 2. Plan

In order of what matters most for the user of the board; the first five are done.

1. **RF link**: `LinkFrame`, `LinkTx`, `LinkRx`, composed in `RfLink`, against the
   abstract service `DatagramLink`; beside it `LinkStatus` and `MavlinkBridge`.
   Left: several streams on one receiver (`--stream 0`).
2. **HPMCU**: `HpmcuMcu`, `HpmcuLoader`, `HpmcuMbox`; the client beside an abstract loader in
   `Hpmcu`, both drivers in `HpmcuSystem`. Left: probe and remove of both drivers.
3. **Video encoder**: `RtpH264` (start codes, FU-A, and a receiver) and `Vencd` (buffers,
   frames, output).
4. **XMODEM sender**: `Xmodem`.
5. **NPU job queue**: `RknpuJob`, for blocking submissions. Left: submissions with
   `RKNPU_JOB_NONBLOCK`, whose time-outs `rknpu_job_timeout_clean` finds.
6. **Other vendor code with logic of its own**: the codec's task queue
   (`mpp_common.c`), the Wi-Fi driver's command manager and TCP-ACK filter.

## 3. Modules

| module | models | variables and what they are in the code |
|---|---|---|
| `LinkFrame` | frames, XOR of payloads, 32-bit distances | - |
| `LinkTx` | `tx_loop`, `tx_fec_data`, `tx_payload_flags` | `tx`: sequence, `fec_tx_state`, `st.tx_packets`; `fed`: datagrams received; `air`: frames sent |
| `LinkRx` | `rx_loop`, `rx_fec_payload`, `fec_rx_block_get`, `fec_try_recover` | `stats`: `struct stats`; `slots`: `struct fec_rx_state`; `out`: datagrams emitted |
| `RfLink` | both ends, the radio, procd's restarts | `dups`: repeated deliveries |
| `DatagramLink` | abstract: what the link's users may rely on | `got`: what came out |
| `LinkStatus` | when the loops reach `write_status_file`; how the file is replaced | `pc`, `last` (`status.last_us`), `tmp`, `file` |
| `MavlinkBridge` | the loop of `omega4-mavlinkd` | bytes read and sent in each direction, the UART's buffer |
| `HpmcuMcu` | firmware and mailbox registers; `Power`, what the reset lines do | `mcu`, `a2b`, `b2a`, `enabled` |
| `HpmcuLoader` | start, stop and heartbeat work of the loader | `op` (where the holder of the mutex is), `running`, `readsLeft`, `pending`, `work` |
| `HpmcuMbox` | ping, clear, receive callback; transmit queue and interrupt as the client sees them | `ping` (where `omega4_hpmcu_mbox_send` is), `msg`, `done`, `queued`, `active`, `irq` |
| `Hpmcu` | abstract for `HpmcuSystem`: the mailbox client beside any loader that does what `Power` allows | - |
| `HpmcuSystem` | loader, mailbox client and firmware together | - |
| `RtpH264` | `h264_find_start_code`, `rtp_send_annexb`, `rtp_send_nal`; a receiver of RFC 6184 | - (functions on byte strings) |
| `Vencd` | `run_encoder` with `output_write`, `camera_get_frame` and `camera_put_frame` | where each camera buffer is (`queued`, `filled`, `held`, `lost`); `rtp`: `struct rtp_output`; `sent`, `file`: the output; `stopAt`: `stop_requested` |
| `Xmodem` | `wait_receiver`, `send_xmodem_1k`; the receiver and the line | `blk`, `c`, `tries` of the sender; `toRx`, `toTx`: the line; `stored`: what the receiver accepted |
| `RknpuJob` | `rknpu_submit`, `rknpu_job_schedule`, `_next`, `_commit`, `_wait`, `_abort`, `_done`, the interrupt handler, `rknpu_soft_reset` | `pc` of each thread; `job`: `struct rknpu_job`; `owner`, `todo`: `subcore_data`; `hw`, `irq`: the NPU |
| `MCRfLink`, `MCVencd` | four settings of `RfLink` in one run; the units `Vencd` is run with | `setting` |
| `RfLinkProofs`, `MCRfLinkProofs`, `LinkStatusProofs`, `MavlinkBridgeProofs`, `HpmcuProofs`, `VencdProofs`, `XmodemProofs`, `RknpuJobProofs` | theorems | - |

**Atomicity.** The programs of the link are single threads and share nothing:
one iteration of a loop is one action, and what can happen between two
iterations happens between two actions. A call that fails is an action of its
own (`TxParityDropped`) or an outcome (`EmitOK`). In the status file the steps
between `fopen` and `rename` are separate, because other processes read the
file meanwhile. In the drivers every access to a field another context uses
is a step: `--heartbeat_reads_left` is a load and a store, `clear_store` clears one
direction after the other, a start is six steps under the mutex. Within
`omega4_hpmcu_stop_locked` the assertion of the reset line and `running = false`
are one step: the work that falls between them only reads memory. In the encoder,
which is one thread, a call that blocks or fails is a step, and a part of a frame is
read and sent in one. In the NPU driver a step is what a thread does under
`irq_lock` or between two accesses to shared fields; the interrupt handler is one
step, because the SoC has one processor; the register writes of a commit are one.

**Time.** `LinkStatus` counts ticks. Elsewhere a time-out is a choice: a ping expires
whenever it has no message; an XMODEM time-out comes when the line is quiet, or,
`MaxEarly` times, earlier, since `read_byte_timeout` takes a signal for a time-out; in
the NPU driver time-outs and the two sleeps of 100 ms end only when no thread
is between two of its sleeps (`Settled`): this is what the sleeps are for, and
without it the driver commits freed jobs.

**Payloads.** A payload is a set of atoms and XOR the symmetric difference: the
free case, in which different combinations of datagrams are different payloads.
A datagram that was sent is the singleton of its number, so that "a mixture of
payloads" is a set with more than one element. Lengths are left out; the
length check of `fec_try_recover` is an outcome that only a mixture can have.

**Composition.** `RfLink` extends `LinkTx` and `LinkRx` and joins them over `air`.
The HPMCU is checked by assume and guarantee: `HpmcuLoader` does to the MCU nothing
but `Power` (property `PowerOnly`, theorem `PowerControl`), and `Hpmcu` puts the mailbox client
beside a loader that does `Power` at any time. `HpmcuSystem` is the product of both, and that
it needs no run of its own is a theorem: `SystemImplementsPings` says that it implements
`Hpmcu`, `PingsInSystem` and `LoaderInSystem` that the properties of both hold in it. A step of
the loader that does not reach the MCU does not disturb a ping there either.

**Hardware left open.** What the mailbox does when the firmware writes 1 to
`B2A_STATUS` (which the driver takes for "clear", the firmware for "ready") is not in the
repository: `markSets` is chosen freely at the start and every result holds for both.

## 4. Runs

`CHECK_DEADLOCK FALSE` in each: the systems may stop, when bounds are used up or
because nobody starts anything; that commands, transfers and submissions come to
an end is stated as a property where the code promises it.

| run | question | bounds, and why they are enough |
|---|---|---|
| `link_fifo` | ordered radio: no datagram twice, one loss per block repaired, late within the block only | FEC 3:1, 7 datagrams (two blocks and a part of a third), 1 table entry, 3-bit sequence numbers; any frames lost. With one entry every new block evicts. |
| `link_settings` | the same link in four settings, chosen at the start: is what comes out what went in (`Genuine`, `DatagramService`, its invariant `ProvenanceKept`); is a block counted as recovered only when its missing datagram is out (`RecoveredIsOut`); does repair survive reordering when entries are given away; is a mismatch reported; is the count of losses exact | *failing*: 5 datagrams, sends and emissions fail, frames reordered within 3, receiver restarted. *reordering*: 5 datagrams in three blocks over 2 entries, so that the third block takes the entry of one that is over; one repetition; a frame comes up to `MaxLate` = 3 frames late. With 4 TLC finds `RepairedOutOfOrder` violated: the third block then takes the entry of a block that is not over. *mismatch*: 2:1 and 3:1, 4 datagrams, both ends restarted. *plain*: 10 datagrams, 3-bit sequence numbers that wrap, gaps below half of them as `Diff32` requires |
| `link_tx_restart` | finding | 5 datagrams, transmitter restarted |
| `tx_send_fails` | finding | 6 datagrams, no receiver |
| `status` | file fresh and whole | poll of 2, interval of 3, respawn of 2 ticks, 10 ticks: several intervals, failures and restarts |
| `status_fec` | finding | the same, nothing fails |
| `mavlink` | what the bridge loses | buffer 2, UART buffer 3, datagrams to 3 bytes, 3 bytes up, 6 down: cut by each limit |
| `hpmcu_loader` | loader against work, failures, repeated starts; returns and both reads (liveness) | no bound on starts and stops. `ByteMod = 4` values of the counter in place of 256: 2 and the wrap below 0 are distinct |
| `hpmcu_mbox` | pings, clears, interrupts, restarts of the MCU | no bound on pings. Two data words, 1 queue entry in place of the framework's 20: empty, full and refused all occur |
| `vencd` | buffers in one place, units arrive, markers and timestamps, stop | 2 buffers, 2 frames after 2 skipped ones, up to 2 partitions, 3 units in all; 4 bytes of payload: units of exactly that, one more, and three fragments; sequence numbers and timestamps wrap |
| `xmodem` | the receiver's copy, the sender's count, the end | 5 blocks under 4 block numbers: they wrap; 2 premature time-outs, 3 announcements of the end in place of 10; loss and garbling without bound |
| `npu_jobs` | the job queue against time-outs, aborts, resets and an NPU that does anything | 3 units of load: three submissions, or two and a reset, or tasks in two or three parts. Two jobs meet over the core, a third waits meanwhile |

**Fairness.** `hpmcu_loader`: a start or stop that is under way goes on and the
work, once queued, runs: the kernel schedules the caller and its workqueue, timers
expire. Nobody need call anything and the MCU need not run. `vencd` (`StopEnds`): the
thread goes on while its calls return, and the camera fills the buffers it
has; no call has to fail. `npu_jobs` (`SubmitsReturn`): the threads get the
processor and time goes by; the NPU need not do anything. `xmodem` (`Ends`): both
ends go on, and of the blocks and answers that are repeated without end
some come through (strong fairness); a line that never lets any through keeps
the loop on a block for ever, which the code accepts. The rest promises nothing
that must happen (frames are unacknowledged), and the freshness of the status
file is stated in ticks, as a safety property: `Tick` does not pass a moment at
which the loop is about to run.

Every property has a mutant in `PROJECT.json`: a plausible mistake in the code
(marked "A mistake" in the modules) under which TLC finds it violated.

## 5. Findings

Three runs end in a violation of what the documentation says; the traces are
TLC's.

- `link_tx_restart`: block numbers start from 0 in every process, and the
  receiver never forgets a block. After procd has restarted the transmitter the shards
  of new blocks join those of old ones and a mixture is emitted as a repaired
  packet.
- `tx_send_fails`: when the send of the last data shard or of the parity shard
  fails, the test `fec->shards == cfg->fec_data` never holds again: the
  transmitter goes on with one endless block and without parity.
- `status_fec`: `rx_loop` continues past `write_status_file` after a FEC frame; with
  a steady flow of FEC frames the file that is "updated once per second" is
  not updated.

Observed while modelling and not a run of its own:

- `omega4-mavlinkd` is called a transparent bridge, but `write` on the non-blocking
  UART may take a part of a datagram and the rest is dropped, and the loop
  counts the datagram as forwarded. `CutAtTheEnd` says what remains true: it is
  the end of a datagram that is lost, and nothing is mixed.
- After a time-out the mailbox client takes registers that hold the words of
  its ping for the answer. The registers keep the answer of an earlier ping:
  pinging a dead MCU with the same data again reports success. `SuccessIsAnswer`
  is about pings that return on a message (`"ok"`, as opposed to `"matched"`).
- The work decrements `heartbeat_reads_left` without the lock. When a running MCU is
  started again while the work runs, the store of the work may undo the start's 2, the counter
  pass 0, and the heartbeat be read up to 512 times: two rounds of the byte, which `TwoReads`
  states and the code reaches (with one read less in the bound TLC finds it violated).
  That it is read twice, at most and in the end, is claimed for starts that found no
  work (`alone`).
- A start that fails on a running MCU leaves `running` as it was, whether the MCU
  is in reset or not; `HonestStatus` is about calls that report success.
- The attributes of the loader are device-managed and go after `remove` has
  returned: a start in between queues a work that nobody cancels.
- A signal in `read_byte_timeout` counts as a time-out of the XMODEM sender, which
  sends the block again; the acknowledgement of the first copy then counts for the
  next block. `InStep` says how far this goes: as many blocks as there were such
  time-outs may be missing when success is reported.
- At the end of the file the reply is read into the variable that is sent
  (`mfg-aic-uart.c:203`): after a NAK the next tries send the NAK. `wait_receiver`
  reports CAN as an invitation.
- In the encoder a failed `VIDIOC_QBUF` is forgotten; when all buffers are gone
  `VIDIOC_DQBUF` waits for ever and is repeated after a signal. `StopEnds` excludes it. A frame
  whose last partition is empty has no marker, and the next has its timestamp.
- In the NPU driver a job that is aborted after an interrupt that did not finish it
  keeps the core though it is freed (the warning of `rknpu_drv.c:1579` would tell);
  the interrupt of a job that was given up may pass for the end of the next;
  queued jobs are not looked at after an abort or a reset until the next submission or
  their own third time-out; a failed reset leaves `soft_reseting` set, and every later
  submission fails. `LeftBehind`, `SuccessIsOwn`, `WorkConserving` and `SubmitsReturn` say
  what holds in spite of it.

## 6. Proofs

The theorems hold for every value of the constants under the named assumptions of the
modules. They are of the form `Spec => []...` or say that every step satisfies an action
property, but for two refinements (`ServiceImplemented`, `SystemImplementsPings`) and three
theorems about what must happen (`EveryCommandReturns`, `BothReadsCome`, `StopComesToAnEnd`; see
"Liveness" below).

**`RfLinkProofs`**. `TypeCorrect`: `TypeOK` is inductive as it stands. The work is in
lemmas about `Diff32`, about the entry `SlotFor` chooses, and about sequences.
`SlotTableKept` (no block has two entries, the table fills from the front) is what the theorems
about repair rest on: `SlotTable` is inductive together with `TypeOK`. The step that
needs an argument is the one that takes an entry: the scan has stopped at the first
free one or at the block, or the table is full, and then no entry holds the
block.

`GenuineAlways`: if the transmitter is not restarted and sends
fewer datagrams than there are block numbers, everything emitted was handed
in. Both conditions are needed (the first is the finding). `Genuine` is not
inductive, since it says nothing of frames under way and shards held. The
strengthening is `Provenance`: the parity accumulator of the open block is the
datagrams since it was opened (`OpenBlockTraced`); each frame is a datagram, or the
parity of `TxK` consecutive ones from which the data shards of its block are
taken (`FramesTraced`); each table entry holds what came in frames of its block
(`EntriesTraced`). Then the parity
with all shards but one folded in is the missing one (lemmas about `XorAll`), and
that is what `fec_try_recover` emits. `link_settings` checks `Provenance` as an invariant (`ProvenanceKept`).

`RecoveredIsOutAlways`, under the same conditions: when `sendto` refuses the repaired
datagram the block must not count as recovered, or nothing would ever emit it.
`RecoveredInv` says it of each entry; what an entry holds is not replaced, so that its
missing datagram stays the same (`EmissionKept`).

`ServiceImplemented`: under the same conditions `RfLink` implements `DatagramLink`: the
initial state maps to an initial state, a step of `tx_loop` that receives a datagram to
`HandIn`, a step of `rx_loop` that emits one or two to `HandOut` (by `Genuine`), every
other to a stutter.

`MismatchReported`: with different geometries the receiver refuses every shard and counts
it, whatever is restarted. `MismatchInv` adds that all frames of the transmitter
say the transmitter's geometry.

The next five theorems are about what the receiver counts and emits; each names what it needs of the
radio. `Ordered` and `MaxDup = 0` is a radio that loses frames and does nothing else.

| theorem | says | conditions |
|---|---|---|
| `LossesCountedExactly` | the counter of losses is the number of frames missing between the oldest and the newest heard | ordered radio; gaps below half the sequence numbers; transmitter not restarted |
| `AtMostOnceKept` | nothing comes out twice, neither passed on and repaired nor repaired twice | ordered radio; fewer datagrams than block numbers; no restart |
| `OrderKept` | a repaired datagram is late within its own block only | the same, and no send fails |
| `OneLossRepairedInOrder` | a block of which all frames but one were heard is out in full, with a table of any size | ordered radio; both ends with the same FEC setting; no call fails; the transmitter is not restarted |
| `OneLossRepairedAnyOrder` | the same | any radio that delivers no frame more than `MaxLate` behind a newer one, `MaxLate <= (NSlots - 1) * (TxK + 1)`: 135 frames for the 16 entries of the code and 8:1; at most half as many datagrams as block numbers; the rest as above |

The run `link_fifo` meets the conditions of the middle three, the settings *plain* and
*reordering* those of the first and of the last; the bound on `MaxLate` is exact, see the
run. Without the condition on restarts, or on failed sends, there is a run that ends in a
violation (`link_tx_restart`, `tx_send_fails`). The argument, in the order of the lemmas:
frames on the air are numbered on, and blocks and shards with them (`FramesNumbered`,
`DatagramOrder`); on an ordered radio what was heard is older than what is to come
(`RadioOrder`), so that `rx_seq` is the newest frame heard (`SeqFollows`) and the counters
are sums over it (`CountersFollow`). For the table: the newest block has an entry, which
holds all that was heard of it (`EntryComplete`), and on any radio every block has one of
which a frame may still come (`TableCurrent`). This is the argument of
`OneLossRepairedAnyOrder`: frames are built in the order of blocks and shards, `TxK + 1`
for a block (`BuiltInTurn`), so that no frame of a block comes any more, and the block is
over, once a frame of one that is `NSlots` or more blocks newer has been heard (`Over`,
`NoneTooLate`). A new block that finds the table full is one of `NSlots + 1` blocks then,
the oldest of which is over: that is the block whose entry is taken, since it cannot be
the new one, of which a frame has just come (`EvictedIsOver`). What a block that is over
had to emit it has emitted (`DoneWith`). For the output: each emission comes from the
frame of its datagram or is a repair after the parity shard (`EmissionOrder`), and blocks
are consecutive stretches of datagrams (`Aligned`). For the repair: an entry whose parity
and all data shards but one are there has emitted the missing one (`EntriesServed`), and
on an ordered radio an earlier block is done with when a newer one arrives
(`EarlierRepaired`).

**`LinkStatusProofs`**. `Inv` is `TypeOK` and `WholeOrAbsent` with: the loop is in a wait, or
busy after it, for no longer than `Wait` (`InTime`); the temporary file is of the
moment, and complete when it is renamed (`TmpIsNew`). From it `TypeCorrect` and `Whole`. For
`AlwaysFresh` one more part is needed, that no wait begins an interval after the last
write (`SinceWrite`); it holds if no kind of frame makes `rx_loop` go back to `poll`, which
is the theorem's condition and, by the finding, a necessary one.

**`MCRfLinkProofs`**. Each setting of `MCRfLink` is an instance of `RfLinkProofs` (which extends
`RfLink`), so that its theorems can be cited for the setting. What is left to show is that the
constants of a setting meet the assumptions of `RfLink` and the conditions of the theorem, and
that a run stays in the setting it began in (`SettingKept`). From it `ProvenanceInSettings`,
`RepairedInAnyOrder`, `CountedWhenPlain` and `MismatchInSettings`: the properties of
`link_settings`, for every value of the constants the cfg gives and not for its own alone. The
conditions the first three put on them are those of the theorems cited, and the cfg meets them.

**`HpmcuProofs`**, the loader. `LoaderInv` is `TypeOK` with: where the holder of the mutex
is says what the MCU does (`OpAgrees`); when the loader does not run, what is left of the
work is gone by the end of a stop (`WorkEnds`); reads made and reads to come
add up to two at most, but for the moment between load and store (`ReadsAddUp`). For starts that
found work, `Rounds` adds to the reads made those that the counter leaves, and a round of
the counter when the work is queued, or about to be, once more. From them
`LoaderTypeCorrect`, `Quiet`, `AtMostTwoReads`, `Honest`, `PowerControl`.

The pings. `PingsInv` is `PingsTypeOK` with: `msg` is filled in before the framework
gets a pointer to it (`Filled`); the firmware takes pings in the order they were
sent, so that an answer to the last one is followed by none to an earlier one
(`InOrder`); a ping that began in silence and is not answered yet finds no
status, no interrupt and no completion (`NothingForeign`); and once it is
answered the registers hold its words until a clear or a restart
(`AnswerStays`), which is why the second look at them finds what the status bit
and the interrupt may have lost. From it `PingsTypeCorrect`, `SuccessIsReal`, `TimeoutsAreReal`.

Both drivers. `SystemInv` is both invariants, each preserved by the steps of the other
for a reason of its own: a step of the loader is a step of `Power` or leaves the MCU alone
(`CommandPower`, which needs `OpAgrees`: the MCU is released only out of reset), and no step of a
ping moves the MCU into reset or out of it (`MboxLeavesFirmware`). From it
`SystemImplementsPings`, `PingsInSystem`, `LoaderInSystem`.

**`MavlinkBridgeProofs`**. The two directions share nothing and have an invariant each.
`UpInv` is `TransparentToPeer` with types: the bytes that are not carried grow by an interval
of numbers above all others when `sendto` fails, and stay when it does not. `DownInv` is
`CutAtTheEnd` with: datagrams are numbered on (`InTurn`), and what the UART has taken is of
those read from the socket. From them `Transparent` and `FrontOfEach`.

**`VencdProofs`**. `BufferInv` is `BuffersKept` with types, and with an empty queue once
the camera is closed, which keeps `Fill` from moving buffers of a program that ended: from
it `BuffersAlwaysKept`. `LoopInv` says which frame is in hand after a signal (`Stopping`) and
whose parts have been output (`Counted`): from it `StopIsClean`.

`OutputArrives`, `MarkersEndFrames` and `FramesAreTimed` are about the bytes, for every MTU
above 14 and every set of units that are NAL units (`CodedAssumption`: no start code inside, no
zero at the end, not of the type of a fragment; H.264 asks this of an encoder). The invariant
`ArrivalInv` says that what a receiver has got from `sent` so far, or a reader from `file`, is
`ProducedUnits`. It rests on three lemmas, one per conversion: `UnitReceived` (fragmenting and
joining a unit is the identity, and all but the last packet of a unit add nothing), `UnitsFromBehind`
(a unit behind a start code adds exactly itself to what the search for start codes finds, since
no start code can begin before it and reach into it) and `FlowReceived` (packets of a part, all or some). The
operators computed by recursion (`FlattenSeq`, `Received`, `UnitsFrom`) are
`CHOOSE f : f = [... f[n - 1] ...]`; that such an `f` exists is proved with `NatSetInduction`,
induction for a set of numbers in place of a predicate, and nothing else is used of
them. `FrameInv` is the other two properties with: the next packet would carry the time of the
frame in hand, and the frames that ended without bytes are finished ones. A part has
at most two units, as in the model. All of these together give
`TypeCorrect`: that sequence numbers and timestamps stay in their 16 and 32 bits is read off from
the numbering and from the frames.

**`RknpuJobProofs`**. `Inv` is `TypeOK` and `WorkConserving` with: a job on the list is
waited for, not committed and not done (`ListWaits`); a job that is waited for is there or
has the core (`WaitedFor`); the job that has the core is not done, and its thread has left
`rknpu_job_abort` only if an interrupt came (`OwnerWaits`); one thread commits, for a job
whose `last_task` is not set and whose own thread has not slept out its 100 ms
(`OneCommits`: so the handler finds nothing to finish, and nobody takes the core away);
who gives up has a reason (`Reasons`), which is what `GaveUp = {}` excludes; in normal
operation the NPU works for the job that has the core and interrupts are that job's
(`HwOwned`). The sleep of 100 ms matters: when it is over, no other thread is in the middle of
a commit (`Settled`), and `OneCommits` does not survive without it (the mutant `SleptNot`). Each
action has a lemma of its own. From `Inv` all safety properties of the run `npu_jobs`.

**`XmodemProofs`**. `TypeCorrect`; `StoredInOrder` and `CountsInStep`, if the time-outs that come
too early are fewer than `BlkMod - 1` (254 for the byte in the code). The condition is exact: with
one more TLC finds both violated. Acknowledgements are not matched to blocks, so
the invariant `Inv` counts what is under way. Whoever sends has taken something from the line or
waited in vain, so that there is one message more than early time-outs at
most (`FewUnderWay`). Blocks under way ascend (`Ascending`) from what is stored to as far
ahead as there were early time-outs (`Near`); therefore their numbers tell them apart
(`NumbersTell`). A block that the sender is past has a message behind it for every block the
sender is past it (`Behind`); so when the receiver acknowledges it, few answers are
before this one, and the acknowledgements under way never put the sender
further ahead than `InStep` allows (`Ahead`).

**Liveness**. The prover cannot expand `ENABLED`, on which weak fairness rests, and has no
induction for temporal formulas. Three liveness properties are proved in spite of it, each of
a system that needs a bounded number of its own steps. Their hypotheses are the specification
with its fairness and the invariants `CommandGoesOn`, `WorkGoesOn`, `LoopGoesOn`, `CameraGoesOn`: a step
whose guard (`CommandReady`, `WorkReady`, `LoopReady`, a buffer that is queued) holds can be taken.
They are about the shape of the actions and not about what the program does; added to the
INVARIANTS of `hpmcu_loader.cfg` and `vencd.cfg` they are found to hold, and TLC relies on nothing else
when it evaluates the fairness of these runs. Each proof is a chain of "leads to", and each link
consists of three facts: a step leaves the state or goes on to the next link, the fair
step goes on, and it is ready.

- `EveryCommandReturns` (`CommandsReturn`): a start goes through its steps to the end. A stop cancels, and
  then waits for the work; the work is at most four steps from its end, takes no lock, and is
  neither queued nor able to queue itself, since `running` is false and a cancel is under way.
- `BothReadsCome` (`BothReads`): `ReadsToCome` strengthens the invariant to an equation, reads made and to
  come are two, and says that the work is queued or at it as long as one is to come. From the
  start the work makes its way through check, read, store and again, twice.
- `StopComesToAnEnd` (`StopEnds`), with one more hypothesis, that the encoder comes to the end of a
  frame it was given (`pc = "parts" ~> ~(pc = "parts")`). In the model it does after `MaxParts` parts at the
  latest; to derive this for every `MaxParts` would take induction, and TLC finds it to hold at the bounds
  of the run `vencd`. The theorem shows the rest: wherever in the loop the signal comes, with
  however many frames still to be skipped, the next time at its head the loop is left, and the camera
  has a buffer to fill unless all are lost (`BufferInv`).

**Only model-checked**. `Ends` and `SubmitsReturn`: both need induction on a number that the
constants do not bound by a fixed one (blocks of a file, jobs on the list before one's own),
and `Ends` strong fairness of the line. `StopEnds` for the parts of one frame, as said above.

## 7. Not modelled

- Option parsing, Wi-Fi set-up by external commands, radiotap, signal figures,
  formatting of the status file: no state that the loops depend on.
- Frames that `parse_frame` rejects: they are frames the radio lost. Frames of
  other streams: ignored by a receiver with `--stream`; without it, see the plan.
- Lengths of datagrams in the link (the cut at 1388 and 1400 bytes).
- In the loader: the name of the firmware, its placement in memory, the GRF
  set-up, a device tree without a reset line (stop then does nothing to the
  MCU), firmware without a heartbeat, probe and remove. In the client:
  the counters only `status` shows, a controller without mapped registers, probe and
  remove. In the firmware: the heartbeat, the cache, commands other than ping.
- In `omega4-vencd`: options, `camera_open`, the settings of the encoder and everything
  else before the loop (a failure there ends the program); `--frames 0`. A blocking read of the
  encoder's output is assumed to return a packet or fail.
- In `mfg-aic-uart`: `probe`, `cmd` and `monitor`, which copy bytes. `mfg-camera-test` and
  the demos of the NPU keep no state. `omega4-pinmux` writes one register per call, with
  high-word write enables: every mask of its table is in the low half.
- In the NPU driver: `RKNPU_JOB_NONBLOCK`, several cores, fences, IOMMU domains,
  `bypass_soft_reset`, submissions without a task object.
- Other vendor drivers, libraries, firmware, tables: see the components in `PROJECT.json`.
