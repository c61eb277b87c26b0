------------------------------- MODULE RfLink -------------------------------
(***************************************************************************)
(* A transmitter and a receiver of omega4-linkd and the radio between      *)
(* them.  The frames are broadcast and unacknowledged: the radio loses     *)
(* any of them, may deliver one again, and either keeps their order or     *)
(* not.  Restarts names the ends that procd may have to start again.       *)
(***************************************************************************)
EXTENDS LinkTx, LinkRx

CONSTANTS
  Ordered,  \* whether frames arrive in the order of transmission
  MaxDup,   \* bound: deliveries of a frame that do not take it from the air
  MaxGap,   \* bound: how far beyond the newest frame heard the next one may be
  MaxLate,  \* how far behind a frame that was delivered an older one may still be
  Restarts  \* the ends that may be restarted: a subset of {"tx", "rx"}

ASSUME LinkAssumption ==
  /\ Ordered \in BOOLEAN
  /\ MaxDup \in Nat
  /\ MaxGap \in Nat
  /\ Restarts \in SUBSET {"tx", "rx"}

ASSUME LateAssumption == MaxLate \in Nat

VARIABLE dups  \* deliveries so far that left the frame on the air

vars == <<fed, tx, at, air, stats, slots, out, heard, dups>>

Init == TxInit /\ RxInit /\ dups = 0

TypeOK == TxTypeOK /\ RxTypeOK /\ dups \in 0..MaxDup

-----------------------------------------------------------------------------
\* The frames a delivery of f leaves behind: those an ordered radio has passed
\* are lost, and those too far behind f on any.
Behind(f) ==
  {g \in air : (Ordered => g.at > f.at) /\ f.at <= g.at + MaxLate /\ g # f}

InReach(f) == heard = {} \/ \E g \in heard : f.at <= g.at + MaxGap

\* f is delivered for the last time, or (Again) once more before that.
Deliver(f) == air' = Behind(f) /\ UNCHANGED dups

DeliverAgain(f) ==
  /\ dups < MaxDup
  /\ dups' = dups + 1
  /\ air' = Behind(f) \cup {f}

Transmit == TxStep /\ UNCHANGED <<rxVars, dups>>

Receive ==
  \E f \in air :
    /\ InReach(f)
    /\ Deliver(f) \/ DeliverAgain(f)
    /\ RxFrame(f)
    /\ UNCHANGED <<fed, tx, at>>

RestartTx == "tx" \in Restarts /\ TxRestart /\ UNCHANGED <<rxVars, dups>>

RestartRx == "rx" \in Restarts /\ RxRestart /\ UNCHANGED <<txVars, dups>>

Next ==
  \/ Transmit
  \/ Receive
  \/ RestartTx
  \/ RestartRx

Spec == Init /\ [][Next]_vars

\* Both ends keep running.
UninterruptedSpec == Init /\ [][Transmit \/ Receive]_vars

-----------------------------------------------------------------------------
\* Everything the receiver emits, repaired or not, is a datagram that was
\* handed to the transmitter (fec_try_recover folds in the shards of one
\* block and of that block only).
Genuine == \A i \in DOMAIN out : \E n \in 1..fed : out[i].body = {n}

\* Why: the block the transmitter has open, the frames of a block and the
\* shards of a table entry all trace back to consecutive datagrams.  The three
\* parts hold as long as the transmitter is not restarted and block numbers
\* do not wrap around.
Seen == air \cup heard

OpenBlockTraced ==
  /\ tx.block <= fed
  /\ tx.shards <= fed
  /\ TxK = 0 => tx.shards = 0
  /\ tx.shards > 0 => tx.parity = (fed - tx.shards + 1)..fed

\* The data shards of block b are the datagrams a + 1 .. a + TxK.
ShardsFrom(b, a) ==
  \A d \in Seen :
    d.kind = "data" /\ d.block = b => d.idx < TxK /\ d.body = {a + 1 + d.idx}

FrameTraced(f) ==
  /\ f.kind # "parity" => \E n \in 1..fed : f.body = {n}
  /\ f.kind # "plain" => TxK > 0 /\ f.shards = TxK /\ f.block <= tx.block
  /\ f.kind = "data" /\ f.block = tx.block /\ tx.shards \in 1..TxK =>
       f.idx < tx.shards /\ f.body = {fed - tx.shards + 1 + f.idx}
  /\ f.kind = "parity" =>
       /\ f.block = tx.block => tx.shards = 0
       /\ \E a \in 0..(fed - TxK) : f.body = (a + 1)..(a + TxK) /\ ShardsFrom(f.block, a)

FramesTraced == \A f \in Seen : FrameTraced(f)

\* What an entry holds came in frames of its block.
EntryTraced(blk) ==
  /\ blk.gotParity =>
       \E p \in heard : /\ p.kind = "parity" /\ p.shards = RxK
                        /\ p.block = blk.block /\ p.body = blk.parity
  /\ \A i \in blk.got :
       \E d \in heard : /\ d.kind = "data" /\ d.idx = i
                        /\ d.block = blk.block /\ d.body = blk.data[i]

EntriesTraced == \A s \in Slots : EntryTraced(slots[s])

Provenance == OpenBlockTraced /\ FramesTraced /\ EntriesTraced

\* On a radio that keeps the order a datagram is emitted once at most: a
\* shard is repaired only when its own frame can no longer come.
AtMostOnce ==
  \A i, j \in DOMAIN out : out[i].body = out[j].body => i = j

HeardOf(b) == {f \in heard : f.kind # "plain" /\ f.block = b}

EmittedBodies == {out[i].body : i \in DOMAIN out}

\* "It can recover one missing RF packet per completed block": once TxK of
\* the TxK + 1 frames of a block have been heard, whichever they are, every
\* datagram of the block has been emitted.
OneLossRepaired ==
  \A f \in heard :
    f.kind # "plain" /\ Cardinality(HeardOf(f.block)) >= TxK =>
      \A n \in ((f.block - 1) * TxK + 1)..(f.block * TxK) : {n} \in EmittedBodies

\* On a radio that keeps the order a repaired datagram is late within its
\* block only: everything of an earlier block comes out before anything of a
\* later one, and what was not repaired comes out in the order it was sent.
OrderKeptAcrossBlocks ==
  \A i, j \in DOMAIN out :
    \A m \in out[i].body, n \in out[j].body :
      i < j /\ n < m => out[j].via = "fec" /\ (m - 1) \div TxK = (n - 1) \div TxK

Oldness(f) == \A g \in heard : f.at <= g.at
Newness(f) == \A g \in heard : g.at <= f.at

\* On a radio that keeps the order and loses fewer than half the sequence
\* numbers in a row, the counters say how many frames went missing since the
\* first one heard, also after sequence numbers have wrapped around.
LossesCounted ==
  \A f, g \in heard :
    Oldness(f) /\ Newness(g) =>
      stats.lost = (g.at - f.at + 1) - Cardinality(heard)

\* A receiver whose FEC setting is not the transmitter's emits nothing and
\* says so: every frame is counted as bad.
MismatchIsReported ==
  TxK > 0 /\ TxK # RxK => out = <<>> /\ stats.bad = stats.frames

\* The link implements the datagram service DatagramLink promises its users.
Service == INSTANCE DatagramLink WITH got <- [i \in DOMAIN out |-> out[i].body]

DatagramService == Service!Spec
=============================================================================
