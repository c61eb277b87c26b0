------------------------------- MODULE LinkTx -------------------------------
(***************************************************************************)
(* The transmitting side of omega4-linkd: tx_loop, tx_fec_data and         *)
(* tx_payload_flags.  One process, one thread: an iteration of tx_loop     *)
(* that received a datagram is one action.  The calls that can fail are    *)
(* the two sends on the raw socket (ENOBUFS, ENETDOWN); tx_loop ignores    *)
(* the error tx_fec_data returns, and goes on with the state it left.      *)
(***************************************************************************)
EXTENDS LinkFrame

CONSTANTS
  MaxFeed,      \* bound: datagrams handed to the transmitter
  SendMayFail   \* whether send() on the raw socket may fail

ASSUME TxAssumption == MaxFeed \in Nat /\ SendMayFail \in BOOLEAN

VARIABLES
  fed,  \* datagrams received on the UDP socket so far; the next is {fed + 1}
  tx,   \* locals of tx_loop: sequence, st.tx_packets and the fields of fec_tx_state
  at,   \* frames built so far, over all incarnations of the process
  air   \* frames sent and neither received nor lost

txVars == <<fed, tx, at, air>>

TxBoot == [seq |-> 0, packets |-> 0, block |-> 0, shards |-> 0, parity |-> {}]

TxInit ==
  /\ fed = 0
  /\ tx = TxBoot
  /\ at = 0
  /\ air = {}

TxTypeOK ==
  /\ fed \in 0..MaxFeed
  /\ tx \in [seq     : 0..(Mod - 1),
             packets : Nat,
             block   : 0..(Mod - 1),
             shards  : Nat,
             parity  : SUBSET Nat]
  /\ at \in Nat
  /\ air \in SUBSET Frames

-----------------------------------------------------------------------------
\* The block the next data shard belongs to: a new one when none is open.
OpenBlock == IF tx.shards = 0 THEN Succ32(tx.block) ELSE tx.block

\* The parity accumulator with the next datagram folded in.
FoldedParity == Xor(IF tx.shards = 0 THEN {} ELSE tx.parity, {fed + 1})

\* shard_index is the uint8_t of the int counter.
DataFrame == Data(tx.seq, at, OpenBlock, tx.shards % IdxMod, {fed + 1})

ParityFrame == Parity(Succ32(tx.seq), at + 1, OpenBlock, FoldedParity)

Feed == fed < MaxFeed /\ fed' = fed + 1

\* A mistake: a sequence number wider than 32 bits.
SentWide(fec, built, frames) ==
  /\ tx' = [seq     |-> tx.seq + built,
            packets |-> tx.packets + Cardinality(frames),
            block   |-> fec.block,
            shards  |-> fec.shards,
            parity  |-> fec.parity]
  /\ at' = at + built
  /\ air' = air \cup frames

\* tx_payload_flags, called `built` times: build_frame takes a sequence
\* number before the send that may fail, the statistics count after it.
\* fec: the fec_tx_state that tx_fec_data leaves.
Sent(fec, built, frames) ==
  /\ tx' = [seq     |-> (tx.seq + built) % Mod,
            packets |-> tx.packets + Cardinality(frames),
            block   |-> fec.block,
            shards  |-> fec.shards,
            parity  |-> fec.parity]
  /\ at' = at + built
  /\ air' = air \cup frames

\* FEC off: one frame per datagram.
TxPlain ==
  /\ TxK = 0
  /\ Feed
  /\ Sent(tx, 1, {Plain(tx.seq, at, {fed + 1})})

\* Its send fails: the sequence number is spent, nothing is on the air.
TxPlainDropped ==
  /\ TxK = 0
  /\ SendMayFail
  /\ Feed
  /\ Sent(tx, 1, {})

\* The state of a block with one more datagram in it, still open.
OpenState ==
  [block |-> OpenBlock, shards |-> tx.shards + 1, parity |-> FoldedParity]

\* A mistake: the block is not closed after its parity shard.
StaysOpen == OpenState

\* The state of a block whose parity shard has been sent.
ClosedState ==
  [block |-> OpenBlock, shards |-> 0, parity |-> {}]

\* A data shard that does not complete its block.
TxShard ==
  /\ TxK > 0
  /\ Feed
  /\ tx.shards + 1 # TxK
  /\ Sent(OpenState, 1, {DataFrame})

\* The send of the data shard fails: tx_fec_data returns before it looks at
\* the shard count, so that a complete block is left open.
TxShardDropped ==
  /\ TxK > 0
  /\ SendMayFail
  /\ Feed
  /\ Sent(OpenState, 1, {})

\* The last data shard and the parity shard of a block, which is closed.
TxBlockEnd ==
  /\ TxK > 0
  /\ Feed
  /\ tx.shards + 1 = TxK
  /\ Sent(ClosedState, 2, {DataFrame, ParityFrame})

\* The send of the parity shard fails: tx_fec_data returns without closing the block.
TxParityDropped ==
  /\ TxK > 0
  /\ SendMayFail
  /\ Feed
  /\ tx.shards + 1 = TxK
  /\ Sent(OpenState, 2, {DataFrame})

TxStep ==
  \/ TxPlain
  \/ TxPlainDropped
  \/ TxShard
  \/ TxShardDropped
  \/ TxBlockEnd
  \/ TxParityDropped

\* The process ends and procd starts it again (respawn 5 5 0): its locals
\* start from zero, what is on the air stays there.
TxRestart ==
  /\ tx # TxBoot
  /\ tx' = TxBoot
  /\ UNCHANGED <<fed, at, air>>

TxSpec == TxInit /\ [][TxStep]_txVars

-----------------------------------------------------------------------------
DataOf(b) == {f \in air : f.kind = "data" /\ f.block = b}
ParityOf(b) == {f \in air : f.kind = "parity" /\ f.block = b}

\* "8:1 sends one parity packet for every eight data packets": no block
\* carries more than TxK data packets, because its parity follows the last
\* one and closes it (tx_fec_data, fec->shards == cfg->fec_data).
ParityEveryBlock ==
  \A f \in air : f.kind = "data" => Cardinality(DataOf(f.block)) <= TxK
=============================================================================
