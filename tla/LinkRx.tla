------------------------------- MODULE LinkRx -------------------------------
(***************************************************************************)
(* The receiving side of omega4-linkd: rx_loop, rx_fec_payload,            *)
(* fec_rx_block_get and fec_try_recover.  One process, one thread: the     *)
(* handling of one frame, with the datagrams it emits and the statistics   *)
(* it updates, is one action.  Frames that parse_frame rejects (CRC,       *)
(* length) are frames the channel lost; those of another stream are not    *)
(* this receiver's.  The call that can fail is sendto on the UDP socket.   *)
(***************************************************************************)
EXTENDS LinkFrame, Sequences

CONSTANTS
  NSlots,      \* entries of the table of FEC blocks: O4L_FEC_MAX_DATA, 16
  EmitMayFail  \* whether sendto on the UDP socket may fail

ASSUME RxAssumption == NSlots \in Nat \ {0} /\ EmitMayFail \in BOOLEAN

VARIABLES
  stats,  \* the rx_ and fec_ counters of struct stats
  slots,  \* struct fec_rx_state: the blocks being received
  out,    \* datagrams emitted on the UDP socket
  heard   \* frames this process has handled (what the counters should reflect)

rxVars == <<stats, slots, out, heard>>

Slots == 1..NSlots
Shards == 0..(RxK - 1)

NoBlock ==
  [used |-> FALSE, block |-> 0, gotParity |-> FALSE, parity |-> {},
   recovered |-> FALSE, got |-> {}, data |-> [i \in Shards |-> {}]]

Blocks ==
  [used      : BOOLEAN,
   block     : 0..(Mod - 1),
   gotParity : BOOLEAN,
   parity    : SUBSET Nat,
   recovered : BOOLEAN,
   got       : SUBSET Shards,
   data      : [Shards -> SUBSET Nat]]

Counters ==
  [frames : Nat, lost : Nat, outOfOrder : Nat, bad : Nat, packets : Nat,
   recovered : Nat, unusable : Nat, have : BOOLEAN, last : 0..(Mod - 1)]

NoStats ==
  [frames |-> 0, lost |-> 0, outOfOrder |-> 0, bad |-> 0, packets |-> 0,
   recovered |-> 0, unusable |-> 0, have |-> FALSE, last |-> 0]

Emissions == [body : SUBSET Nat, via : {"direct", "fec"}]

RxInit ==
  /\ stats = NoStats
  /\ slots = [s \in Slots |-> NoBlock]
  /\ out = <<>>
  /\ heard = {}

RxTypeOK ==
  /\ stats \in Counters
  /\ slots \in [Slots -> Blocks]
  /\ out \in Seq(Emissions)
  /\ heard \in SUBSET Frames

-----------------------------------------------------------------------------
\* rx_loop, on every frame of its stream: what its sequence number says of
\* the frames before it.
Accounted(f) ==
  LET diff == Diff32(f.seq, stats.last)
      counted == [stats EXCEPT !.frames = @ + 1]
  IN IF ~stats.have THEN [counted EXCEPT !.have = TRUE, !.last = f.seq]
     ELSE IF diff > 0 THEN [counted EXCEPT !.lost = @ + (diff - 1), !.last = f.seq]
     ELSE [counted EXCEPT !.outOfOrder = @ + 1]

\* fec_rx_block_get: the scan stops at the block or at the first free entry ...
StopsAt(s, b) == ~slots[s].used \/ slots[s].block = b

\* A mistake: the entry that is newer than all the others.
Newest(s) == \A t \in Slots : Diff32(slots[t].block, slots[s].block) <= 0

\* ... and otherwise keeps the entry that is older than all the others.
Oldest(s) == \A t \in Slots : Diff32(slots[t].block, slots[s].block) >= 0

SlotFor(b) ==
  CHOOSE s \in Slots :
    IF \E t \in Slots : StopsAt(t, b)
    THEN StopsAt(s, b) /\ \A t \in 1..(s - 1) : ~StopsAt(t, b)
    ELSE (\E t \in Slots : Oldest(t)) => Oldest(s)

\* A mistake: an evicted entry keeps the shards of its old block.
BlockGetStale(b) == [slots[SlotFor(b)] EXCEPT !.used = TRUE, !.block = b]

\* The entry as the caller finds it: evicted or fresh unless it is the block's.
BlockGet(b) ==
  LET blk == slots[SlotFor(b)]
  IN IF blk.used /\ blk.block = b THEN blk
     ELSE [NoBlock EXCEPT !.used = TRUE, !.block = b]

-----------------------------------------------------------------------------
\* fec_try_recover.
Missing(blk) == Shards \ blk.got
Pending(blk) == blk.gotParity /\ ~blk.recovered
\* Mistakes: 0, the initial value of the index, taken for "none found"; a
\* complete block not told from one that misses a shard.
OneMissingNotFirst(blk) == \E m \in Shards \ {0} : Missing(blk) = {m}
AtMostOneMissing(blk) == Cardinality(Missing(blk)) <= 1

OneMissing(blk) == \E m \in Shards : Missing(blk) = {m}

\* A mistake: the data shards are not folded in.
ParityOnly(blk) == blk.parity

\* The parity shard with every data shard but the missing one folded in.
RecoveredBody(blk) == Xor(blk.parity, XorAll(blk.data, blk.got))

\* What one call may do.  The length check can only refuse a mixture of
\* payloads: a datagram that was sent is no longer than its parity shard.
RepairMay(blk, result) ==
  \/ result = "idle" /\ ~Pending(blk)
  \/ result = "complete" /\ Pending(blk) /\ Missing(blk) = {}
  \/ /\ result = "unusable"
     /\ Pending(blk)
     /\ Missing(blk) # {}
     /\ ~OneMissing(blk) \/ ~IsDatagram(RecoveredBody(blk))
  \/ result = "repaired" /\ Pending(blk) /\ OneMissing(blk)
  \/ result = "idle" /\ Pending(blk) /\ OneMissing(blk) /\ EmitMayFail

Emitted(via, body) == <<[body |-> body, via |-> via]>>

\* A mistake: the block counts as recovered although the sendto failed.
RepairUnchecked(f, blk, direct, st) ==
  \E result \in {"idle", "complete", "unusable", "repaired"} :
    /\ RepairMay(blk, result)
    /\ slots' = [slots EXCEPT ![SlotFor(f.block)] =
         [blk EXCEPT !.recovered = @ \/ (Pending(blk) /\ result # "unusable")]]
    /\ out' = out \o direct \o (IF result = "repaired"
                                THEN Emitted("fec", RecoveredBody(blk)) ELSE <<>>)
    /\ stats' = CASE result = "repaired" -> [st EXCEPT !.packets = @ + 1, !.recovered = @ + 1]
                  [] result = "unusable" -> [st EXCEPT !.unusable = @ + 1]
                  [] OTHER -> st

\* rx_fec_payload once the shard is in blk: `direct` is what it has emitted
\* itself, st the statistics with that; then fec_try_recover.
Repair(f, blk, direct, st) ==
  \E result \in {"idle", "complete", "unusable", "repaired"} :
    /\ RepairMay(blk, result)
    /\ slots' = [slots EXCEPT ![SlotFor(f.block)] =
         [blk EXCEPT !.recovered = @ \/ result \in {"complete", "repaired"}]]
    /\ out' = out \o direct \o (IF result = "repaired"
                                THEN Emitted("fec", RecoveredBody(blk)) ELSE <<>>)
    /\ stats' = CASE result = "repaired" -> [st EXCEPT !.packets = @ + 1, !.recovered = @ + 1]
                  [] result = "unusable" -> [st EXCEPT !.unusable = @ + 1]
                  [] OTHER -> st

-----------------------------------------------------------------------------
\* The two outcomes of the udp_emit of a received payload.
EmitOK == IF EmitMayFail THEN BOOLEAN ELSE {TRUE}

Direct(f, ok) == IF ok THEN Emitted("direct", f.body) ELSE <<>>

Counted(st, ok) == IF ok THEN [st EXCEPT !.packets = @ + 1] ELSE st

\* A frame without FEC is passed on, whatever the receiver was configured for.
RxPlain(f) ==
  /\ f.kind = "plain"
  /\ \E ok \in EmitOK :
       /\ out' = out \o Direct(f, ok)
       /\ stats' = Counted(Accounted(f), ok)
  /\ UNCHANGED slots

\* A FEC frame when FEC is off here, or with another number of data shards.
RxRefused(f) ==
  /\ f.kind # "plain"
  /\ RxK = 0 \/ f.shards # RxK
  /\ stats' = [Accounted(f) EXCEPT !.bad = @ + 1]
  /\ UNCHANGED <<slots, out>>

\* A data shard out of range is refused after its block took an entry.
RxBadIndex(f) ==
  /\ f.kind = "data"
  /\ RxK > 0 /\ f.shards = RxK
  /\ f.idx \notin Shards
  /\ slots' = [slots EXCEPT ![SlotFor(f.block)] = BlockGet(f.block)]
  /\ stats' = [Accounted(f) EXCEPT !.bad = @ + 1]
  /\ UNCHANGED out

\* The block with data shard f in it: a shard that came before is kept.
WithData(blk, f) ==
  IF f.idx \in blk.got THEN blk
  ELSE [blk EXCEPT !.got = @ \cup {f.idx}, !.data[f.idx] = f.body]

\* Mistakes: no attempt to recover after a data shard; the number of shards
\* in the header not compared.
RxDataNoRepair(f) ==
  /\ f.kind = "data"
  /\ RxK > 0 /\ f.shards = RxK
  /\ f.idx \in Shards
  /\ \E ok \in EmitOK :
       /\ out' = out \o Direct(f, ok)
       /\ stats' = Counted(Accounted(f), ok)
  /\ slots' = [slots EXCEPT ![SlotFor(f.block)] = WithData(BlockGet(f.block), f)]

RxDataAnyShards(f) ==
  /\ f.kind = "data"
  /\ RxK > 0
  /\ f.idx \in Shards
  /\ \E ok \in EmitOK :
       Repair(f, WithData(BlockGet(f.block), f), Direct(f, ok), Counted(Accounted(f), ok))

RxData(f) ==
  /\ f.kind = "data"
  /\ RxK > 0 /\ f.shards = RxK
  /\ f.idx \in Shards
  /\ \E ok \in EmitOK :
       Repair(f, WithData(BlockGet(f.block), f), Direct(f, ok), Counted(Accounted(f), ok))

WithParity(blk, f) == [blk EXCEPT !.gotParity = TRUE, !.parity = f.body]

RxParity(f) ==
  /\ f.kind = "parity"
  /\ RxK > 0 /\ f.shards = RxK
  /\ Repair(f, WithParity(BlockGet(f.block), f), <<>>, Accounted(f))

\* One iteration of rx_loop that read frame f of its stream.
RxFrame(f) ==
  /\ \/ RxPlain(f)
     \/ RxRefused(f)
     \/ RxBadIndex(f)
     \/ RxData(f)
     \/ RxParity(f)
  /\ heard' = heard \cup {f}

\* The process ends and procd starts it again; what it emitted is out.
RxRestart ==
  /\ heard # {}
  /\ stats' = NoStats
  /\ slots' = [s \in Slots |-> NoBlock]
  /\ heard' = {}
  /\ UNCHANGED out

-----------------------------------------------------------------------------
\* fec_rx_block_get never lets two entries hold the same block, and fills the
\* table from the front, so that its scan may stop at the first free entry.
SlotTable ==
  \A s, t \in Slots :
    /\ slots[s].used /\ s > t => slots[t].used
    /\ slots[s].used /\ slots[t].used /\ slots[s].block = slots[t].block => s = t

\* No shard of the block is missing, or the missing datagram is out.
MissingIsOut(blk) ==
  \/ Missing(blk) = {}
  \/ /\ OneMissing(blk)
     /\ \E i \in DOMAIN out : out[i] = [body |-> RecoveredBody(blk), via |-> "fec"]

\* fec_try_recover takes a block for recovered only when that is so: when the
\* sendto of the repair fails the block stays pending, and its next frame tries
\* again.
RecoveredIsOut == \A s \in Slots : slots[s].recovered => MissingIsOut(slots[s])
=============================================================================
