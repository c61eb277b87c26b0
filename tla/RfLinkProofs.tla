---------------------------- MODULE RfLinkProofs ----------------------------
(***************************************************************************)
(* Proofs about RfLink: for every block length, table size, bound on the   *)
(* traffic and behaviour of the radio.  First what any radio leaves of it: *)
(* types, the table, where what comes out is from, what is refused.  Then  *)
(* what the receiver counts and emits: in which order, how often, and      *)
(* whether it is repaired.                                                 *)
(***************************************************************************)
EXTENDS RfLink, FiniteSetTheorems, SequenceTheorems, WellFoundedInduction, TLAPS

USE FrameAssumption, TxAssumption, RxAssumption, LinkAssumption
  DEF FrameAssumption, TxAssumption, RxAssumption, LinkAssumption

-----------------------------------------------------------------------------
\* Arithmetic modulo 2^w stays within w bits.
LEMMA ModRange ==
  \A n \in Int, m \in Nat \ {0} : n % m \in 0..(m - 1)
  OBVIOUS

\* The counters wrap within their range.
LEMMA CounterRange ==
  /\ \A n \in 0..(Mod - 1) : Succ32(n) \in 0..(Mod - 1)
  /\ \A n \in 0..(Mod - 1), k \in Nat : (n + k) % Mod \in 0..(Mod - 1)
  /\ \A n \in Nat : n % IdxMod \in 0..(IdxMod - 1)
  BY ModRange DEF Succ32

\* The signed distance of two counters is an integer.
LEMMA Diff32Type ==
  \A a, b \in 0..(Mod - 1) : Diff32(a, b) \in Int
<1>1. \A a, b \in 0..(Mod - 1) : (a - b) % Mod \in Int
  BY ModRange
<1> QED
  BY <1>1 DEF Diff32

\* What a frame constructor returns is a frame.
LEMMA FrameTypes ==
  \A seq, block \in 0..(Mod - 1), k \in Nat, idx \in 0..(IdxMod - 1), body \in SUBSET Nat :
    /\ Plain(seq, k, body) \in Frames
    /\ Data(seq, k, block, idx, body) \in Frames
    /\ Parity(seq, k, block, body) \in Frames
  BY DEF Plain, Data, Parity, Frames

-----------------------------------------------------------------------------
\* The transmitter keeps its types.
LEMMA TxTyped ==
  ASSUME TxTypeOK, TxStep
  PROVE  TxTypeOK'
<1> USE DEF TxTypeOK
<1>1. OpenBlock \in 0..(Mod - 1)
  BY CounterRange DEF OpenBlock
<1>2. FoldedParity \in SUBSET Nat
  BY DEF FoldedParity, Xor
<1> {fed + 1} \in SUBSET Nat /\ tx.seq \in 0..(Mod - 1) /\ tx.shards \in Nat /\ TxK \in 0..(IdxMod - 1)
  OBVIOUS
<1>3. DataFrame \in Frames
  <2>1. tx.shards % IdxMod \in 0..(IdxMod - 1)
    BY CounterRange
  <2> QED
    BY <1>1, <2>1, FrameTypes DEF DataFrame
<1>4. ParityFrame \in Frames
  <2>1. Succ32(tx.seq) \in 0..(Mod - 1)
    BY CounterRange
  <2> QED
    BY <1>1, <1>2, <2>1, FrameTypes DEF ParityFrame
<1>5. Plain(tx.seq, at, {fed + 1}) \in Frames
  BY FrameTypes
<1>6. ASSUME NEW st, st.block \in 0..(Mod - 1), st.shards \in Nat, st.parity \in SUBSET Nat,
             NEW n \in Nat, NEW F \in SUBSET Frames, Cardinality(F) \in Nat,
             Feed, Sent(st, n, F)
      PROVE  TxTypeOK'
  <2>1. tx'.seq \in 0..(Mod - 1)
    <3>1. (tx.seq + n) % Mod \in 0..(Mod - 1)
      BY CounterRange
    <3> QED
      BY <1>6, <3>1 DEF Sent
  <2>2. tx' = [seq |-> tx'.seq, packets |-> tx.packets + Cardinality(F),
               block |-> st.block, shards |-> st.shards, parity |-> st.parity]
    BY <1>6 DEF Sent
  <2>3. tx.packets + Cardinality(F) \in Nat
    BY <1>6
  <2>4. fed' \in 0..MaxFeed /\ at' \in Nat /\ air' \in SUBSET Frames
    BY <1>6 DEF Feed, Sent
  <2> QED
    BY <1>6, <2>1, <2>2, <2>3, <2>4
<1>7. Cardinality({}) \in Nat /\ \A f, g : Cardinality({f}) \in Nat /\ Cardinality({f, g}) \in Nat
  <2>1. ASSUME NEW f, NEW g PROVE IsFiniteSet({f, g})
    <3>1. IsFiniteSet({f} \cup {g})
      BY FS_Singleton, FS_AddElement
    <3>2. {f, g} = {f} \cup {g}
      OBVIOUS
    <3> QED
      BY <3>1, <3>2
  <2> QED
    BY <2>1, FS_EmptySet, FS_Singleton, FS_CardinalityType
<1>17. /\ {Plain(tx.seq, at, {fed + 1})} \in SUBSET Frames
       /\ {DataFrame} \in SUBSET Frames
       /\ {DataFrame, ParityFrame} \in SUBSET Frames
       /\ {} \in SUBSET Frames
       /\ 1 \in Nat /\ 2 \in Nat
  BY <1>3, <1>4, <1>5
<1>8. /\ OpenState.block \in 0..(Mod - 1)
      /\ OpenState.shards \in Nat
      /\ OpenState.parity \in SUBSET Nat
  BY <1>1, <1>2 DEF OpenState
<1>9. /\ ClosedState.block \in 0..(Mod - 1)
      /\ ClosedState.shards \in Nat
      /\ ClosedState.parity \in SUBSET Nat
  BY <1>1 DEF ClosedState
<1>10. CASE TxPlain
  <2>1. tx.block \in 0..(Mod - 1) /\ tx.parity \in SUBSET Nat
    OBVIOUS
  <2> QED
    BY <1>10, <1>6, <1>7, <1>17, <2>1 DEF TxPlain
<1>11. CASE TxPlainDropped
  <2>1. tx.block \in 0..(Mod - 1) /\ tx.parity \in SUBSET Nat
    OBVIOUS
  <2> QED
    BY <1>11, <1>6, <1>7, <1>17, <2>1 DEF TxPlainDropped
<1>12. CASE TxShard
  BY <1>12, <1>6, <1>7, <1>8, <1>17 DEF TxShard
<1>13. CASE TxShardDropped
  BY <1>13, <1>6, <1>7, <1>8, <1>17 DEF TxShardDropped
<1>14. CASE TxBlockEnd
  BY <1>14, <1>6, <1>7, <1>9, <1>17 DEF TxBlockEnd
<1>15. CASE TxParityDropped
  BY <1>15, <1>6, <1>7, <1>8, <1>17 DEF TxParityDropped
<1> QED
  BY <1>10, <1>11, <1>12, <1>13, <1>14, <1>15 DEF TxStep

-----------------------------------------------------------------------------
\* A set of entries that is not empty has a first one.
LEMMA FirstEntry ==
  ASSUME NEW S \in SUBSET Slots, S # {}
  PROVE  \E s \in S : \A t \in 1..(s - 1) : t \notin S
<1>1. S \subseteq Nat
  BY DEF Slots
<1>2. PICK s \in S : \A t \in S : ~(<<t, s>> \in OpToRel(<, Nat))
  BY <1>1, WFMin, NatLessThanWellFounded
<1>3. \A t \in 1..(s - 1) : t \in S => <<t, s>> \in OpToRel(<, Nat)
  BY <1>1 DEF OpToRel
<1> QED
  BY <1>2, <1>3

\* fec_rx_block_get returns an entry of its table: the first at which its
\* scan stops, when there is one.
LEMMA SlotForEntry ==
  ASSUME NEW b
  PROVE  /\ SlotFor(b) \in Slots
         /\ (\E t \in Slots : StopsAt(t, b)) =>
              /\ StopsAt(SlotFor(b), b)
              /\ \A t \in 1..(SlotFor(b) - 1) : ~StopsAt(t, b)
<1> DEFINE S == {t \in Slots : StopsAt(t, b)}
           Good(s) == IF \E t \in Slots : StopsAt(t, b)
                      THEN StopsAt(s, b) /\ \A t \in 1..(s - 1) : ~StopsAt(t, b)
                      ELSE (\E t \in Slots : Oldest(t)) => Oldest(s)
<1>1. \E s \in Slots : Good(s)
  <2>1. CASE S # {}
    <3>1. PICK s \in S : \A t \in 1..(s - 1) : t \notin S
      BY <2>1, FirstEntry
    <3>2. s \in Slots /\ 1..(s - 1) \subseteq Slots
      BY DEF Slots
    <3> QED
      BY <3>1, <3>2
  <2>2. CASE S = {}
    <3>1. 1 \in Slots
      BY DEF Slots
    <3> QED
      BY <2>2, <3>1
  <2> QED
    BY <2>1, <2>2
<1>2. SlotFor(b) \in Slots /\ Good(SlotFor(b))
  BY <1>1 DEF SlotFor
<1> QED
  BY <1>2

-----------------------------------------------------------------------------
\* What a frame of a known kind holds.
LEMMA FrameFields ==
  \A f \in Frames :
    /\ f.kind \in {"plain", "data", "parity"}
    /\ f.seq \in 0..(Mod - 1)
    /\ f.at \in Nat
    /\ f.block \in 0..(Mod - 1)
    /\ f.body \in SUBSET Nat
  BY DEF Frames

\* Counters keep their types when one of them is raised.
LEMMA RaiseTyped ==
  ASSUME NEW st \in Counters
  PROVE  /\ [st EXCEPT !.frames = @ + 1] \in Counters
         /\ \A n \in Nat : [st EXCEPT !.lost = @ + n] \in Counters
         /\ [st EXCEPT !.outOfOrder = @ + 1] \in Counters
         /\ [st EXCEPT !.bad = @ + 1] \in Counters
         /\ [st EXCEPT !.packets = @ + 1] \in Counters
         /\ [st EXCEPT !.recovered = @ + 1] \in Counters
         /\ [st EXCEPT !.unusable = @ + 1] \in Counters
         /\ [st EXCEPT !.have = TRUE] \in Counters
         /\ \A n \in 0..(Mod - 1) : [st EXCEPT !.last = n] \in Counters
<1> USE DEF Counters
<1>1. [st EXCEPT !.frames = @ + 1] \in Counters
  OBVIOUS
<1>2. \A n \in Nat : [st EXCEPT !.lost = @ + n] \in Counters
  OBVIOUS
<1>3. [st EXCEPT !.outOfOrder = @ + 1] \in Counters
  OBVIOUS
<1>4. [st EXCEPT !.bad = @ + 1] \in Counters
  OBVIOUS
<1>5. [st EXCEPT !.packets = @ + 1] \in Counters
  OBVIOUS
<1>6. [st EXCEPT !.recovered = @ + 1] \in Counters
  OBVIOUS
<1>7. [st EXCEPT !.unusable = @ + 1] \in Counters
  OBVIOUS
<1>8. [st EXCEPT !.have = TRUE] \in Counters
  OBVIOUS
<1>9. \A n \in 0..(Mod - 1) : [st EXCEPT !.last = n] \in Counters
  OBVIOUS
<1> QED
  BY <1>1, <1>2, <1>3, <1>4, <1>5, <1>6, <1>7, <1>8, <1>9

\* The counters keep their types when a frame is accounted for.
LEMMA AccountedTyped ==
  ASSUME stats \in Counters, NEW f \in Frames
  PROVE  Accounted(f) \in Counters
<1> DEFINE diff == Diff32(f.seq, stats.last)
           counted == [stats EXCEPT !.frames = @ + 1]
<1>1. diff \in Int /\ f.seq \in 0..(Mod - 1)
  BY Diff32Type, FrameFields DEF Counters
<1>2. counted \in Counters
  BY RaiseTyped
<1>3. [[counted EXCEPT !.have = TRUE] EXCEPT !.last = f.seq] \in Counters
  <2> HIDE DEF counted
  <2>1. [counted EXCEPT !.have = TRUE] \in Counters
    BY <1>2, RaiseTyped
  <2> QED
    BY <1>1, <2>1, RaiseTyped
<1>4. ASSUME diff > 0
      PROVE  [[counted EXCEPT !.lost = @ + (diff - 1)] EXCEPT !.last = f.seq] \in Counters
  <2> HIDE DEF counted, diff
  <2>1. diff - 1 \in Nat
    BY <1>1, <1>4
  <2>2. [counted EXCEPT !.lost = @ + (diff - 1)] \in Counters
    BY <1>2, <2>1, RaiseTyped
  <2> QED
    BY <1>1, <2>2, RaiseTyped
<1>5. [counted EXCEPT !.outOfOrder = @ + 1] \in Counters
  <2> HIDE DEF counted
  <2> QED
    BY <1>2, RaiseTyped
<1> QED
  BY <1>3, <1>4, <1>5 DEF Accounted

\* The counters keep their types when a datagram is emitted.
LEMMA CountedTyped ==
  ASSUME NEW st \in Counters, NEW ok \in BOOLEAN
  PROVE  /\ Counted(st, ok) \in Counters
         /\ [st EXCEPT !.packets = @ + 1, !.recovered = @ + 1] \in Counters
<1>1. [st EXCEPT !.packets = @ + 1] \in Counters
  BY RaiseTyped
<1>2. [[st EXCEPT !.packets = @ + 1] EXCEPT !.recovered = @ + 1] \in Counters
  BY <1>1, RaiseTyped
<1> QED
  BY <1>1, <1>2 DEF Counted

\* The entry handed out by fec_rx_block_get is a block, free of shards of another.
LEMMA BlockGetTyped ==
  ASSUME slots \in [Slots -> Blocks], NEW b \in 0..(Mod - 1)
  PROVE  /\ BlockGet(b) \in Blocks
         /\ BlockGet(b).used /\ BlockGet(b).block = b
<1> DEFINE blk == slots[SlotFor(b)]
<1>1. blk \in Blocks
  BY SlotForEntry
<1>2. CASE blk.used /\ blk.block = b
  BY <1>1, <1>2 DEF BlockGet
<1>3. CASE ~(blk.used /\ blk.block = b)
  <2>1. BlockGet(b) = [NoBlock EXCEPT !.used = TRUE, !.block = b]
    BY <1>3 DEF BlockGet
  <2>2. NoBlock \in Blocks
    BY DEF NoBlock, Blocks
  <2> QED
    BY <2>1, <2>2 DEF Blocks
<1> QED
  BY <1>2, <1>3

\* fec_try_recover keeps the types of the receiver, whatever its result.
LEMMA RepairTyped ==
  ASSUME slots \in [Slots -> Blocks], out \in Seq(Emissions),
         NEW f \in Frames, NEW blk \in Blocks, NEW direct \in Seq(Emissions),
         NEW st \in Counters, Repair(f, blk, direct, st)
  PROVE  slots' \in [Slots -> Blocks] /\ out' \in Seq(Emissions) /\ stats' \in Counters
<1>1. PICK result \in {"idle", "complete", "unusable", "repaired"} :
        /\ slots' = [slots EXCEPT ![SlotFor(f.block)] =
             [blk EXCEPT !.recovered = @ \/ result \in {"complete", "repaired"}]]
        /\ out' = out \o direct \o (IF result = "repaired"
                                    THEN Emitted("fec", RecoveredBody(blk)) ELSE <<>>)
        /\ stats' = CASE result = "repaired" -> [st EXCEPT !.packets = @ + 1, !.recovered = @ + 1]
                      [] result = "unusable" -> [st EXCEPT !.unusable = @ + 1]
                      [] OTHER -> st
  BY DEF Repair
<1>2. slots' \in [Slots -> Blocks]
  <2>1. [blk EXCEPT !.recovered = @ \/ result \in {"complete", "repaired"}] \in Blocks
    BY DEF Blocks
  <2> QED
    BY <1>1, <2>1
<1>3. out' \in Seq(Emissions)
  <2>1. RecoveredBody(blk) \in SUBSET Nat
    BY DEF RecoveredBody, Xor, XorAll, Blocks
  <2>2. Emitted("fec", RecoveredBody(blk)) \in Seq(Emissions)
    BY <2>1 DEF Emitted, Emissions
  <2>3. <<>> \in Seq(Emissions)
    OBVIOUS
  <2> QED
    BY <1>1, <2>2, <2>3
<1>4. stats' \in Counters
  <2>1. CASE result = "repaired"
    BY <1>1, <2>1, CountedTyped
  <2>2. CASE result = "unusable"
    BY <1>1, <2>2, RaiseTyped
  <2>3. CASE result \in {"idle", "complete"}
    BY <1>1, <2>3
  <2> QED
    BY <2>1, <2>2, <2>3
<1> QED
  BY <1>2, <1>3, <1>4

\* A block with one more shard is a block.
LEMMA WithTyped ==
  ASSUME NEW blk \in Blocks, NEW f \in Frames
  PROVE  /\ f.idx \in Shards => WithData(blk, f) \in Blocks
         /\ WithParity(blk, f) \in Blocks
<1>1. f.body \in SUBSET Nat
  BY FrameFields
<1>2. ASSUME f.idx \in Shards
      PROVE  [[blk EXCEPT !.got = @ \cup {f.idx}] EXCEPT !.data[f.idx] = f.body] \in Blocks
  BY <1>1, <1>2 DEF Blocks
<1>3. WithParity(blk, f) \in Blocks
  BY <1>1 DEF WithParity, Blocks
<1> QED
  BY <1>2, <1>3 DEF WithData

\* What is passed on is an emission.
LEMMA DirectTyped ==
  ASSUME NEW f \in Frames, NEW ok \in BOOLEAN
  PROVE  Direct(f, ok) \in Seq(Emissions)
<1>1. f.body \in SUBSET Nat
  BY FrameFields
<1>2. [body |-> f.body, via |-> "direct"] \in Emissions
  BY <1>1 DEF Emissions
<1>3. Emitted("direct", f.body) \in Seq(Emissions) /\ <<>> \in Seq(Emissions)
  BY <1>2 DEF Emitted
<1> QED
  BY <1>3 DEF Direct

\* The receiver keeps its types, whatever frame it reads.
LEMMA RxTyped ==
  ASSUME RxTypeOK, NEW f \in Frames, RxFrame(f)
  PROVE  RxTypeOK'
<1> USE DEF RxTypeOK
<1>1. heard' \in SUBSET Frames
  BY DEF RxFrame
<1>2. Accounted(f) \in Counters /\ f.block \in 0..(Mod - 1)
  BY AccountedTyped, FrameFields
<1>3. EmitOK \subseteq BOOLEAN
  BY DEF EmitOK
<1>4. CASE RxPlain(f)
  <2>1. PICK ok \in BOOLEAN : out' = out \o Direct(f, ok) /\ stats' = Counted(Accounted(f), ok)
    BY <1>3, <1>4 DEF RxPlain
  <2>2. out' \in Seq(Emissions)
    BY <2>1, DirectTyped
  <2>3. stats' \in Counters
    BY <2>1, <1>2, CountedTyped
  <2> QED
    BY <1>1, <1>4, <2>2, <2>3 DEF RxPlain
<1>5. CASE RxRefused(f)
  BY <1>1, <1>2, <1>5, RaiseTyped DEF RxRefused
<1>6. CASE RxBadIndex(f)
  <2>1. slots' \in [Slots -> Blocks]
    BY <1>2, <1>6, BlockGetTyped DEF RxBadIndex
  <2> QED
    BY <1>1, <1>2, <1>6, <2>1, RaiseTyped DEF RxBadIndex
<1>7. CASE RxData(f)
  <2>1. PICK ok \in BOOLEAN :
          Repair(f, WithData(BlockGet(f.block), f), Direct(f, ok), Counted(Accounted(f), ok))
    BY <1>3, <1>7 DEF RxData
  <2>2. WithData(BlockGet(f.block), f) \in Blocks
    BY <1>2, <1>7, BlockGetTyped, WithTyped DEF RxData
  <2> QED
    BY <1>1, <1>2, <2>1, <2>2, DirectTyped, CountedTyped, RepairTyped
<1>8. CASE RxParity(f)
  <2>1. WithParity(BlockGet(f.block), f) \in Blocks
    BY <1>2, BlockGetTyped, WithTyped
  <2>2. <<>> \in Seq(Emissions)
    OBVIOUS
  <2> QED
    BY <1>1, <1>2, <1>8, <2>1, <2>2, RepairTyped DEF RxParity
<1> QED
  BY <1>4, <1>5, <1>6, <1>7, <1>8 DEF RxFrame

\* The state of the link has its types initially ...
LEMMA InitTyped == Init => TypeOK
<1> SUFFICES ASSUME Init PROVE TypeOK
  OBVIOUS
<1>1. TxTypeOK
  BY DEF Init, TxInit, TxBoot, TxTypeOK
<1>2. NoStats \in Counters /\ NoBlock \in Blocks /\ <<>> \in Seq(Emissions)
  BY DEF NoStats, Counters, NoBlock, Blocks
<1>3. RxTypeOK
  BY <1>2 DEF Init, RxInit, RxTypeOK
<1> QED
  BY <1>1, <1>3 DEF Init, TypeOK

\* ... and keeps them, whatever is restarted.
LEMMA NextTyped == TypeOK /\ [Next]_vars => TypeOK'
<1> SUFFICES ASSUME TypeOK, [Next]_vars PROVE TypeOK'
  OBVIOUS
<1> USE DEF TypeOK
<1>1. CASE Transmit
  BY <1>1, TxTyped DEF Transmit, rxVars, RxTypeOK
<1>2. CASE Receive
  <2>1. PICK f \in air : /\ Deliver(f) \/ DeliverAgain(f)
                        /\ RxFrame(f)
                        /\ UNCHANGED <<fed, tx, at>>
    BY <1>2 DEF Receive
  <2>2. f \in Frames
    BY DEF TxTypeOK
  <2>3. air' \in SUBSET Frames /\ dups' \in 0..MaxDup
    BY <2>1 DEF TxTypeOK, Deliver, DeliverAgain, Behind
  <2>4. TxTypeOK'
    BY <2>1, <2>3 DEF TxTypeOK
  <2> QED
    BY <2>1, <2>2, <2>3, <2>4, RxTyped
<1>3. CASE RestartTx
  <2>1. TxTypeOK'
    BY <1>3 DEF RestartTx, TxRestart, TxBoot, TxTypeOK
  <2> QED
    BY <1>3, <2>1 DEF RestartTx, rxVars, RxTypeOK
<1>4. CASE RestartRx
  <2>1. NoStats \in Counters /\ NoBlock \in Blocks
    BY DEF NoStats, Counters, NoBlock, Blocks
  <2>2. RxTypeOK'
    BY <1>4, <2>1 DEF RestartRx, RxRestart, RxTypeOK
  <2> QED
    BY <1>4, <2>2 DEF RestartRx, txVars, TxTypeOK
<1>5. CASE UNCHANGED vars
  BY <1>5 DEF vars, TxTypeOK, RxTypeOK
<1> QED
  BY <1>1, <1>2, <1>3, <1>4, <1>5 DEF Next

\* Type correctness: no counter, table entry or frame ever leaves its type,
\* for every configuration of the two ends and every behaviour of the radio.
THEOREM TypeCorrect == Spec => []TypeOK
  BY InitTyped, NextTyped, PTL DEF Spec

-----------------------------------------------------------------------------
\* The entry of a block is the one fec_rx_block_get finds for it.
LEMMA EntryFound ==
  ASSUME slots \in [Slots -> Blocks], SlotTable,
         NEW b, NEW t \in Slots, slots[t].used, slots[t].block = b
  PROVE  SlotFor(b) = t
<1> DEFINE e == SlotFor(b)
<1>1. e \in Slots /\ Slots \subseteq Int
  BY SlotForEntry DEF Slots
<1>2. StopsAt(e, b) /\ \A u \in 1..(e - 1) : ~StopsAt(u, b)
  BY SlotForEntry DEF StopsAt
<1> SUFFICES ASSUME t # e PROVE FALSE
  OBVIOUS
<1>3. t > e
  <2>1. t \notin 1..(e - 1)
    BY <1>2 DEF StopsAt
  <2> QED
    BY <1>1, <2>1 DEF Slots
<1>4. slots[e].used
  BY <1>1, <1>3 DEF SlotTable
<1> QED
  BY <1>1, <1>2, <1>4 DEF SlotTable, StopsAt

\* Writing a block to the entry fec_rx_block_get chose for it keeps the
\* table well formed.
LEMMA PutBlock ==
  ASSUME slots \in [Slots -> Blocks], SlotTable,
         NEW b, NEW blk \in Blocks, blk.used, blk.block = b,
         slots' = [slots EXCEPT ![SlotFor(b)] = blk]
  PROVE  SlotTable'
<1> DEFINE e == SlotFor(b)
<1>1. e \in Slots /\ Slots \subseteq Int
  BY SlotForEntry DEF Slots
<1>2. \A t \in Slots : t < e => slots[t].used
  <2>1. \A t \in Slots : t < e => t \in 1..(e - 1)
    BY <1>1 DEF Slots
  <2> QED
    BY <2>1, SlotForEntry DEF StopsAt
<1>3. \A t \in Slots : slots[t].used /\ slots[t].block = b => t = e
  BY EntryFound
<1>4. slots'[e] = blk /\ \A t \in Slots : t # e => slots'[t] = slots[t]
  BY <1>1
<1> QED
  <2> SUFFICES ASSUME NEW s \in Slots, NEW t \in Slots
               PROVE  /\ slots'[s].used /\ s > t => slots'[t].used
                      /\ slots'[s].used /\ slots'[t].used /\ slots'[s].block = slots'[t].block
                           => s = t
    BY DEF SlotTable, Slots
  <2> HIDE DEF e
  <2>1. CASE s = e
    BY <1>1, <1>2, <1>3, <1>4, <2>1
  <2>2. CASE s # e /\ t = e
    BY <1>1, <1>2, <1>3, <1>4, <2>2
  <2>3. CASE s # e /\ t # e
    BY <1>4, <2>3 DEF SlotTable
  <2> QED
    BY <2>1, <2>2, <2>3

\* A frame leaves the table well formed.
LEMMA RxSlotTable ==
  ASSUME RxTypeOK, SlotTable, NEW f \in Frames, RxFrame(f)
  PROVE  SlotTable'
<1> USE DEF RxTypeOK
<1>1. f.block \in 0..(Mod - 1)
  BY FrameFields
<1>2. ASSUME NEW blk \in Blocks, blk.used, blk.block = f.block,
             NEW direct, NEW st, Repair(f, blk, direct, st)
      PROVE  SlotTable'
  <2>1. PICK r \in BOOLEAN :
          slots' = [slots EXCEPT ![SlotFor(f.block)] = [blk EXCEPT !.recovered = r]]
    BY <1>2 DEF Repair, Blocks
  <2>2. /\ [blk EXCEPT !.recovered = r] \in Blocks
        /\ [blk EXCEPT !.recovered = r].used
        /\ [blk EXCEPT !.recovered = r].block = f.block
    BY <1>2 DEF Blocks
  <2> QED
    BY <2>1, <2>2, PutBlock
<1>3. /\ BlockGet(f.block) \in Blocks
      /\ BlockGet(f.block).used /\ BlockGet(f.block).block = f.block
  BY <1>1, BlockGetTyped
<1>4. CASE RxPlain(f) \/ RxRefused(f)
  BY <1>4 DEF RxPlain, RxRefused, SlotTable
<1>5. CASE RxBadIndex(f)
  BY <1>3, <1>5, PutBlock DEF RxBadIndex
<1>6. CASE RxData(f)
  <2> DEFINE blk == WithData(BlockGet(f.block), f)
  <2>1. ASSUME NEW g \in Blocks, g.used, g.block = f.block
        PROVE  WithData(g, f).used /\ WithData(g, f).block = f.block
    BY <2>1 DEF WithData, Blocks
  <2>2. blk \in Blocks /\ blk.used /\ blk.block = f.block
    BY <1>3, <1>6, <2>1, WithTyped DEF RxData
  <2> QED
    BY <1>2, <1>6, <2>2 DEF RxData
<1>7. CASE RxParity(f)
  <2> DEFINE blk == WithParity(BlockGet(f.block), f)
  <2>1. blk \in Blocks /\ blk.used /\ blk.block = f.block
    BY <1>3, WithTyped DEF WithParity, Blocks
  <2> QED
    BY <1>2, <1>7, <2>1 DEF RxParity
<1> QED
  BY <1>4, <1>5, <1>6, <1>7 DEF RxFrame

\* The table of FEC blocks stays well formed for every table size, radio and
\* pattern of restarts: no block is in it twice and it is filled from the front.
THEOREM SlotTableKept == Spec => []SlotTable
<1>1. Init => SlotTable
  BY DEF Init, RxInit, NoBlock, SlotTable
<1>2. TypeOK /\ SlotTable /\ [Next]_vars => SlotTable'
  <2> SUFFICES ASSUME TypeOK, SlotTable, [Next]_vars PROVE SlotTable'
    OBVIOUS
  <2>1. CASE Receive
    BY <2>1, RxSlotTable DEF Receive, TypeOK, TxTypeOK
  <2>2. CASE RestartRx
    BY <2>2 DEF RestartRx, RxRestart, NoBlock, SlotTable
  <2>3. CASE Transmit \/ RestartTx \/ UNCHANGED vars
    BY <2>3 DEF Transmit, RestartTx, vars, rxVars, SlotTable
  <2> QED
    BY <2>1, <2>2, <2>3 DEF Next
<1> QED
  BY <1>1, <1>2, TypeCorrect, PTL DEF Spec

-----------------------------------------------------------------------------
\* The frames of a transmitter with FEC carry its own number of data shards.
OfTransmitter(f) == f.kind # "plain" /\ f.shards = TxK

\* Behind MismatchIsReported: all that is on the air will be refused, and all
\* that was heard has been.
MismatchInv ==
  TxK > 0 /\ TxK # RxK =>
    /\ \A f \in air : OfTransmitter(f)
    /\ out = <<>>
    /\ stats.bad = stats.frames

\* Every frame of tx_fec_data is of that kind.
LEMMA TransmitOwnShards ==
  ASSUME TxStep, TxK > 0, \A f \in air : OfTransmitter(f)
  PROVE  \A f \in air' : OfTransmitter(f)
<1>1. OfTransmitter(DataFrame) /\ OfTransmitter(ParityFrame)
  BY DEF OfTransmitter, DataFrame, ParityFrame, Data, Parity
<1>2. air' \subseteq air \cup {DataFrame, ParityFrame}
  BY DEF TxStep, TxPlain, TxPlainDropped, TxShard, TxShardDropped, TxBlockEnd, TxParityDropped, Sent
<1> QED
  BY <1>1, <1>2

\* One frame that is not the receiver's kind is counted once, as bad.
LEMMA RefusedCounted ==
  ASSUME RxTypeOK, NEW f \in Frames, RxRefused(f), stats.bad = stats.frames
  PROVE  stats'.bad = stats'.frames
<1> DEFINE acc == Accounted(f)
<1>1. acc \in Counters /\ stats \in Counters
  BY AccountedTyped DEF RxTypeOK
<1>2. stats' = [acc EXCEPT !.bad = @ + 1]
  BY DEF RxRefused
<1>3. acc.bad = stats.bad /\ acc.frames = stats.frames + 1
  <2> DEFINE counted == [stats EXCEPT !.frames = @ + 1]
             diff == Diff32(f.seq, stats.last)
  <2>1. counted \in Counters /\ counted.bad = stats.bad /\ counted.frames = stats.frames + 1
    BY <1>1 DEF Counters
  <2>2. \/ acc = [counted EXCEPT !.have = TRUE, !.last = f.seq]
        \/ acc = [counted EXCEPT !.lost = @ + (diff - 1), !.last = f.seq]
        \/ acc = [counted EXCEPT !.outOfOrder = @ + 1]
    BY DEF Accounted
  <2> HIDE DEF counted, acc, diff
  <2> QED
    BY <2>1, <2>2 DEF Counters
<1> HIDE DEF acc
<1> QED
  BY <1>1, <1>2, <1>3 DEF Counters

\* Every step keeps them refused, also a restart of an end.
LEMMA MismatchStep ==
  ASSUME TypeOK, MismatchInv, [Next]_vars
  PROVE  MismatchInv'
<1> SUFFICES ASSUME TxK > 0, TxK # RxK,
                    \A f \in air : OfTransmitter(f), out = <<>>, stats.bad = stats.frames
             PROVE  /\ \A f \in air' : OfTransmitter(f)
                    /\ out' = <<>>
                    /\ stats'.bad = stats'.frames
  BY DEF MismatchInv
<1>1. CASE Transmit
  BY <1>1, TransmitOwnShards DEF Transmit, rxVars
<1>2. CASE Receive
  <2>1. PICK f \in air : RxFrame(f) /\ (Deliver(f) \/ DeliverAgain(f))
    BY <1>2 DEF Receive
  <2>2. f \in Frames /\ OfTransmitter(f)
    BY DEF TypeOK, TxTypeOK
  <2>3. RxRefused(f)
    BY <2>1, <2>2 DEF RxFrame, RxPlain, RxBadIndex, RxData, RxParity, OfTransmitter
  <2>4. air' \subseteq air
    BY <2>1 DEF Deliver, DeliverAgain, Behind
  <2>5. out' = <<>>
    BY <2>3 DEF RxRefused
  <2> QED
    BY <2>2, <2>3, <2>4, <2>5, RefusedCounted DEF TypeOK
<1>3. CASE RestartTx
  BY <1>3 DEF RestartTx, TxRestart, rxVars
<1>4. CASE RestartRx
  BY <1>4 DEF RestartRx, RxRestart, txVars, NoStats
<1>5. CASE UNCHANGED vars
  BY <1>5 DEF vars
<1> QED
  BY <1>1, <1>2, <1>3, <1>4, <1>5 DEF Next

\* A receiver whose --fec is not the transmitter's emits nothing and counts
\* every frame as bad: for all pairs of settings, whatever the radio does and
\* whichever end is restarted.
THEOREM MismatchReported == Spec => []MismatchIsReported
<1>1. Init => MismatchInv
  BY DEF Init, TxInit, RxInit, NoStats, MismatchInv
<1>2. MismatchInv => MismatchIsReported
  BY DEF MismatchInv, MismatchIsReported
<1>3. TypeOK /\ MismatchInv /\ [Next]_vars => MismatchInv'
  BY MismatchStep
<1> QED
  BY <1>1, <1>2, <1>3, TypeCorrect, PTL DEF Spec

-----------------------------------------------------------------------------
(***************************************************************************)
(* What comes out of the link went into it.  The invariant is Provenance:  *)
(* the shards of a block are consecutive datagrams, so that folding all    *)
(* but one of them into the parity leaves that one.                        *)
(***************************************************************************)

\* The transmitter.  The next datagram opens block tx.block + 1 or belongs to
\* tx.block, and the accumulator then holds exactly the datagrams of its block.
LEMMA NextShard ==
  ASSUME TxTypeOK, OpenBlockTraced, MaxFeed < Mod, fed < MaxFeed
  PROVE  /\ OpenBlock = IF tx.shards = 0 THEN tx.block + 1 ELSE tx.block
         /\ FoldedParity = (fed - tx.shards + 1)..(fed + 1)
<1> USE DEF TxTypeOK, OpenBlockTraced
<1>1. tx.shards = 0 => Succ32(tx.block) = tx.block + 1
  <2>1. tx.block + 1 \in 0..(Mod - 1)
    OBVIOUS
  <2>2. \A n \in 0..(Mod - 1) : n % Mod = n
    OBVIOUS
  <2> QED
    BY <2>1, <2>2 DEF Succ32
<1>2. CASE tx.shards = 0
  BY <1>1, <1>2 DEF OpenBlock, FoldedParity, Xor
<1>3. CASE tx.shards > 0
  <2>1. tx.parity = (fed - tx.shards + 1)..fed
    BY <1>3
  <2>2. Xor(tx.parity, {fed + 1}) = (fed - tx.shards + 1)..(fed + 1)
    BY <1>3, <2>1 DEF Xor
  <2> QED
    BY <1>3, <2>2 DEF OpenBlock, FoldedParity
<1> QED
  BY <1>2, <1>3

\* The fields of the two frames of a block.
LEMMA ShardFields ==
  /\ DataFrame.kind = "data" /\ DataFrame.block = OpenBlock /\ DataFrame.shards = TxK
  /\ DataFrame.idx = tx.shards % IdxMod /\ DataFrame.body = {fed + 1}
  /\ ParityFrame.kind = "parity" /\ ParityFrame.block = OpenBlock /\ ParityFrame.shards = TxK
  /\ ParityFrame.body = FoldedParity
  BY DEF DataFrame, ParityFrame, Data, Parity

\* A number below the modulus is its own remainder.
LEMMA ModSmall ==
  \A a \in Nat, n \in Nat \ {0} : a < n => a % n = a
  OBVIOUS

\* A frame already sent is no trouble: those of the block that grows are its
\* first shards, and the block of an earlier parity shard does not grow.
LEMMA OldFrameTraced ==
  ASSUME TypeOK, OpenBlockTraced, FramesTraced, MaxFeed < Mod, TxK > 0, Feed,
         tx'.block = OpenBlock,
         tx'.shards = 0 \/ tx'.shards = tx.shards + 1,
         Seen' \subseteq Seen \cup {DataFrame, ParityFrame},
         NEW f \in Seen
  PROVE  FrameTraced(f)'
<1> USE DEF TypeOK, TxTypeOK, OpenBlockTraced, Feed
<1>1. FrameTraced(f)
  BY DEF FramesTraced
<1>2. OpenBlock = IF tx.shards = 0 THEN tx.block + 1 ELSE tx.block
  BY NextShard
<1>3. f \in Frames /\ f.block \in Int /\ tx.block \in Int
  BY DEF Seen, RxTypeOK, Frames
<1>4. f.kind # "parity" => \E n \in 1..fed' : f.body = {n}
  BY <1>1 DEF FrameTraced
<1>5. f.kind # "plain" => TxK > 0 /\ f.shards = TxK /\ f.block <= tx'.block
  BY <1>1, <1>2, <1>3 DEF FrameTraced
<1>6. ASSUME f.kind = "data", f.block = tx'.block, tx'.shards \in 1..TxK
      PROVE  f.idx < tx'.shards /\ f.body = {fed' - tx'.shards + 1 + f.idx}
  <2>1. f.block <= tx.block
    BY <1>1, <1>6 DEF FrameTraced
  <2>2. tx.shards # 0 /\ f.block = tx.block
    BY <1>2, <1>3, <1>6, <2>1
  <2>3. tx'.shards = tx.shards + 1 /\ tx.shards \in 1..TxK
    BY <1>6, <2>2
  <2>4. f.idx < tx.shards /\ f.body = {fed - tx.shards + 1 + f.idx}
    BY <1>1, <1>6, <2>2, <2>3 DEF FrameTraced
  <2>5. f.idx \in Nat
    BY <1>3 DEF Frames
  <2>6. fed - tx.shards + 1 + f.idx = fed' - tx'.shards + 1 + f.idx
    BY <2>3, <2>5
  <2> QED
    BY <2>3, <2>4, <2>5, <2>6
<1>7. ASSUME f.kind = "parity"
      PROVE  f.block # tx'.block
  <2>1. f.block <= tx.block /\ (f.block = tx.block => tx.shards = 0)
    BY <1>1, <1>7 DEF FrameTraced
  <2> QED
    BY <1>2, <1>3, <2>1
<1>8. ASSUME f.kind = "parity"
      PROVE  \E a \in 0..(fed' - TxK) : f.body = (a + 1)..(a + TxK) /\ ShardsFrom(f.block, a)'
  <2>1. PICK a \in 0..(fed - TxK) : f.body = (a + 1)..(a + TxK) /\ ShardsFrom(f.block, a)
    BY <1>1, <1>8 DEF FrameTraced
  <2>2. a \in 0..(fed' - TxK)
    OBVIOUS
  <2>3. ASSUME NEW d \in Seen', d.kind = "data", d.block = f.block
        PROVE  d.idx < TxK /\ d.body = {a + 1 + d.idx}
    <3>1. d # DataFrame /\ d # ParityFrame
      BY <1>7, <1>8, <2>3, ShardFields
    <3>2. d \in Seen
      BY <3>1
    <3> QED
      BY <2>1, <2>3, <3>2 DEF ShardsFrom
  <2> QED
    BY <2>1, <2>2, <2>3 DEF ShardsFrom
<1> QED
  BY <1>4, <1>5, <1>6, <1>7, <1>8 DEF FrameTraced

\* A data shard in a block that stays open (or whose parity shard was not sent).
LEMMA OpenTraced ==
  ASSUME TypeOK, OpenBlockTraced, FramesTraced, MaxFeed < Mod, TxK > 0, Feed, heard' = heard,
         NEW n \in Nat, NEW F \in SUBSET {DataFrame}, Sent(OpenState, n, F)
  PROVE  OpenBlockTraced' /\ FramesTraced'
<1> USE DEF TypeOK, TxTypeOK, OpenBlockTraced, Feed
<1>1. /\ OpenBlock = IF tx.shards = 0 THEN tx.block + 1 ELSE tx.block
      /\ FoldedParity = (fed - tx.shards + 1)..(fed + 1)
  BY NextShard
<1>2. /\ tx'.block = OpenBlock
      /\ tx'.shards = tx.shards + 1
      /\ tx'.parity = FoldedParity
  BY DEF Sent, OpenState
<1>3. OpenBlockTraced'
  <2>1. fed' - tx'.shards + 1 = fed - tx.shards + 1
    BY <1>2
  <2> QED
    BY <1>1, <1>2, <2>1, SMTT(40)
<1>4. Seen' \subseteq Seen \cup {DataFrame, ParityFrame} /\ Seen' \subseteq Seen \cup {DataFrame}
  BY DEF Seen, Sent
<1>5. ASSUME NEW f \in Seen PROVE FrameTraced(f)'
  BY <1>2, <1>4, OldFrameTraced
<1>6. ASSUME NEW f, f = DataFrame PROVE FrameTraced(f)'
  <2>1. f.kind = "data" /\ f.block = tx'.block /\ f.shards = TxK /\ f.body = {fed'}
    BY <1>2, <1>6, ShardFields
  <2>2. ASSUME tx'.shards \in 1..TxK PROVE f.idx = tx.shards
    <3>1. f.idx = tx.shards % IdxMod
      BY <1>6, ShardFields
    <3>2. tx.shards \in Nat /\ IdxMod \in Nat \ {0} /\ tx.shards < IdxMod
      BY <1>2, <2>2
    <3> QED
      BY <3>1, <3>2, ModSmall
  <2>3. tx'.block \in Int
    BY <1>1, <1>2
  <2>4. fed' - tx'.shards + 1 + tx.shards = fed' /\ tx.shards < tx'.shards
    BY <1>2
  <2>5. \E m \in 1..fed' : f.body = {m}
    BY <2>1
  <2>6. tx'.shards \in 1..TxK => f.idx < tx'.shards /\ f.body = {fed' - tx'.shards + 1 + f.idx}
    BY <2>1, <2>2, <2>4
  <2> QED
    BY <2>1, <2>3, <2>5, <2>6, SMTT(40) DEF FrameTraced
<1> QED
  BY <1>3, <1>4, <1>5, <1>6 DEF FramesTraced

\* The last data shard and the parity shard of a block: its datagrams are the
\* last TxK that were handed over.
LEMMA ClosedTraced ==
  ASSUME TypeOK, OpenBlockTraced, FramesTraced, MaxFeed < Mod, TxK > 0, Feed, heard' = heard,
         tx.shards + 1 = TxK, Sent(ClosedState, 2, {DataFrame, ParityFrame})
  PROVE  OpenBlockTraced' /\ FramesTraced'
<1> USE DEF TypeOK, TxTypeOK, OpenBlockTraced, Feed
<1>1. /\ OpenBlock = IF tx.shards = 0 THEN tx.block + 1 ELSE tx.block
      /\ FoldedParity = (fed - tx.shards + 1)..(fed + 1)
  BY NextShard
<1>2. tx'.block = OpenBlock /\ tx'.shards = 0
  BY DEF Sent, ClosedState
<1>3. OpenBlockTraced'
  BY <1>1, <1>2
<1>4. Seen' = Seen \cup {DataFrame, ParityFrame}
  BY DEF Seen, Sent
<1>5. ASSUME NEW f \in Seen PROVE FrameTraced(f)'
  BY <1>2, <1>4, OldFrameTraced
<1>6. ASSUME NEW f, f = DataFrame PROVE FrameTraced(f)'
  <2>1. f.kind = "data" /\ f.block = tx'.block /\ f.shards = TxK /\ f.body = {fed'}
    BY <1>2, <1>6, ShardFields
  <2>2. tx'.block \in Int
    BY <1>1, <1>2
  <2> QED
    BY <1>2, <2>1, <2>2 DEF FrameTraced
<1>7. ASSUME NEW f, f = ParityFrame PROVE FrameTraced(f)'
  <2>1. f.kind = "parity" /\ f.block = tx'.block /\ f.shards = TxK /\ f.body = FoldedParity
    BY <1>2, <1>7, ShardFields
  <2>2. tx'.block \in Int
    BY <1>1, <1>2
  <2>8. PICK a \in Int : a = fed - tx.shards
    OBVIOUS
  <2>3. a \in 0..(fed' - TxK) /\ f.body = (a + 1)..(a + TxK)
    <3>1. a >= 0 /\ fed' - TxK = a /\ a + TxK = fed + 1 /\ a + 1 = fed - tx.shards + 1
      BY <2>8, SMTT(40)
    <3> QED
      BY <1>1, <2>1, <2>8, <3>1
  <2>4. ASSUME NEW d \in Seen, d.kind = "data", d.block = f.block
        PROVE  d.idx < TxK /\ d.body = {a + 1 + d.idx}
    <3>1. FrameTraced(d) /\ d \in Frames
      BY DEF FramesTraced, Seen, RxTypeOK
    <3>2. d.block \in Int /\ tx.block \in Int /\ d.idx \in Nat
      BY <3>1 DEF Frames
    <3>3. tx.shards # 0 /\ d.block = tx.block
      BY <1>1, <1>2, <2>1, <2>4, <3>1, <3>2 DEF FrameTraced
    <3>4. d.idx < tx.shards /\ d.body = {fed - tx.shards + 1 + d.idx}
      BY <2>4, <3>1, <3>3, SMTT(40) DEF FrameTraced
    <3> QED
      BY <2>8, <3>2, <3>4
  <2>5. DataFrame.idx < TxK /\ DataFrame.body = {a + 1 + DataFrame.idx}
    <3>1. tx.shards % IdxMod = tx.shards
      BY SMTT(40)
    <3>2. a + 1 + tx.shards = fed + 1 /\ tx.shards < TxK
      BY <2>8
    <3>3. DataFrame.idx = tx.shards /\ DataFrame.body = {fed + 1}
      BY <3>1, ShardFields
    <3> QED
      BY <3>2, <3>3
  <2>6. ShardsFrom(f.block, a)'
    <3> SUFFICES ASSUME NEW d \in Seen', d.kind = "data", d.block = f.block
                 PROVE  d.idx < TxK /\ d.body = {a + 1 + d.idx}
      BY DEF ShardsFrom
    <3>1. d # ParityFrame
      BY ShardFields
    <3> QED
      BY <1>4, <2>4, <2>5, <3>1
  <2> QED
    BY <1>2, <2>1, <2>2, <2>3, <2>6 DEF FrameTraced
<1> QED
  BY <1>3, <1>4, <1>5, <1>6, <1>7 DEF FramesTraced

\* Every step of the transmitter keeps its frames traceable.
LEMMA TransmitTraced ==
  ASSUME TypeOK, OpenBlockTraced, FramesTraced, MaxFeed < Mod, TxStep, heard' = heard
  PROVE  OpenBlockTraced' /\ FramesTraced'
<1>1. ASSUME TxK = 0, Feed, NEW F \in SUBSET {Plain(tx.seq, at, {fed + 1})}, Sent(tx, 1, F)
      PROVE  OpenBlockTraced' /\ FramesTraced'
  <2> USE DEF TypeOK, TxTypeOK, OpenBlockTraced, Feed
  <2>1. OpenBlockTraced'
    BY <1>1 DEF Sent
  <2>2. ASSUME NEW f \in Seen' PROVE FrameTraced(f)'
    <3>1. CASE f \in Seen
      <4>1. FrameTraced(f) /\ f \in Frames
        BY <3>1 DEF FramesTraced, Seen, RxTypeOK
      <4>2. f.kind = "plain"
        BY <1>1, <4>1, FrameFields DEF FrameTraced
      <4> QED
        BY <1>1, <4>1, <4>2 DEF FrameTraced
    <3>2. CASE f \notin Seen
      <4>1. f = Plain(tx.seq, at, {fed + 1})
        BY <1>1, <2>2, <3>2 DEF Seen, Sent
      <4>2. f.kind = "plain" /\ f.body = {fed'}
        BY <1>1, <4>1 DEF Plain
      <4>3. \E n \in 1..fed' : f.body = {n}
        BY <1>1, <4>2
      <4> QED
        BY <4>2, <4>3 DEF FrameTraced
    <3> QED
      BY <3>1, <3>2
  <2> QED
    BY <2>1, <2>2 DEF FramesTraced
<1>2. CASE TxPlain
  BY <1>1, <1>2 DEF TxPlain
<1>3. CASE TxPlainDropped
  BY <1>1, <1>3 DEF TxPlainDropped
<1>4. CASE TxShard
  BY <1>4, OpenTraced DEF TxShard
<1>5. CASE TxShardDropped
  BY <1>5, OpenTraced DEF TxShardDropped
<1>6. CASE TxBlockEnd
  BY <1>6, ClosedTraced DEF TxBlockEnd
<1>7. CASE TxParityDropped
  BY <1>7, OpenTraced DEF TxParityDropped
<1> QED
  BY <1>2, <1>3, <1>4, <1>5, <1>6, <1>7 DEF TxStep

-----------------------------------------------------------------------------
\* The receiver.  Folding the shards a + 1 + i, i in I, into their parity: what
\* is folded in is the set of those datagrams, each of which occurs once.
LEMMA FoldedShards ==
  \A a \in Nat, I \in SUBSET Shards, F \in [Shards -> SUBSET Nat] :
    (\A i \in I : F[i] = {a + 1 + i}) =>
      \A x : x \in XorAll(F, I) <=> \E i \in I : x = a + 1 + i
<1> SUFFICES ASSUME NEW a \in Nat, NEW I \in SUBSET Shards, NEW F \in [Shards -> SUBSET Nat],
                    \A i \in I : F[i] = {a + 1 + i}
             PROVE  \A x : x \in XorAll(F, I) <=> \E i \in I : x = a + 1 + i
  OBVIOUS
<1>0. I \subseteq Nat
  BY DEF Shards
<1>1. ASSUME NEW x, x \in XorAll(F, I)
      PROVE  \E i \in I : x = a + 1 + i
  BY <1>1 DEF XorAll
<1>2. ASSUME NEW j \in I
      PROVE  a + 1 + j \in XorAll(F, I)
  <2>1. \A i \in I : a + 1 + j \in F[i] <=> i = j
    BY <1>0
  <2>2. Cardinality({i \in I : a + 1 + j \in F[i]}) % 2 = 1
    <3>1. {i \in I : a + 1 + j \in F[i]} = {j}
      BY <2>1
    <3>2. Cardinality({j}) = 1
      BY FS_Singleton
    <3>3. 1 % 2 = 1
      OBVIOUS
    <3> QED
      BY <3>1, <3>2, <3>3
  <2>3. a + 1 + j \in UNION {F[i] : i \in I}
    OBVIOUS
  <2> QED
    BY <2>2, <2>3 DEF XorAll
<1> QED
  BY <1>1, <1>2

\* The block of blk and of parity shard p is the datagrams a + 1 .. a + TxK, and
\* what fec_try_recover ends up with is the one in the shard that is missing.
RecoveredFrom(blk, p) ==
  \E a \in Nat, m \in Shards :
    /\ a + TxK <= fed /\ p.body = (a + 1)..(a + TxK) /\ ShardsFrom(blk.block, a)
    /\ Missing(blk) = {m} /\ RecoveredBody(blk) = {a + 1 + m}

\* fec_try_recover, with one data shard missing, ends up with the datagram
\* that was in it.
LEMMA RecoveredShard ==
  ASSUME TypeOK, FramesTraced, NEW H \in SUBSET Seen, NEW blk \in Blocks, OneMissing(blk),
         NEW p \in H, p.kind = "parity", p.shards = RxK, p.block = blk.block,
         p.body = blk.parity,
         \A i \in blk.got : \E d \in H : /\ d.kind = "data" /\ d.idx = i
                                       /\ d.block = blk.block /\ d.body = blk.data[i]
  PROVE  RecoveredFrom(blk, p)
<1>1. PICK m \in Shards : Missing(blk) = {m}
  BY DEF OneMissing
<1>2. blk.got = Shards \ {m} /\ m \in Nat /\ m < RxK
  BY <1>1 DEF Missing, Blocks, Shards
<1>3. FrameTraced(p) /\ TxK = RxK
  BY DEF FramesTraced, FrameTraced
<1>4. PICK a \in 0..(fed - TxK) : blk.parity = (a + 1)..(a + TxK) /\ ShardsFrom(blk.block, a)
  BY <1>3 DEF FrameTraced
<1>5. a \in Nat /\ fed \in Nat /\ a + TxK <= fed
  BY <1>4 DEF TypeOK, TxTypeOK
<1>6. \A i \in blk.got : blk.data[i] = {a + 1 + i}
  BY <1>4 DEF ShardsFrom
<1>7. \A x : x \in XorAll(blk.data, blk.got) <=> \E i \in blk.got : x = a + 1 + i
  <2>1. blk.got \in SUBSET Shards /\ blk.data \in [Shards -> SUBSET Nat]
    BY DEF Blocks
  <2> QED
    BY <1>5, <1>6, <2>1, FoldedShards
<1>8. RecoveredBody(blk) = {a + 1 + m}
  <2>1. ASSUME NEW x
        PROVE  x \in RecoveredBody(blk) <=> x = a + 1 + m
    <3>1. x \in blk.parity <=> \E i \in Shards : x = a + 1 + i
      <4>1. x \in blk.parity => x - (a + 1) \in Shards /\ x = a + 1 + (x - (a + 1))
        BY <1>3, <1>4, <1>5 DEF Shards
      <4>2. \A i \in Shards : a + 1 + i \in blk.parity
        BY <1>3, <1>4, <1>5 DEF Shards
      <4> QED
        BY <4>1, <4>2
    <3>2. x \in XorAll(blk.data, blk.got) <=> \E i \in Shards : x = a + 1 + i /\ i # m
      <4>1. \A i : i \in blk.got <=> i \in Shards /\ i # m
        BY <1>2
      <4> QED
        BY <1>7, <4>1
    <3>3. \A i, j \in Shards : a + 1 + i = a + 1 + j => i = j
      BY <1>5 DEF Shards
    <3> QED
      BY <1>2, <3>1, <3>2, <3>3 DEF RecoveredBody, Xor
  <2> QED
    BY <2>1
<1> QED
  BY <1>1, <1>4, <1>5, <1>8 DEF RecoveredFrom

-----------------------------------------------------------------------------
\* Emissions that are all datagrams handed to the transmitter.
FromFed(S) == \A i \in DOMAIN S : \E n \in 1..fed : S[i].body = {n}

\* Two such sequences make another.
LEMMA FromFedConcat ==
  ASSUME NEW S \in Seq(Emissions), NEW T \in Seq(Emissions), FromFed(S), FromFed(T)
  PROVE  FromFed(S \o T)
<1> SUFFICES ASSUME NEW i \in DOMAIN (S \o T)
             PROVE  \E n \in 1..fed : (S \o T)[i].body = {n}
  BY DEF FromFed
<1>1. CASE i \in DOMAIN S
  <2>1. (S \o T)[i] = S[i]
    BY <1>1
  <2> QED
    BY <1>1, <2>1 DEF FromFed
<1>2. CASE i \notin DOMAIN S
  <2>1. (S \o T)[i] = T[i - Len(S)] /\ i - Len(S) \in DOMAIN T
    BY <1>2
  <2> QED
    BY <2>1 DEF FromFed
<1> QED
  BY <1>1, <1>2

\* The payload of one datagram is one.
LEMMA FromFedOne ==
  ASSUME NEW via, NEW body, \E n \in 1..fed : body = {n}
  PROVE  FromFed(Emitted(via, body)) /\ FromFed(<<>>)
<1>1. \A i \in DOMAIN Emitted(via, body) : Emitted(via, body)[i].body = body
  BY DEF Emitted
<1> QED
  BY <1>1 DEF FromFed

\* An entry stays traceable when more frames have been heard, and a shard of
\* the block it holds may be added to it.
LEMMA EntryKept ==
  ASSUME heard \subseteq heard', NEW blk, EntryTraced(blk)
  PROVE  EntryTraced(blk)'
  BY DEF EntryTraced

\* An entry with one more shard is still traced.
LEMMA ShardAdded ==
  ASSUME heard \subseteq heard', NEW f \in heard', f \in Frames, NEW g \in Blocks, EntryTraced(g),
         g.block = f.block, f.shards = RxK, NEW blk \in Blocks,
         \/ f.kind = "data" /\ f.idx \in Shards /\ blk = WithData(g, f)
         \/ f.kind = "parity" /\ blk = WithParity(g, f)
  PROVE  EntryTraced(blk)' /\ blk.block = f.block
<1>1. CASE f.kind = "data" /\ f.idx \in Shards /\ blk = WithData(g, f)
  <2>1. CASE f.idx \in g.got
    BY <1>1, <2>1, EntryKept DEF WithData
  <2>2. CASE f.idx \notin g.got
    <3>1. blk = [[g EXCEPT !.got = @ \cup {f.idx}] EXCEPT !.data[f.idx] = f.body]
      BY <1>1, <2>2 DEF WithData
    <3>2. /\ blk.gotParity = g.gotParity /\ blk.parity = g.parity /\ blk.block = g.block
          /\ blk.got = g.got \cup {f.idx}
          /\ blk.data[f.idx] = f.body
          /\ \A i \in g.got : blk.data[i] = g.data[i]
      BY <1>1, <2>2, <3>1 DEF Blocks
    <3> QED
      BY <1>1, <3>2 DEF EntryTraced
  <2> QED
    BY <2>1, <2>2
<1>2. CASE f.kind = "parity" /\ blk = WithParity(g, f)
  <2>1. /\ blk.gotParity /\ blk.parity = f.body /\ blk.block = g.block
        /\ blk.got = g.got /\ blk.data = g.data
    BY <1>2 DEF WithParity, Blocks
  <2> QED
    BY <1>2, <2>1 DEF EntryTraced
<1> QED
  BY <1>1, <1>2

\* fec_rx_block_get hands out a traceable entry.
LEMMA BlockGetTraced ==
  ASSUME slots \in [Slots -> Blocks], EntriesTraced, NEW b
  PROVE  EntryTraced(BlockGet(b))
<1>1. EntryTraced(slots[SlotFor(b)])
  BY SlotForEntry DEF EntriesTraced
<1>2. EntryTraced([NoBlock EXCEPT !.used = TRUE, !.block = b])
  BY DEF EntryTraced, NoBlock
<1> QED
  BY <1>1, <1>2 DEF BlockGet

\* fec_try_recover on a traceable entry emits datagrams only.
LEMMA RepairGenuine ==
  ASSUME TypeOK, FramesTraced, EntriesTraced, Genuine, fed' = fed,
         heard \subseteq heard', heard' \subseteq Seen, NEW f \in Frames,
         NEW blk \in Blocks, EntryTraced(blk)', blk.block = f.block,
         NEW direct \in Seq(Emissions), FromFed(direct), NEW st, Repair(f, blk, direct, st)
  PROVE  EntriesTraced' /\ Genuine'
<1> USE DEF TypeOK, RxTypeOK
<1>1. PICK result \in {"idle", "complete", "unusable", "repaired"} :
        /\ RepairMay(blk, result)
        /\ slots' = [slots EXCEPT ![SlotFor(f.block)] =
             [blk EXCEPT !.recovered = @ \/ result \in {"complete", "repaired"}]]
        /\ out' = out \o direct \o (IF result = "repaired"
                                    THEN Emitted("fec", RecoveredBody(blk)) ELSE <<>>)
  BY DEF Repair
<1>2. EntriesTraced'
  <2>1. PICK b : /\ slots' = [slots EXCEPT ![SlotFor(f.block)] = b]
                 /\ b = [blk EXCEPT !.recovered = @ \/ result \in {"complete", "repaired"}]
    BY <1>1
  <2>2. /\ b.gotParity = blk.gotParity /\ b.parity = blk.parity /\ b.block = blk.block
        /\ b.got = blk.got /\ b.data = blk.data
    BY <2>1 DEF Blocks
  <2>3. EntryTraced(b)'
    BY <2>2 DEF EntryTraced
  <2>4. ASSUME NEW s \in Slots PROVE EntryTraced(slots[s])'
    <3>1. CASE s = SlotFor(f.block)
      <4>1. slots'[s] = b
        BY <2>1, <3>1
      <4> QED
        BY <2>3, <4>1 DEF EntryTraced
    <3>2. CASE s # SlotFor(f.block)
      <4>1. slots'[s] = slots[s] /\ EntryTraced(slots[s])
        BY <2>1, <3>2 DEF EntriesTraced
      <4> QED
        BY <4>1 DEF EntryTraced
    <3> QED
      BY <3>1, <3>2
  <2> QED
    BY <2>4 DEF EntriesTraced
<1>3. FromFed(out)
  BY DEF FromFed, Genuine
<1>4. FromFed(out \o direct) /\ out \o direct \in Seq(Emissions)
  BY <1>3, FromFedConcat
<1>5. CASE result = "repaired"
  <2>1. Pending(blk) /\ OneMissing(blk)
    BY <1>1, <1>5 DEF RepairMay
  <2>2. PICK p \in heard' : /\ p.kind = "parity" /\ p.shards = RxK
                            /\ p.block = blk.block /\ p.body = blk.parity
    BY <2>1 DEF Pending, EntryTraced
  <2>3. \A i \in blk.got : \E d \in heard' : /\ d.kind = "data" /\ d.idx = i
                                             /\ d.block = blk.block /\ d.body = blk.data[i]
    BY DEF EntryTraced
  <2>4. \E n \in 1..fed : RecoveredBody(blk) = {n}
    <3>1. RecoveredFrom(blk, p)
      BY <2>1, <2>2, <2>3, RecoveredShard
    <3>2. PICK a \in Nat, m \in Shards : a + TxK <= fed /\ RecoveredBody(blk) = {a + 1 + m}
      BY <3>1 DEF RecoveredFrom
    <3>3. p \in Seen
      BY <2>2
    <3>4. FrameTraced(p)
      BY <3>3 DEF FramesTraced
    <3>5. fed \in Nat /\ RxK = TxK
      BY <2>2, <3>4 DEF TypeOK, TxTypeOK, FrameTraced
    <3>6. a + 1 + m \in 1..fed
      BY <3>2, <3>5 DEF Shards
    <3> QED
      BY <3>2, <3>6
  <2> DEFINE last == Emitted("fec", RecoveredBody(blk))
  <2>5. FromFed(last)
    BY <2>4, FromFedOne
  <2>6. last \in Seq(Emissions)
    <3>1. RecoveredBody(blk) \in SUBSET Nat
      BY <2>4
    <3>2. [body |-> RecoveredBody(blk), via |-> "fec"] \in Emissions
      BY <3>1 DEF Emissions
    <3> QED
      BY <3>2 DEF Emitted
  <2>7. out' = (out \o direct) \o last
    BY <1>1, <1>5
  <2> HIDE DEF last
  <2>8. FromFed(out')
    BY <1>4, <2>5, <2>6, <2>7, FromFedConcat
  <2> QED
    BY <1>2, <2>8 DEF FromFed, Genuine
<1>6. CASE result # "repaired"
  <2>1. out' = out \o direct
    BY <1>1, <1>4, <1>6, SMTT(40)
  <2> QED
    BY <1>2, <1>4, <2>1 DEF FromFed, Genuine
<1> QED
  BY <1>5, <1>6

\* A frame taken from the air keeps everything traceable.
LEMMA ReceiveTraced ==
  ASSUME TypeOK, Provenance, Genuine, NEW f \in air, RxFrame(f),
         air' \subseteq air, UNCHANGED <<fed, tx, at>>
  PROVE  Provenance' /\ Genuine'
<1> USE DEF Provenance
<1>1. heard' = heard \cup {f} /\ Seen' \subseteq Seen /\ heard' \subseteq Seen /\ f \in Seen
  BY DEF RxFrame, Seen
<1>2. f \in Frames /\ FrameTraced(f)
  BY <1>1 DEF FramesTraced, TypeOK, TxTypeOK
<1>3. OpenBlockTraced'
  BY DEF OpenBlockTraced
<1>4. FramesTraced'
  <2>1. ASSUME NEW g \in Seen' PROVE FrameTraced(g)'
    <3>1. FrameTraced(g)
      BY <1>1 DEF FramesTraced
    <3>2. ASSUME NEW b, NEW a, ShardsFrom(b, a) PROVE ShardsFrom(b, a)'
      BY <1>1, <3>2 DEF ShardsFrom
    <3> QED
      BY <3>1, <3>2 DEF FrameTraced
  <2> QED
    BY <2>1 DEF FramesTraced
<1>5. slots \in [Slots -> Blocks] /\ out \in Seq(Emissions)
  BY DEF TypeOK, RxTypeOK
<1>6. ASSUME NEW s \in Slots PROVE EntryTraced(slots[s]) /\ (slots'[s] = slots[s] => EntryTraced(slots[s])')
  <2>1. EntryTraced(slots[s])
    BY DEF EntriesTraced
  <2> QED
    BY <1>1, <2>1 DEF EntryTraced
<1>7. ASSUME f.kind # "parity", NEW ok \in BOOLEAN
      PROVE  FromFed(Direct(f, ok)) /\ Direct(f, ok) \in Seq(Emissions)
  <2>1. \E n \in 1..fed : f.body = {n}
    BY <1>2, <1>7 DEF FrameTraced
  <2> QED
    BY <1>2, <2>1, FromFedOne, DirectTyped DEF Direct
<1>8. BlockGet(f.block) \in Blocks /\ BlockGet(f.block).block = f.block
      /\ EntryTraced(BlockGet(f.block))
  BY <1>2, <1>5, BlockGetTyped, BlockGetTraced, FrameFields
<1>9. EmitOK \subseteq BOOLEAN
  BY DEF EmitOK
<1>10. CASE RxPlain(f)
  <2>1. PICK ok \in BOOLEAN : out' = out \o Direct(f, ok)
    BY <1>9, <1>10 DEF RxPlain
  <2>2. FromFed(out) /\ FromFed(Direct(f, ok)) /\ Direct(f, ok) \in Seq(Emissions)
    BY <1>7, <1>10 DEF RxPlain, FromFed, Genuine
  <2>3. FromFed(out')
    BY <1>5, <2>1, <2>2, FromFedConcat
  <2>4. EntriesTraced'
    BY <1>6, <1>10 DEF RxPlain, EntriesTraced
  <2> QED
    BY <1>3, <1>4, <2>3, <2>4 DEF FromFed, Genuine
<1>11. CASE RxRefused(f)
  <2>1. EntriesTraced'
    BY <1>6, <1>11 DEF RxRefused, EntriesTraced
  <2> QED
    BY <1>3, <1>4, <1>11, <2>1 DEF RxRefused, Genuine
<1>12. CASE RxBadIndex(f)
  <2>1. PICK g \in Blocks : EntryTraced(g) /\ slots' = [slots EXCEPT ![SlotFor(f.block)] = g]
    BY <1>8, <1>12 DEF RxBadIndex
  <2>2. ASSUME NEW s \in Slots PROVE EntryTraced(slots[s])'
    <3>1. CASE s = SlotFor(f.block)
      <4>1. slots'[s] = g
        BY <1>5, <2>1, <3>1
      <4> QED
        BY <1>1, <2>1, <4>1 DEF EntryTraced
    <3>2. CASE s # SlotFor(f.block)
      BY <1>5, <1>6, <2>1, <3>2
    <3> QED
      BY <3>1, <3>2
  <2>3. EntriesTraced'
    BY <2>2 DEF EntriesTraced
  <2> QED
    BY <1>3, <1>4, <1>12, <2>3 DEF RxBadIndex, Genuine
<1>13. CASE RxData(f)
  <2>1. PICK ok \in BOOLEAN :
          Repair(f, WithData(BlockGet(f.block), f), Direct(f, ok), Counted(Accounted(f), ok))
    BY <1>9, <1>13 DEF RxData
  <2>2. PICK g \in Blocks : g = BlockGet(f.block) /\ g.block = f.block /\ EntryTraced(g)
    BY <1>8
  <2>3. PICK blk \in Blocks : blk = WithData(g, f)
    BY <1>2, <1>13, WithTyped DEF RxData
  <2>4. EntryTraced(blk)' /\ blk.block = f.block
    BY <1>1, <1>2, <1>13, <2>2, <2>3, ShardAdded DEF RxData
  <2>5. PICK st : Repair(f, blk, Direct(f, ok), st)
    BY <2>1, <2>2, <2>3
  <2>6. FromFed(Direct(f, ok)) /\ Direct(f, ok) \in Seq(Emissions)
    BY <1>7, <1>13 DEF RxData
  <2> QED
    BY <1>1, <1>2, <1>3, <1>4, <2>4, <2>5, <2>6, RepairGenuine
<1>14. CASE RxParity(f)
  <2>2. PICK g \in Blocks : g = BlockGet(f.block) /\ g.block = f.block /\ EntryTraced(g)
    BY <1>8
  <2>3. PICK blk \in Blocks : blk = WithParity(g, f)
    BY <1>2, WithTyped
  <2>4. EntryTraced(blk)' /\ blk.block = f.block
    BY <1>1, <1>2, <1>14, <2>2, <2>3, ShardAdded DEF RxParity
  <2>5. PICK st : Repair(f, blk, <<>>, st)
    BY <1>14, <2>2, <2>3 DEF RxParity
  <2>6. <<>> \in Seq(Emissions) /\ FromFed(<<>>)
    BY DEF FromFed
  <2> QED
    BY <1>1, <1>2, <1>3, <1>4, <2>4, <2>5, <2>6, RepairGenuine
<1> QED
  BY <1>10, <1>11, <1>12, <1>13, <1>14 DEF RxFrame

-----------------------------------------------------------------------------
\* Initially there is nothing to trace.
LEMMA ProvenanceInit == Init => Provenance /\ Genuine
<1> SUFFICES ASSUME Init PROVE Provenance /\ Genuine
  OBVIOUS
<1> USE DEF Init, TxInit, RxInit, TxBoot
<1>1. OpenBlockTraced /\ Seen = {} /\ Genuine
  BY DEF OpenBlockTraced, Seen, Genuine
<1>2. FramesTraced
  BY <1>1 DEF FramesTraced
<1>3. EntriesTraced
  BY DEF EntriesTraced, EntryTraced, NoBlock
<1> QED
  BY <1>1, <1>2, <1>3 DEF Provenance

\* Every step keeps the provenance, and with it the datagrams genuine.
LEMMA ProvenanceNext ==
  ASSUME MaxFeed < Mod, "tx" \notin Restarts, TypeOK, Provenance, Genuine, [Next]_vars
  PROVE  Provenance' /\ Genuine'
<1>1. CASE Transmit
  <2>1. heard' = heard /\ slots' = slots /\ out' = out /\ TxStep
    BY <1>1 DEF Transmit, rxVars
  <2>2. OpenBlockTraced' /\ FramesTraced'
    BY <2>1, TransmitTraced DEF Provenance
  <2>3. EntriesTraced'
    BY <2>1 DEF Provenance, EntriesTraced, EntryTraced
  <2>4. fed \in Nat /\ fed' = fed + 1
    BY <2>1 DEF TxStep, TxPlain, TxPlainDropped, TxShard, TxShardDropped, TxBlockEnd,
                TxParityDropped, Feed, TypeOK, TxTypeOK
  <2>5. 1..fed \subseteq 1..fed'
    BY <2>4
  <2>6. Genuine'
    BY <2>1, <2>5 DEF Genuine
  <2> QED
    BY <2>2, <2>3, <2>6 DEF Provenance
<1>2. CASE Receive
  <2>1. PICK f \in air : /\ Deliver(f) \/ DeliverAgain(f)
                        /\ RxFrame(f)
                        /\ UNCHANGED <<fed, tx, at>>
    BY <1>2 DEF Receive
  <2>2. air' \subseteq air
    BY <2>1 DEF Deliver, DeliverAgain, Behind
  <2> QED
    BY <2>1, <2>2, ReceiveTraced
<1>3. CASE RestartTx
  BY <1>3 DEF RestartTx
<1>4. CASE RestartRx
  <2>1. heard' = {} /\ slots' = [s \in Slots |-> NoBlock] /\ UNCHANGED <<out, fed, tx, at, air>>
    BY <1>4 DEF RestartRx, RxRestart, txVars
  <2>2. Seen' \subseteq Seen
    BY <2>1 DEF Seen
  <2>3. ASSUME NEW g \in Seen' PROVE FrameTraced(g)'
    <3>1. FrameTraced(g)
      BY <2>2 DEF FramesTraced, Provenance
    <3>2. ASSUME NEW b, NEW a, ShardsFrom(b, a) PROVE ShardsFrom(b, a)'
      BY <2>2, <3>2 DEF ShardsFrom
    <3> QED
      BY <2>1, <3>1, <3>2 DEF FrameTraced
  <2>4. OpenBlockTraced' /\ Genuine'
    BY <2>1 DEF Provenance, OpenBlockTraced, Genuine
  <2>5. EntriesTraced'
    BY <2>1 DEF EntriesTraced, EntryTraced, NoBlock
  <2> QED
    BY <2>3, <2>4, <2>5 DEF Provenance, FramesTraced
<1>5. CASE UNCHANGED vars
  BY <1>5 DEF vars, Provenance, OpenBlockTraced, FramesTraced, FrameTraced, ShardsFrom, Seen,
              EntriesTraced, EntryTraced, Genuine
<1> QED
  BY <1>1, <1>2, <1>3, <1>4, <1>5 DEF Next

\* Unless the transmitter is restarted or block numbers wrap around, every
\* datagram the receiver emits, also a repaired one, was handed to the
\* transmitter: for every block length and table size, whatever is lost,
\* repeated or reordered and whatever send fails.
THEOREM GenuineAlways ==
  ASSUME MaxFeed < Mod, "tx" \notin Restarts
  PROVE  Spec => [](Provenance /\ Genuine)
<1>1. TypeOK /\ (Provenance /\ Genuine) /\ [Next]_vars => (Provenance /\ Genuine)'
  BY ProvenanceNext
<1> QED
  BY <1>1, ProvenanceInit, TypeCorrect, PTL DEF Spec

-----------------------------------------------------------------------------
\* One frame is worth two datagrams at most: its own and the one it repairs.
LEMMA EmittedPerFrame ==
  ASSUME TypeOK, NEW f \in Frames, RxFrame(f)
  PROVE  \E S \in Seq(Emissions) : Len(S) <= 2 /\ out' = out \o S
<1> USE DEF TypeOK, RxTypeOK
<1>1. <<>> \in Seq(Emissions) /\ Len(<<>>) = 0 /\ out \o <<>> = out
  OBVIOUS
<1>2. ASSUME NEW ok \in BOOLEAN
      PROVE  Direct(f, ok) \in Seq(Emissions) /\ Len(Direct(f, ok)) <= 1
  BY <1>1, DirectTyped DEF Direct, Emitted
<1>3. EmitOK \subseteq BOOLEAN
  BY DEF EmitOK
<1>4. ASSUME NEW blk \in Blocks, NEW direct \in Seq(Emissions), Len(direct) <= 1, NEW st,
             Repair(f, blk, direct, st)
      PROVE  \E S \in Seq(Emissions) : Len(S) <= 2 /\ out' = out \o S
  <2>1. RecoveredBody(blk) \in SUBSET Nat
    BY DEF RecoveredBody, Xor, XorAll, Blocks
  <2>2. PICK last : /\ last = <<>> \/ last = Emitted("fec", RecoveredBody(blk))
                    /\ out' = out \o direct \o last
    BY <1>4 DEF Repair
  <2>3. last \in Seq(Emissions) /\ Len(last) <= 1
    <3>1. [body |-> RecoveredBody(blk), via |-> "fec"] \in Emissions
      BY <2>1 DEF Emissions
    <3>2. Emitted("fec", RecoveredBody(blk)) \in Seq(Emissions)
          /\ Len(Emitted("fec", RecoveredBody(blk))) <= 1
      BY <3>1 DEF Emitted
    <3>3. CASE last = <<>>
      BY <1>1, <3>3
    <3>4. CASE last = Emitted("fec", RecoveredBody(blk))
      BY <3>2, <3>4, Zenon
    <3> QED
      BY <2>2, <3>3, <3>4
  <2>4. out' = out \o (direct \o last)
    BY <1>4, <2>2, <2>3, SMTT(40)
  <2>5. direct \o last \in Seq(Emissions) /\ Len(direct \o last) <= 2
    BY <1>4, <2>3
  <2> QED
    BY <2>4, <2>5
<1>5. CASE RxPlain(f)
  <2>1. PICK ok \in BOOLEAN : out' = out \o Direct(f, ok)
    BY <1>3, <1>5 DEF RxPlain
  <2>2. Len(Direct(f, ok)) <= 2
    BY <1>2
  <2> QED
    BY <1>2, <2>1, <2>2
<1>6. CASE RxRefused(f) \/ RxBadIndex(f)
  <2>1. out' = out \o <<>>
    BY <1>1, <1>6 DEF RxRefused, RxBadIndex
  <2> WITNESS <<>> \in Seq(Emissions)
  <2> QED
    BY <2>1
<1>7. BlockGet(f.block) \in Blocks
  BY BlockGetTyped, FrameFields
<1>8. CASE RxData(f)
  <2>1. PICK ok \in BOOLEAN :
          Repair(f, WithData(BlockGet(f.block), f), Direct(f, ok), Counted(Accounted(f), ok))
    BY <1>3, <1>8 DEF RxData
  <2>2. WithData(BlockGet(f.block), f) \in Blocks
    BY <1>7, <1>8, WithTyped DEF RxData
  <2> QED
    BY <1>2, <1>4, <2>1, <2>2
<1>9. CASE RxParity(f)
  <2>1. WithParity(BlockGet(f.block), f) \in Blocks
    BY <1>7, WithTyped
  <2>2. <<>> \in Seq(Emissions) /\ Len(<<>>) <= 1
    OBVIOUS
  <2> QED
    BY <1>4, <1>9, <2>1, <2>2 DEF RxParity
<1> QED
  BY <1>5, <1>6, <1>8, <1>9 DEF RxFrame

\* What the users of the link see of its emissions.
Bodies == [i \in DOMAIN out |-> out[i].body]

\* They are a sequence as long as the emissions.
LEMMA BodiesOfEmissions ==
  ASSUME NEW S \in Seq(Emissions)
  PROVE  /\ [i \in DOMAIN S |-> S[i].body] \in Seq(SUBSET Nat)
         /\ Len([i \in DOMAIN S |-> S[i].body]) = Len(S)
<1>1. \A i \in 1..Len(S) : S[i] \in Emissions
  OBVIOUS
<1>2. \A i \in 1..Len(S) : S[i].body \in SUBSET Nat
  BY <1>1 DEF Emissions
<1> QED
  BY <1>2

\* Two datagrams at most that were handed in are a step of the service, or none.
LEMMA EmissionServed ==
  ASSUME TypeOK, fed' = fed, Genuine', NEW S \in Seq(Emissions), Len(S) <= 2, out' = out \o S
  PROVE  Service!HandOut \/ UNCHANGED <<fed, Bodies>>
<1> USE DEF TypeOK, RxTypeOK
<1>1. /\ DOMAIN out = 1..Len(out) /\ Len(out) \in Nat /\ Len(S) \in Nat
      /\ DOMAIN out' = 1..(Len(out) + Len(S))
      /\ \A i \in 1..Len(out) : out'[i] = out[i]
      /\ \A i \in 1..Len(S) : out'[Len(out) + i] = S[i]
  OBVIOUS
<1>2. /\ Bodies \in Seq(SUBSET Nat) /\ Len(Bodies) = Len(out)
      /\ Bodies' \in Seq(SUBSET Nat) /\ Len(Bodies') = Len(out) + Len(S)
  <2>1. out' \in Seq(Emissions) /\ Len(out') = Len(out) + Len(S)
    OBVIOUS
  <2> QED
    BY <2>1, BodiesOfEmissions DEF Bodies
<1>3. \A i \in 1..Len(out) : Bodies[i] = out[i].body
  BY <1>1 DEF Bodies
<1>4. /\ DOMAIN Bodies' = 1..(Len(out) + Len(S))
      /\ \A i \in 1..Len(out) : Bodies'[i] = Bodies[i]
      /\ \A i \in 1..Len(S) : Bodies'[Len(out) + i] = S[i].body
  BY <1>1, <1>3 DEF Bodies
<1>5. \A i \in 1..Len(S) : \E n \in 1..fed : S[i].body = {n}
  <2> TAKE i \in 1..Len(S)
  <2>1. Len(out) + i \in DOMAIN out'
    BY <1>1
  <2> QED
    BY <1>1, <2>1 DEF Genuine
<1> HIDE DEF Bodies
<1>6. CASE Len(S) = 0
  <2>1. Bodies' = Bodies
    BY <1>2, <1>4, <1>6, SeqEqual
  <2> QED
    BY <2>1
<1>7. CASE Len(S) = 1
  <2>1. PICK n \in 1..fed : S[1].body = {n}
    BY <1>5, <1>7
  <2>2. Bodies' = Append(Bodies, {n})
    BY <1>2, <1>4, <1>7, <2>1
  <2> QED
    BY <2>2 DEF Service!HandOut, Bodies
<1>8. CASE Len(S) = 2
  <2> 1 \in 1..Len(S) /\ 2 \in 1..Len(S)
    BY <1>8
  <2>1. PICK n \in 1..fed : S[1].body = {n}
    BY <1>5
  <2>2. PICK m \in 1..fed : S[2].body = {m}
    BY <1>5
  <2> DEFINE T == <<{n}, {m}>>
  <2>3. T \in Seq(SUBSET Nat) /\ Len(T) = 2 /\ T[1] = S[1].body /\ T[2] = S[2].body
    BY <2>1, <2>2
  <2> HIDE DEF T
  <2>4. /\ Bodies \o T \in Seq(SUBSET Nat) /\ Len(Bodies \o T) = Len(out) + Len(S)
        /\ \A i \in 1..Len(out) : (Bodies \o T)[i] = Bodies[i]
        /\ (Bodies \o T)[Len(out) + 1] = T[1]
        /\ (Bodies \o T)[Len(out) + 2] = T[2]
    BY <1>1, <1>2, <1>8, <2>3
  <2>5. ASSUME NEW i \in 1..(Len(out) + Len(S)) PROVE Bodies'[i] = (Bodies \o T)[i]
    <3>1. i \in 1..Len(out) \/ i = Len(out) + 1 \/ i = Len(out) + 2
      BY <1>1, <1>8
    <3> QED
      BY <1>4, <2>3, <2>4, <3>1
  <2>6. Bodies' = Bodies \o T
    BY <1>2, <2>4, <2>5, SeqEqual
  <2> QED
    BY <2>6 DEF Service!HandOut, Bodies, T
<1>9. Len(S) = 0 \/ Len(S) = 1 \/ Len(S) = 2
  <2>1. \A n \in Nat : n <= 2 => n = 0 \/ n = 1 \/ n = 2
    OBVIOUS
  <2> QED
    BY <1>1, <2>1
<1> QED
  BY <1>6, <1>7, <1>8, <1>9

\* Every step of the link is a step of the service or invisible to its users.
LEMMA StepServed ==
  ASSUME TypeOK, Genuine', [Next]_vars
  PROVE  Service!HandIn \/ Service!HandOut \/ UNCHANGED <<fed, Bodies>>
<1>1. CASE Transmit
  <2>1. fed' = fed + 1 /\ out' = out
    BY <1>1 DEF Transmit, rxVars, TxStep, TxPlain, TxPlainDropped, TxShard, TxShardDropped,
                TxBlockEnd, TxParityDropped, Feed
  <2> QED
    BY <2>1 DEF Service!HandIn
<1>2. CASE Receive
  <2>1. PICK f \in air : RxFrame(f) /\ fed' = fed
    BY <1>2 DEF Receive
  <2>2. f \in Frames
    BY DEF TypeOK, TxTypeOK
  <2> QED
    BY <2>1, <2>2, EmittedPerFrame, EmissionServed
<1>3. CASE RestartTx \/ RestartRx \/ UNCHANGED vars
  <2>1. fed' = fed /\ out' = out
    BY <1>3 DEF RestartTx, TxRestart, RestartRx, RxRestart, rxVars, txVars, vars
  <2> QED
    BY <2>1 DEF Bodies
<1> QED
  BY <1>1, <1>2, <1>3 DEF Next

\* The link implements the datagram service its users see: every step hands in
\* one datagram, hands out one or two that were handed in before, or is
\* invisible; for every geometry and radio, unless the transmitter is restarted
\* or block numbers wrap around.
THEOREM ServiceImplemented ==
  ASSUME MaxFeed < Mod, "tx" \notin Restarts
  PROVE  Spec => DatagramService
<1>1. Init => Service!Init
  <2>1. out = <<>> => [i \in DOMAIN out |-> out[i].body] = <<>>
    OBVIOUS
  <2> QED
    BY <2>1 DEF Init, TxInit, RxInit, Service!Init
<1>2. TypeOK /\ Genuine' /\ [Next]_vars
        => [Service!HandIn \/ Service!HandOut]_<<fed, [i \in DOMAIN out |-> out[i].body]>>
  BY StepServed DEF Bodies
<1> QED
  BY <1>1, <1>2, TypeCorrect, GenuineAlways, PTL DEF Spec, DatagramService, Service!Spec
-----------------------------------------------------------------------------
\* Division by a modulus and its remainder.
LEMMA DivMod ==
  \A x \in Int, m \in Nat \ {0} :
    x = m * (x \div m) + (x % m) /\ x \div m \in Int /\ x % m \in 0..(m - 1)
  OBVIOUS

\* The quotient and the remainder are determined.
LEMMA DivModUnique ==
  \A q, p \in Int, r, s \in Nat, m \in Nat \ {0} :
    r < m /\ s < m /\ m * q + r = m * p + s => q = p /\ r = s
  OBVIOUS

\* Division computes them.
LEMMA RemainderIs ==
  ASSUME NEW m \in Nat \ {0}, NEW x \in Int, NEW q \in Int, NEW r \in 0..(m - 1),
         x = m * q + r
  PROVE  x % m = r /\ x \div m = q
  BY DivMod, DivModUnique

\* A multiple of the modulus does not change the remainder.
LEMMA ModShift ==
  ASSUME NEW m \in Nat \ {0}, NEW x \in Int, NEW q \in Int
  PROVE  (x + m * q) % m = x % m
<1>1. x = m * (x \div m) + (x % m) /\ x \div m \in Int /\ x % m \in 0..(m - 1)
  BY DivMod
<1>2. x + m * q = m * ((x \div m) + q) + (x % m)
  BY <1>1
<1>3. x + m * q \in Int /\ (x \div m) + q \in Int
  BY <1>1
<1> QED
  BY <1>1, <1>2, <1>3, RemainderIs

\* Reducing an operand first changes nothing.
LEMMA ModAdd ==
  \A x, k \in Int, m \in Nat \ {0} : ((x % m) + k) % m = (x + k) % m
<1> TAKE x, k \in Int, m \in Nat \ {0}
<1>1. x = m * (x \div m) + (x % m) /\ x \div m \in Int /\ x % m \in Int
  BY DivMod
<1> DEFINE y == (x % m) + k
           q == x \div m
<1>2. y \in Int /\ q \in Int /\ x + k = y + m * q
  BY <1>1
<1> HIDE DEF y, q
<1>3. (y + m * q) % m = y % m
  BY <1>2, ModShift
<1> QED
  BY <1>2, <1>3 DEF y

\* The signed distance of the sequence numbers of two frames is their
\* distance, as long as that is less than half the range of the counter.
LEMMA Diff32Near ==
  ASSUME NEW a \in Nat, NEW b \in Nat, b <= a, 2 * (a - b) < Mod
  PROVE  Diff32(a % Mod, b % Mod) = a - b
<1>1. b = Mod * (b \div Mod) + (b % Mod) /\ b \div Mod \in Int /\ b % Mod \in Int
  BY DivMod
<1> DEFINE k == -(b % Mod)
           q == b \div Mod
<1>2. k \in Int /\ q \in Int
  BY <1>1
<1>3. ((a % Mod) - (b % Mod)) % Mod = (a - (b % Mod)) % Mod
  <2>1. ((a % Mod) + k) % Mod = (a + k) % Mod
    <3> HIDE DEF k
    <3>1. a \in Int /\ Mod \in Nat \ {0}
      OBVIOUS
    <3> QED
      BY <1>2, <3>1, ModAdd, Zenon
  <2>2. (a % Mod) + k = (a % Mod) - (b % Mod) /\ a + k = a - (b % Mod)
    <3>1. a % Mod \in Int
      BY DivMod
    <3> QED
      BY <1>1, <1>2, <3>1
  <2> QED
    BY <2>1, <2>2
<1>4. (a - (b % Mod)) % Mod = a - b
  <2>1. a - (b % Mod) = Mod * q + (a - b) /\ a - (b % Mod) \in Int
    BY <1>1, <1>2
  <2>2. a - b \in 0..(Mod - 1)
    OBVIOUS
  <2> HIDE DEF q
  <2> QED
    BY <1>2, <2>1, <2>2, RemainderIs
<1> QED
  BY <1>3, <1>4 DEF Diff32

-----------------------------------------------------------------------------
\* Frames are numbered as they are built, ...
FramesNumbered ==
  /\ \A f, g \in Seen : f.at = g.at => f = g
  /\ \A f \in Seen : f.at < at

\* ... and a radio that keeps the order and repeats nothing delivers each of them once,
\* before every frame built after it.
RadioOrder == \A f \in air, g \in heard : g.at < f.at

\* The frames of one step of the transmitter are numbered as they are built.
LEMMA FramesBuilt ==
  ASSUME TypeOK, TxStep
  PROVE  \E n \in {1, 2}, F \in SUBSET Frames :
           /\ at' = at + n /\ air' = air \cup F /\ tx'.seq = (tx.seq + n) % Mod
           /\ \A f \in F : /\ at <= f.at /\ f.at < at + n
                           /\ f.seq = (tx.seq + (f.at - at)) % Mod
           /\ \A f, g \in F : f.at = g.at => f = g
<1> USE DEF TypeOK, TxTypeOK
<1> DEFINE PlainFrame == Plain(tx.seq, at, {fed + 1})
<1>1. (tx.seq + 0) % Mod = tx.seq
  BY ModSmall
<1>2. /\ PlainFrame.at = at /\ PlainFrame.seq = tx.seq
      /\ DataFrame.at = at /\ DataFrame.seq = tx.seq
      /\ ParityFrame.at = at + 1 /\ ParityFrame.seq = (tx.seq + 1) % Mod
  BY DEF Plain, DataFrame, Data, ParityFrame, Parity, Succ32
<1>3. PlainFrame \in Frames /\ DataFrame \in Frames /\ ParityFrame \in Frames
  <2>1. OpenBlock \in 0..(Mod - 1) /\ Succ32(tx.seq) \in 0..(Mod - 1)
    BY CounterRange DEF OpenBlock
  <2>2. FoldedParity \in SUBSET Nat
    BY DEF FoldedParity, Xor
  <2>3. tx.shards % IdxMod \in 0..(IdxMod - 1)
    BY CounterRange
  <2> QED
    BY <2>1, <2>2, <2>3, FrameTypes DEF DataFrame, ParityFrame
<1>4. PICK n \in {1, 2}, F \in SUBSET Frames :
        /\ at' = at + n /\ air' = air \cup F /\ tx'.seq = (tx.seq + n) % Mod
        /\ \/ n = 1 /\ F \in {{}, {PlainFrame}, {DataFrame}}
           \/ n = 2 /\ F \in {{DataFrame}, {DataFrame, ParityFrame}}
  <2> HIDE DEF PlainFrame
  <2>1. CASE TxPlain
    BY <1>3, <2>1 DEF TxPlain, Sent, PlainFrame
  <2>2. CASE TxPlainDropped \/ TxShardDropped
    <3>1. at' = at + 1 /\ air' = air \cup {} /\ tx'.seq = (tx.seq + 1) % Mod
      BY <2>2 DEF TxPlainDropped, TxShardDropped, Sent
    <3> QED
      BY <3>1
  <2>3. CASE TxShard
    BY <1>3, <2>3 DEF TxShard, Sent
  <2>4. CASE TxBlockEnd
    BY <1>3, <2>4 DEF TxBlockEnd, Sent
  <2>5. CASE TxParityDropped
    BY <1>3, <2>5 DEF TxParityDropped, Sent
  <2> QED
    BY <2>1, <2>2, <2>3, <2>4, <2>5 DEF TxStep
<1> HIDE DEF PlainFrame
<1>5. \A f \in F : /\ at <= f.at /\ f.at < at + n
                   /\ f.seq = (tx.seq + (f.at - at)) % Mod
  <2> TAKE f \in F
  <2>1. CASE f = PlainFrame \/ f = DataFrame
    <3>1. f.at = at /\ f.seq = tx.seq /\ at - at = 0
      BY <1>2, <2>1
    <3> QED
      BY <1>1, <1>4, <3>1
  <2>2. CASE n = 2 /\ f = ParityFrame
    <3>1. f.at = at + 1 /\ f.seq = (tx.seq + 1) % Mod /\ (at + 1) - at = 1
      BY <1>2, <2>2
    <3> QED
      BY <2>2, <3>1
  <2> QED
    BY <1>4, <2>1, <2>2
<1>6. \A f, g \in F : f.at = g.at => f = g
  <2>1. at # at + 1
    OBVIOUS
  <2> QED
    BY <1>2, <1>4, <2>1
<1> QED
  BY <1>4, <1>5, <1>6

\* Nothing is on the air at first.
LEMMA FramesNumberedInit == Init => FramesNumbered /\ RadioOrder
  BY DEF Init, TxInit, RxInit, FramesNumbered, RadioOrder, Seen

\* A step of the transmitter adds frames newer than all before.
LEMMA FramesAdded ==
  ASSUME TypeOK, FramesNumbered, Transmit
  PROVE  /\ FramesNumbered'
         /\ heard' = heard
         /\ \A f \in air' : f \in air \/ \A g \in Seen : g.at < f.at
<1> USE DEF FramesNumbered, Seen
<1>1. \A f \in Seen : f \in Frames /\ f.at \in Nat
  BY DEF TypeOK, TxTypeOK, RxTypeOK, Frames
<1>2. at \in Nat
  BY DEF TypeOK, TxTypeOK
<1>3. TxStep /\ heard' = heard
  BY DEF Transmit, rxVars
<1>4. PICK n \in {1, 2}, F \in SUBSET Frames :
        /\ at' = at + n /\ air' = air \cup F
        /\ \A f \in F : at <= f.at /\ f.at < at + n
        /\ \A f, g \in F : f.at = g.at => f = g
  BY <1>3, FramesBuilt
<1>5. \A f \in F : f.at \in Nat
  BY DEF Frames
<1>6. \A f \in Seen, g \in F : f.at < g.at
  BY <1>1, <1>2, <1>4, <1>5
<1>7. Seen' = Seen \cup F
  BY <1>3, <1>4
<1>8. \A f, g \in Seen' : f.at = g.at => f = g
  BY <1>1, <1>4, <1>5, <1>6, <1>7
<1>9. \A f \in Seen' : f.at < at'
  BY <1>1, <1>2, <1>4, <1>5, <1>7
<1> QED
  BY <1>3, <1>4, <1>6, <1>8, <1>9

\* Every step keeps the frames numbered, also a restart of an end, ...
LEMMA FramesNumberedStep ==
  ASSUME TypeOK, FramesNumbered, [Next]_vars
  PROVE  FramesNumbered'
<1>1. CASE Transmit
  BY <1>1, FramesAdded
<1>2. CASE Receive \/ RestartTx \/ RestartRx \/ UNCHANGED vars
  <2>1. Seen' \subseteq Seen /\ at' = at
    BY <1>2 DEF Receive, RxFrame, Deliver, DeliverAgain, Behind, RestartTx, TxRestart,
                RestartRx, RxRestart, rxVars, txVars, vars, Seen
  <2> QED
    BY <2>1 DEF FramesNumbered
<1> QED
  BY <1>1, <1>2 DEF Next

\* ... and an ordered radio delivers the newest last.
LEMMA RadioOrderStep ==
  ASSUME Ordered, MaxDup = 0, TypeOK, FramesNumbered, RadioOrder, [Next]_vars
  PROVE  RadioOrder'
<1> USE DEF RadioOrder, Seen
<1>1. \A f \in Seen : f.at \in Nat
  BY DEF TypeOK, TxTypeOK, RxTypeOK, Frames
<1>2. CASE Transmit
  BY <1>2, FramesAdded
<1>3. CASE Receive
  <2>1. PICK f \in air : Deliver(f) /\ heard' = heard \cup {f}
    BY <1>3 DEF Receive, RxFrame, DeliverAgain, TypeOK
  <2>2. \A g \in air' : g \in air /\ g.at > f.at
    BY <2>1 DEF Deliver, Behind
  <2> QED
    BY <1>1, <2>1, <2>2
<1>4. CASE RestartTx
  BY <1>4 DEF RestartTx, TxRestart, rxVars
<1>5. CASE RestartRx
  BY <1>5 DEF RestartRx, RxRestart, txVars
<1>6. CASE UNCHANGED vars
  BY <1>6 DEF vars
<1> QED
  BY <1>2, <1>3, <1>4, <1>5, <1>6 DEF Next

-----------------------------------------------------------------------------
\* Sequence numbers follow the order of transmission, modulo their width, as
\* long as the transmitter is not restarted.
SeqFollows ==
  /\ tx.seq = at % Mod
  /\ \A f \in Seen : f.seq = f.at % Mod

\* tx_loop starts at sequence number 0.
LEMMA SeqFollowsInit == Init => SeqFollows
<1>1. 0 % Mod = 0
  BY ModSmall
<1> QED
  BY <1>1 DEF Init, TxInit, TxBoot, RxInit, SeqFollows, Seen

\* build_frame gives every frame the next number.
LEMMA SeqFollowsStep ==
  ASSUME "tx" \notin Restarts, TypeOK, SeqFollows, [Next]_vars
  PROVE  SeqFollows'
<1> USE DEF SeqFollows, Seen
<1>1. CASE Transmit
  <2>1. TxStep /\ heard' = heard /\ at \in Int
    BY <1>1 DEF Transmit, rxVars, TypeOK, TxTypeOK
  <2>2. PICK n \in {1, 2}, F \in SUBSET Frames :
          /\ at' = at + n /\ air' = air \cup F /\ tx'.seq = (tx.seq + n) % Mod
          /\ \A f \in F : f.seq = (tx.seq + (f.at - at)) % Mod
    BY <2>1, FramesBuilt
  <2>3. tx'.seq = at' % Mod
    <3>1. ((at % Mod) + n) % Mod = (at + n) % Mod
      <4>1. n \in Int /\ Mod \in Nat \ {0}
        OBVIOUS
      <4> QED
        BY <2>1, <4>1, ModAdd, Zenon
    <3> QED
      BY <2>2, <3>1
  <2>4. ASSUME NEW f \in F PROVE f.seq = f.at % Mod
    <3>1. f.at \in Int
      BY DEF Frames
    <3> DEFINE k == f.at - at
    <3>2. k \in Int /\ at + k = f.at
      BY <2>1, <3>1
    <3> HIDE DEF k
    <3>3. ((at % Mod) + k) % Mod = (at + k) % Mod
      <4>1. Mod \in Nat \ {0}
        OBVIOUS
      <4> QED
        BY <2>1, <3>2, <4>1, ModAdd, Zenon
    <3> QED
      BY <2>2, <3>2, <3>3 DEF k
  <2> QED
    BY <2>1, <2>2, <2>3, <2>4
<1>2. CASE Receive
  BY <1>2 DEF Receive, RxFrame, Deliver, DeliverAgain, Behind
<1>3. CASE RestartTx
  BY <1>3 DEF RestartTx
<1>4. CASE RestartRx
  BY <1>4 DEF RestartRx, RxRestart, txVars
<1>5. CASE UNCHANGED vars
  BY <1>5 DEF vars
<1> QED
  BY <1>1, <1>2, <1>3, <1>4, <1>5 DEF Next

-----------------------------------------------------------------------------
\* What the counters of rx_loop say of the frames heard: the last sequence
\* number is that of the newest, and those missing between the oldest and the
\* newest are counted as lost.
CountersFollow ==
  /\ IsFiniteSet(heard)
  /\ stats.have <=> heard # {}
  /\ heard = {} => stats.lost = 0
  /\ heard # {} => \E f \in heard : Newness(f) /\ stats.last = f.seq
  /\ LossesCounted

\* The next frame on an ordered radio is newer than all before it, by no more
\* than MaxGap.
LEMMA AccountedInOrder ==
  ASSUME 2 * MaxGap < Mod, TypeOK, RadioOrder, SeqFollows, CountersFollow,
         NEW f \in air, InReach(f), heard' = heard \cup {f},
         stats'.have = Accounted(f).have, stats'.last = Accounted(f).last,
         stats'.lost = Accounted(f).lost
  PROVE  CountersFollow'
<1> USE DEF RadioOrder, Seen
<1>1. /\ f \in Frames /\ f.at \in Nat
      /\ \A g \in heard : g \in Frames /\ g.at \in Nat /\ g.at < f.at
  BY DEF TypeOK, TxTypeOK, RxTypeOK, Frames
<1>2. f \notin heard
  BY <1>1
<1>3. IsFiniteSet(heard') /\ Cardinality(heard') = Cardinality(heard) + 1
      /\ Cardinality(heard) \in Nat
  BY <1>2, FS_AddElement, FS_CardinalityType DEF CountersFollow
<1>4. Newness(f)' /\ heard' # {}
  BY <1>1 DEF Newness
<1>5. \A g \in heard' : Newness(g)' => g = f
  BY <1>1 DEF Newness
<1>6. stats \in Counters
  BY DEF TypeOK, RxTypeOK
<1>7. CASE heard = {}
  <2>1. ~stats.have /\ stats.lost = 0
    BY <1>7 DEF CountersFollow
  <2>2. Accounted(f) = [[stats EXCEPT !.frames = @ + 1] EXCEPT !.have = TRUE, !.last = f.seq]
    BY <2>1 DEF Accounted
  <2>3. Accounted(f).have /\ Accounted(f).last = f.seq /\ Accounted(f).lost = 0
    BY <1>6, <2>1, <2>2 DEF Counters
  <2>4. Cardinality(heard) = 0
    BY <1>7, FS_EmptySet
  <2>5. LossesCounted'
    <3>1. heard' = {f} /\ stats'.lost = 0 /\ (f.at - f.at + 1) - Cardinality(heard') = 0
      BY <1>1, <1>3, <1>7, <2>3, <2>4
    <3> QED
      BY <3>1 DEF LossesCounted
  <2> QED
    BY <1>3, <1>4, <2>3, <2>5 DEF CountersFollow
<1>8. CASE heard # {}
  <2>1. stats.have
    BY <1>8 DEF CountersFollow
  <2>2. PICK g \in heard : Newness(g) /\ stats.last = g.seq
    BY <1>8 DEF CountersFollow
  <2>3. f.at <= g.at + MaxGap
    <3>1. PICK h \in heard : f.at <= h.at + MaxGap
      BY <1>8 DEF InReach
    <3>2. h.at <= g.at
      BY <2>2 DEF Newness
    <3> QED
      BY <1>1, <3>1, <3>2
  <2>4. Diff32(f.seq, stats.last) = f.at - g.at
    <3>1. f.seq = f.at % Mod /\ stats.last = g.at % Mod
      BY <2>2 DEF SeqFollows
    <3>2. f.at \in Nat /\ g.at \in Nat /\ g.at <= f.at /\ 2 * (f.at - g.at) < Mod
      BY <1>1, <2>3
    <3> QED
      BY <3>1, <3>2, Diff32Near
  <2>5. Accounted(f) =
          [[stats EXCEPT !.frames = @ + 1] EXCEPT !.lost = @ + ((f.at - g.at) - 1), !.last = f.seq]
    <3>1. f.at - g.at > 0
      BY <1>1
    <3> QED
      BY <2>1, <2>4, <3>1 DEF Accounted
  <2>6. PICK n \in Int : n = (f.at - g.at) - 1
    BY <1>1
  <2>7. stats'.have /\ stats'.last = f.seq /\ stats'.lost = stats.lost + n
    <3>1. Accounted(f) = [[[stats EXCEPT !.frames = @ + 1] EXCEPT !.lost = @ + n] EXCEPT !.last = f.seq]
      BY <2>5, <2>6, Zenon
    <3> QED
      BY <1>6, <2>1, <3>1 DEF Counters
  <2>8. ASSUME NEW o \in heard', Oldness(o)'
        PROVE  stats'.lost = (f.at - o.at + 1) - Cardinality(heard')
    <3>1. o # f
      <4>1. ~(f.at <= g.at) /\ g \in heard'
        BY <1>1
      <4> QED
        BY <2>8, <4>1 DEF Oldness
    <3>2. o \in heard /\ Oldness(o)
      BY <2>8, <3>1 DEF Oldness
    <3>3. stats.lost = (g.at - o.at + 1) - Cardinality(heard)
      BY <2>2, <3>2 DEF CountersFollow, LossesCounted
    <3> QED
      BY <1>1, <1>3, <2>6, <2>7, <3>2, <3>3
  <2>9. LossesCounted'
    BY <1>5, <2>8 DEF LossesCounted
  <2> QED
    BY <1>3, <1>4, <2>7, <2>9 DEF CountersFollow
<1> QED
  BY <1>7, <1>8

\* What rx_loop does with a frame after accounting for it leaves these three alone.
LEMMA AccountedOnce ==
  ASSUME RxTypeOK, NEW f \in Frames, RxFrame(f)
  PROVE  /\ stats'.have = Accounted(f).have
         /\ stats'.last = Accounted(f).last
         /\ stats'.lost = Accounted(f).lost
<1> DEFINE Same(st, u) == st.have = u.have /\ st.last = u.last /\ st.lost = u.lost
<1>1. PICK acc \in Counters : acc = Accounted(f)
  BY AccountedTyped DEF RxTypeOK
<1>2. EmitOK \subseteq BOOLEAN
  BY DEF EmitOK
<1>3. ASSUME NEW st \in Counters, NEW ok \in BOOLEAN
      PROVE  Same(Counted(st, ok), st) /\ Counted(st, ok) \in Counters
  BY CountedTyped DEF Counted, Counters
<1>4. ASSUME NEW blk, NEW direct, NEW st \in Counters, Repair(f, blk, direct, st)
      PROVE  Same(stats', st)
  <2>1. \/ stats' = [[st EXCEPT !.packets = @ + 1] EXCEPT !.recovered = @ + 1]
        \/ stats' = [st EXCEPT !.unusable = @ + 1]
        \/ stats' = st
    BY <1>4, Zenon DEF Repair
  <2> QED
    BY <2>1 DEF Counters
<1>5. CASE RxPlain(f)
  <2>1. PICK ok \in BOOLEAN : stats' = Counted(acc, ok)
    BY <1>1, <1>2, <1>5 DEF RxPlain
  <2> QED
    BY <1>1, <1>3, <2>1
<1>6. CASE RxRefused(f) \/ RxBadIndex(f)
  <2>1. stats' = [acc EXCEPT !.bad = @ + 1]
    BY <1>1, <1>6 DEF RxRefused, RxBadIndex
  <2> QED
    BY <1>1, <2>1 DEF Counters
<1>7. CASE RxData(f)
  <2>1. PICK ok \in BOOLEAN :
          Repair(f, WithData(BlockGet(f.block), f), Direct(f, ok), Counted(acc, ok))
    BY <1>1, <1>2, <1>7 DEF RxData
  <2>2. Same(stats', Counted(acc, ok))
    BY <1>3, <1>4, <2>1
  <2> QED
    BY <1>1, <1>3, <2>2
<1>8. CASE RxParity(f)
  <2>1. Same(stats', acc)
    BY <1>1, <1>4, <1>8 DEF RxParity
  <2> QED
    BY <1>1, <2>1
<1> QED
  BY <1>5, <1>6, <1>7, <1>8 DEF RxFrame

\* rx_loop starts from cleared counters.
LEMMA CountersFollowInit == Init => CountersFollow
  BY FS_EmptySet DEF Init, RxInit, NoStats, CountersFollow, LossesCounted

\* Every step of the link keeps the counters right.
LEMMA CountersFollowStep ==
  ASSUME 2 * MaxGap < Mod, TypeOK, RadioOrder, SeqFollows, CountersFollow, [Next]_vars
  PROVE  CountersFollow'
<1>1. CASE Receive
  <2>1. PICK f \in air : InReach(f) /\ RxFrame(f)
    BY <1>1 DEF Receive
  <2>2. f \in Frames /\ RxTypeOK /\ heard' = heard \cup {f}
    BY <2>1 DEF TypeOK, TxTypeOK, RxFrame
  <2> QED
    BY <2>1, <2>2, AccountedOnce, AccountedInOrder
<1>2. CASE RestartRx
  BY <1>2, FS_EmptySet DEF RestartRx, RxRestart, NoStats, CountersFollow, LossesCounted
<1>3. CASE Transmit \/ RestartTx \/ UNCHANGED vars
  <2>1. stats' = stats /\ heard' = heard
    BY <1>3 DEF Transmit, RestartTx, vars, rxVars
  <2> QED
    BY <2>1 DEF CountersFollow, LossesCounted, Newness, Oldness
<1> QED
  BY <1>1, <1>2, <1>3 DEF Next

\* On a radio that keeps the order, repeats nothing and loses fewer than half
\* the sequence numbers in a row, rx_loop counts exactly the frames that went
\* missing between the first and the last one heard: with and without FEC, also
\* after the numbers have wrapped around, after failed sends and after a
\* restart of the receiver.
THEOREM LossesCountedExactly ==
  ASSUME Ordered, MaxDup = 0, 2 * MaxGap < Mod, "tx" \notin Restarts
  PROVE  Spec => []LossesCounted
<1> DEFINE CountInv == FramesNumbered /\ RadioOrder /\ SeqFollows /\ CountersFollow
<1>1. Init => CountInv
  BY FramesNumberedInit, SeqFollowsInit, CountersFollowInit
<1>2. TypeOK /\ CountInv /\ [Next]_vars => CountInv'
  BY FramesNumberedStep, RadioOrderStep, SeqFollowsStep, CountersFollowStep
<1>3. CountInv => LossesCounted
  BY DEF CountersFollow
<1> QED
  BY <1>1, <1>2, <1>3, TypeCorrect, PTL DEF Spec

-----------------------------------------------------------------------------
\* Frames leave in the order of their datagrams: what a frame carries is newer
\* than all an earlier one carried, but for the parity of the shards before it.
InOrder(f, g) == \A m \in f.body, n \in g.body : m < n

BodiesInOrder ==
  /\ \A f \in Seen : (f.kind = "plain" => TxK = 0) /\ f.body \subseteq 1..fed
  /\ \A f, g \in Seen :
       f.at < g.at /\ (g.kind = "parity" => f.kind = "parity") => InOrder(f, g)

\* Block numbers never fall, and no two parity shards are of the same block.
BlocksInOrder ==
  /\ \A f, g \in Seen :
       f.kind # "plain" /\ g.kind # "plain" /\ f.at < g.at => f.block <= g.block
  /\ \A p, q \in Seen :
       p.kind = "parity" /\ q.kind = "parity" /\ p.block = q.block => p = q

\* The parity shard is the last frame of its block and covers its datagrams
\* only; none of the open block has been covered.
ParityLast ==
  /\ \A p \in Seen : p.kind = "parity" => \A n \in p.body : n <= fed - tx.shards
  /\ \A d \in Seen : d.kind = "data" => \A n \in d.body : n > fed - tx.shards => d.block = tx.block
  /\ \A d, p \in Seen :
       d.kind = "data" /\ p.kind = "parity" =>
         /\ d.body \subseteq p.body => d.block = p.block
         /\ d.block = p.block => d.at < p.at
         /\ d.at < p.at => \A m \in d.body : \E n \in p.body : m <= n

DatagramOrder == BodiesInOrder /\ BlocksInOrder /\ ParityLast

\* There are no frames at first.
LEMMA DatagramOrderInit == Init => DatagramOrder
  BY DEF Init, TxInit, RxInit, DatagramOrder, BodiesInOrder, BlocksInOrder, ParityLast, Seen

\* A transmitter with FEC builds at most the next data shard and the parity
\* shard of its block.
LEMMA ShardsBuilt ==
  ASSUME TxK > 0, TxStep
  PROVE  \E F \in SUBSET {DataFrame, ParityFrame} :
           /\ air' = air \cup F /\ Feed
           /\ tx'.block = OpenBlock
           /\ \/ tx'.shards = tx.shards + 1 /\ F \subseteq {DataFrame}
              \/ tx'.shards = 0 /\ tx.shards + 1 = TxK
<1>1. CASE TxShard
  BY <1>1 DEF TxShard, Sent, OpenState
<1>2. CASE TxShardDropped
  <2>1. air' = air \cup {} /\ Feed /\ tx'.block = OpenBlock /\ tx'.shards = tx.shards + 1
    BY <1>2 DEF TxShardDropped, Sent, OpenState
  <2>2. {} \in SUBSET {DataFrame, ParityFrame} /\ {} \subseteq {DataFrame}
    OBVIOUS
  <2> QED
    BY <2>1, <2>2
<1>3. CASE TxBlockEnd
  BY <1>3 DEF TxBlockEnd, Sent, ClosedState
<1>4. CASE TxParityDropped
  BY <1>4 DEF TxParityDropped, Sent, OpenState
<1> QED
  BY <1>1, <1>2, <1>3, <1>4 DEF TxStep, TxPlain, TxPlainDropped

\* The same for a transmitter without.
LEMMA PlainBuilt ==
  ASSUME TxK = 0, TxStep
  PROVE  /\ Feed
         /\ \E F \in SUBSET {Plain(tx.seq, at, {fed + 1})} : air' = air \cup F
         /\ tx'.shards = tx.shards /\ tx'.block = tx.block
<1>1. CASE TxPlain
  BY <1>1 DEF TxPlain, Sent
<1>2. CASE TxPlainDropped
  <2>1. air' = air \cup {} /\ Feed /\ tx'.shards = tx.shards /\ tx'.block = tx.block
    BY <1>2 DEF TxPlainDropped, Sent
  <2> QED
    BY <2>1
<1> QED
  BY <1>1, <1>2 DEF TxStep, TxShard, TxShardDropped, TxBlockEnd, TxParityDropped

\* Without FEC tx_loop keeps the order of the datagrams, ...
LEMMA DatagramOrderPlain ==
  ASSUME TypeOK, FramesTraced, FramesNumbered, DatagramOrder, TxK = 0, TxStep, heard' = heard
  PROVE  DatagramOrder'
<1>1. PICK F \in SUBSET {Plain(tx.seq, at, {fed + 1})} : air' = air \cup F
  BY PlainBuilt
<1>2. fed' = fed + 1 /\ fed \in Nat /\ at \in Nat
  BY PlainBuilt DEF Feed, TypeOK, TxTypeOK
<1>3. Seen' = Seen \cup F
  BY <1>1 DEF Seen
<1>4. ASSUME NEW f \in Seen
      PROVE  f.kind = "plain" /\ f.body \subseteq 1..fed /\ f.at < at /\ f.at \in Nat
  <2>1. f \in Frames /\ FrameTraced(f)
    BY DEF Seen, TypeOK, TxTypeOK, RxTypeOK, FramesTraced
  <2>2. f.kind = "plain"
    BY <2>1, FrameFields DEF FrameTraced
  <2> QED
    BY <2>1, <2>2, FrameFields DEF FramesNumbered, DatagramOrder, BodiesInOrder
<1>5. ASSUME NEW f \in F
      PROVE  f.kind = "plain" /\ f.body = {fed + 1} /\ f.at = at
  BY DEF Plain
<1>6. ASSUME NEW f \in Seen', NEW g \in Seen', f.at < g.at PROVE InOrder(f, g)
  <2>1. CASE f \in Seen /\ g \in Seen
    BY <1>4, <1>6, <2>1 DEF DatagramOrder, BodiesInOrder
  <2>2. CASE f \in Seen /\ g \in F
    BY <1>2, <1>4, <1>5, <2>2 DEF InOrder
  <2>3. CASE f \in F
    <3>1. f.at = at /\ (g \in Seen \/ g \in F)
      BY <1>3, <1>5, <2>3
    <3>2. ~(f.at < g.at)
      BY <1>2, <1>4, <1>5, <3>1
    <3> QED
      BY <1>6, <3>2
  <2> QED
    BY <1>3, <2>1, <2>2, <2>3
<1>7. \A f \in Seen' : f.kind = "plain" /\ f.body \subseteq 1..fed'
  BY <1>2, <1>3, <1>4, <1>5
<1>8. BodiesInOrder'
  <2>1. \A f, g \in Seen' : f.at < g.at => InOrder(f, g)'
    BY <1>6 DEF InOrder
  <2> QED
    BY <1>7, <2>1 DEF BodiesInOrder
<1> QED
  BY <1>7, <1>8 DEF DatagramOrder, BlocksInOrder, ParityLast

\* ... and so does tx_fec_data.
LEMMA DatagramOrderShards ==
  ASSUME TypeOK, OpenBlockTraced, FramesTraced, FramesNumbered, DatagramOrder, MaxFeed < Mod,
         TxK > 0, TxStep, heard' = heard
  PROVE  DatagramOrder'
<1> DEFINE D == DataFrame
           P == ParityFrame
<1>1. PICK F \in SUBSET {D, P} :
        /\ air' = air \cup F /\ Feed
        /\ tx'.block = OpenBlock
        /\ \/ tx'.shards = tx.shards + 1 /\ F \subseteq {D}
           \/ tx'.shards = 0 /\ tx.shards + 1 = TxK
  BY ShardsBuilt
<1>2. /\ fed' = fed + 1 /\ fed \in Nat /\ at \in Nat /\ tx.shards \in Nat /\ tx.block \in Nat
      /\ tx.shards <= fed
  BY <1>1 DEF Feed, TypeOK, TxTypeOK, OpenBlockTraced
<1>3. /\ OpenBlock = IF tx.shards = 0 THEN tx.block + 1 ELSE tx.block
      /\ FoldedParity = (fed - tx.shards + 1)..(fed + 1)
  BY <1>1, NextShard DEF TypeOK, Feed
<1>4. /\ D.kind = "data" /\ D.block = OpenBlock /\ D.body = {fed + 1} /\ D.at = at
      /\ P.kind = "parity" /\ P.block = OpenBlock /\ P.at = at + 1
      /\ P.body = (fed - tx.shards + 1)..(fed + 1)
  BY <1>3, ShardFields DEF DataFrame, Data, ParityFrame, Parity
<1> HIDE DEF D, P
<1>5. Seen' = Seen \cup F
  BY <1>1 DEF Seen
<1>6. ASSUME NEW f \in Seen
      PROVE  /\ f.kind \in {"data", "parity"} /\ f.body \subseteq 1..fed /\ f.at < at /\ f.at \in Nat
             /\ f.block \in Nat /\ f.block <= tx.block
             /\ f.kind = "parity" => f.block < OpenBlock
             /\ f.kind = "data" => \E n \in 1..fed : f.body = {n}
  <2>1. f \in Frames /\ FrameTraced(f)
    BY DEF Seen, TypeOK, TxTypeOK, RxTypeOK, FramesTraced
  <2>2. f.kind # "plain" /\ f.body \subseteq 1..fed
    BY DEF DatagramOrder, BodiesInOrder
  <2>3. f.at < at /\ f.at \in Nat /\ f.block \in Nat /\ f.kind \in {"data", "parity"}
    BY <2>1, <2>2, FrameFields DEF FramesNumbered
  <2>4. f.block <= tx.block /\ (f.kind = "parity" /\ f.block = tx.block => tx.shards = 0)
        /\ (f.kind = "data" => \E n \in 1..fed : f.body = {n})
    BY <2>1, <2>2 DEF FrameTraced
  <2>5. f.kind = "parity" => f.block < OpenBlock
    BY <1>2, <1>3, <2>3, <2>4
  <2> QED
    BY <2>2, <2>3, <2>4, <2>5
<1>7. OpenBlock \in Nat /\ tx.block <= OpenBlock
  BY <1>2, <1>3
<1>8. \A f \in Seen' : f.body \subseteq 1..fed' /\ f.kind # "plain"
  <2>1. D.body \subseteq 1..fed' /\ P.body \subseteq 1..fed'
    BY <1>2, <1>4
  <2>2. 1..fed \subseteq 1..fed'
    BY <1>2
  <2> QED
    BY <1>4, <1>5, <1>6, <2>1, <2>2
<1>9. ASSUME NEW f \in Seen', NEW g \in Seen', f.at < g.at, g.kind = "parity" => f.kind = "parity"
      PROVE  \A m \in f.body, n \in g.body : m < n
  <2>1. CASE f \in Seen /\ g \in Seen
    BY <1>9, <2>1 DEF DatagramOrder, BodiesInOrder, InOrder
  <2>2. CASE f \in Seen /\ g = D
    BY <1>2, <1>4, <1>6, <2>2
  <2>3. CASE f \in Seen /\ g = P
    <3>1. \A m \in f.body : m \in Int /\ m <= fed - tx.shards
      BY <1>4, <1>6, <1>9, <2>3 DEF DatagramOrder, ParityLast
    <3> QED
      BY <1>2, <1>4, <2>3, <3>1
  <2>4. CASE f = D /\ g = P
    BY <1>4, <1>9, <2>4
  <2>5. CASE f \in {D, P} /\ ~(f = D /\ g = P)
    BY <1>2, <1>4, <1>5, <1>6, <1>9, <2>5
  <2> QED
    BY <1>5, <2>1, <2>2, <2>3, <2>4, <2>5
<1>10. BodiesInOrder'
  <2>1. \A f, g \in Seen' : f.at < g.at /\ (g.kind = "parity" => f.kind = "parity") => InOrder(f, g)'
    BY <1>9 DEF InOrder
  <2> QED
    BY <1>8, <2>1 DEF BodiesInOrder
<1>11. BlocksInOrder'
  <2>1. ASSUME NEW f \in Seen', NEW g \in Seen', f.at < g.at PROVE f.block <= g.block
    <3>1. CASE f \in Seen /\ g \in Seen
      BY <1>6, <2>1, <3>1 DEF DatagramOrder, BlocksInOrder
    <3>2. CASE f \in Seen /\ g \in {D, P}
      BY <1>2, <1>4, <1>6, <1>7, <3>2
    <3>3. CASE f \in {D, P}
      BY <1>2, <1>4, <1>5, <1>6, <1>7, <2>1, <3>3, SMTT(40)
    <3> QED
      BY <1>5, <3>1, <3>2, <3>3
  <2>2. ASSUME NEW p \in Seen', NEW q \in Seen', p.kind = "parity", q.kind = "parity",
               p.block = q.block
        PROVE  p = q
    <3>1. CASE p \in Seen /\ q \in Seen
      BY <2>2, <3>1 DEF DatagramOrder, BlocksInOrder
    <3>2. CASE p \in Seen /\ q = P
      BY <1>4, <1>6, <1>7, <2>2, <3>2
    <3>3. CASE p = P /\ q \in Seen
      BY <1>4, <1>6, <1>7, <2>2, <3>3
    <3> QED
      BY <1>4, <1>5, <2>2, <3>1, <3>2, <3>3
  <2> QED
    BY <2>1, <2>2 DEF BlocksInOrder
<1>12. \A p \in Seen' : p.kind = "parity" => \A n \in p.body : n <= fed' - tx'.shards
  <2>1. ASSUME NEW p \in Seen, p.kind = "parity", NEW n \in p.body PROVE n <= fed' - tx'.shards
    <3>1. n <= fed - tx.shards /\ n \in Int /\ n <= fed
      BY <1>6, <2>1 DEF DatagramOrder, ParityLast
    <3> QED
      BY <1>1, <1>2, <3>1
  <2>2. P \in F => tx'.shards = 0
    BY <1>1, <1>4
  <2>3. ASSUME P \in F, NEW n \in P.body PROVE n <= fed' - tx'.shards
    <3>1. n <= fed + 1 /\ fed' - tx'.shards = fed + 1
      BY <1>2, <1>4, <2>2, <2>3
    <3> QED
      BY <3>1
  <2> QED
    BY <1>4, <1>5, <2>1, <2>3
<1>13. \A d \in Seen' : d.kind = "data" => \A n \in d.body : n > fed' - tx'.shards => d.block = tx'.block
  <2>1. ASSUME NEW d \in Seen, d.kind = "data", NEW n \in d.body, n > fed' - tx'.shards
        PROVE  d.block = tx'.block
    <3>1. n \in Int /\ n <= fed
      BY <1>6
    <3>2. tx'.shards = tx.shards + 1 /\ n > fed - tx.shards /\ tx.shards > 0
      BY <1>1, <1>2, <2>1, <3>1
    <3>3. d.block = tx.block
      BY <2>1, <3>2 DEF DatagramOrder, ParityLast
    <3> QED
      BY <1>1, <1>2, <1>3, <3>2, <3>3
  <2> QED
    BY <1>1, <1>4, <1>5, <2>1
<1>14. ASSUME NEW d \in Seen', NEW p \in Seen', d.kind = "data", p.kind = "parity"
       PROVE  /\ d.body \subseteq p.body => d.block = p.block
              /\ d.block = p.block => d.at < p.at
              /\ d.at < p.at => \A m \in d.body : \E n \in p.body : m <= n
  <2>1. CASE d \in Seen /\ p \in Seen
    BY <1>14, <2>1 DEF DatagramOrder, ParityLast
  <2>2. CASE d \in Seen /\ p = P
    <3>1. PICK n \in 1..fed : d.body = {n}
      BY <1>6, <1>14, <2>2
    <3>2. fed + 1 \in P.body /\ n <= fed + 1
      BY <1>2, <1>4
    <3>3. ASSUME d.body \subseteq p.body PROVE d.block = p.block
      <4>1. n > fed - tx.shards /\ tx.shards > 0
        BY <1>2, <1>4, <2>2, <3>1, <3>3
      <4>2. d.block = tx.block
        BY <1>14, <2>2, <3>1, <4>1 DEF DatagramOrder, ParityLast
      <4> QED
        BY <1>2, <1>3, <1>4, <2>2, <4>1, <4>2
    <3>4. d.at < p.at
      BY <1>2, <1>4, <1>6, <2>2
    <3> QED
      BY <2>2, <3>1, <3>2, <3>3, <3>4
  <2>3. CASE d = D /\ p \in Seen
    <3>1. fed + 1 \notin p.body
      BY <1>2, <1>6, <2>3
    <3>2. d.block # p.block
      BY <1>4, <1>6, <1>7, <1>14, <2>3
    <3>3. ~(d.at < p.at)
      BY <1>2, <1>4, <1>6, <2>3
    <3> QED
      BY <1>4, <2>3, <3>1, <3>2, <3>3
  <2>4. CASE d = D /\ p = P
    <3>1. d.block = p.block /\ d.at < p.at
      BY <1>2, <1>4, <2>4
    <3>2. fed + 1 \in p.body /\ d.body = {fed + 1} /\ fed + 1 <= fed + 1
      BY <1>2, <1>4, <2>4
    <3> QED
      BY <3>1, <3>2
  <2> QED
    BY <1>4, <1>5, <1>14, <2>1, <2>2, <2>3, <2>4
<1> QED
  BY <1>10, <1>11, <1>12, <1>13, <1>14 DEF DatagramOrder, ParityLast

\* Every step keeps it, whatever the radio does to the frames on the air.
LEMMA DatagramOrderStep ==
  ASSUME MaxFeed < Mod, "tx" \notin Restarts, TypeOK, Provenance, FramesNumbered, DatagramOrder,
         [Next]_vars
  PROVE  DatagramOrder'
<1>1. CASE Transmit
  <2>1. TxStep /\ heard' = heard
    BY <1>1 DEF Transmit, rxVars
  <2>2. TxK = 0 \/ TxK > 0
    OBVIOUS
  <2> QED
    BY <2>1, <2>2, DatagramOrderPlain, DatagramOrderShards DEF Provenance
<1>2. CASE Receive \/ RestartRx \/ UNCHANGED vars
  <2>1. Seen' \subseteq Seen /\ fed' = fed /\ tx' = tx
    BY <1>2 DEF Receive, RxFrame, Deliver, DeliverAgain, Behind, RestartRx, RxRestart, txVars,
                vars, Seen
  <2> QED
    BY <2>1 DEF DatagramOrder, BodiesInOrder, InOrder, BlocksInOrder, ParityLast
<1>3. CASE RestartTx
  BY <1>3 DEF RestartTx
<1> QED
  BY <1>1, <1>2, <1>3 DEF Next

-----------------------------------------------------------------------------
\* What the receiver holds and has emitted, on a radio that keeps the order.
NewestBlock(f) ==
  f.kind # "plain" /\ \A g \in heard : g.kind # "plain" => g.block <= f.block

\* Block b has an entry with all that was heard of it.
TableHas(b) ==
  \E s \in Slots :
    /\ slots[s].used /\ slots[s].block = b
    /\ \A f \in heard :
         f.block = b => /\ f.kind = "data" /\ f.idx \in Shards => f.idx \in slots[s].got
                        /\ f.kind = "parity" => slots[s].gotParity

\* The block being received is not evicted before a newer one arrives.
EntryComplete == TxK = RxK => \A f \in heard : NewestBlock(f) => TableHas(f.block)

\* An emission is the payload of a frame heard, or comes out of a parity shard
\* heard and was in no other.
EmissionTraced(e) ==
  \/ /\ e.via = "direct"
     /\ \E d \in heard : d.kind # "parity" /\ d.body = e.body
  \/ /\ e.via = "fec"
     /\ \E p \in heard : p.kind = "parity" /\ e.body \subseteq p.body
     /\ \A d \in heard : d.kind # "parity" => d.body # e.body

EmissionsTraced == \A i \in DOMAIN out : EmissionTraced(out[i])

\* Only a repaired datagram comes out behind a newer one, of its own block.
SwappedWithinBlock ==
  \A i, j \in DOMAIN out :
    \A m \in out[i].body, n \in out[j].body :
      i < j /\ n < m =>
        /\ out[j].via = "fec"
        /\ \E p \in heard : p.kind = "parity" /\ m \in p.body /\ n \in p.body

\* What the proofs below assume of a state, proved above.
Traced == TypeOK /\ SlotTable /\ Provenance /\ FramesNumbered /\ RadioOrder /\ DatagramOrder

\* A frame about to be heard is newer than all those heard.
LEMMA NextFrame ==
  ASSUME Traced, NEW f \in air
  PROVE  /\ f \in Frames /\ f \in Seen /\ FrameTraced(f) /\ f.at \in Nat /\ f.block \in 0..(Mod - 1)
         /\ \A g \in heard : /\ g \in Frames /\ g \in Seen /\ FrameTraced(g) /\ g.at < f.at
                             /\ g.kind # "plain" /\ f.kind # "plain" => g.block <= f.block
<1>1. f \in Frames /\ f \in Seen /\ FrameTraced(f)
  BY DEF Traced, TypeOK, TxTypeOK, Seen, Provenance, FramesTraced
<1>2. \A g \in heard : g \in Frames /\ g \in Seen /\ FrameTraced(g) /\ g.at < f.at
  BY DEF Traced, TypeOK, RxTypeOK, Seen, Provenance, FramesTraced, RadioOrder
<1>3. \A g \in heard : g.kind # "plain" /\ f.kind # "plain" => g.block <= f.block
  BY <1>1, <1>2 DEF Traced, DatagramOrder, BlocksInOrder
<1> QED
  BY <1>1, <1>2, <1>3, FrameFields

\* No parity shard of its block has been heard before a frame, data or parity.
LEMMA ParityNotBefore ==
  ASSUME Traced, NEW f \in air, f.kind # "plain", NEW p \in heard, p.kind = "parity"
  PROVE  p.block # f.block
<1> SUFFICES ASSUME p.block = f.block PROVE FALSE
  OBVIOUS
<1>1. p \in Seen /\ f \in Seen /\ p.at < f.at /\ f.at \in Nat /\ p.at \in Nat
  BY NextFrame, FrameFields
<1>2. CASE f.kind = "data"
  <2>1. f.at < p.at
    BY <1>1, <1>2 DEF Traced, DatagramOrder, ParityLast
  <2> QED
    BY <1>1, <2>1
<1>3. CASE f.kind = "parity"
  <2>1. p = f
    BY <1>1, <1>3 DEF Traced, DatagramOrder, BlocksInOrder
  <2> QED
    BY <1>1, <2>1
<1> QED
  BY <1>2, <1>3, NextFrame, FrameFields

\* So the entry it finds has none.
LEMMA NoParityYet ==
  ASSUME Traced, NEW f \in air, f.kind # "plain"
  PROVE  /\ BlockGet(f.block) \in Blocks /\ BlockGet(f.block).block = f.block
         /\ EntryTraced(BlockGet(f.block)) /\ ~BlockGet(f.block).gotParity
<1>1. slots \in [Slots -> Blocks] /\ EntriesTraced
  BY DEF Traced, TypeOK, RxTypeOK, Provenance
<1>2. PICK g \in Blocks : g = BlockGet(f.block) /\ g.block = f.block /\ EntryTraced(g)
  BY <1>1, NextFrame, BlockGetTyped, BlockGetTraced
<1> QED
  BY <1>2, ParityNotBefore DEF EntryTraced

\* The entry a frame finds has every data shard heard of its block.
LEMMA BlockSoFar ==
  ASSUME Traced, EntryComplete, TxK = RxK, NEW f \in air, f.kind # "plain",
         NEW d \in heard, d.kind = "data", d.block = f.block, d.idx \in Shards
  PROVE  d.idx \in BlockGet(f.block).got
<1>1. NewestBlock(d)
  BY NextFrame DEF NewestBlock
<1>2. PICK s \in Slots : slots[s].used /\ slots[s].block = f.block /\ d.idx \in slots[s].got
  BY <1>1 DEF EntryComplete, TableHas
<1>3. SlotFor(f.block) = s
  BY <1>2, EntryFound DEF Traced, TypeOK, RxTypeOK
<1> QED
  BY <1>2, <1>3 DEF BlockGet

\* What a frame of the receiver's geometry leaves in the entry of its block.
LEMMA EntryWritten ==
  ASSUME RxTypeOK, NEW f \in Frames, RxFrame(f), f.kind # "plain", f.shards = RxK, RxK > 0
  PROVE  \E blk \in Blocks :
           /\ slots' = [slots EXCEPT ![SlotFor(f.block)] = blk]
           /\ blk.used /\ blk.block = f.block
           /\ BlockGet(f.block).got \subseteq blk.got
           /\ f.kind = "data" /\ f.idx \in Shards => f.idx \in blk.got
           /\ BlockGet(f.block).gotParity \/ f.kind = "parity" => blk.gotParity
<1>1. PICK g \in Blocks : g = BlockGet(f.block) /\ g.used /\ g.block = f.block
  BY BlockGetTyped, FrameFields DEF RxTypeOK
<1>2. ASSUME NEW blk \in Blocks, NEW direct, NEW st, Repair(f, blk, direct, st)
      PROVE  \E b \in Blocks :
               /\ slots' = [slots EXCEPT ![SlotFor(f.block)] = b]
               /\ b.used = blk.used /\ b.block = blk.block /\ b.got = blk.got
               /\ b.gotParity = blk.gotParity
  <2>1. PICK result \in {"idle", "complete", "unusable", "repaired"} :
          /\ RepairMay(blk, result)
          /\ slots' = [slots EXCEPT ![SlotFor(f.block)] =
               [blk EXCEPT !.recovered = @ \/ result \in {"complete", "repaired"}]]
    BY <1>2 DEF Repair
  <2> DEFINE b == [blk EXCEPT !.recovered = @ \/ result \in {"complete", "repaired"}]
  <2>2. /\ b \in Blocks /\ b.used = blk.used /\ b.block = blk.block /\ b.got = blk.got
        /\ b.gotParity = blk.gotParity
    BY DEF Blocks
  <2> QED
    BY <2>1, <2>2
<1>3. CASE RxBadIndex(f)
  <2>1. slots' = [slots EXCEPT ![SlotFor(f.block)] = g] /\ f.idx \notin Shards /\ f.kind = "data"
    BY <1>1, <1>3 DEF RxBadIndex
  <2> QED
    BY <1>1, <2>1
<1>4. CASE RxData(f)
  <2>1. f.idx \in Shards /\ f.kind = "data"
    BY <1>4 DEF RxData
  <2>2. PICK blk \in Blocks : blk = WithData(g, f)
    BY <2>1, WithTyped
  <2>3. /\ blk.used /\ blk.block = f.block /\ blk.got = g.got \cup {f.idx}
        /\ blk.gotParity = g.gotParity
    <3>1. CASE f.idx \in g.got
      BY <1>1, <2>2, <3>1 DEF WithData
    <3>2. CASE f.idx \notin g.got
      <4>1. blk = [[g EXCEPT !.got = @ \cup {f.idx}] EXCEPT !.data[f.idx] = f.body]
        BY <2>2, <3>2 DEF WithData
      <4> QED
        BY <1>1, <4>1 DEF Blocks
    <3> QED
      BY <3>1, <3>2
  <2>4. \E direct, st : Repair(f, blk, direct, st)
    BY <1>1, <1>4, <2>2 DEF RxData
  <2> QED
    BY <1>1, <1>2, <2>1, <2>3, <2>4
<1>5. CASE RxParity(f)
  <2>1. PICK blk \in Blocks : blk = WithParity(g, f)
    BY WithTyped
  <2>2. blk.used /\ blk.block = f.block /\ blk.got = g.got /\ blk.gotParity
    BY <1>1, <2>1 DEF WithParity, Blocks
  <2>3. \E direct, st : Repair(f, blk, direct, st)
    BY <1>1, <1>5, <2>1 DEF RxParity
  <2>4. f.kind = "parity"
    BY <1>5 DEF RxParity
  <2> QED
    BY <1>1, <1>2, <2>2, <2>3, <2>4
<1> QED
  BY <1>3, <1>4, <1>5 DEF RxFrame, RxPlain, RxRefused

-----------------------------------------------------------------------------
\* rx_fec_payload keeps the entry of the block being received complete, ...
LEMMA EntryCompleteStep ==
  ASSUME Traced, EntryComplete, NEW f \in air, RxFrame(f)
  PROVE  EntryComplete'
<1> SUFFICES ASSUME TxK = RxK, NEW h \in heard', NewestBlock(h)'
             PROVE  \E s \in Slots :
                      /\ slots'[s].used /\ slots'[s].block = h.block
                      /\ \A d \in heard' : d.block = h.block =>
                           /\ d.kind = "data" /\ d.idx \in Shards => d.idx \in slots'[s].got
                           /\ d.kind = "parity" => slots'[s].gotParity
  BY DEF EntryComplete, TableHas
<1>1. heard' = heard \cup {f}
  BY DEF RxFrame
<1>2. \A g \in heard' : FrameTraced(g) /\ g \in Seen
  BY <1>1, NextFrame
<1>3. h.kind # "plain" /\ TxK > 0 /\ f.kind # "plain" /\ f.shards = RxK
  <2>1. h.kind # "plain" /\ TxK > 0
    BY <1>2 DEF NewestBlock, FrameTraced
  <2>2. f.kind # "plain"
    BY <1>1, <1>2, <2>1 DEF Traced, DatagramOrder, BodiesInOrder
  <2> QED
    BY <1>1, <1>2, <2>1, <2>2 DEF FrameTraced
<1>4. h.block = f.block
  <2>1. f.block <= h.block /\ f.block \in Int /\ h.block \in Int
    BY <1>1, <1>3, NextFrame, FrameFields DEF NewestBlock
  <2>2. h.block <= f.block
    BY <1>1, <1>3, <2>1, NextFrame
  <2> QED
    BY <2>1, <2>2
<1>5. PICK blk \in Blocks :
        /\ slots' = [slots EXCEPT ![SlotFor(f.block)] = blk]
        /\ blk.used /\ blk.block = f.block
        /\ BlockGet(f.block).got \subseteq blk.got
        /\ f.kind = "data" /\ f.idx \in Shards => f.idx \in blk.got
        /\ f.kind = "parity" => blk.gotParity
  BY <1>3, NextFrame, EntryWritten DEF Traced, TypeOK
<1>6. slots'[SlotFor(f.block)] = blk /\ SlotFor(f.block) \in Slots
  BY <1>5, SlotForEntry DEF Traced, TypeOK, RxTypeOK
<1>7. ASSUME NEW d \in heard', d.kind = "data", d.block = h.block, d.idx \in Shards
      PROVE  d.idx \in blk.got
  BY <1>1, <1>3, <1>4, <1>5, <1>7, BlockSoFar
<1>8. ASSUME NEW p \in heard', p.kind = "parity", p.block = h.block PROVE blk.gotParity
  BY <1>1, <1>3, <1>4, <1>5, <1>8, ParityNotBefore
<1> QED
  BY <1>4, <1>5, <1>6, <1>7, <1>8

\* ... and every other step does.
LEMMA EntryCompleteNext ==
  ASSUME Traced, EntryComplete, [Next]_vars
  PROVE  EntryComplete'
<1>1. CASE Receive
  BY <1>1, EntryCompleteStep DEF Receive
<1>2. CASE RestartRx
  BY <1>2 DEF RestartRx, RxRestart, EntryComplete
<1>3. CASE Transmit \/ RestartTx \/ UNCHANGED vars
  <2>1. heard' = heard /\ slots' = slots
    BY <1>3 DEF Transmit, RestartTx, rxVars, vars
  <2> QED
    BY <2>1 DEF EntryComplete, TableHas, NewestBlock
<1> QED
  BY <1>1, <1>2, <1>3 DEF Next

-----------------------------------------------------------------------------
\* What one frame makes the receiver emit: its own payload, or the datagram
\* that was in no frame heard of the block it completes.
EmittedDirect(f) ==
  f.kind # "parity" /\ out' = Append(out, [body |-> f.body, via |-> "direct"])

EmittedRepaired(f) ==
  /\ f.kind = "parity"
  /\ \E n \in f.body :
       /\ out' = Append(out, [body |-> {n}, via |-> "fec"])
       /\ \A d \in heard : d.kind # "parity" => d.body # {n}

\* A data shard does not complete a block: its parity shard is still to come.
LEMMA NoRepairByData ==
  ASSUME Traced, NEW f \in air, RxData(f)
  PROVE  out' = out \/ EmittedDirect(f)
<1>1. f \in Frames /\ out \in Seq(Emissions)
  BY NextFrame DEF Traced, TypeOK, RxTypeOK
<1>2. PICK ok \in BOOLEAN :
        Repair(f, WithData(BlockGet(f.block), f), Direct(f, ok), Counted(Accounted(f), ok))
  BY DEF RxData, EmitOK
<1>3. PICK g \in Blocks : g = BlockGet(f.block) /\ ~g.gotParity
  BY NoParityYet DEF RxData
<1>4. ~WithData(g, f).gotParity
  BY <1>3 DEF WithData, Blocks
<1>5. out' = out \o Direct(f, ok) \o <<>>
  BY <1>2, <1>3, <1>4 DEF Repair, RepairMay, Pending
<1>6. CASE ok
  <2>1. f.body \in SUBSET Nat
    BY <1>1, FrameFields
  <2>2. [body |-> f.body, via |-> "direct"] \in Emissions
    BY <2>1 DEF Emissions
  <2>3. PICK e \in Emissions : e = [body |-> f.body, via |-> "direct"]
    BY <2>2
  <2>4. out' = out \o <<e>> \o <<>>
    BY <1>5, <1>6, <2>3 DEF Direct, Emitted
  <2>5. out' = Append(out, e)
    BY <1>1, <2>4
  <2> QED
    BY <2>3, <2>5 DEF EmittedDirect, RxData
<1>7. CASE ~ok
  BY <1>1, <1>5, <1>7 DEF Direct
<1> QED
  BY <1>6, <1>7

\* What a parity shard repairs was in no frame heard.
LEMMA RepairIsNew ==
  ASSUME Traced, EntryComplete, NEW f \in air, RxParity(f), heard' = heard \cup {f},
         NEW blk \in Blocks, blk = WithParity(BlockGet(f.block), f), OneMissing(blk)
  PROVE  \E n \in f.body :
           RecoveredBody(blk) = {n} /\ \A d \in heard : d.kind # "parity" => d.body # {n}
<1>1. PICK g \in Blocks : /\ g = BlockGet(f.block) /\ g.block = f.block /\ EntryTraced(g)
  BY NoParityYet DEF RxParity
<1>2. f \in Frames /\ f \in Seen /\ FrameTraced(f) /\ f.kind = "parity" /\ f.shards = RxK /\ RxK > 0
  BY NextFrame DEF RxParity
<1>3. heard' \in SUBSET Seen /\ f \in heard' /\ heard \subseteq heard'
  BY <1>2 DEF Seen
<1>4. EntryTraced(blk)' /\ blk.block = f.block
  BY <1>1, <1>2, <1>3, ShardAdded
<1>5. blk.gotParity /\ blk.parity = f.body /\ blk.got = g.got
  BY <1>1 DEF WithParity, Blocks
<1>6. \A i \in blk.got : \E d \in heard' : /\ d.kind = "data" /\ d.idx = i
                                           /\ d.block = blk.block /\ d.body = blk.data[i]
  BY <1>4 DEF EntryTraced
<1>7. RecoveredFrom(blk, f)
  <2>1. TypeOK /\ FramesTraced
    BY DEF Traced, Provenance
  <2> QED
    BY <1>2, <1>3, <1>4, <1>5, <1>6, <2>1, RecoveredShard
<1>8. PICK a \in Nat, m \in Shards :
        /\ a + TxK <= fed /\ f.body = (a + 1)..(a + TxK) /\ ShardsFrom(f.block, a)
        /\ Missing(blk) = {m} /\ RecoveredBody(blk) = {a + 1 + m}
  BY <1>4, <1>7 DEF RecoveredFrom
<1>9. TxK = RxK
  BY <1>2 DEF FrameTraced
<1>10. a + 1 + m \in f.body
  BY <1>8, <1>9 DEF Shards
<1>11. ASSUME NEW d \in heard, d.kind # "parity", d.body = {a + 1 + m}
       PROVE  FALSE
  <2>1. d \in Frames /\ d \in Seen /\ d.kind = "data"
    BY <1>2, <1>9, <1>11, NextFrame, FrameFields DEF Traced, DatagramOrder, BodiesInOrder
  <2>2. d.block = f.block
    BY <1>2, <1>10, <1>11, <2>1 DEF Traced, DatagramOrder, ParityLast
  <2>3. d.body = {a + 1 + d.idx} /\ d.idx \in Nat
    BY <1>8, <2>1, <2>2 DEF ShardsFrom, Frames
  <2>4. d.idx = m
    <3>1. m \in Nat
      BY DEF Shards
    <3>2. a + 1 + d.idx = a + 1 + m
      BY <1>11, <2>3
    <3> QED
      BY <2>3, <3>1, <3>2
  <2>5. m \in BlockGet(f.block).got
    BY <1>2, <1>9, <2>1, <2>2, <2>4, BlockSoFar
  <2> QED
    BY <1>1, <1>5, <1>8, <2>5 DEF Missing
<1> QED
  BY <1>8, <1>10, <1>11

\* What the receiver emits for one frame: nothing, its payload, or a repair.
LEMMA EmittedInOrder ==
  ASSUME Traced, EntryComplete, NEW f \in air, RxFrame(f)
  PROVE  out' = out \/ EmittedDirect(f) \/ EmittedRepaired(f)
<1>1. f \in Frames /\ out \in Seq(Emissions) /\ heard' = heard \cup {f}
  BY NextFrame DEF Traced, TypeOK, RxTypeOK, RxFrame
<1>2. CASE RxPlain(f)
  <2>1. PICK ok \in BOOLEAN : out' = out \o Direct(f, ok)
    BY <1>2 DEF RxPlain, EmitOK
  <2>2. f.body \in SUBSET Nat
    BY <1>1, FrameFields
  <2>3. PICK e \in Emissions : e = [body |-> f.body, via |-> "direct"]
    BY <2>2 DEF Emissions
  <2>4. CASE ok
    <3>1. out' = out \o <<e>>
      BY <2>1, <2>3, <2>4 DEF Direct, Emitted
    <3>2. out' = Append(out, e)
      BY <1>1, <3>1
    <3> QED
      BY <1>2, <2>3, <3>2 DEF EmittedDirect, RxPlain
  <2>5. CASE ~ok
    BY <1>1, <2>1, <2>5 DEF Direct
  <2> QED
    BY <2>4, <2>5
<1>3. CASE RxRefused(f) \/ RxBadIndex(f)
  BY <1>3 DEF RxRefused, RxBadIndex
<1>4. CASE RxData(f)
  BY <1>4, NoRepairByData
<1>5. CASE RxParity(f)
  <2>1. PICK blk \in Blocks : blk = WithParity(BlockGet(f.block), f)
    BY <1>1, <1>5, NoParityYet, WithTyped DEF RxParity
  <2>2. PICK result \in {"idle", "complete", "unusable", "repaired"} :
          /\ RepairMay(blk, result)
          /\ out' = out \o <<>> \o (IF result = "repaired"
                                    THEN Emitted("fec", RecoveredBody(blk)) ELSE <<>>)
    BY <1>5, <2>1 DEF RxParity, Repair
  <2>3. CASE result = "repaired"
    <3>1. OneMissing(blk)
      BY <2>2, <2>3 DEF RepairMay
    <3>2. PICK n \in f.body :
            RecoveredBody(blk) = {n} /\ \A d \in heard : d.kind # "parity" => d.body # {n}
      BY <1>1, <1>5, <2>1, <3>1, RepairIsNew
    <3>3. {n} \in SUBSET Nat
      BY <1>1, FrameFields
    <3>4. PICK e \in Emissions : e = [body |-> {n}, via |-> "fec"]
      BY <3>3 DEF Emissions
    <3>5. out' = out \o <<>> \o <<e>>
      BY <2>2, <2>3, <3>2, <3>4 DEF Emitted
    <3>6. out' = Append(out, e)
      BY <1>1, <3>5
    <3> QED
      BY <1>5, <3>2, <3>4, <3>6 DEF EmittedRepaired, RxParity
  <2>4. CASE result # "repaired"
    <3>1. out' = out \o <<>> \o <<>>
      BY <2>2, <2>4
    <3> QED
      BY <1>1, <3>1
  <2> QED
    BY <2>3, <2>4
<1> QED
  BY <1>2, <1>3, <1>4, <1>5 DEF RxFrame

-----------------------------------------------------------------------------
\* What the emissions say of the frames heard, and of each other.
EmissionOrder == EmissionsTraced /\ AtMostOnce /\ SwappedWithinBlock

\* One more emission, told from all before it.
LEMMA EmissionAppended ==
  ASSUME out \in Seq(Emissions), EmissionOrder, heard \subseteq heard',
         \A d \in Emissions : EmissionTraced(d) => EmissionTraced(d)',
         NEW e \in Emissions, out' = Append(out, e), EmissionTraced(e)',
         \A i \in DOMAIN out : out[i].body # e.body,
         \A i \in DOMAIN out : \A m \in out[i].body, n \in e.body :
           n < m => /\ e.via = "fec"
                    /\ \E p \in heard' : p.kind = "parity" /\ m \in p.body /\ n \in p.body
  PROVE  EmissionOrder'
<1> DEFINE N == Len(out)
<1>1. /\ N \in Nat /\ DOMAIN out = 1..N /\ DOMAIN out' = 1..(N + 1)
      /\ \A i \in 1..N : out'[i] = out[i]
      /\ out'[N + 1] = e
  OBVIOUS
<1> HIDE DEF N
<1>2. \A i \in DOMAIN out' : (i \in DOMAIN out /\ out'[i] = out[i]) \/ (i = N + 1 /\ out'[i] = e)
  BY <1>1
<1>3. EmissionsTraced'
  <2>1. ASSUME NEW i \in DOMAIN out' PROVE \E d \in Emissions : out'[i] = d /\ EmissionTraced(d)'
    <3>1. CASE i \in DOMAIN out /\ out'[i] = out[i]
      <4>1. PICK d \in Emissions : d = out[i]
        BY <3>1
      <4>2. EmissionTraced(d)
        BY <3>1, <4>1 DEF EmissionOrder, EmissionsTraced
      <4> QED
        BY <3>1, <4>1, <4>2
    <3>2. CASE out'[i] = e
      BY <3>2
    <3> QED
      BY <1>2, <3>1, <3>2
  <2> SUFFICES ASSUME NEW i \in DOMAIN out' PROVE EmissionTraced(out[i])'
    BY DEF EmissionsTraced
  <2>2. PICK d \in Emissions : out'[i] = d /\ EmissionTraced(d)'
    BY <2>1
  <2> QED
    BY <2>2 DEF EmissionTraced
<1>4. AtMostOnce'
  BY <1>2 DEF EmissionOrder, AtMostOnce
<1>5. SwappedWithinBlock'
  <2> SUFFICES ASSUME NEW i \in DOMAIN out', NEW j \in DOMAIN out',
                      NEW m \in out'[i].body, NEW n \in out'[j].body, i < j, n < m
               PROVE  /\ out'[j].via = "fec"
                      /\ \E p \in heard' : p.kind = "parity" /\ m \in p.body /\ n \in p.body
    BY DEF SwappedWithinBlock
  <2>1. i \in DOMAIN out /\ out'[i] = out[i]
    BY <1>1
  <2>2. CASE j \in DOMAIN out /\ out'[j] = out[j]
    BY <2>1, <2>2 DEF EmissionOrder, SwappedWithinBlock
  <2>3. CASE out'[j] = e
    BY <2>1, <2>3
  <2> QED
    BY <1>2, <2>2, <2>3
<1> QED
  BY <1>3, <1>4, <1>5 DEF EmissionOrder

\* Atoms of earlier emissions were heard.
LEMMA EmittedWasHeard ==
  ASSUME EmissionsTraced, NEW i \in DOMAIN out, NEW m \in out[i].body
  PROVE  \E g \in heard : m \in g.body /\ (g.kind = "parity" <=> out[i].via = "fec")
  BY DEF EmissionsTraced, EmissionTraced

\* A frame heard does not undo what is said of the emissions so far.
LEMMA EmissionsKept ==
  ASSUME Traced, NEW f \in air, heard' = heard \cup {f}
  PROVE  \A e \in Emissions : EmissionTraced(e) => EmissionTraced(e)'
<1> TAKE e \in Emissions
<1>1. ASSUME NEW p \in heard, p.kind = "parity", f.kind # "parity", f.body \subseteq p.body
      PROVE  FALSE
  <2>1. p \in Seen /\ f \in Seen /\ p.at < f.at /\ FrameTraced(f) /\ f \in Frames
    BY NextFrame
  <2>2. PICK n \in 1..fed : f.body = {n}
    BY <1>1, <2>1 DEF FrameTraced
  <2>3. n < n
    BY <1>1, <2>1, <2>2 DEF Traced, DatagramOrder, BodiesInOrder, InOrder
  <2>4. n \in Int
    BY <2>1, <2>2, FrameFields
  <2> QED
    BY <2>3, <2>4
<1> QED
  BY <1>1 DEF EmissionTraced

\* A payload that is passed on is newer than all that was emitted.
LEMMA DirectInOrder ==
  ASSUME Traced, EmissionOrder, NEW f \in air, heard' = heard \cup {f}, EmittedDirect(f)
  PROVE  EmissionOrder'
<1>1. f \in Frames /\ f \in Seen /\ FrameTraced(f) /\ f.kind # "parity"
  BY NextFrame DEF EmittedDirect
<1>2. PICK k \in 1..fed : f.body = {k}
  BY <1>1 DEF FrameTraced
<1>3. f.body \in SUBSET Nat /\ k \in Nat
  BY <1>1, <1>2, FrameFields
<1>4. PICK e \in Emissions : e = [body |-> f.body, via |-> "direct"]
  BY <1>3 DEF Emissions
<1>5. out' = Append(out, e) /\ out \in Seq(Emissions)
  BY <1>4 DEF EmittedDirect, Traced, TypeOK, RxTypeOK
<1>6. ASSUME NEW i \in DOMAIN out, NEW m \in out[i].body PROVE m < k /\ m \in Int
  <2>1. PICK g \in heard : m \in g.body
    BY <1>6, EmittedWasHeard DEF EmissionOrder
  <2>2. g \in Frames /\ g \in Seen /\ g.at < f.at
    BY NextFrame
  <2>3. m < k
    BY <1>1, <1>2, <2>1, <2>2 DEF Traced, DatagramOrder, BodiesInOrder, InOrder
  <2> QED
    BY <2>1, <2>2, <2>3, FrameFields
<1>7. EmissionTraced(e)'
  BY <1>1, <1>4 DEF EmissionTraced
<1>8. \A i \in DOMAIN out : out[i].body # e.body
  BY <1>2, <1>3, <1>4, <1>6
<1>9. \A i \in DOMAIN out : \A m \in out[i].body, n \in e.body : ~(n < m)
  BY <1>2, <1>3, <1>4, <1>6
<1>10. \A d \in Emissions : EmissionTraced(d) => EmissionTraced(d)'
  BY EmissionsKept
<1> QED
  BY <1>5, <1>7, <1>8, <1>9, <1>10, EmissionAppended

\* A repaired datagram is new and overtaken by its own block only.
LEMMA RepairedInOrder ==
  ASSUME Traced, EmissionOrder, NEW f \in air, heard' = heard \cup {f}, EmittedRepaired(f)
  PROVE  EmissionOrder'
<1>1. f \in Frames /\ f \in Seen /\ FrameTraced(f) /\ f.kind = "parity"
  BY NextFrame DEF EmittedRepaired
<1>2. PICK k \in f.body : /\ out' = Append(out, [body |-> {k}, via |-> "fec"])
                          /\ \A d \in heard : d.kind # "parity" => d.body # {k}
  BY DEF EmittedRepaired
<1>3. PICK a \in 0..(fed - TxK) : f.body = (a + 1)..(a + TxK)
  BY <1>1 DEF FrameTraced
<1>4. TxK > 0 /\ a \in Int /\ k \in Nat
  BY <1>1, FrameFields DEF FrameTraced
<1>5. PICK e \in Emissions : e = [body |-> {k}, via |-> "fec"]
  BY <1>4 DEF Emissions
<1>6. out' = Append(out, e) /\ out \in Seq(Emissions)
  BY <1>2, <1>5 DEF Traced, TypeOK, RxTypeOK
\* Earlier parity shards are of earlier datagrams.
<1>7. ASSUME NEW p \in heard, p.kind = "parity", NEW m \in p.body PROVE m < k /\ m \in Int
  <2>1. p \in Frames /\ p \in Seen /\ p.at < f.at
    BY NextFrame
  <2>2. m < k
    BY <1>1, <1>7, <2>1 DEF Traced, DatagramOrder, BodiesInOrder, InOrder
  <2> QED
    BY <1>7, <2>1, <2>2, FrameFields
<1>8. ASSUME NEW i \in DOMAIN out, NEW m \in out[i].body, k < m PROVE m \in f.body
  <2>1. PICK g \in heard : m \in g.body
    BY <1>8, EmittedWasHeard DEF EmissionOrder
  <2>2. g \in Frames /\ g \in Seen /\ g.at < f.at
    BY NextFrame
  <2>3. m \in Int /\ g.kind = "data"
    BY <1>4, <1>7, <1>8, <2>1, <2>2, FrameFields DEF Traced, DatagramOrder, BodiesInOrder
  <2>4. PICK n \in f.body : m <= n
    BY <1>1, <2>1, <2>2, <2>3 DEF Traced, DatagramOrder, ParityLast
  <2> QED
    BY <1>3, <1>4, <1>8, <2>3, <2>4
<1>9. \A i \in DOMAIN out : out[i].body # e.body
  <2> SUFFICES ASSUME NEW i \in DOMAIN out, out[i].body = {k} PROVE FALSE
    BY <1>5
  <2>1. EmissionTraced(out[i])
    BY DEF EmissionOrder, EmissionsTraced
  <2>2. ~(k < k)
    BY <1>4
  <2> QED
    BY <1>2, <1>7, <2>1, <2>2 DEF EmissionTraced
<1>10. \A i \in DOMAIN out : \A m \in out[i].body, n \in e.body :
         n < m => /\ e.via = "fec"
                  /\ \E p \in heard' : p.kind = "parity" /\ m \in p.body /\ n \in p.body
  BY <1>1, <1>2, <1>5, <1>8
<1>11. EmissionTraced(e)'
  <2>1. \A d \in heard' : d.kind # "parity" => d.body # e.body
    BY <1>1, <1>2, <1>5
  <2> QED
    BY <1>1, <1>2, <1>5, <2>1 DEF EmissionTraced
<1>12. \A d \in Emissions : EmissionTraced(d) => EmissionTraced(d)'
  BY EmissionsKept
<1> QED
  BY <1>6, <1>9, <1>10, <1>11, <1>12, EmissionAppended

-----------------------------------------------------------------------------
\* The invariant of the receiver on a radio that keeps the order.
ReceiverOrder == EntryComplete /\ EmissionOrder

\* Nothing has been emitted at first.
LEMMA ReceiverOrderInit == Init => ReceiverOrder
<1> SUFFICES ASSUME Init PROVE ReceiverOrder
  OBVIOUS
<1>1. heard = {} /\ out = <<>> /\ slots = [s \in Slots |-> NoBlock]
  BY DEF Init, RxInit
<1>2. EntryComplete
  BY <1>1 DEF EntryComplete
<1>3. DOMAIN out = {}
  BY <1>1
<1> QED
  BY <1>2, <1>3 DEF ReceiverOrder, EmissionOrder, EmissionsTraced, AtMostOnce, SwappedWithinBlock

\* Every step keeps the invariant while both ends run.
LEMMA ReceiverOrderStep ==
  ASSUME Restarts = {}, Traced, ReceiverOrder, [Next]_vars
  PROVE  ReceiverOrder'
<1> USE DEF ReceiverOrder
<1>0. EntryComplete'
  BY EntryCompleteNext
<1>1. CASE Receive
  <2>1. PICK f \in air : RxFrame(f) /\ heard' = heard \cup {f}
    BY <1>1 DEF Receive, RxFrame
  <2>2. CASE out' = out
    <3>1. ASSUME NEW i \in DOMAIN out
          PROVE  \E e \in Emissions : out'[i] = e /\ EmissionTraced(e)'
      <4>1. PICK e \in Emissions : e = out[i]
        BY DEF Traced, TypeOK, RxTypeOK
      <4>2. EmissionTraced(e)
        BY <4>1 DEF EmissionOrder, EmissionsTraced
      <4> QED
        BY <2>1, <2>2, <4>1, <4>2, EmissionsKept
    <3>2. EmissionsTraced'
      BY <2>2, <3>1 DEF EmissionsTraced, EmissionTraced
    <3>3. AtMostOnce' /\ SwappedWithinBlock'
      BY <2>1, <2>2 DEF EmissionOrder, AtMostOnce, SwappedWithinBlock
    <3> QED
      BY <1>0, <3>2, <3>3 DEF EmissionOrder
  <2>3. out' = out \/ EmittedDirect(f) \/ EmittedRepaired(f)
    BY <2>1, EmittedInOrder
  <2> QED
    BY <1>0, <2>1, <2>2, <2>3, DirectInOrder, RepairedInOrder
<1>2. CASE Transmit \/ UNCHANGED vars
  <2>1. heard' = heard /\ out' = out
    BY <1>2 DEF Transmit, rxVars, vars
  <2> QED
    BY <1>0, <2>1 DEF EmissionOrder, EmissionsTraced, EmissionTraced, AtMostOnce, SwappedWithinBlock
<1>3. CASE RestartTx \/ RestartRx
  BY <1>3 DEF RestartTx, RestartRx
<1> QED
  BY <1>1, <1>2, <1>3 DEF Next

\* All the proofs below need of a radio that keeps the order.
LEMMA OrderedInvariant ==
  ASSUME Ordered, MaxDup = 0, MaxFeed < Mod, Restarts = {}
  PROVE  Spec => [](Traced /\ ReceiverOrder)
<1> DEFINE OrderInv == FramesNumbered /\ RadioOrder /\ DatagramOrder /\ ReceiverOrder
<1>0. "tx" \notin Restarts
  OBVIOUS
<1>1. Init => OrderInv
  BY FramesNumberedInit, DatagramOrderInit, ReceiverOrderInit
<1>2. TypeOK /\ SlotTable /\ Provenance /\ OrderInv /\ [Next]_vars => OrderInv'
  BY <1>0, FramesNumberedStep, RadioOrderStep, DatagramOrderStep, ReceiverOrderStep DEF Traced
<1>3. TypeOK /\ SlotTable /\ Provenance /\ OrderInv => Traced /\ ReceiverOrder
  BY DEF Traced
<1>4. Spec => []Provenance
  BY <1>0, GenuineAlways, PTL
<1> QED
  BY <1>1, <1>2, <1>3, <1>4, TypeCorrect, SlotTableKept, PTL DEF Spec

\* On a radio that keeps the order and repeats nothing, no datagram is emitted
\* twice, neither received and repaired nor repaired twice: for every geometry
\* and table size, whatever is lost and whatever send fails.
THEOREM AtMostOnceKept ==
  ASSUME Ordered, MaxDup = 0, MaxFeed < Mod, Restarts = {}
  PROVE  Spec => []AtMostOnce
<1>1. ReceiverOrder => AtMostOnce
  BY DEF ReceiverOrder, EmissionOrder
<1> QED
  BY <1>1, OrderedInvariant, PTL

-----------------------------------------------------------------------------
\* As long as no send fails, block b is the datagrams TxK * (b - 1) + 1 ..
\* TxK * b, numbered by their shards.
Before(b) == TxK * (b - 1)

BlockAligned(f) ==
  /\ f.block > 0
  /\ f.kind = "data" => f.idx < TxK /\ f.body = {Before(f.block) + 1 + f.idx}
  /\ f.kind = "parity" =>
       f.idx = TxK /\ f.body = (Before(f.block) + 1)..(Before(f.block) + TxK)

Aligned ==
  /\ TxK > 0 =>
       /\ tx.shards < TxK
       /\ fed - tx.shards = IF tx.shards = 0 THEN TxK * tx.block ELSE Before(tx.block)
  /\ \A f \in Seen : f.kind # "plain" => BlockAligned(f)

\* One block more is TxK datagrams more.
LEMMA BlockAdded ==
  \A b \in Int : /\ Before(b) \in Int /\ TxK * b \in Int
                 /\ Before(b + 1) = TxK * b /\ Before(b) + TxK = TxK * b
  BY DEF Before

\* The first block starts with the first datagram.
LEMMA AlignedInit == Init => Aligned
<1> SUFFICES ASSUME Init PROVE Aligned
  OBVIOUS
<1>1. TxK * 0 = 0 /\ Seen = {}
  BY DEF Init, TxInit, RxInit, Seen
<1> QED
  BY <1>1 DEF Init, TxInit, TxBoot, Aligned

\* tx_fec_data closes a block after TxK datagrams and starts the next with the next one.
LEMMA AlignedTransmit ==
  ASSUME MaxFeed < Mod, ~SendMayFail, TypeOK, OpenBlockTraced, Aligned,
         TxK > 0, TxStep, heard' = heard
  PROVE  Aligned'
<1>1. PICK F \in SUBSET {DataFrame, ParityFrame} :
        /\ air' = air \cup F /\ Feed /\ tx'.block = OpenBlock
        /\ \/ tx.shards + 1 # TxK /\ tx'.shards = tx.shards + 1 /\ F \subseteq {DataFrame}
           \/ tx'.shards = 0 /\ tx.shards + 1 = TxK
  <2>1. CASE TxShard
    BY <2>1 DEF TxShard, Sent, OpenState
  <2>2. CASE TxBlockEnd
    BY <2>2 DEF TxBlockEnd, Sent, ClosedState
  <2> QED
    BY <2>1, <2>2 DEF TxStep, TxPlain, TxPlainDropped, TxShardDropped, TxParityDropped
<1>2. /\ fed' = fed + 1 /\ fed \in Nat /\ fed < MaxFeed
      /\ tx.shards \in Nat /\ tx.block \in Nat /\ tx.shards < TxK
  BY <1>1 DEF Feed, TypeOK, TxTypeOK, Aligned
<1>3. /\ OpenBlock = IF tx.shards = 0 THEN tx.block + 1 ELSE tx.block
      /\ FoldedParity = (fed - tx.shards + 1)..(fed + 1)
  BY <1>2, NextShard DEF TypeOK
<1>4. PICK b \in Int : b = OpenBlock
  BY <1>2, <1>3
<1>5. fed - tx.shards = Before(b) /\ b > 0
  <2>1. CASE tx.shards = 0
    <3>1. b = tx.block + 1 /\ tx.block \in Int /\ Before(tx.block + 1) = TxK * tx.block
      BY <1>2, <1>3, <1>4, <2>1, BlockAdded
    <3>2. fed - tx.shards = TxK * tx.block
      BY <2>1 DEF Aligned
    <3> QED
      BY <1>2, <3>1, <3>2
  <2>2. CASE tx.shards # 0
    <3>1. tx.block > 0
      <4>1. TxK * 0 = 0 /\ Before(0) + TxK = TxK * 0 /\ Before(0) \in Int
        BY BlockAdded
      <4>2. Before(tx.block) >= 0
        BY <1>2, <2>2 DEF Aligned, OpenBlockTraced
      <4>3. tx.block # 0
        BY <4>1, <4>2
      <4> QED
        BY <1>2, <4>3
    <3> QED
      BY <1>2, <1>3, <1>4, <2>2, <3>1 DEF Aligned
  <2> QED
    BY <2>1, <2>2
<1>6. PICK w \in Int : w = Before(b) /\ Before(b) + TxK = TxK * b
  BY BlockAdded
<1>7. BlockAligned(DataFrame)
  <2>1. tx.shards % IdxMod = tx.shards
    BY <1>2, ModSmall
  <2>2. DataFrame.idx = tx.shards /\ DataFrame.body = {fed + 1}
        /\ DataFrame.block = b /\ DataFrame.kind = "data"
    BY <1>4, <2>1, ShardFields
  <2>3. fed + 1 = w + 1 + tx.shards
    BY <1>2, <1>5, <1>6
  <2> QED
    BY <1>2, <1>5, <1>6, <2>2, <2>3 DEF BlockAligned
<1>8. tx.shards + 1 = TxK => BlockAligned(ParityFrame)
  <2>1. ParityFrame.idx = TxK /\ ParityFrame.block = b /\ ParityFrame.kind = "parity"
        /\ ParityFrame.body = (fed - tx.shards + 1)..(fed + 1)
    BY <1>3, <1>4, ShardFields DEF ParityFrame, Parity
  <2>2. tx.shards + 1 = TxK => fed - tx.shards + 1 = w + 1 /\ fed + 1 = w + TxK
    BY <1>2, <1>5, <1>6
  <2> QED
    BY <1>5, <1>6, <2>1, <2>2 DEF BlockAligned
<1>9. \A f \in Seen' : f.kind # "plain" => BlockAligned(f)
  <2>1. Seen' = Seen \cup F
    BY <1>1 DEF Seen
  <2>2. ParityFrame \in F => tx.shards + 1 = TxK
    <3>1. ParityFrame # DataFrame
      BY ShardFields
    <3> QED
      BY <1>1, <3>1
  <2> QED
    BY <1>1, <1>7, <1>8, <2>1, <2>2 DEF Aligned
<1>10. /\ tx'.shards < TxK
       /\ fed' - tx'.shards = IF tx'.shards = 0 THEN TxK * tx'.block ELSE Before(tx'.block)
  <2>1. CASE tx.shards + 1 # TxK /\ tx'.shards = tx.shards + 1
    BY <1>1, <1>2, <1>4, <1>5, <2>1
  <2>2. CASE tx'.shards = 0 /\ tx.shards + 1 = TxK
    <3>1. fed' - tx'.shards = w + TxK
      BY <1>2, <1>5, <1>6, <2>2
    <3> QED
      BY <1>1, <1>2, <1>4, <1>6, <2>2, <3>1
  <2> QED
    BY <1>1, <2>1, <2>2
<1> QED
  BY <1>9, <1>10 DEF Aligned, BlockAligned, Before

\* No other step builds frames.
LEMMA AlignedStep ==
  ASSUME MaxFeed < Mod, ~SendMayFail, "tx" \notin Restarts, TypeOK, Provenance, Aligned,
         [Next]_vars
  PROVE  Aligned'
<1>1. CASE Transmit
  <2>1. TxStep /\ heard' = heard
    BY <1>1 DEF Transmit, rxVars
  <2>2. CASE TxK > 0
    BY <2>1, <2>2, AlignedTransmit DEF Provenance
  <2>3. CASE TxK = 0
    <3>1. PICK F \in SUBSET {Plain(tx.seq, at, {fed + 1})} : air' = air \cup F
      BY <2>1, <2>3, PlainBuilt
    <3>2. \A f \in F : f.kind = "plain"
      BY DEF Plain
    <3> QED
      BY <2>1, <2>3, <3>1, <3>2 DEF Aligned, BlockAligned, Before, Seen
  <2> QED
    BY <2>2, <2>3
<1>2. CASE Receive \/ RestartRx \/ UNCHANGED vars
  <2>1. Seen' \subseteq Seen /\ fed' = fed /\ tx' = tx
    BY <1>2 DEF Receive, RxFrame, Deliver, DeliverAgain, Behind, RestartRx, RxRestart, txVars,
                vars, Seen
  <2> QED
    BY <2>1 DEF Aligned, BlockAligned, Before
<1>3. CASE RestartTx
  BY <1>3 DEF RestartTx
<1> QED
  BY <1>1, <1>2, <1>3 DEF Next

\* Aligned is kept without a restart of the transmitter, whatever the radio does.
LEMMA AlignedKept ==
  ASSUME MaxFeed < Mod, ~SendMayFail, "tx" \notin Restarts
  PROVE  Spec => []Aligned
<1>1. TypeOK /\ Provenance /\ Aligned /\ [Next]_vars => Aligned'
  BY AlignedStep
<1>2. Spec => []Provenance
  BY GenuineAlways, PTL
<1> QED
  BY <1>1, <1>2, AlignedInit, TypeCorrect, PTL DEF Spec

-----------------------------------------------------------------------------
\* The datagrams of one parity shard are those of one block.
LEMMA SameBlock ==
  ASSUME Aligned, NEW p \in Seen, p \in Frames, p.kind = "parity", TxK > 0, NEW m \in p.body
  PROVE  (m - 1) \div TxK = p.block - 1
<1>1. p.body = (Before(p.block) + 1)..(Before(p.block) + TxK)
  BY DEF Aligned, BlockAligned
<1>2. p.block \in Int
  BY FrameFields
<1> DEFINE q == p.block - 1
<1>3. q \in Int /\ Before(p.block) = TxK * q /\ TxK * q \in Int
  BY <1>2 DEF Before
<1> HIDE DEF q
<1>4. m \in Int /\ m - 1 - TxK * q \in 0..(TxK - 1)
  BY <1>1, <1>3
<1> DEFINE r == m - 1 - TxK * q
<1>5. m - 1 = TxK * q + r /\ m - 1 \in Int /\ r \in 0..(TxK - 1)
  BY <1>3, <1>4
<1> HIDE DEF r
<1> QED
  BY <1>3, <1>5, RemainderIs DEF q

\* On such a radio, when no send of the transmitter fails, datagrams come out
\* in order but for one that was repaired, which is late within its own block
\* only: for every geometry and table size, whatever is lost.
THEOREM OrderKept ==
  ASSUME Ordered, MaxDup = 0, MaxFeed < Mod, Restarts = {}, ~SendMayFail
  PROVE  Spec => []OrderKeptAcrossBlocks
<1>1. Traced /\ ReceiverOrder /\ Aligned => OrderKeptAcrossBlocks
  <2> SUFFICES ASSUME Traced, ReceiverOrder, Aligned,
                      NEW i \in DOMAIN out, NEW j \in DOMAIN out,
                      NEW m \in out[i].body, NEW n \in out[j].body, i < j, n < m
               PROVE  out[j].via = "fec" /\ (m - 1) \div TxK = (n - 1) \div TxK
    BY DEF OrderKeptAcrossBlocks
  <2>1. PICK p \in heard : p.kind = "parity" /\ m \in p.body /\ n \in p.body
    BY DEF ReceiverOrder, EmissionOrder, SwappedWithinBlock
  <2>2. out[j].via = "fec"
    BY DEF ReceiverOrder, EmissionOrder, SwappedWithinBlock
  <2>3. p \in Seen /\ p \in Frames /\ FrameTraced(p)
    BY DEF Traced, TypeOK, RxTypeOK, Provenance, FramesTraced, Seen
  <2>4. TxK > 0
    BY <2>1, <2>3 DEF FrameTraced
  <2> QED
    BY <2>1, <2>2, <2>3, <2>4, SameBlock
<1>2. "tx" \notin Restarts
  OBVIOUS
<1> QED
  BY <1>1, <1>2, OrderedInvariant, AlignedKept, PTL

-----------------------------------------------------------------------------
\* What the entries of the table say of the emissions, when no call fails:
\* the shards of an entry are out, a recovered block is out completely, and
\* none is pending that could be recovered.
BlockOut(b) == \A n \in (Before(b) + 1)..(Before(b) + TxK) : {n} \in EmittedBodies

ShardsOut(blk) ==
  /\ \A i \in blk.got : {Before(blk.block) + 1 + i} \in EmittedBodies
  /\ blk.recovered => BlockOut(blk.block)

NonePending(blk) == blk.gotParity => blk.recovered \/ (Missing(blk) # {} /\ ~OneMissing(blk))

EntriesServed == \A s \in Slots : slots[s].used => ShardsOut(slots[s]) /\ NonePending(slots[s])

\* The payloads of a sequence of emissions.
BodiesOf(S) == {S[i].body : i \in DOMAIN S}

\* The bodies of a concatenation.
LEMMA BodiesConcat ==
  ASSUME NEW S \in Seq(Emissions), NEW T \in Seq(Emissions)
  PROVE  BodiesOf(S \o T) = BodiesOf(S) \cup BodiesOf(T)
<1>1. /\ Len(S) \in Nat /\ Len(T) \in Nat /\ DOMAIN S = 1..Len(S) /\ DOMAIN T = 1..Len(T)
      /\ DOMAIN (S \o T) = 1..(Len(S) + Len(T))
      /\ \A i \in 1..Len(S) : (S \o T)[i] = S[i]
      /\ \A i \in 1..Len(T) : (S \o T)[Len(S) + i] = T[i]
  OBVIOUS
<1> DEFINE U == S \o T
<1> HIDE DEF U
<1>2. \A i \in DOMAIN U : U[i].body \in BodiesOf(S) \cup BodiesOf(T)
  <2> TAKE i \in DOMAIN U
  <2>1. CASE i \in 1..Len(S)
    BY <1>1, <2>1 DEF U, BodiesOf
  <2>2. CASE i \notin 1..Len(S)
    <3>1. i - Len(S) \in 1..Len(T) /\ Len(S) + (i - Len(S)) = i
      BY <1>1, <2>2 DEF U
    <3> QED
      BY <1>1, <3>1 DEF U, BodiesOf
  <2> QED
    BY <2>1, <2>2
<1>3. BodiesOf(S) \subseteq BodiesOf(U)
  BY <1>1 DEF U, BodiesOf
<1>4. BodiesOf(T) \subseteq BodiesOf(U)
  <2> SUFFICES ASSUME NEW i \in DOMAIN T PROVE T[i].body \in BodiesOf(U)
    BY DEF BodiesOf
  <2>1. Len(S) + i \in DOMAIN U /\ U[Len(S) + i] = T[i]
    BY <1>1 DEF U
  <2> QED
    BY <2>1 DEF BodiesOf
<1> QED
  BY <1>2, <1>3, <1>4 DEF U, BodiesOf

\* What is emitted stays emitted.
LEMMA BodiesGrow ==
  ASSUME out \in Seq(Emissions), NEW S \in Seq(Emissions), out' = out \o S
  PROVE  EmittedBodies' = EmittedBodies \cup BodiesOf(S)
<1>1. EmittedBodies = BodiesOf(out) /\ EmittedBodies' = BodiesOf(out')
  BY DEF EmittedBodies, BodiesOf
<1>2. BodiesOf(out \o S) = BodiesOf(out) \cup BodiesOf(S)
  BY BodiesConcat
<1> QED
  BY <1>1, <1>2

\* The datagrams of the two ways a payload comes out.
LEMMA BodiesOfOne ==
  ASSUME NEW body \in SUBSET Nat, NEW via \in {"direct", "fec"}
  PROVE  /\ Emitted(via, body) \in Seq(Emissions) /\ BodiesOf(Emitted(via, body)) = {body}
         /\ <<>> \in Seq(Emissions) /\ BodiesOf(<<>>) = {}
<1>1. [body |-> body, via |-> via] \in Emissions
  BY DEF Emissions
<1>2. PICK e \in Emissions : e = [body |-> body, via |-> via]
  BY <1>1
<1>3. <<e>> \in Seq(Emissions) /\ DOMAIN <<e>> = {1} /\ <<e>>[1].body = body
  BY <1>2
<1> QED
  BY <1>2, <1>3 DEF Emitted, BodiesOf

\* fec_try_recover leaves nothing pending that it could have repaired.
LEMMA RepairServes ==
  ASSUME TypeOK, FramesTraced, Aligned, ~EmitMayFail, TxK = RxK,
         heard' \subseteq Seen, NEW f \in Frames,
         NEW blk \in Blocks, EntryTraced(blk)',
         NEW direct \in Seq(Emissions), NEW st, Repair(f, blk, direct, st),
         \A i \in blk.got : {Before(blk.block) + 1 + i} \in EmittedBodies \cup BodiesOf(direct),
         blk.recovered => BlockOut(blk.block)
  PROVE  /\ EmittedBodies \cup BodiesOf(direct) \subseteq EmittedBodies'
         /\ \E b \in Blocks : /\ slots' = [slots EXCEPT ![SlotFor(f.block)] = b]
                              /\ ShardsOut(b)' /\ NonePending(b)
<1>0. PICK w \in Int : w = Before(blk.block)
  <2>1. blk.block \in Int
    BY DEF Blocks
  <2> QED
    BY <2>1, BlockAdded
<1>1. PICK result \in {"idle", "complete", "unusable", "repaired"} :
        /\ RepairMay(blk, result)
        /\ slots' = [slots EXCEPT ![SlotFor(f.block)] =
             [blk EXCEPT !.recovered = @ \/ result \in {"complete", "repaired"}]]
        /\ out' = out \o direct \o (IF result = "repaired"
                                    THEN Emitted("fec", RecoveredBody(blk)) ELSE <<>>)
  BY DEF Repair
<1> DEFINE b == [blk EXCEPT !.recovered = @ \/ result \in {"complete", "repaired"}]
           last == IF result = "repaired" THEN Emitted("fec", RecoveredBody(blk)) ELSE <<>>
<1>2. /\ b \in Blocks /\ b.got = blk.got /\ b.block = blk.block /\ b.gotParity = blk.gotParity
      /\ b.recovered = (blk.recovered \/ result \in {"complete", "repaired"})
  BY DEF Blocks
<1>3. slots' = [slots EXCEPT ![SlotFor(f.block)] = b]
  BY <1>1
<1>4. /\ last \in Seq(Emissions)
      /\ result = "repaired" => BodiesOf(last) = {RecoveredBody(blk)}
  <2>1. RecoveredBody(blk) \in SUBSET Nat
    BY DEF RecoveredBody, Xor, XorAll, Blocks
  <2> QED
    BY <2>1, BodiesOfOne
<1>5. EmittedBodies' = EmittedBodies \cup BodiesOf(direct) \cup BodiesOf(last)
  <2> HIDE DEF last
  <2>1. out \in Seq(Emissions)
    BY DEF TypeOK, RxTypeOK
  <2>2. direct \o last \in Seq(Emissions) /\ out' = out \o (direct \o last)
    <3>1. out' = out \o direct \o last
      BY <1>1, Zenon DEF last
    <3> QED
      BY <1>4, <2>1, <3>1
  <2> QED
    BY <1>4, <2>1, <2>2, BodiesGrow, BodiesConcat
<1> HIDE DEF b, last
<1>6. \A i \in b.got : {Before(b.block) + 1 + i} \in EmittedBodies'
  BY <1>2, <1>5
<1>7. BlockOut(blk.block) => BlockOut(blk.block)'
  BY <1>5 DEF BlockOut, Before
<1>8. Pending(blk) /\ OneMissing(blk) =>
        \E m \in Shards : /\ Missing(blk) = {m}
                          /\ RecoveredBody(blk) = {Before(blk.block) + 1 + m}
  <2> SUFFICES ASSUME Pending(blk), OneMissing(blk)
               PROVE  \E m \in Shards : /\ Missing(blk) = {m}
                                        /\ RecoveredBody(blk) = {Before(blk.block) + 1 + m}
    OBVIOUS
  <2>1. PICK p \in heard' : /\ p.kind = "parity" /\ p.shards = RxK
                            /\ p.block = blk.block /\ p.body = blk.parity
    BY DEF EntryTraced, Pending
  <2>2. \A i \in blk.got : \E d \in heard' : /\ d.kind = "data" /\ d.idx = i
                                             /\ d.block = blk.block /\ d.body = blk.data[i]
    BY DEF EntryTraced
  <2>3. RecoveredFrom(blk, p)
    <3>1. heard' \in SUBSET Seen
      OBVIOUS
    <3> QED
      BY <2>1, <2>2, <3>1, RecoveredShard
  <2>4. PICK a \in Nat, m \in Shards :
          /\ p.body = (a + 1)..(a + TxK)
          /\ Missing(blk) = {m} /\ RecoveredBody(blk) = {a + 1 + m}
    BY <2>3 DEF RecoveredFrom
  <2>5. p.body = (w + 1)..(w + TxK)
    BY <1>0, <2>1 DEF Aligned, BlockAligned
  <2>6. TxK > 0
    BY <2>4 DEF Shards
  <2>7. a = w
    <3>1. a + 1 \in (w + 1)..(w + TxK) /\ w + 1 \in (a + 1)..(a + TxK)
      BY <2>4, <2>5, <2>6
    <3> QED
      BY <3>1
  <2> QED
    BY <1>0, <2>4, <2>7
\* A block whose datagrams are out, but for those of its missing shards.
<1>9. ASSUME NEW n \in (Before(blk.block) + 1)..(Before(blk.block) + TxK),
             n - 1 - Before(blk.block) \in blk.got
      PROVE  {n} \in EmittedBodies'
  <2>1. w + 1 + (n - 1 - w) = n
    BY <1>0
  <2> QED
    BY <1>0, <1>2, <1>6, <1>9, <2>1
<1>10. ASSUME NEW n \in (Before(blk.block) + 1)..(Before(blk.block) + TxK)
       PROVE  n - 1 - Before(blk.block) \in Shards
  BY <1>0 DEF Shards
<1>11. CASE result = "complete"
  <2>1. Shards \subseteq blk.got
    BY <1>1, <1>11 DEF RepairMay, Missing
  <2>2. BlockOut(blk.block)'
    BY <1>9, <1>10, <2>1 DEF BlockOut, Before
  <2> QED
    BY <1>2, <1>3, <1>5, <1>6, <1>11, <2>2 DEF ShardsOut, NonePending, Before
<1>12. CASE result = "repaired"
  <2>1. Pending(blk) /\ OneMissing(blk)
    BY <1>1, <1>12 DEF RepairMay
  <2>2. PICK m \in Shards : /\ Missing(blk) = {m}
                            /\ RecoveredBody(blk) = {Before(blk.block) + 1 + m}
    BY <1>8, <2>1
  <2>3. {Before(blk.block) + 1 + m} \in EmittedBodies'
    BY <1>4, <1>5, <1>12, <2>2
  <2>4. ASSUME NEW n \in (Before(blk.block) + 1)..(Before(blk.block) + TxK)
        PROVE  {n} \in EmittedBodies'
    <3>1. CASE n - 1 - Before(blk.block) \in blk.got
      BY <1>9, <3>1
    <3>2. CASE n - 1 - Before(blk.block) \notin blk.got
      <4>1. n - 1 - Before(blk.block) = m
        BY <1>10, <2>2, <3>2 DEF Missing
      <4>2. n = w + 1 + m
        BY <1>0, <4>1
      <4> QED
        BY <1>0, <2>3, <4>2
    <3> QED
      BY <3>1, <3>2
  <2>5. BlockOut(blk.block)'
    BY <2>4 DEF BlockOut, Before
  <2> QED
    BY <1>2, <1>3, <1>5, <1>6, <1>12, <2>5 DEF ShardsOut, NonePending, Before
<1>13. CASE result = "unusable"
  <2>1. Missing(blk) # {} /\ ~OneMissing(blk)
    BY <1>1, <1>8, <1>13 DEF RepairMay, IsDatagram
  <2>2. Missing(b) # {} /\ ~OneMissing(b)
    BY <1>2, <2>1 DEF Missing, OneMissing
  <2> QED
    BY <1>2, <1>3, <1>5, <1>6, <1>7, <1>13, <2>2 DEF ShardsOut, NonePending, Before
<1>14. CASE result = "idle"
  <2>1. ~Pending(blk)
    BY <1>1, <1>14 DEF RepairMay
  <2> QED
    BY <1>2, <1>3, <1>5, <1>6, <1>7, <1>14, <2>1 DEF ShardsOut, NonePending, Before, Pending
<1> QED
  BY <1>11, <1>12, <1>13, <1>14

-----------------------------------------------------------------------------
\* Whatever frame is read, the entries stay served.
LEMMA EntriesServedStep ==
  ASSUME TypeOK, Provenance, Aligned, ~EmitMayFail, TxK = RxK, EntriesServed,
         NEW f \in air, RxFrame(f)
  PROVE  EntriesServed' /\ EmittedBodies \subseteq EmittedBodies'
<1>1. /\ f \in Frames /\ f \in Seen /\ FrameTraced(f) /\ f.body \in SUBSET Nat
      /\ f.kind # "plain" => f.shards = RxK /\ RxK > 0 /\ BlockAligned(f)
  <2>1. f \in Frames /\ f \in Seen /\ FrameTraced(f)
    BY DEF TypeOK, TxTypeOK, Seen, Provenance, FramesTraced
  <2> QED
    BY <2>1, FrameFields DEF Aligned, FrameTraced
<1>2. /\ heard' = heard \cup {f} /\ heard' \subseteq Seen /\ heard \subseteq heard' /\ f \in heard'
      /\ slots \in [Slots -> Blocks] /\ out \in Seq(Emissions)
  BY DEF RxFrame, TypeOK, RxTypeOK, Seen
<1>3. EmitOK = {TRUE}
  BY DEF EmitOK
<1>4. ASSUME EmittedBodies \subseteq EmittedBodies', slots' = slots
      PROVE  EntriesServed'
  BY <1>4 DEF EntriesServed, ShardsOut, BlockOut, NonePending, Missing, OneMissing, Before
<1>5. CASE RxPlain(f)
  <2>1. out' = out \o Emitted("direct", f.body) /\ slots' = slots
    BY <1>3, <1>5 DEF RxPlain, Direct
  <2>2. EmittedBodies \subseteq EmittedBodies'
    <3>1. PICK S \in Seq(Emissions) : S = Emitted("direct", f.body)
      BY <1>1, BodiesOfOne
    <3>2. EmittedBodies' = EmittedBodies \cup BodiesOf(S)
      BY <1>2, <2>1, <3>1, BodiesGrow
    <3> QED
      BY <3>2
  <2> QED
    BY <1>4, <2>1, <2>2
<1>6. CASE RxRefused(f)
  BY <1>1, <1>6 DEF RxRefused
<1>7. CASE RxBadIndex(f)
  <2>1. f.kind = "data" /\ f.idx \notin Shards
    BY <1>7 DEF RxBadIndex
  <2>2. f.idx \in Nat /\ f.idx < RxK
    BY <1>1, <2>1 DEF BlockAligned, Frames
  <2> QED
    BY <2>1, <2>2 DEF Shards
\* The entry f finds, and what follows for one with f in it.
<1>8. ASSUME f.kind # "plain"
      PROVE  \E g \in Blocks : /\ g = BlockGet(f.block) /\ g.used /\ g.block = f.block
                               /\ EntryTraced(g) /\ ShardsOut(g)
  <2>1. PICK g \in Blocks : g = BlockGet(f.block) /\ g.used /\ g.block = f.block
    BY <1>1, <1>2, BlockGetTyped, FrameFields
  <2>2. EntryTraced(g)
    BY <1>2, <2>1, BlockGetTraced DEF Provenance
  <2>3. ShardsOut(g)
    <3>1. CASE g = slots[SlotFor(f.block)]
      BY <2>1, <3>1, SlotForEntry DEF EntriesServed
    <3>2. CASE g # slots[SlotFor(f.block)]
      <4>1. g = [NoBlock EXCEPT !.used = TRUE, !.block = f.block]
        BY <2>1, <3>2 DEF BlockGet
      <4>2. g.got = {} /\ ~g.recovered
        BY <4>1 DEF NoBlock
      <4> QED
        BY <4>2 DEF ShardsOut
    <3> QED
      BY <3>1, <3>2
  <2> QED
    BY <2>1, <2>2, <2>3
<1>9. ASSUME NEW blk \in Blocks, EntryTraced(blk)', NEW direct \in Seq(Emissions), NEW st,
             Repair(f, blk, direct, st), blk.recovered => BlockOut(blk.block),
             \A i \in blk.got : {Before(blk.block) + 1 + i} \in EmittedBodies \cup BodiesOf(direct)
      PROVE  EntriesServed' /\ EmittedBodies \subseteq EmittedBodies'
  <2>1. EmittedBodies \subseteq EmittedBodies'
    BY <1>1, <1>2, <1>9, RepairServes DEF Provenance
  <2>2. PICK b \in Blocks : /\ slots' = [slots EXCEPT ![SlotFor(f.block)] = b]
                            /\ ShardsOut(b)' /\ NonePending(b)
    BY <1>1, <1>2, <1>9, RepairServes DEF Provenance
  <2>3. ASSUME NEW s \in Slots, slots'[s].used
        PROVE  ShardsOut(slots[s])' /\ NonePending(slots[s])'
    <3>1. CASE s = SlotFor(f.block)
      BY <1>2, <2>2, <3>1 DEF ShardsOut, BlockOut, Before, NonePending, Missing, OneMissing
    <3>2. CASE s # SlotFor(f.block)
      <4>1. slots'[s] = slots[s]
        BY <1>2, <2>2, <3>2
      <4> QED
        BY <2>1, <2>3, <4>1 DEF EntriesServed, ShardsOut, BlockOut, Before, NonePending,
                                Missing, OneMissing
    <3> QED
      BY <3>1, <3>2
  <2> QED
    BY <2>1, <2>3 DEF EntriesServed
<1>10. CASE RxData(f)
  <2>1. f.kind = "data" /\ f.idx \in Shards
    BY <1>10 DEF RxData
  <2>2. PICK g \in Blocks : /\ g = BlockGet(f.block) /\ g.used /\ g.block = f.block
                            /\ EntryTraced(g) /\ ShardsOut(g)
    BY <1>8, <2>1
  <2>3. PICK blk \in Blocks : blk = WithData(g, f)
    BY <1>1, <2>1, WithTyped
  <2>4. PICK st : Repair(f, blk, Emitted("direct", f.body), st)
    BY <1>3, <1>10, <2>2, <2>3 DEF RxData, Direct
  <2>5. EntryTraced(blk)' /\ blk.block = f.block
    BY <1>1, <1>2, <2>1, <2>2, <2>3, ShardAdded
  <2>6. blk.got = g.got \cup {f.idx} /\ blk.recovered = g.recovered
    <3>1. CASE f.idx \in g.got
      BY <2>3, <3>1 DEF WithData
    <3>2. CASE f.idx \notin g.got
      <4>1. blk = [[g EXCEPT !.got = @ \cup {f.idx}] EXCEPT !.data[f.idx] = f.body]
        BY <2>3, <3>2 DEF WithData
      <4> QED
        BY <4>1 DEF Blocks
    <3> QED
      BY <3>1, <3>2
  <2>7. Emitted("direct", f.body) \in Seq(Emissions) /\ BodiesOf(Emitted("direct", f.body)) = {f.body}
    BY <1>1, BodiesOfOne
  <2>8. f.body = {Before(f.block) + 1 + f.idx}
    BY <1>1, <2>1 DEF BlockAligned
  <2>9. \A i \in blk.got : {Before(blk.block) + 1 + i} \in EmittedBodies \cup {f.body}
    BY <2>2, <2>5, <2>6, <2>8 DEF ShardsOut
  <2>10. blk.recovered => BlockOut(blk.block)
    BY <2>2, <2>5, <2>6 DEF ShardsOut
  <2> QED
    BY <1>9, <2>4, <2>5, <2>7, <2>9, <2>10
<1>11. CASE RxParity(f)
  <2>1. f.kind = "parity"
    BY <1>11 DEF RxParity
  <2>2. PICK g \in Blocks : /\ g = BlockGet(f.block) /\ g.used /\ g.block = f.block
                            /\ EntryTraced(g) /\ ShardsOut(g)
    BY <1>8, <2>1
  <2>3. PICK blk \in Blocks : blk = WithParity(g, f)
    BY <1>1, WithTyped
  <2>4. PICK st : Repair(f, blk, <<>>, st)
    BY <1>11, <2>2, <2>3 DEF RxParity
  <2>5. EntryTraced(blk)' /\ blk.block = f.block
    BY <1>1, <1>2, <2>1, <2>2, <2>3, ShardAdded
  <2>6. blk.got = g.got /\ blk.recovered = g.recovered
    BY <2>3 DEF WithParity, Blocks
  <2>7. <<>> \in Seq(Emissions)
    OBVIOUS
  <2>8. \A i \in blk.got : {Before(blk.block) + 1 + i} \in EmittedBodies \cup BodiesOf(<<>>)
    BY <2>2, <2>5, <2>6 DEF ShardsOut
  <2>9. blk.recovered => BlockOut(blk.block)
    BY <2>2, <2>5, <2>6 DEF ShardsOut
  <2> QED
    BY <1>9, <2>4, <2>5, <2>7, <2>8, <2>9
<1> QED
  BY <1>5, <1>6, <1>7, <1>10, <1>11 DEF RxFrame

-----------------------------------------------------------------------------
\* The frames of a block are told apart by their shards.
LEMMA ShardsDiffer ==
  ASSUME TypeOK, FramesNumbered, DatagramOrder, Aligned,
         NEW f \in heard, NEW g \in heard, f.kind # "plain", g.kind # "plain",
         f.block = g.block, f.idx = g.idx
  PROVE  f = g
<1>1. f \in Seen /\ g \in Seen /\ f \in Frames /\ g \in Frames
  BY DEF Seen, TypeOK, RxTypeOK
<1>2. /\ f.kind \in {"data", "parity"} /\ g.kind \in {"data", "parity"} /\ f.at \in Nat /\ g.at \in Nat
      /\ f.idx \in Nat
  BY <1>1, FrameFields DEF Frames
<1>3. f.kind = g.kind
  BY <1>1, <1>2 DEF Aligned, BlockAligned
<1>4. CASE f.kind = "parity"
  BY <1>1, <1>3, <1>4 DEF DatagramOrder, BlocksInOrder
<1>5. CASE f.kind = "data"
  <2>1. PICK n \in Nat : f.body = {n} /\ g.body = {n}
    <3>1. f.body = {Before(f.block) + 1 + f.idx} /\ g.body = {Before(f.block) + 1 + f.idx}
      BY <1>1, <1>3, <1>5 DEF Aligned, BlockAligned
    <3>2. f.body \in SUBSET Nat
      BY <1>1, FrameFields
    <3> QED
      BY <3>1, <3>2
  <2>2. ~(f.at < g.at) /\ ~(g.at < f.at)
    <3>1. f.at < g.at => n < n
      BY <1>1, <1>3, <1>5, <2>1 DEF DatagramOrder, BodiesInOrder, InOrder
    <3>2. g.at < f.at => n < n
      BY <1>1, <1>3, <1>5, <2>1 DEF DatagramOrder, BodiesInOrder, InOrder
    <3> QED
      BY <3>1, <3>2
  <2> QED
    BY <1>1, <1>2, <2>2 DEF FramesNumbered
<1> QED
  BY <1>2, <1>4, <1>5

\* TxK frames of a block, whichever they are, and an entry that has them all:
\* every datagram of the block is out.
LEMMA TableRepairs ==
  ASSUME TypeOK, FramesNumbered, DatagramOrder, Provenance, Aligned, EntriesServed,
         TxK = RxK, TxK > 0, NEW b \in Int, TableHas(b), Cardinality(HeardOf(b)) >= TxK
  PROVE  BlockOut(b)
<1> DEFINE H == HeardOf(b)
<1>1. PICK s \in Slots :
        /\ slots[s].used /\ slots[s].block = b
        /\ \A f \in H : /\ f.kind = "data" /\ f.idx \in Shards => f.idx \in slots[s].got
                        /\ f.kind = "parity" => slots[s].gotParity
  BY DEF TableHas, HeardOf
<1>2. PICK blk \in Blocks : blk = slots[s]
  BY DEF TypeOK, RxTypeOK
<1>3. ShardsOut(blk) /\ NonePending(blk) /\ blk.block = b
  BY <1>1, <1>2 DEF EntriesServed
<1>4. \A f \in H : /\ f \in Frames /\ f.idx \in 0..TxK
                   /\ f.kind = "data" => f.idx < TxK
                   /\ f.kind = "parity" \/ f.kind = "data"
                   /\ f.kind = "parity" => f.idx = TxK
  <2> TAKE f \in H
  <2>1. f \in heard /\ f \in Seen /\ f \in Frames /\ f.kind # "plain"
    BY DEF HeardOf, Seen, TypeOK, RxTypeOK
  <2>2. BlockAligned(f) /\ f.kind \in {"data", "parity"} /\ f.idx \in Nat
    BY <2>1, FrameFields DEF Aligned, Frames
  <2> QED
    BY <2>1, <2>2 DEF BlockAligned
<1>5. PICK w \in Int : w = Before(b)
  BY BlockAdded
<1>6. \A i \in blk.got : {w + 1 + i} \in EmittedBodies
  BY <1>3, <1>5 DEF ShardsOut
<1>7. CASE Shards \subseteq blk.got
  <2> SUFFICES ASSUME NEW n \in (w + 1)..(w + TxK) PROVE {n} \in EmittedBodies
    BY <1>5 DEF BlockOut
  <2>1. n - 1 - w \in Shards /\ w + 1 + (n - 1 - w) = n
    BY DEF Shards
  <2> QED
    BY <1>6, <1>7, <2>1
<1>8. CASE ~(Shards \subseteq blk.got)
  <2>1. PICK m \in Shards : m \notin blk.got
    BY <1>8
  <2> DEFINE Rest == (0..TxK) \ {m}
             idx == [f \in H |-> f.idx]
  <2>2. IsFiniteSet(Rest) /\ Cardinality(Rest) = TxK
    <3>1. IsFiniteSet(0..TxK) /\ Cardinality(0..TxK) = TxK + 1
      BY FS_Interval
    <3>2. m \in 0..TxK
      BY DEF Shards
    <3> QED
      <4>1. PICK S : S = 0..TxK
        OBVIOUS
      <4>2. IsFiniteSet(S \ {m}) /\ Cardinality(S \ {m}) = Cardinality(S) - 1
        BY <3>1, <3>2, <4>1, FS_RemoveElement
      <4> QED
        BY <3>1, <4>1, <4>2
  <2>3. \A f \in H : f.idx \in Rest
    <3> TAKE f \in H
    <3>1. CASE f.kind = "data"
      <4>1. f.idx \in blk.got
        BY <1>1, <1>2, <1>4, <3>1 DEF Shards
      <4> QED
        BY <1>4, <2>1, <4>1
    <3>2. CASE f.kind = "parity"
      BY <1>4, <3>2 DEF Shards
    <3> QED
      BY <1>4, <3>1, <3>2
  <2>4. \A f, g \in H : f.idx = g.idx => f = g
    BY ShardsDiffer DEF HeardOf
  <2>5. idx \in Injection(H, Rest)
    BY <2>3, <2>4 DEF Injection, IsInjective
  <2>6. idx \in Surjection(H, Rest)
    <3> HIDE DEF H, Rest, idx
    <3>1. IsFiniteSet(H) /\ Cardinality(H) <= Cardinality(Rest)
          /\ (Cardinality(H) = Cardinality(Rest) <=> idx \in Surjection(H, Rest))
      BY <2>2, <2>5, FS_Injection
    <3>2. Cardinality(H) \in Nat
      BY <3>1, FS_CardinalityType
    <3>3. Cardinality(H) = Cardinality(Rest)
      BY <2>2, <3>1, <3>2 DEF H
    <3> QED
      BY <3>1, <3>3
  <2>7. \A i \in Rest : \E f \in H : f.idx = i
    BY <2>6 DEF Surjection
  <2>8. blk.gotParity
    <3>1. TxK \in Rest
      BY DEF Shards
    <3>2. PICK f \in H : f.idx = TxK
      BY <2>7, <3>1
    <3>3. f.kind = "parity"
      BY <1>4, <3>2
    <3> QED
      BY <1>1, <1>2, <3>3
  <2>9. \A i \in Shards \ {m} : i \in blk.got
    <3> TAKE i \in Shards \ {m}
    <3>1. i \in Rest /\ i # TxK /\ i \in Shards
      BY DEF Shards
    <3>2. PICK f \in H : f.idx = i
      BY <2>7, <3>1
    <3>3. f.kind = "data"
      BY <1>4, <3>1, <3>2
    <3> QED
      BY <1>1, <1>2, <3>1, <3>2, <3>3
  <2>10. Missing(blk) = {m}
    BY <2>1, <2>9 DEF Missing
  <2>11. blk.recovered
    BY <1>3, <2>8, <2>10 DEF NonePending, OneMissing
  <2> QED
    BY <1>3, <2>11 DEF ShardsOut
<1> QED
  BY <1>7, <1>8

-----------------------------------------------------------------------------
\* No entry is in use at first.
LEMMA EntriesServedInit == Init => EntriesServed
  BY DEF Init, RxInit, NoBlock, EntriesServed

\* Every step keeps the entries served.
LEMMA EntriesServedNext ==
  ASSUME TypeOK, Provenance, Aligned, ~EmitMayFail, TxK = RxK, EntriesServed, [Next]_vars
  PROVE  EntriesServed'
<1>1. CASE Receive
  BY <1>1, EntriesServedStep DEF Receive
<1>2. CASE RestartRx
  BY <1>2 DEF RestartRx, RxRestart, NoBlock, EntriesServed
<1>3. CASE Transmit \/ RestartTx \/ UNCHANGED vars
  <2>1. slots' = slots /\ out' = out
    BY <1>3 DEF Transmit, RestartTx, rxVars, vars
  <2>2. EmittedBodies' = EmittedBodies
    BY <2>1 DEF EmittedBodies
  <2>3. ASSUME NEW s \in Slots PROVE ShardsOut(slots[s])' = ShardsOut(slots[s])
    BY <2>1, <2>2 DEF ShardsOut, BlockOut, Before
  <2>4. ASSUME NEW s \in Slots PROVE NonePending(slots[s])' = NonePending(slots[s])
    BY <2>1 DEF NonePending, Missing, OneMissing
  <2> QED
    BY <2>1, <2>3, <2>4 DEF EntriesServed
<1> QED
  BY <1>1, <1>2, <1>3 DEF Next

\* The datagrams OneLossRepaired names are those of the block.
LEMMA RepairedMeans ==
  ASSUME TypeOK,
         \A f \in heard : f.kind # "plain" /\ Cardinality(HeardOf(f.block)) >= TxK =>
                            BlockOut(f.block)
  PROVE  OneLossRepaired
<1> SUFFICES ASSUME NEW f \in heard, BlockOut(f.block)
             PROVE  \A n \in ((f.block - 1) * TxK + 1)..(f.block * TxK) : {n} \in EmittedBodies
  BY DEF OneLossRepaired
<1>1. f.block \in Int
  BY FrameFields DEF TypeOK, RxTypeOK
<1>2. (f.block - 1) * TxK = Before(f.block) /\ f.block * TxK = Before(f.block) + TxK
  BY <1>1, BlockAdded DEF Before
<1> QED
  BY <1>2 DEF BlockOut

-----------------------------------------------------------------------------
\* On a radio that keeps the order a block is done with when a newer one
\* arrives: it is repaired by then or never.
EarlierRepaired ==
  \A f \in heard :
    f.kind # "plain" /\ ~NewestBlock(f) /\ Cardinality(HeardOf(f.block)) >= TxK =>
      BlockOut(f.block)

RepairInv == Traced /\ EntryComplete /\ Aligned /\ EntriesServed /\ EarlierRepaired

\* All blocks heard are repaired.
LEMMA RepairedSoFar ==
  ASSUME RepairInv, TxK = RxK, NEW f \in heard, f.kind # "plain",
         Cardinality(HeardOf(f.block)) >= TxK
  PROVE  BlockOut(f.block)
<1>1. CASE NewestBlock(f)
  <2>1. f \in Frames /\ FrameTraced(f)
    BY DEF RepairInv, Traced, TypeOK, RxTypeOK, Provenance, FramesTraced, Seen
  <2>2. f.block \in Int /\ TxK > 0
    BY <2>1, FrameFields DEF FrameTraced
  <2>3. TableHas(f.block)
    BY <1>1 DEF RepairInv, EntryComplete
  <2> QED
    BY <2>2, <2>3, TableRepairs DEF RepairInv, Traced
<1>2. CASE ~NewestBlock(f)
  BY <1>2 DEF RepairInv, EarlierRepaired
<1> QED
  BY <1>1, <1>2

\* A block that gives way to a newer one has been repaired.
LEMMA EarlierRepairedNext ==
  ASSUME RepairInv, ~EmitMayFail, TxK = RxK, [Next]_vars
  PROVE  EarlierRepaired'
<1>1. CASE Receive
  <2>1. PICK f \in air : RxFrame(f) /\ heard' = heard \cup {f}
    BY <1>1 DEF Receive, RxFrame
  <2> SUFFICES ASSUME NEW h \in heard', h.kind # "plain", ~NewestBlock(h)',
                      Cardinality(HeardOf(h.block)') >= TxK
               PROVE  BlockOut(h.block)'
    BY DEF EarlierRepaired
  <2>2. \A g \in heard' : FrameTraced(g) /\ g \in Seen
    BY <2>1, NextFrame DEF RepairInv
  <2>3. f.kind # "plain"
    BY <2>1, <2>2 DEF RepairInv, Traced, DatagramOrder, BodiesInOrder, FrameTraced
  <2>4. h.block # f.block
    <3>1. \A g \in heard : g.kind # "plain" => g.block <= f.block
      BY <2>3, NextFrame DEF RepairInv
    <3>2. f.block <= f.block
      BY NextFrame DEF RepairInv
    <3> QED
      BY <2>1, <3>1, <3>2 DEF NewestBlock
  <2>5. h \in heard /\ HeardOf(h.block)' = HeardOf(h.block)
    BY <2>1, <2>4 DEF HeardOf
  <2>6. BlockOut(h.block)
    BY <2>5, RepairedSoFar
  <2>7. EmittedBodies \subseteq EmittedBodies'
    BY <2>1, EntriesServedStep DEF RepairInv, Traced
  <2> QED
    BY <2>6, <2>7 DEF BlockOut, Before
<1>2. CASE RestartRx
  BY <1>2 DEF RestartRx, RxRestart, EarlierRepaired
<1>3. CASE Transmit \/ RestartTx \/ UNCHANGED vars
  <2>1. heard' = heard /\ out' = out
    BY <1>3 DEF Transmit, RestartTx, rxVars, vars
  <2> QED
    BY <2>1 DEF RepairInv, EarlierRepaired, NewestBlock, HeardOf, BlockOut, EmittedBodies, Before
<1> QED
  BY <1>1, <1>2, <1>3 DEF Next

\* "It can recover one missing RF packet per completed block": on a radio that
\* keeps the order and repeats nothing, and with equal FEC settings, every
\* datagram of a block is out once all its frames but one have been heard, for
\* every block length and with a table of any size; no call fails and the
\* transmitter is not restarted.
THEOREM OneLossRepairedInOrder ==
  ASSUME Ordered, MaxDup = 0, TxK = RxK, MaxFeed < Mod, "tx" \notin Restarts,
         ~SendMayFail, ~EmitMayFail
  PROVE  Spec => []OneLossRepaired
<1> DEFINE Rest == /\ FramesNumbered /\ RadioOrder /\ DatagramOrder /\ EntryComplete
                   /\ EntriesServed /\ EarlierRepaired
<1>1. Init => Rest
  <2>1. Init => EntryComplete /\ EarlierRepaired
    BY DEF Init, RxInit, EntryComplete, EarlierRepaired
  <2> QED
    BY <2>1, FramesNumberedInit, DatagramOrderInit, EntriesServedInit
<1>2. TypeOK /\ SlotTable /\ Provenance /\ Aligned /\ Rest => RepairInv
  BY DEF RepairInv, Traced
<1>3. TypeOK /\ SlotTable /\ Provenance /\ Aligned /\ Rest /\ [Next]_vars => Rest'
  <2> SUFFICES ASSUME RepairInv, [Next]_vars PROVE Rest'
    BY <1>2
  <2>1. Traced /\ EntryComplete /\ Aligned /\ EntriesServed
    BY DEF RepairInv
  <2>2. FramesNumbered' /\ RadioOrder' /\ DatagramOrder'
    BY <2>1, FramesNumberedStep, RadioOrderStep, DatagramOrderStep DEF Traced
  <2>3. EntryComplete' /\ EntriesServed' /\ EarlierRepaired'
    BY <2>1, EntryCompleteNext, EntriesServedNext, EarlierRepairedNext DEF Traced
  <2> QED
    BY <2>2, <2>3
<1>4. RepairInv => OneLossRepaired
  <2>1. ASSUME RepairInv PROVE OneLossRepaired
    BY <2>1, RepairedSoFar, RepairedMeans DEF RepairInv, Traced
  <2> QED
    BY <2>1
<1>5. Spec => []Provenance
  BY GenuineAlways, PTL
<1> QED
  BY <1>1, <1>2, <1>3, <1>4, <1>5, TypeCorrect, SlotTableKept, AlignedKept, PTL DEF Spec

-----------------------------------------------------------------------------
USE LateAssumption DEF LateAssumption

\* As long as no send fails, TxK + 1 frames are built for a block, in the order
\* of their shards: ShardsBefore(b) of them before block b.
ShardsBefore(b) == (TxK + 1) * (b - 1)

BuiltInTurn ==
  /\ TxK > 0 =>
       at = IF tx.shards = 0 THEN (TxK + 1) * tx.block
            ELSE ShardsBefore(tx.block) + tx.shards
  /\ \A f \in Seen : f.kind # "plain" => f.at = ShardsBefore(f.block) + f.idx

\* One block more is TxK + 1 frames more.
LEMMA ShardsOfBlock ==
  \A b \in Int : /\ ShardsBefore(b) \in Int /\ (TxK + 1) * b \in Int
                 /\ ShardsBefore(b + 1) = (TxK + 1) * b
                 /\ ShardsBefore(b) + (TxK + 1) = (TxK + 1) * b
<1>1. \A k, b \in Int : /\ k * (b - 1) \in Int /\ k * b \in Int
                        /\ k * ((b + 1) - 1) = k * b /\ k * (b - 1) + k = k * b
  OBVIOUS
<1>2. TxK + 1 \in Int
  OBVIOUS
<1> QED
  BY <1>1, <1>2 DEF ShardsBefore

\* The first block starts with the first frame.
LEMMA BuiltInTurnInit == Init => BuiltInTurn
<1> SUFFICES ASSUME Init PROVE BuiltInTurn
  OBVIOUS
<1>1. (TxK + 1) * 0 = 0
  <2>1. \A k \in Int : k * 0 = 0
    OBVIOUS
  <2>2. TxK + 1 \in Int
    OBVIOUS
  <2> QED
    BY <2>1, <2>2
<1>2. Seen = {} /\ at = 0 /\ tx.shards = 0 /\ tx.block = 0
  BY DEF Init, TxInit, RxInit, TxBoot, Seen
<1> QED
  BY <1>1, <1>2 DEF BuiltInTurn

\* tx_fec_data builds a frame for each datagram and one more when the block is full.
LEMMA BuiltInTurnTransmit ==
  ASSUME MaxFeed < Mod, ~SendMayFail, TypeOK, OpenBlockTraced, Aligned, BuiltInTurn,
         TxK > 0, TxStep, heard' = heard
  PROVE  BuiltInTurn'
<1>1. PICK F \in SUBSET {DataFrame, ParityFrame} :
        /\ air' = air \cup F /\ fed < MaxFeed /\ tx'.block = OpenBlock
        /\ \/ /\ tx.shards + 1 # TxK /\ tx'.shards = tx.shards + 1 /\ F \subseteq {DataFrame}
              /\ at' = at + 1
           \/ tx'.shards = 0 /\ tx.shards + 1 = TxK /\ at' = at + 2
  <2>1. CASE TxShard
    BY <2>1 DEF TxShard, Sent, OpenState, Feed
  <2>2. CASE TxBlockEnd
    BY <2>2 DEF TxBlockEnd, Sent, ClosedState, Feed
  <2> QED
    BY <2>1, <2>2 DEF TxStep, TxPlain, TxPlainDropped, TxShardDropped, TxParityDropped
<1>2. /\ tx.shards \in Nat /\ tx.block \in Nat /\ tx.shards < TxK /\ at \in Nat
  BY DEF TypeOK, TxTypeOK, Aligned
<1>3. OpenBlock = IF tx.shards = 0 THEN tx.block + 1 ELSE tx.block
  BY <1>1, NextShard DEF TypeOK, Feed
<1>4. PICK b \in Int : b = OpenBlock
  BY <1>2, <1>3
<1>5. PICK w \in Int : w = ShardsBefore(b) /\ (TxK + 1) * b = w + (TxK + 1)
  BY ShardsOfBlock
<1>6. at = w + tx.shards
  <2>1. CASE tx.shards = 0
    <3>1. ShardsBefore(b) = (TxK + 1) * tx.block
      <4>1. b = tx.block + 1 /\ tx.block \in Int
        BY <1>2, <1>3, <1>4, <2>1
      <4>2. ShardsBefore(tx.block + 1) = (TxK + 1) * tx.block
        BY <4>1, ShardsOfBlock
      <4> QED
        BY <4>1, <4>2
    <3>2. at = (TxK + 1) * tx.block
      BY <2>1 DEF BuiltInTurn
    <3>3. at = w
      BY <1>5, <3>1, <3>2, Zenon
    <3> QED
      BY <1>2, <2>1, <3>3
  <2>2. CASE tx.shards # 0
    BY <1>2, <1>3, <1>4, <1>5, <2>2 DEF BuiltInTurn
  <2> QED
    BY <2>1, <2>2
<1>7. DataFrame.at = ShardsBefore(DataFrame.block) + DataFrame.idx
  <2>1. tx.shards % IdxMod = tx.shards
    BY <1>2, ModSmall
  <2>2. DataFrame.idx = tx.shards /\ DataFrame.block = b /\ DataFrame.at = at
    BY <1>4, <2>1 DEF DataFrame, Data
  <2> QED
    BY <1>5, <1>6, <2>2
<1>8. tx.shards + 1 = TxK => ParityFrame.at = ShardsBefore(ParityFrame.block) + ParityFrame.idx
  <2>1. ParityFrame.idx = TxK /\ ParityFrame.block = b /\ ParityFrame.at = at + 1
    BY <1>4 DEF ParityFrame, Parity
  <2> QED
    BY <1>2, <1>5, <1>6, <2>1
<1>9. \A f \in Seen' : f.kind # "plain" => f.at = ShardsBefore(f.block) + f.idx
  <2>1. Seen' = Seen \cup F
    BY <1>1 DEF Seen
  <2>2. ParityFrame \in F => tx.shards + 1 = TxK
    <3>1. ParityFrame # DataFrame
      BY ShardFields
    <3> QED
      BY <1>1, <3>1
  <2> QED
    BY <1>1, <1>7, <1>8, <2>1, <2>2 DEF BuiltInTurn
<1>10. at' = IF tx'.shards = 0 THEN (TxK + 1) * tx'.block
             ELSE ShardsBefore(tx'.block) + tx'.shards
  <2>1. CASE tx'.shards = tx.shards + 1 /\ at' = at + 1
    BY <1>1, <1>2, <1>4, <1>5, <1>6, <2>1
  <2>2. CASE tx'.shards = 0 /\ tx.shards + 1 = TxK /\ at' = at + 2
    <3>1. at' = w + (TxK + 1)
      BY <1>2, <1>5, <1>6, <2>2
    <3> QED
      BY <1>1, <1>4, <1>5, <2>2, <3>1
  <2> QED
    BY <1>1, <2>1, <2>2
<1> QED
  BY <1>9, <1>10 DEF BuiltInTurn, ShardsBefore

\* No other step builds frames.
LEMMA BuiltInTurnStep ==
  ASSUME MaxFeed < Mod, ~SendMayFail, "tx" \notin Restarts, TypeOK, Provenance, Aligned,
         BuiltInTurn, [Next]_vars
  PROVE  BuiltInTurn'
<1>1. CASE Transmit
  <2>1. TxStep /\ heard' = heard
    BY <1>1 DEF Transmit, rxVars
  <2>2. CASE TxK > 0
    BY <2>1, <2>2, BuiltInTurnTransmit DEF Provenance
  <2>3. CASE TxK = 0
    <3>1. PICK F \in SUBSET {Plain(tx.seq, at, {fed + 1})} : air' = air \cup F
      BY <2>1, <2>3, PlainBuilt
    <3>2. \A f \in F : f.kind = "plain"
      BY DEF Plain
    <3> QED
      BY <2>1, <2>3, <3>1, <3>2 DEF BuiltInTurn, ShardsBefore, Seen
  <2> QED
    BY <2>2, <2>3
<1>2. CASE Receive \/ RestartRx \/ UNCHANGED vars
  <2>1. Seen' \subseteq Seen /\ at' = at /\ tx' = tx
    BY <1>2 DEF Receive, RxFrame, Deliver, DeliverAgain, Behind, RestartRx, RxRestart, txVars,
                vars, Seen
  <2> QED
    BY <2>1 DEF BuiltInTurn, ShardsBefore
<1>3. CASE RestartTx
  BY <1>3 DEF RestartTx
<1> QED
  BY <1>1, <1>2, <1>3 DEF Next

-----------------------------------------------------------------------------
\* No frame on the air is too far behind one that was heard.
NoneTooLate == \A f \in air, g \in heard : g.at <= f.at + MaxLate

\* What a delivery leaves too far behind is lost.
LEMMA NoneTooLateStep ==
  ASSUME TypeOK, FramesNumbered, NoneTooLate, [Next]_vars
  PROVE  NoneTooLate'
<1> USE DEF NoneTooLate, Seen
<1>1. \A f \in Seen : f.at \in Nat
  BY DEF TypeOK, TxTypeOK, RxTypeOK, Frames
<1>2. CASE Transmit
  <2>1. /\ FramesNumbered' /\ heard' = heard
        /\ \A f \in air' : f \in air \/ \A g \in Seen : g.at < f.at
    BY <1>2, FramesAdded
  <2>2. \A f \in air' : f \in Frames
    BY <1>2, NextTyped DEF TypeOK, TxTypeOK, Next
  <2>3. \A f \in air' : f.at \in Nat
    BY <2>2 DEF Frames
  <2> QED
    BY <1>1, <2>1, <2>3
<1>3. CASE Receive
  <2>1. PICK f \in air : (Deliver(f) \/ DeliverAgain(f)) /\ heard' = heard \cup {f}
    BY <1>3 DEF Receive, RxFrame
  <2>2. \A g \in air' : g \in air /\ f.at <= g.at + MaxLate
    BY <1>1, <2>1 DEF Deliver, DeliverAgain, Behind
  <2> QED
    BY <2>1, <2>2
<1>4. CASE RestartTx
  BY <1>4 DEF RestartTx, TxRestart, rxVars
<1>5. CASE RestartRx
  BY <1>5 DEF RestartRx, RxRestart, txVars
<1>6. CASE UNCHANGED vars
  BY <1>6 DEF vars
<1> QED
  BY <1>2, <1>3, <1>4, <1>5, <1>6 DEF Next

-----------------------------------------------------------------------------
\* A block is over when a frame was heard that is too new for one of its own to
\* come any more; by then it has been repaired or never will be.
Over(b) == \E g \in heard : ShardsBefore(b) + TxK + MaxLate < g.at

DoneWith(b) == Over(b) /\ (Cardinality(HeardOf(b)) >= TxK => BlockOut(b))

\* Every block heard of has an entry or is over, and the table holds no others.
TableCurrent ==
  /\ \A f \in heard : f.kind # "plain" => TableHas(f.block) \/ DoneWith(f.block)
  /\ \A s \in Slots : slots[s].used =>
       \E f \in heard : f.kind # "plain" /\ f.block = slots[s].block

\* How far a frame may be behind when the table has NSlots entries: no further
\* than the frames of NSlots - 1 blocks, so that NSlots blocks are enough.
LateWithin == MaxLate <= (NSlots - 1) * (TxK + 1)

\* The state the following is about.
InTurn ==
  /\ TypeOK /\ SlotTable /\ Provenance /\ FramesNumbered /\ DatagramOrder /\ Aligned
  /\ BuiltInTurn /\ NoneTooLate /\ EntriesServed

\* Multiplication is monotone.
LEMMA MoreBlocks ==
  \A k, a, b \in Nat : a <= b => k * a <= k * b /\ k * a \in Nat /\ k * b \in Nat
  OBVIOUS

\* A frame of a block NSlots later is newer than all of block b by more than MaxLate.
LEMMA FarApart ==
  ASSUME LateWithin, NEW b \in Nat \ {0}, NEW c \in Nat, b + NSlots <= c
  PROVE  ShardsBefore(b) + TxK + MaxLate < ShardsBefore(c) /\ ShardsBefore(b) \in Nat
<1> DEFINE k == TxK + 1
           n == NSlots - 1
           p == b - 1
<1>1. k \in Nat /\ n \in Nat /\ p \in Nat /\ c - 1 \in Nat /\ p + n + 1 <= c - 1
  OBVIOUS
<1>2. \A x, y, z \in Nat : x * (y + z + 1) = x * y + x * z + x /\ x * y \in Nat /\ x * z \in Nat
  OBVIOUS
<1>3. MaxLate <= n * k /\ ShardsBefore(b) = k * p /\ ShardsBefore(c) = k * (c - 1)
  BY DEF LateWithin, ShardsBefore
<1>4. TxK < k
  OBVIOUS
<1> HIDE DEF k, n, p
<1>5. PICK kp \in Nat, kn \in Nat :
        kp = k * p /\ kn = k * n /\ k * (p + n + 1) = kp + kn + k
  BY <1>1, <1>2
<1>6. n * k = kn
  <2>1. \A x, y \in Nat : x * y = y * x
    OBVIOUS
  <2> QED
    BY <1>1, <1>5, <2>1
<1>7. PICK kc \in Nat : kc = k * (c - 1) /\ kp + kn + k <= kc
  <2>1. p + n + 1 \in Nat
    BY <1>1
  <2> QED
    BY <1>1, <1>5, <2>1, MoreBlocks
<1> QED
  BY <1>1, <1>3, <1>4, <1>5, <1>6, <1>7

\* What there is to know of a frame of a block.
LEMMA BlockFrame ==
  ASSUME InTurn, NEW f \in Seen, f.kind # "plain"
  PROVE  /\ f \in Frames /\ f.block \in Nat \ {0} /\ f.block <= MaxFeed /\ TxK > 0 /\ f.shards = TxK
         /\ f.at \in Nat /\ f.idx \in 0..TxK
         /\ f.at = ShardsBefore(f.block) + f.idx /\ ShardsBefore(f.block) \in Int
<1>1. f \in Frames /\ FrameTraced(f) /\ BlockAligned(f)
  BY DEF InTurn, TypeOK, TxTypeOK, RxTypeOK, Seen, Provenance, FramesTraced, Aligned
<1>2. f.kind \in {"data", "parity"} /\ f.block \in Nat /\ f.idx \in Nat /\ f.at \in Nat
  BY <1>1, FrameFields DEF Frames
<1>3. TxK > 0 /\ f.shards = TxK /\ f.block <= tx.block /\ f.block > 0 /\ f.idx <= TxK
  BY <1>1, <1>2 DEF FrameTraced, BlockAligned
<1>4. tx.block \in Nat /\ tx.block <= fed /\ fed \in Nat /\ fed <= MaxFeed
  BY DEF InTurn, TypeOK, TxTypeOK, Provenance, OpenBlockTraced
<1>5. f.at = ShardsBefore(f.block) + f.idx
  <2>1. BuiltInTurn
    BY DEF InTurn
  <2> QED
    BY <2>1, Zenon DEF BuiltInTurn
<1>6. ShardsBefore(f.block) \in Int
  <2>1. f.block \in Int
    BY <1>2
  <2> QED
    BY <2>1, ShardsOfBlock, Zenon
<1> QED
  BY <1>1, <1>2, <1>3, <1>4, <1>5, <1>6

\* No frame of a block that is over can be heard.
LEMMA NoMoreOfIt ==
  ASSUME InTurn, NEW f \in air, f.kind # "plain"
  PROVE  ~Over(f.block)
<1> SUFFICES ASSUME NEW g \in heard, ShardsBefore(f.block) + TxK + MaxLate < g.at PROVE FALSE
  BY DEF Over
<1>1. g.at \in Nat /\ g.at <= f.at + MaxLate
  BY DEF InTurn, NoneTooLate, TypeOK, RxTypeOK, Frames
<1>2. f \in Seen
  BY DEF Seen
<1> QED
  BY <1>1, <1>2, BlockFrame

\* Among as many blocks as the table has entries, all newer than b, one is that much newer.
LEMMA FarBlock ==
  ASSUME NEW h \in [Slots -> Nat], \A s, t \in Slots : h[s] = h[t] => s = t,
         NEW b \in Nat, \A s \in Slots : b < h[s]
  PROVE  \E s \in Slots : b + NSlots <= h[s]
<1> SUFFICES ASSUME \A s \in Slots : h[s] < b + NSlots PROVE FALSE
  OBVIOUS
<1> DEFINE Between == (b + 1)..(b + (NSlots - 1))
<1>1. h \in [Slots -> Between]
  OBVIOUS
<1>2. IsFiniteSet(Slots) /\ Cardinality(Slots) = NSlots
  BY FS_Interval DEF Slots
<1>3. IsFiniteSet(Between) /\ Cardinality(Between) = NSlots - 1
  <2>1. b + 1 \in Int /\ b + (NSlots - 1) \in Int
    OBVIOUS
  <2>2. /\ IsFiniteSet(Between)
        /\ Cardinality(Between) = IF b + 1 > b + (NSlots - 1) THEN 0 ELSE (b + (NSlots - 1)) - (b + 1) + 1
    BY <2>1, FS_Interval
  <2> QED
    BY <2>2
<1> HIDE DEF Between
<1>4. Cardinality(Between) < Cardinality(Slots)
  BY <1>2, <1>3
<1>5. PICK s, t \in Slots : s # t /\ h[s] = h[t]
  BY <1>1, <1>2, <1>3, <1>4, FS_PigeonHole
<1> QED
  BY <1>5

-----------------------------------------------------------------------------
\* The signed distance tells the older of two numbers less than half the range apart.
LEMMA Diff32Sign ==
  ASSUME NEW a \in Nat, NEW b \in Nat, 2 * a < Mod, 2 * b < Mod
  PROVE  Diff32(a, b) >= 0 <=> b <= a
<1>1. CASE b <= a
  <2>1. a % Mod = a /\ b % Mod = b
    BY ModSmall
  <2>2. 2 * (a - b) < Mod
    BY <1>1
  <2> QED
    BY <1>1, <2>1, <2>2, Diff32Near
<1>2. CASE a < b
  <2>1. a - b \in Int /\ a - b = Mod * (-1) + (Mod + a - b) /\ Mod + a - b \in 0..(Mod - 1)
    BY <1>2
  <2>2. (a - b) % Mod = Mod + a - b
    <3>1. -1 \in Int
      OBVIOUS
    <3> QED
      BY <2>1, <3>1, RemainderIs
  <2>3. ~(2 * (Mod + a - b) < Mod)
    OBVIOUS
  <2>4. Diff32(a, b) = a - b
    BY <2>2, <2>3 DEF Diff32
  <2> QED
    BY <1>2, <2>4
<1> QED
  BY <1>1, <1>2

\* When the scan of fec_rx_block_get stops nowhere it ends at the oldest entry,
\* if there is one older than all the others.
LEMMA SlotForOldest ==
  ASSUME NEW b, \A t \in Slots : ~StopsAt(t, b), \E t \in Slots : Oldest(t)
  PROVE  SlotFor(b) \in Slots /\ Oldest(SlotFor(b))
  BY DEF SlotFor

\* The entry that is evicted holds the least block number of the table.
LEMMA EvictsLeast ==
  ASSUME 2 * MaxFeed < Mod, InTurn, TableCurrent, NEW b, \A t \in Slots : ~StopsAt(t, b)
  PROVE  \A t \in Slots : /\ slots[t].block \in Nat \ {0}
                          /\ slots[SlotFor(b)].block <= slots[t].block
<1>1. \A t \in Slots : slots[t].block \in Nat \ {0} /\ slots[t].block <= MaxFeed
  <2> TAKE t \in Slots
  <2>1. PICK g \in heard : g.kind # "plain" /\ g.block = slots[t].block
    BY DEF StopsAt, TableCurrent
  <2>2. g \in Seen
    BY DEF Seen
  <2> QED
    BY <2>1, <2>2, BlockFrame
<1>2. \A s, t \in Slots : Diff32(slots[t].block, slots[s].block) >= 0
                            <=> slots[s].block <= slots[t].block
  <2> TAKE s, t \in Slots
  <2>1. PICK x \in Nat, y \in Nat : /\ x = slots[t].block /\ y = slots[s].block
                                    /\ x <= MaxFeed /\ y <= MaxFeed
    BY <1>1
  <2>2. 2 * x < Mod /\ 2 * y < Mod
    BY <2>1
  <2> QED
    BY <2>1, <2>2, Diff32Sign
<1>3. \E s \in Slots : \A t \in Slots : slots[s].block <= slots[t].block
  <2> DEFINE S == {slots[t].block : t \in Slots}
  <2>1. S \subseteq Nat /\ S # {}
    <3>1. 1 \in Slots
      BY DEF Slots
    <3> QED
      BY <1>1, <3>1
  <2>2. PICK n \in S : \A m \in S : ~(<<m, n>> \in OpToRel(<, Nat))
    BY <2>1, WFMin, NatLessThanWellFounded
  <2>3. \A m \in S : m < n => <<m, n>> \in OpToRel(<, Nat)
    BY <2>1 DEF OpToRel
  <2>4. \A m \in S : n <= m
    <3>1. \A m \in S : ~(m < n)
      BY <2>2, <2>3, Zenon
    <3>2. n \in S
      BY <2>2, Zenon
    <3> HIDE DEF S
    <3> QED
      BY <2>1, <3>1, <3>2
  <2> QED
    BY <2>4
<1>4. Oldest(SlotFor(b)) /\ SlotFor(b) \in Slots
  <2>1. \E s \in Slots : Oldest(s)
    BY <1>2, <1>3 DEF Oldest
  <2> QED
    BY <2>1, SlotForOldest
<1> QED
  BY <1>1, <1>2, <1>4 DEF Oldest

\* When a full table is asked for one more block, the entry given away is of a
\* block that is over once frame f is heard, and f's block is not older.
LEMMA EvictedIsOver ==
  ASSUME 2 * MaxFeed < Mod, LateWithin, InTurn, TableCurrent, NEW f \in air, f.kind # "plain",
         \A t \in Slots : ~StopsAt(t, f.block), heard' = heard \cup {f}
  PROVE  \E b \in Nat : b = slots[SlotFor(f.block)].block /\ Over(b)'
<1>1. f \in Seen
  BY DEF Seen
<1>2. PICK e \in Slots, c \in Nat \ {0}, b \in Nat \ {0} :
        e = SlotFor(f.block) /\ c = f.block /\ b = slots[e].block
  BY <1>1, BlockFrame, EvictsLeast, SlotForEntry
<1>3. /\ \A t \in Slots : slots[t].block \in Nat \ {0} /\ b <= slots[t].block
      /\ \A t \in Slots : slots[t].used /\ slots[t].block # c
  BY <1>2, EvictsLeast DEF StopsAt
<1>4. \A s, t \in Slots : slots[s].block = slots[t].block => s = t
  BY <1>3 DEF InTurn, SlotTable
<1>5. ASSUME NEW t \in Slots, NEW d \in Nat \ {0}, d + NSlots <= slots[t].block
      PROVE  \E g \in heard : ShardsBefore(d) + TxK + MaxLate < g.at
  <2>1. PICK g \in heard : g.kind # "plain" /\ g.block = slots[t].block
    BY <1>3 DEF TableCurrent
  <2>2. g \in Seen
    BY DEF Seen
  <2>3. /\ g.at = ShardsBefore(g.block) + g.idx /\ g.idx \in Nat /\ ShardsBefore(g.block) \in Int
    BY <2>1, <2>2, BlockFrame
  <2>4. /\ ShardsBefore(d) + TxK + MaxLate < ShardsBefore(g.block)
        /\ ShardsBefore(d) \in Nat
    <3>1. g.block \in Nat /\ d + NSlots <= g.block
      BY <1>3, <1>5, <2>1
    <3> QED
      BY <3>1, FarApart
  <2>5. ShardsBefore(d) + TxK + MaxLate < g.at
    BY <2>3, <2>4
  <2> QED
    BY <2>5
<1>6. ~(c < b)
  <2> SUFFICES ASSUME c < b PROVE FALSE
    OBVIOUS
  <2> DEFINE h == [t \in Slots |-> slots[t].block]
  <2>1. h \in [Slots -> Nat] /\ \A s, t \in Slots : h[s] = h[t] => s = t
    BY <1>3, <1>4
  <2>2. \A s \in Slots : c < h[s]
    BY <1>3
  <2> HIDE DEF h
  <2>3. PICK t \in Slots : c + NSlots <= h[t]
    BY <1>2, <2>1, <2>2, FarBlock
  <2>4. Over(c)
    BY <1>5, <2>3 DEF Over, h
  <2> QED
    BY <1>2, <2>4, NoMoreOfIt
<1>7. \E g \in heard' : ShardsBefore(b) + TxK + MaxLate < g.at
  <2> DEFINE h == [t \in Slots |-> IF t = e THEN c ELSE slots[t].block]
  <2>1. h \in [Slots -> Nat] /\ \A s, t \in Slots : h[s] = h[t] => s = t
    BY <1>2, <1>3, <1>4
  <2>2. \A s \in Slots : b < h[s]
    <3>1. b # c
      BY <1>2, <1>3
    <3>2. \A s \in Slots : s # e => b # slots[s].block
      BY <1>2, <1>4
    <3> QED
      BY <1>3, <1>6, <3>1, <3>2
  <2> HIDE DEF h
  <2>3. PICK t \in Slots : b + NSlots <= h[t]
    BY <2>1, <2>2, FarBlock
  <2>4. CASE t = e
    <3>1. b + NSlots <= c
      BY <2>3, <2>4 DEF h
    <3>2. ShardsBefore(b) + TxK + MaxLate < ShardsBefore(c) /\ ShardsBefore(b) \in Nat
      BY <3>1, FarApart
    <3>3. f.at = ShardsBefore(c) + f.idx /\ f.idx \in Nat /\ ShardsBefore(c) \in Int
      BY <1>1, <1>2, BlockFrame
    <3>4. ShardsBefore(b) + TxK + MaxLate < f.at
      BY <3>2, <3>3
    <3> QED
      BY <3>4
  <2>5. CASE t # e
    <3>1. b + NSlots <= slots[t].block
      BY <2>3, <2>5 DEF h
    <3> QED
      BY <1>5, <3>1
  <2> QED
    BY <2>4, <2>5
<1> QED
  BY <1>2, <1>7 DEF Over, ShardsBefore

-----------------------------------------------------------------------------
\* What was over or has an entry stays so when a frame f of another block is
\* heard that leaves the entry alone.
LEMMA OtherBlocksKept ==
  ASSUME NEW f, heard' = heard \cup {f}, EmittedBodies \subseteq EmittedBodies',
         NEW b, f.block # b \/ f.kind = "plain"
  PROVE  /\ HeardOf(b)' = HeardOf(b)
         /\ BlockOut(b) => BlockOut(b)'
         /\ Over(b) => Over(b)'
         /\ DoneWith(b) => DoneWith(b)'
<1>1. HeardOf(b)' = HeardOf(b)
  BY DEF HeardOf
<1>2. BlockOut(b) => BlockOut(b)'
  BY DEF BlockOut, Before
<1>3. Over(b) => Over(b)'
  BY DEF Over, ShardsBefore
<1> QED
  BY <1>1, <1>2, <1>3 DEF DoneWith

\* rx_fec_payload keeps an entry for every block it has heard of and that is not over, ...
LEMMA TableCurrentStep ==
  ASSUME 2 * MaxFeed < Mod, LateWithin, TxK = RxK, ~EmitMayFail, InTurn, TableCurrent,
         NEW f \in air, RxFrame(f)
  PROVE  TableCurrent'
<1>1. /\ f \in Frames /\ f \in Seen /\ heard' = heard \cup {f} /\ slots \in [Slots -> Blocks]
      /\ f.kind # "plain" => f.shards = RxK /\ RxK > 0
  BY DEF InTurn, TypeOK, TxTypeOK, RxTypeOK, RxFrame, Seen, Provenance, FramesTraced, FrameTraced
<1>2. EmittedBodies \subseteq EmittedBodies'
  BY EntriesServedStep DEF InTurn
<1>3. CASE f.kind = "plain"
  <2>1. slots' = slots
    BY <1>3 DEF RxFrame, RxPlain, RxRefused, RxBadIndex, RxData, RxParity
  <2>2. \A g \in heard' : g.kind # "plain" => g \in heard
    BY <1>1, <1>3
  <2>3. ASSUME NEW b, TableHas(b) PROVE TableHas(b)'
    <3>1. PICK s \in Slots :
            /\ slots[s].used /\ slots[s].block = b
            /\ \A g \in heard :
                 g.block = b => /\ g.kind = "data" /\ g.idx \in Shards => g.idx \in slots[s].got
                                /\ g.kind = "parity" => slots[s].gotParity
      BY <2>3 DEF TableHas
    <3> QED
      BY <1>1, <1>3, <2>1, <3>1 DEF TableHas
  <2>4. \A g \in heard' : g.kind # "plain" => TableHas(g.block)' \/ DoneWith(g.block)'
    <3> SUFFICES ASSUME NEW g \in heard, g.kind # "plain"
                 PROVE  TableHas(g.block)' \/ DoneWith(g.block)'
      BY <2>2
    <3>1. PICK b : b = g.block /\ (TableHas(b) \/ DoneWith(b))
      BY DEF TableCurrent
    <3>2. DoneWith(b) => DoneWith(b)'
      BY <1>1, <1>2, <1>3, OtherBlocksKept
    <3>3. TableHas(b)' \/ DoneWith(b)'
      BY <2>3, <3>1, <3>2
    <3> QED
      BY <3>1, <3>3
  <2> QED
    BY <1>1, <2>1, <2>4 DEF TableCurrent
<1>4. CASE f.kind # "plain"
  <2> DEFINE e == SlotFor(f.block)
  <2>1. PICK blk \in Blocks :
          /\ slots' = [slots EXCEPT ![e] = blk]
          /\ blk.used /\ blk.block = f.block
          /\ BlockGet(f.block).got \subseteq blk.got
          /\ f.kind = "data" /\ f.idx \in Shards => f.idx \in blk.got
          /\ BlockGet(f.block).gotParity \/ f.kind = "parity" => blk.gotParity
    BY <1>1, <1>4, EntryWritten DEF InTurn, TypeOK
  <2>2. e \in Slots /\ slots'[e] = blk /\ \A s \in Slots : s # e => slots'[s] = slots[s]
    BY <1>1, <2>1, SlotForEntry
  <2>3. /\ slots[e].used => StopsAt(e, f.block) \/ \A t \in Slots : ~StopsAt(t, f.block)
        /\ slots[e].used /\ StopsAt(e, f.block) => slots[e].block = f.block
    BY SlotForEntry DEF StopsAt
  <2>4. slots[e].used /\ slots[e].block # f.block =>
          \E b \in Nat : b = slots[e].block /\ Over(b)'
    BY <1>1, <1>4, <2>3, EvictedIsOver
  <2>5. ~Over(f.block)
    BY <1>4, NoMoreOfIt
  <2> HIDE DEF e
  <2>6. ASSUME NEW g \in heard, g.block = f.block, g.kind # "plain"
        PROVE  /\ g.kind = "data" /\ g.idx \in Shards => g.idx \in blk.got
               /\ g.kind = "parity" => blk.gotParity
    <3>1. PICK s \in Slots :
            /\ slots[s].used /\ slots[s].block = f.block
            /\ g.kind = "data" /\ g.idx \in Shards => g.idx \in slots[s].got
            /\ g.kind = "parity" => slots[s].gotParity
      BY <2>5, <2>6 DEF TableCurrent, DoneWith, TableHas
    <3>2. BlockGet(f.block) = slots[s]
      BY <1>1, <3>1, EntryFound DEF BlockGet, InTurn
    <3> QED
      BY <2>1, <3>1, <3>2
  <2>7. TableHas(f.block)'
    BY <1>1, <2>1, <2>2, <2>6 DEF TableHas
  <2>8. ASSUME NEW b, b # f.block, TableHas(b), b \in Int
        PROVE  TableHas(b)' \/ DoneWith(b)'
    <3>1. PICK s \in Slots :
            /\ slots[s].used /\ slots[s].block = b
            /\ \A h \in heard :
                 h.block = b =>
                   /\ h.kind = "data" /\ h.idx \in Shards => h.idx \in slots[s].got
                   /\ h.kind = "parity" => slots[s].gotParity
      BY <2>8 DEF TableHas
    <3>2. CASE s # e
      <4>1. slots'[s] = slots[s]
        BY <2>2, <3>2
      <4> QED
        BY <1>1, <2>8, <3>1, <4>1 DEF TableHas
    <3>3. CASE s = e
      <4>1. Over(b)'
        BY <2>4, <2>8, <3>1, <3>3
      <4>2. /\ HeardOf(b)' = HeardOf(b)
            /\ BlockOut(b) => BlockOut(b)'
        BY <1>1, <1>2, <2>8, OtherBlocksKept
      <4>3. Cardinality(HeardOf(b)) >= TxK => BlockOut(b)
        BY <1>1, <1>4, <2>8, TableRepairs DEF InTurn
      <4> QED
        BY <4>1, <4>2, <4>3 DEF DoneWith
    <3> QED
      BY <3>2, <3>3
  <2>9. ASSUME NEW g \in heard', g.kind # "plain"
        PROVE  TableHas(g.block)' \/ DoneWith(g.block)'
    <3>1. CASE g.block = f.block
      BY <2>7, <3>1
    <3>2. CASE g.block # f.block
      <4>1. g \in heard /\ g \in Seen
        BY <1>1, <3>2 DEF Seen
      <4>2. PICK b \in Int : b = g.block
        BY <2>9, <4>1, BlockFrame
      <4>3. TableHas(b) \/ DoneWith(b)
        BY <2>9, <4>1, <4>2 DEF TableCurrent
      <4>4. DoneWith(b) => DoneWith(b)'
        BY <1>1, <1>2, <3>2, <4>2, OtherBlocksKept
      <4>5. TableHas(b)' \/ DoneWith(b)'
        BY <2>8, <3>2, <4>2, <4>3, <4>4
      <4> QED
        BY <4>2, <4>5
    <3> QED
      BY <3>1, <3>2
  <2>10. ASSUME NEW s \in Slots, slots'[s].used
         PROVE  \E g \in heard' : g.kind # "plain" /\ g.block = slots'[s].block
    BY <1>1, <1>4, <2>1, <2>2, <2>10 DEF TableCurrent
  <2> QED
    BY <2>9, <2>10 DEF TableCurrent
<1> QED
  BY <1>3, <1>4

\* ... and every other step does.
LEMMA TableCurrentNext ==
  ASSUME 2 * MaxFeed < Mod, LateWithin, TxK = RxK, ~EmitMayFail, InTurn, TableCurrent,
         [Next]_vars
  PROVE  TableCurrent'
<1>1. CASE Receive
  BY <1>1, TableCurrentStep DEF Receive
<1>2. CASE RestartRx
  BY <1>2 DEF RestartRx, RxRestart, NoBlock, TableCurrent
<1>3. CASE Transmit \/ RestartTx \/ UNCHANGED vars
  <2>1. heard' = heard /\ slots' = slots /\ out' = out
    BY <1>3 DEF Transmit, RestartTx, rxVars, vars
  <2>2. ASSUME NEW b PROVE (TableHas(b) => TableHas(b)') /\ (DoneWith(b) => DoneWith(b)')
    BY <2>1 DEF TableHas, DoneWith, Over, ShardsBefore, HeardOf, BlockOut, Before, EmittedBodies
  <2>3. ASSUME NEW f \in heard', f.kind # "plain" PROVE TableHas(f.block)' \/ DoneWith(f.block)'
    <3>1. PICK b : b = f.block /\ (TableHas(b) \/ DoneWith(b))
      BY <2>1, <2>3 DEF TableCurrent
    <3>2. TableHas(b)' \/ DoneWith(b)'
      BY <2>2, <3>1
    <3> QED
      BY <3>1, <3>2
  <2> QED
    BY <2>1, <2>3 DEF TableCurrent
<1> QED
  BY <1>1, <1>2, <1>3 DEF Next

\* The same in whatever order the frames of a block arrive, and arrive again,
\* for any number of datagrams: fec_rx_block_get gives the oldest of its entries
\* away again and again, but never that of a block one of whose frames can still
\* come, as long as no frame arrives further behind a newer one than the frames
\* of NSlots - 1 blocks.
THEOREM OneLossRepairedAnyOrder ==
  ASSUME MaxLate <= (NSlots - 1) * (TxK + 1), TxK = RxK, 2 * MaxFeed < Mod, "tx" \notin Restarts,
         ~SendMayFail, ~EmitMayFail
  PROVE  Spec => []OneLossRepaired
<1> DEFINE Rest == /\ FramesNumbered /\ DatagramOrder /\ BuiltInTurn /\ NoneTooLate
                   /\ EntriesServed /\ TableCurrent
<1>1. Init => Rest
  <2>1. Init => TableCurrent /\ NoneTooLate
    BY DEF Init, TxInit, RxInit, NoBlock, TableCurrent, NoneTooLate
  <2> QED
    BY <2>1, FramesNumberedInit, DatagramOrderInit, EntriesServedInit, BuiltInTurnInit
<1>2. LateWithin /\ MaxFeed < Mod
  BY DEF LateWithin
<1>3. TypeOK /\ SlotTable /\ Provenance /\ Aligned /\ Rest => InTurn
  BY DEF InTurn
<1>4. TypeOK /\ SlotTable /\ Provenance /\ Aligned /\ Rest /\ [Next]_vars => Rest'
  <2> SUFFICES ASSUME InTurn, TableCurrent, [Next]_vars PROVE Rest'
    BY <1>3
  <2>1. /\ TypeOK /\ Provenance /\ FramesNumbered /\ DatagramOrder /\ Aligned /\ BuiltInTurn
        /\ NoneTooLate /\ EntriesServed
    BY DEF InTurn
  <2>2. FramesNumbered' /\ DatagramOrder' /\ BuiltInTurn'
    BY <1>2, <2>1, FramesNumberedStep, DatagramOrderStep, BuiltInTurnStep
  <2>3. NoneTooLate' /\ EntriesServed' /\ TableCurrent'
    BY <1>2, <2>1, NoneTooLateStep, EntriesServedNext, TableCurrentNext
  <2> QED
    BY <2>2, <2>3
<1>5. TypeOK /\ SlotTable /\ Provenance /\ Aligned /\ Rest => OneLossRepaired
  <2> SUFFICES ASSUME InTurn, TableCurrent PROVE OneLossRepaired
    BY <1>3
  <2>1. ASSUME NEW f \in heard, f.kind # "plain", Cardinality(HeardOf(f.block)) >= TxK
        PROVE  BlockOut(f.block)
    <3>1. f \in Seen
      BY DEF Seen
    <3>2. f.block \in Int /\ TxK > 0
      BY <2>1, <3>1, BlockFrame
    <3>3. TableHas(f.block) \/ DoneWith(f.block)
      BY <2>1 DEF TableCurrent
    <3>4. TableHas(f.block) => BlockOut(f.block)
      BY <2>1, <3>2, TableRepairs DEF InTurn
    <3> QED
      BY <2>1, <3>3, <3>4 DEF DoneWith
  <2> QED
    BY <2>1, RepairedMeans DEF InTurn
<1>6. Spec => []Provenance
  BY <1>2, GenuineAlways, PTL
<1>7. Spec => []Aligned
  BY <1>2, AlignedKept
<1> QED
  BY <1>1, <1>4, <1>5, <1>6, <1>7, TypeCorrect, SlotTableKept, PTL DEF Spec

-----------------------------------------------------------------------------
\* Why a block counts as recovered: its parity shard came, and what it repairs
\* is out.
RecoveredInv ==
  \A s \in Slots : slots[s].recovered => slots[s].gotParity /\ MissingIsOut(slots[s])

\* What was emitted stays where it is, ...
LEMMA EmissionKept ==
  ASSUME NEW S \in Seq(Emissions), NEW T \in Seq(Emissions)
  PROVE  \A i \in DOMAIN S : i \in DOMAIN (S \o T) /\ (S \o T)[i] = S[i]
  OBVIOUS

\* ... and what is emitted last is the last.
LEMMA EmissionLast ==
  ASSUME NEW S \in Seq(Emissions), NEW e \in Emissions
  PROVE  \E i \in DOMAIN (S \o <<e>>) : (S \o <<e>>)[i] = e
<1>1. /\ Len(S) \in Nat /\ DOMAIN (S \o <<e>>) = 1..(Len(S) + 1)
      /\ (S \o <<e>>)[Len(S) + 1] = e
  OBVIOUS
<1> QED
  BY <1>1

\* fec_try_recover counts a block as recovered only when its datagram is out.
LEMMA RepairIsOut ==
  ASSUME slots \in [Slots -> Blocks], out \in Seq(Emissions), RecoveredInv,
         NEW f \in Frames, NEW blk \in Blocks, NEW direct \in Seq(Emissions), NEW st,
         Repair(f, blk, direct, st),
         blk.recovered => blk.gotParity /\ MissingIsOut(blk)
  PROVE  RecoveredInv'
<1>1. PICK result \in {"idle", "complete", "unusable", "repaired"} :
        /\ RepairMay(blk, result)
        /\ slots' = [slots EXCEPT ![SlotFor(f.block)] =
             [blk EXCEPT !.recovered = @ \/ result \in {"complete", "repaired"}]]
        /\ out' = out \o direct \o (IF result = "repaired"
                                    THEN Emitted("fec", RecoveredBody(blk)) ELSE <<>>)
  BY DEF Repair
<1> DEFINE b == [blk EXCEPT !.recovered = @ \/ result \in {"complete", "repaired"}]
           last == IF result = "repaired" THEN Emitted("fec", RecoveredBody(blk)) ELSE <<>>
<1>2. /\ b \in Blocks /\ b.got = blk.got /\ b.gotParity = blk.gotParity
      /\ b.parity = blk.parity /\ b.data = blk.data
      /\ b.recovered = (blk.recovered \/ result \in {"complete", "repaired"})
  BY DEF Blocks
<1>3. slots' = [slots EXCEPT ![SlotFor(f.block)] = b]
  BY <1>1
<1>4. RecoveredBody(blk) \in SUBSET Nat
  BY DEF RecoveredBody, Xor, XorAll, Blocks
<1>5. last \in Seq(Emissions)
  BY <1>4, BodiesOfOne
<1>6. PICK S \in Seq(Emissions) : S = out \o direct
  <2>1. out \o direct \in Seq(Emissions)
    BY ConcatProperties
  <2> QED
    BY <2>1
<1> HIDE DEF b
<1>7. out' = S \o last
  BY <1>1, <1>6
<1> HIDE DEF last
<1>8. \A i \in DOMAIN out : i \in DOMAIN out' /\ out'[i] = out[i]
  <2>1. \A i \in DOMAIN out : i \in DOMAIN S /\ S[i] = out[i]
    BY <1>6, EmissionKept
  <2>2. \A i \in DOMAIN S : i \in DOMAIN out' /\ out'[i] = S[i]
    BY <1>5, <1>7, EmissionKept
  <2> QED
    BY <2>1, <2>2
<1>9. ASSUME NEW c \in Blocks, MissingIsOut(c) PROVE MissingIsOut(c)'
  <2>1. CASE Missing(c) = {}
    BY <2>1 DEF MissingIsOut, Missing
  <2>2. CASE Missing(c) # {}
    <3>1. PICK i \in DOMAIN out : out[i] = [body |-> RecoveredBody(c), via |-> "fec"]
      BY <1>9, <2>2 DEF MissingIsOut
    <3>2. i \in DOMAIN out' /\ out'[i] = [body |-> RecoveredBody(c), via |-> "fec"]
      BY <1>8, <3>1
    <3>3. OneMissing(c)
      BY <1>9, <2>2 DEF MissingIsOut
    <3> QED
      BY <3>2, <3>3 DEF MissingIsOut, OneMissing, Missing, RecoveredBody
  <2> QED
    BY <2>1, <2>2
<1>10. ASSUME b.recovered PROVE b.gotParity /\ MissingIsOut(blk)'
  <2>1. CASE result = "complete"
    <3>1. Pending(blk) /\ Missing(blk) = {}
      BY <1>1, <2>1 DEF RepairMay
    <3> QED
      BY <1>2, <3>1 DEF Pending, MissingIsOut, Missing
  <2>2. CASE result = "repaired"
    <3>1. Pending(blk) /\ OneMissing(blk)
      BY <1>1, <2>2 DEF RepairMay
    <3>2. PICK e \in Emissions : e = [body |-> RecoveredBody(blk), via |-> "fec"]
      BY <1>4 DEF Emissions
    <3>3. last = <<e>>
      BY <2>2, <3>2 DEF last, Emitted
    <3>4. PICK i \in DOMAIN out' : out'[i] = e
      <4>1. out' = S \o <<e>>
        BY <1>7, <3>3
      <4> QED
        BY <4>1, EmissionLast
    <3>5. OneMissing(blk)'
      BY <3>1 DEF OneMissing, Missing
    <3>6. \E j \in DOMAIN out' : out'[j] = [body |-> RecoveredBody(blk), via |-> "fec"]
      BY <3>2, <3>4
    <3>7. MissingIsOut(blk)'
      BY <3>5, <3>6 DEF MissingIsOut, RecoveredBody
    <3> QED
      BY <1>2, <3>1, <3>7 DEF Pending
  <2>3. CASE result \in {"idle", "unusable"}
    <3>1. blk.recovered
      BY <1>2, <1>10, <2>3
    <3> QED
      BY <1>2, <1>9, <3>1
  <2> QED
    BY <2>1, <2>2, <2>3
<1>11. ASSUME NEW s \in Slots, slots'[s].recovered
       PROVE  slots'[s].gotParity /\ MissingIsOut(slots[s])'
  <2>1. CASE s = SlotFor(f.block)
    <3>1. slots'[s] = b
      BY <1>3, <2>1
    <3>2. Missing(b) = Missing(blk) /\ RecoveredBody(b) = RecoveredBody(blk)
      BY <1>2 DEF Missing, RecoveredBody
    <3>3. OneMissing(b) <=> OneMissing(blk)
      BY <3>2 DEF OneMissing
    <3>4. b.gotParity /\ MissingIsOut(blk)'
      BY <1>10, <1>11, <3>1
    <3>5. MissingIsOut(slots[s])' <=> MissingIsOut(blk)'
      BY <3>1, <3>2, <3>3 DEF MissingIsOut, OneMissing, Missing, RecoveredBody
    <3> QED
      BY <3>1, <3>4, <3>5
  <2>2. CASE s # SlotFor(f.block)
    <3>1. slots'[s] = slots[s]
      BY <1>3, <2>2
    <3>2. PICK c \in Blocks : c = slots[s]
      OBVIOUS
    <3>3. c.gotParity /\ MissingIsOut(c)
      BY <1>11, <3>1, <3>2 DEF RecoveredInv
    <3>4. MissingIsOut(c)'
      BY <1>9, <3>3
    <3> QED
      BY <3>1, <3>2, <3>3, <3>4
  <2> QED
    BY <2>1, <2>2
<1> QED
  BY <1>11 DEF RecoveredInv

\* Whatever frame is read: a shard added to a recovered block is the missing
\* one, and a parity shard that comes again is the one it has.
LEMMA RecoveredStep ==
  ASSUME TypeOK, Provenance, DatagramOrder, RecoveredInv, NEW f \in air, RxFrame(f)
  PROVE  RecoveredInv'
<1>1. /\ f \in Frames /\ f \in Seen /\ f.block \in 0..(Mod - 1)
      /\ slots \in [Slots -> Blocks] /\ out \in Seq(Emissions)
      /\ EmitOK \subseteq BOOLEAN
  BY FrameFields DEF TypeOK, TxTypeOK, RxTypeOK, Seen, EmitOK
<1>2. PICK g \in Blocks :
        /\ g = BlockGet(f.block) /\ g.block = f.block /\ EntryTraced(g)
        /\ g.recovered => g.gotParity /\ MissingIsOut(g)
  <2>1. PICK g \in Blocks : g = BlockGet(f.block) /\ g.block = f.block
    BY <1>1, BlockGetTyped
  <2>2. EntryTraced(g)
    BY <1>1, <2>1, BlockGetTraced DEF Provenance
  <2>3. ASSUME g.recovered PROVE g.gotParity /\ MissingIsOut(g)
    <3>1. CASE g = slots[SlotFor(f.block)]
      BY <2>3, <3>1, SlotForEntry DEF RecoveredInv
    <3>2. CASE g # slots[SlotFor(f.block)]
      <4>1. g = [NoBlock EXCEPT !.used = TRUE, !.block = f.block]
        BY <2>1, <3>2 DEF BlockGet
      <4> QED
        BY <2>3, <4>1 DEF NoBlock
    <3> QED
      BY <3>1, <3>2
  <2> QED
    BY <2>1, <2>2, <2>3
<1>3. ASSUME out' \in Seq(Emissions), slots' = slots,
             \A i \in DOMAIN out : i \in DOMAIN out' /\ out'[i] = out[i]
      PROVE  RecoveredInv'
  <2>1. ASSUME NEW s \in Slots, MissingIsOut(slots[s]) PROVE MissingIsOut(slots[s])'
    BY <1>3, <2>1 DEF MissingIsOut, OneMissing, Missing, RecoveredBody
  <2> QED
    BY <1>3, <2>1 DEF RecoveredInv
<1>4. CASE RxPlain(f)
  <2>1. PICK ok \in BOOLEAN : out' = out \o Direct(f, ok) /\ slots' = slots
    BY <1>1, <1>4 DEF RxPlain
  <2>2. Direct(f, ok) \in Seq(Emissions)
    BY <1>1, DirectTyped
  <2>3. \A i \in DOMAIN out : i \in DOMAIN out' /\ out'[i] = out[i]
    BY <1>1, <2>1, <2>2, EmissionKept
  <2>4. out' \in Seq(Emissions)
    BY <1>1, <2>1, <2>2, ConcatProperties
  <2> QED
    BY <1>3, <2>1, <2>3, <2>4
<1>5. CASE RxRefused(f)
  BY <1>1, <1>3, <1>5 DEF RxRefused
<1>6. CASE RxBadIndex(f)
  <2>1. slots' = [slots EXCEPT ![SlotFor(f.block)] = g] /\ out' = out
    BY <1>2, <1>6 DEF RxBadIndex
  <2>2. ASSUME NEW s \in Slots, slots'[s].recovered
        PROVE  slots'[s].gotParity /\ MissingIsOut(slots'[s])
    <3>1. CASE slots'[s] = slots[s]
      BY <2>2, <3>1 DEF RecoveredInv
    <3>2. CASE slots'[s] = g
      BY <1>2, <2>2, <3>2
    <3> QED
      BY <1>1, <2>1, <3>1, <3>2
  <2> QED
    BY <2>1, <2>2 DEF RecoveredInv, MissingIsOut, OneMissing, Missing, RecoveredBody
<1>7. CASE RxData(f)
  <2>1. PICK ok \in BOOLEAN :
          \E st : f.idx \in Shards /\ Repair(f, WithData(g, f), Direct(f, ok), st)
    BY <1>1, <1>2, <1>7 DEF RxData
  <2>2. PICK blk, st :
          blk = WithData(g, f) /\ f.idx \in Shards /\ Repair(f, blk, Direct(f, ok), st)
    BY <2>1
  <2>3. blk \in Blocks /\ Direct(f, ok) \in Seq(Emissions)
    BY <1>1, <2>2, WithTyped, DirectTyped
  <2>4. blk.recovered => blk.gotParity /\ MissingIsOut(blk)
    <3>1. CASE f.idx \in g.got
      BY <1>2, <2>2, <3>1 DEF WithData
    <3>2. CASE f.idx \notin g.got
      <4>1. blk = [[g EXCEPT !.got = @ \cup {f.idx}] EXCEPT !.data[f.idx] = f.body]
        BY <2>2, <3>2 DEF WithData
      <4>2. /\ blk.recovered = g.recovered /\ blk.gotParity = g.gotParity
            /\ blk.got = g.got \cup {f.idx}
        BY <4>1 DEF Blocks
      <4>3. MissingIsOut(g) => Missing(blk) = {}
        BY <2>2, <3>2, <4>2 DEF MissingIsOut, OneMissing, Missing
      <4> QED
        BY <1>2, <4>2, <4>3 DEF MissingIsOut
    <3> QED
      BY <3>1, <3>2
  <2> QED
    BY <1>1, <2>2, <2>3, <2>4, RepairIsOut
<1>8. CASE RxParity(f)
  <2>1. PICK blk, st : blk = WithParity(g, f) /\ f.kind = "parity" /\ Repair(f, blk, <<>>, st)
    BY <1>2, <1>8 DEF RxParity
  <2>2. blk \in Blocks /\ <<>> \in Seq(Emissions)
    BY <1>1, <2>1, WithTyped
  <2>3. /\ blk.recovered = g.recovered /\ blk.gotParity /\ blk.parity = f.body
        /\ blk.got = g.got /\ blk.data = g.data
    BY <2>1 DEF WithParity, Blocks
  <2>4. ASSUME g.gotParity PROVE g.parity = f.body
    <3>1. PICK p \in heard : p.kind = "parity" /\ p.block = f.block /\ p.body = g.parity
      BY <1>2, <2>4 DEF EntryTraced
    <3>2. p = f
      BY <1>1, <2>1, <3>1 DEF Seen, DatagramOrder, BlocksInOrder
    <3> QED
      BY <3>1, <3>2
  <2>5. blk.recovered => MissingIsOut(blk)
    <3> SUFFICES ASSUME blk.recovered PROVE MissingIsOut(blk)
      OBVIOUS
    <3>1. MissingIsOut(g) /\ g.parity = f.body
      BY <1>2, <2>3, <2>4
    <3>2. Missing(blk) = Missing(g) /\ RecoveredBody(blk) = RecoveredBody(g)
      BY <2>3, <3>1 DEF Missing, RecoveredBody
    <3> QED
      BY <3>1, <3>2 DEF MissingIsOut, OneMissing
  <2> QED
    BY <1>1, <2>1, <2>2, <2>3, <2>5, RepairIsOut
<1> QED
  BY <1>4, <1>5, <1>6, <1>7, <1>8 DEF RxFrame

\* A block that fec_try_recover counts as recovered lacks nothing: the repaired
\* datagram is out, whatever sendto failed before.  For every geometry, table
\* and radio, also with restarts of the receiver.
THEOREM RecoveredIsOutAlways ==
  ASSUME MaxFeed < Mod, "tx" \notin Restarts
  PROVE  Spec => []RecoveredIsOut
<1> DEFINE Rest == FramesNumbered /\ DatagramOrder /\ RecoveredInv
<1>1. Init => Rest
  <2>1. Init => RecoveredInv
    BY DEF Init, RxInit, NoBlock, RecoveredInv
  <2> QED
    BY <2>1, FramesNumberedInit, DatagramOrderInit
<1>2. TypeOK /\ Provenance /\ Rest /\ [Next]_vars => Rest'
  <2> SUFFICES ASSUME TypeOK, Provenance, Rest, [Next]_vars PROVE Rest'
    OBVIOUS
  <2>1. FramesNumbered' /\ DatagramOrder'
    BY FramesNumberedStep, DatagramOrderStep
  <2>2. RecoveredInv'
    <3>1. CASE Receive
      BY <3>1, RecoveredStep DEF Receive
    <3>2. CASE RestartRx
      BY <3>2 DEF RestartRx, RxRestart, NoBlock, RecoveredInv
    <3>3. CASE Transmit \/ RestartTx \/ UNCHANGED vars
      <4>1. slots' = slots /\ out' = out
        BY <3>3 DEF Transmit, RestartTx, rxVars, vars
      <4> QED
        BY <4>1 DEF RecoveredInv, MissingIsOut, OneMissing, Missing, RecoveredBody
    <3> QED
      BY <3>1, <3>2, <3>3 DEF Next
  <2> QED
    BY <2>1, <2>2
<1>3. Rest => RecoveredIsOut
  BY DEF RecoveredInv, RecoveredIsOut
<1>4. Spec => []Provenance
  BY GenuineAlways, PTL
<1> QED
  BY <1>1, <1>2, <1>3, <1>4, TypeCorrect, PTL DEF Spec
=============================================================================
