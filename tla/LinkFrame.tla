----------------------------- MODULE LinkFrame -----------------------------
(***************************************************************************)
(* The frames omega4-linkd puts on the air and the arithmetic both ends    *)
(* do on them.                                                             *)
(*                                                                         *)
(* A payload is abstracted to a set of atoms and XOR to symmetric          *)
(* difference: a datagram handed to the transmitter is the singleton of a  *)
(* number never used before, so that what a receiver emits is a datagram   *)
(* that was really sent exactly when it is such a singleton.  This is the  *)
(* free case of XOR on byte strings: two different combinations of         *)
(* datagrams are different payloads.                                       *)
(***************************************************************************)
EXTENDS Integers, FiniteSets

CONSTANTS
  TxK,     \* --fec DATA of the transmitter, 0 when FEC is off
  RxK,     \* --fec DATA of the receiver, 0 when FEC is off
  IdxMod,  \* values of shard_index: 2^8 in the code
  Mod      \* values of sequence and of block_id: 2^32 in the code

ASSUME FrameAssumption ==
  /\ TxK \in Nat
  /\ RxK \in Nat
  /\ IdxMod \in Nat \ {0}
  /\ Mod \in Nat \ {0}
  /\ TxK < IdxMod
  /\ TxK < Mod

\* Increment of a uint32_t.
Succ32(n) == (n + 1) % Mod

\* A mistake: the difference without the wrap of the counters.
Diff32Plain(a, b) == a - b

\* (int32_t)(a - b): the distance from b to a, negative when a is older.
Diff32(a, b) ==
  LET d == (a - b) % Mod IN IF 2 * d < Mod THEN d ELSE d - Mod

\* a ^= b on payloads.
Xor(a, b) == (a \ b) \cup (b \ a)

\* XOR of the payloads F[i], i \in I: the atoms that occur in an odd number of them.
XorAll(F, I) ==
  {x \in UNION {F[i] : i \in I} : Cardinality({i \in I : x \in F[i]}) % 2 = 1}

\* A datagram somebody handed to the transmitter, as opposed to a mixture of several.
IsDatagram(p) == \E x \in p : p = {x}

Plain(seq, at, body) ==
  [kind |-> "plain", seq |-> seq, at |-> at,
   block |-> 0, idx |-> 0, shards |-> 0, body |-> body]

Data(seq, at, block, idx, body) ==
  [kind |-> "data", seq |-> seq, at |-> at,
   block |-> block, idx |-> idx, shards |-> TxK, body |-> body]

Parity(seq, at, block, body) ==
  [kind |-> "parity", seq |-> seq, at |-> at,
   block |-> block, idx |-> TxK, shards |-> TxK, body |-> body]

\* What build_frame can produce: "at" is the order of transmission (timestamp_us).
Frames ==
  [kind   : {"plain", "data", "parity"},
   seq    : 0..(Mod - 1),
   at     : Nat,
   block  : 0..(Mod - 1),
   idx    : 0..(IdxMod - 1),
   shards : {0, TxK},
   body   : SUBSET Nat]
=============================================================================
