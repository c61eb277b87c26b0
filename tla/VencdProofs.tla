---------------------------- MODULE VencdProofs ----------------------------
(***************************************************************************)
(* run_encoder, for every number of buffers, frames and partitions and for *)
(* every unit the encoder may produce: where the camera's buffers are,     *)
(* what a signal leaves of the output, and what a receiver, or a reader of *)
(* the file, makes of it.  The recursive functions of the model            *)
(* (FlattenSeq, Received, UnitsFrom) are shown to exist by an induction    *)
(* over a set of naturals, NatSetInduction; after that they are used       *)
(* through their steps only.                                               *)
(***************************************************************************)
EXTENDS Vencd, SequenceTheorems, WellFoundedInduction, FiniteSetTheorems, TLAPS

\* What is known of the buffers and of the loop, for every kind of output.
CameraType ==
  /\ queued \in SUBSET Buffers /\ lost \in SUBSET Buffers
  /\ filled \in Seq(Buffers)
  /\ held \in Buffers \cup {NoBuffer}

Pieces ==
  [units : {<<>>} \cup {<<u>> : u \in Coded} \cup {<<u, v>> : u, v \in Coded},
   end : BOOLEAN, frame : Nat]

LoopType ==
  /\ pc \in {"header", "head", "grab", "parts", "ended"}
  /\ encoded \in Nat
  /\ stopAt \in Nat \cup {-1}
  /\ given \in Seq(Pieces)

\* After a signal the frame in hand is the last one.
Stopping ==
  stopAt # -1 =>
    /\ encoded <= stopAt + 1
    /\ pc \in {"header", "grab", "parts"} => encoded = stopAt

\* Parts are of frames that are finished, or of the one whose parts are read,
\* or the header.
Counted ==
  /\ pc = "header" => given = <<>> /\ encoded = 0
  /\ \A i \in DOMAIN given : given[i].frame <= encoded
  /\ pc \in {"head", "grab"} \/ (pc = "ended" /\ result = 0) =>
       \A i \in DOMAIN given : given[i].frame < encoded \/ (i = 1 /\ encoded = 0)

LoopInv == LoopType /\ Stopping /\ Counted

-----------------------------------------------------------------------------
\* The filled buffers, one more and one less.
OnceEach(s) == \A i, j \in DOMAIN s : s[i] = s[j] => i = j

\* The camera has filled a buffer: it comes last, and each is still there once.
LEMMA FilledOneMore ==
  ASSUME NEW s \in Seq(Buffers), NEW b \in Buffers, OnceEach(s), b \notin Range(s)
  PROVE  /\ Append(s, b) \in Seq(Buffers)
         /\ Range(Append(s, b)) = Range(s) \cup {b}
         /\ OnceEach(Append(s, b))
<1>1. /\ Append(s, b) \in Seq(Buffers)
      /\ DOMAIN Append(s, b) = 1..(Len(s) + 1)
      /\ \A i \in 1..Len(s) : Append(s, b)[i] = s[i]
      /\ Append(s, b)[Len(s) + 1] = b
      /\ DOMAIN s = 1..Len(s) /\ Len(s) \in Nat
  OBVIOUS
<1>2. Range(Append(s, b)) = Range(s) \cup {b}
  BY <1>1 DEF Range
<1>3. OnceEach(Append(s, b))
  BY <1>1 DEF Range, OnceEach
<1> QED BY <1>1, <1>2, <1>3

\* The oldest filled buffer is dequeued: the others are still there once.
LEMMA FilledOneLess ==
  ASSUME NEW s \in Seq(Buffers), s # <<>>, OnceEach(s)
  PROVE  /\ Head(s) \in Range(s) /\ Head(s) \in Buffers
         /\ Tail(s) \in Seq(Buffers)
         /\ Range(Tail(s)) = Range(s) \ {Head(s)}
         /\ OnceEach(Tail(s))
<1>1. /\ Tail(s) \in Seq(Buffers)
      /\ Len(s) \in Nat /\ Len(s) > 0
      /\ DOMAIN Tail(s) = 1..(Len(s) - 1)
      /\ \A i \in 1..(Len(s) - 1) : Tail(s)[i] = s[i + 1]
      /\ DOMAIN s = 1..Len(s)
      /\ Head(s) = s[1] /\ Head(s) \in Buffers
  OBVIOUS
<1>2. Head(s) \in Range(s) /\ Range(Tail(s)) \subseteq Range(s) \ {Head(s)}
  BY <1>1 DEF Range, OnceEach
<1>3. ASSUME NEW x \in Range(s), x # Head(s)
      PROVE  x \in Range(Tail(s))
  <2>1. PICK i \in 1..Len(s) : s[i] = x
    BY <1>1 DEF Range
  <2>2. i # 1 /\ i - 1 \in 1..(Len(s) - 1) /\ Tail(s)[i - 1] = s[i]
    BY <1>1, <1>3, <2>1
  <2> QED BY <1>1, <2>1, <2>2 DEF Range
<1>4. OnceEach(Tail(s))
  BY <1>1 DEF OnceEach
<1> QED BY <1>1, <1>2, <1>3, <1>4

-----------------------------------------------------------------------------
\* The buffers, without the loop: each is in one place.
InOnePlace ==
  /\ queued \cup Range(filled) \cup lost \cup ({held} \ {NoBuffer}) = Buffers
  /\ queued \cap (Range(filled) \cup lost \cup {held}) = {}
  /\ Range(filled) \cap (lost \cup {held}) = {}
  /\ held \notin lost
  /\ OnceEach(filled)

BufferInv ==
  /\ CameraType
  /\ pc \in {"header", "head", "grab", "parts", "ended"}
  /\ pc # "ended" => InOnePlace /\ (held # NoBuffer <=> pc = "parts")
  /\ pc = "ended" => queued = {}

\* At the start every buffer is queued.
LEMMA InitBuffers == Init => BufferInv
  BY VencdAssumption DEF Init, BufferInv, CameraType, InOnePlace, OnceEach, Range, VencdAssumption

\* The camera is closed, and the loop is not entered again.
LEMMA Closed ==
  ASSUME BufferInv, NEW status, Close(status)
  PROVE  BufferInv'
  BY DEF BufferInv, CameraType, Close

\* The buffers stay where they are.
LEMMA BuffersStay ==
  ASSUME BufferInv, UNCHANGED camera, pc # "ended",
         pc' \in {"header", "head", "grab", "parts"}, pc' = "parts" <=> pc = "parts"
  PROVE  BufferInv'
  BY DEF BufferInv, CameraType, InOnePlace, OnceEach, camera

\* Every step leaves a buffer in one place until the camera is closed.
LEMMA StepBuffers == BufferInv /\ [Next]_vars => BufferInv'
<1> SUFFICES ASSUME BufferInv, [Next]_vars
             PROVE  BufferInv'
  OBVIOUS
<1> USE VencdAssumption DEF VencdAssumption
<1>1. CASE Header
  <2>1. pc = "header" /\ ((pc' = "head" /\ UNCHANGED camera) \/ Close(1))
    BY <1>1 DEF Header
  <2> QED BY <2>1, Closed, BuffersStay
<1>2. CASE NextFrame
  BY <1>2, BuffersStay DEF NextFrame
<1>3. CASE Finish \/ GrabFails \/ PartFails
  BY <1>3, Closed DEF Finish, GrabFails, PartFails
<1>4. CASE GrabSkipped
  <2> DEFINE b == Head(filled)
  <2>1. /\ pc = "grab" /\ pc' = "head" /\ filled # <<>> /\ filled' = Tail(filled)
        /\ held' = NoBuffer
        /\ \/ queued' = queued \cup {b} /\ lost' = lost
           \/ lost' = lost \cup {b} /\ queued' = queued
    BY <1>4 DEF GrabSkipped, Put
  <2>2. InOnePlace /\ held = NoBuffer /\ CameraType
    BY <2>1 DEF BufferInv
  <2>3. /\ b \in Range(filled) /\ b \in Buffers
        /\ filled' \in Seq(Buffers)
        /\ Range(filled') = Range(filled) \ {b}
        /\ OnceEach(filled')
    BY <2>1, <2>2, FilledOneLess DEF CameraType, InOnePlace
  <2> HIDE DEF b
  <2>4. CameraType'
    BY <2>1, <2>2, <2>3 DEF CameraType
  <2>5. InOnePlace'
    BY <2>1, <2>2, <2>3 DEF InOnePlace, CameraType
  <2> QED BY <2>1, <2>4, <2>5 DEF BufferInv
<1>5. CASE Grab
  <2> DEFINE b == Head(filled)
  <2>1. /\ pc = "grab" /\ pc' = "parts" /\ filled # <<>> /\ filled' = Tail(filled)
        /\ held' = b /\ queued' = queued /\ lost' = lost
    BY <1>5 DEF Grab
  <2>2. InOnePlace /\ held = NoBuffer /\ CameraType
    BY <2>1 DEF BufferInv
  <2>3. /\ b \in Range(filled) /\ b \in Buffers
        /\ filled' \in Seq(Buffers)
        /\ Range(filled') = Range(filled) \ {b}
        /\ OnceEach(filled')
    BY <2>1, <2>2, FilledOneLess DEF CameraType, InOnePlace
  <2> HIDE DEF b
  <2>4. CameraType'
    BY <2>1, <2>2, <2>3 DEF CameraType
  <2>5. InOnePlace'
    BY <2>1, <2>2, <2>3 DEF InOnePlace, CameraType
  <2> QED BY <2>1, <2>3, <2>4, <2>5 DEF BufferInv
<1>6. CASE ReadPart
  <2>1. PICK p \in Parts(IF part + 1 < MaxParts THEN BOOLEAN ELSE {TRUE}) :
          IF FrameDone(p)
          THEN Put(held) /\ encoded' = encoded + 1 /\ pc' = "head" /\ part' = 0
          ELSE part' = part + 1 /\ UNCHANGED <<pc, encoded, queued, lost, held>>
    BY <1>6 DEF ReadPart
  <2>2. pc = "parts" /\ filled' = filled
    BY <1>6 DEF ReadPart
  <2>3. CASE FrameDone(p)
    <3>1. InOnePlace /\ held \in Buffers /\ CameraType
      BY <2>2 DEF BufferInv, CameraType
    <3>2. /\ pc' = "head" /\ held' = NoBuffer
          /\ \/ queued' = queued \cup {held} /\ lost' = lost
             \/ lost' = lost \cup {held} /\ queued' = queued
      BY <2>1, <2>3 DEF Put
    <3>3. CameraType'
      BY <2>2, <3>1, <3>2 DEF CameraType
    <3>4. InOnePlace'
      <4>1. filled \in Seq(Buffers) /\ Range(filled) \subseteq Buffers
        BY <3>1 DEF CameraType, Range
      <4> QED BY <2>2, <3>1, <3>2, <4>1 DEF InOnePlace, CameraType
    <3> QED BY <3>2, <3>3, <3>4 DEF BufferInv
  <2>4. CASE ~FrameDone(p)
    BY <2>1, <2>2, <2>4, BuffersStay DEF camera
  <2> QED BY <2>3, <2>4
<1>7. CASE Fill
  <2>1. PICK b \in queued : queued' = queued \ {b} /\ filled' = Append(filled, b)
    BY <1>7 DEF Fill
  <2>2. pc' = pc /\ held' = held /\ lost' = lost
    BY <1>7 DEF Fill
  <2>3. InOnePlace /\ CameraType /\ pc # "ended" /\ b \in Buffers
    BY <2>1 DEF BufferInv, CameraType
  <2>4. /\ filled' \in Seq(Buffers)
        /\ Range(filled') = Range(filled) \cup {b}
        /\ OnceEach(filled')
    BY <2>1, <2>3, FilledOneMore DEF CameraType, InOnePlace
  <2>5. CameraType'
    BY <2>1, <2>2, <2>3, <2>4 DEF CameraType
  <2>6. InOnePlace'
    BY <2>1, <2>2, <2>3, <2>4 DEF InOnePlace, CameraType
  <2> QED BY <2>2, <2>3, <2>5, <2>6 DEF BufferInv
<1>8. CASE Signal \/ UNCHANGED vars
  <2>1. UNCHANGED <<pc, queued, filled, held, lost>>
    BY <1>8 DEF Signal, vars, camera
  <2> QED BY <2>1 DEF BufferInv, CameraType, InOnePlace, OnceEach
<1> QED BY <1>1, <1>2, <1>3, <1>4, <1>5, <1>6, <1>7, <1>8 DEF Next

\* Each camera buffer is in one place on every path through run_encoder: with
\* the driver, filled, with the encoder, or lost to a failed VIDIOC_QBUF.
THEOREM BuffersAlwaysKept == Spec => []BuffersKept
<1>1. BufferInv => BuffersKept
  BY DEF BufferInv, InOnePlace, OnceEach, BuffersKept
<1> QED BY <1>1, InitBuffers, StepBuffers, PTL DEF Spec

-----------------------------------------------------------------------------
\* Before the header no part was output.
LEMMA InitLoop == Init => LoopInv
  BY DEF Init, LoopInv, LoopType, Stopping, Counted

\* A part of the current frame is given to output_write.
LEMMA PartGiven ==
  ASSUME LoopInv, NEW ends \in SUBSET BOOLEAN, NEW p \in Parts(ends), given' = Append(given, p)
  PROVE  /\ given' \in Seq(Pieces)
         /\ DOMAIN given' = 1..(Len(given) + 1) /\ DOMAIN given = 1..Len(given)
         /\ \A i \in DOMAIN given : given'[i] = given[i]
         /\ given'[Len(given) + 1].frame = encoded
         /\ Len(given) \in Nat
<1>1. p \in Pieces /\ p.frame = encoded
  BY DEF Parts, Pieces, LoopInv, LoopType
<1>2. given \in Seq(Pieces)
  BY DEF LoopInv, LoopType
<1> HIDE DEF Pieces
<1> QED BY <1>1, <1>2

\* Every step keeps the parts to the frames begun, and begins none after a signal.
LEMMA StepLoop == LoopInv /\ [Next]_vars => LoopInv'
<1> SUFFICES ASSUME LoopInv, [Next]_vars
             PROVE  LoopInv'
  OBVIOUS
<1> USE DEF LoopInv
<1>1. CASE Header
  <2>1. PICK p \in Parts({FALSE}) :
          \/ Written(p) /\ pc' = "head" /\ UNCHANGED <<result, camera>>
          \/ WriteFails(p) /\ Close(1)
    BY <1>1 DEF Header
  <2>2. /\ given' = Append(given, p)
        /\ pc' = "head" \/ (pc' = "ended" /\ result' = 1)
    BY <2>1 DEF Written, WriteFails, Close
  <2>3. pc = "header" /\ encoded' = encoded /\ stopAt' = stopAt
    BY <1>1 DEF Header
  <2>4. /\ given' \in Seq(Pieces)
        /\ DOMAIN given' = 1..(Len(given) + 1)
        /\ given'[Len(given) + 1].frame = encoded
    BY <2>2, PartGiven
  <2>5. given = <<>> /\ encoded = 0
    BY <2>3 DEF Counted
  <2>6. DOMAIN given' = 1..1 /\ given'[1].frame = 0
    BY <2>4, <2>5
  <2>7. LoopType'
    BY <2>2, <2>3, <2>4 DEF LoopType
  <2>8. Stopping'
    BY <2>2, <2>3 DEF Stopping
  <2>9. Counted'
    BY <2>2, <2>3, <2>5, <2>6 DEF Counted
  <2> QED BY <2>7, <2>8, <2>9
<1>2. CASE NextFrame
  BY <1>2 DEF NextFrame, Continues, LoopType, Stopping, Counted, output
<1>3. CASE Finish \/ GrabFails
  <2>1. /\ pc \in {"head", "grab"} /\ pc' = "ended"
        /\ UNCHANGED <<encoded, stopAt, given>>
    BY <1>3 DEF Finish, GrabFails, Close, output
  <2> QED BY <2>1 DEF LoopType, Stopping, Counted
<1>4. CASE GrabSkipped \/ Grab
  <2>1. /\ pc = "grab" /\ pc' \in {"head", "parts"}
        /\ UNCHANGED <<encoded, stopAt, given>>
    BY <1>4 DEF GrabSkipped, Grab, output
  <2> QED BY <2>1 DEF LoopType, Stopping, Counted
<1>5. CASE ReadPart
  <2>1. PICK p \in Parts(IF part + 1 < MaxParts THEN BOOLEAN ELSE {TRUE}) :
          /\ Written(p)
          /\ IF FrameDone(p)
             THEN Put(held) /\ encoded' = encoded + 1 /\ pc' = "head" /\ part' = 0
             ELSE part' = part + 1 /\ UNCHANGED <<pc, encoded, queued, lost, held>>
    BY <1>5 DEF ReadPart
  <2>2. /\ given' \in Seq(Pieces) /\ Len(given) \in Nat
        /\ DOMAIN given' = 1..(Len(given) + 1) /\ DOMAIN given = 1..Len(given)
        /\ \A i \in DOMAIN given : given'[i] = given[i]
        /\ given'[Len(given) + 1].frame = encoded
    <3>1. given' = Append(given, p)
      BY <2>1 DEF Written
    <3> QED BY <3>1, PartGiven
  <2>3. pc = "parts" /\ stopAt' = stopAt
    BY <1>5 DEF ReadPart
  <2>4. \/ pc' = "head" /\ encoded' = encoded + 1
        \/ pc' = "parts" /\ encoded' = encoded
    BY <2>1, <2>3
  <2>5. LoopType'
    BY <2>2, <2>3, <2>4 DEF LoopType
  <2>6. Stopping'
    BY <2>3, <2>4 DEF Stopping, LoopType
  <2>7. \A i \in DOMAIN given' : given'[i].frame \in Nat /\ given'[i].frame <= encoded
    <3>1. ASSUME NEW i \in DOMAIN given'
          PROVE  given'[i].frame <= encoded
      <4>1. CASE i \in DOMAIN given
        BY <2>2, <4>1 DEF Counted
      <4>2. CASE i = Len(given) + 1
        BY <2>2, <4>2 DEF LoopType
      <4> QED BY <2>2, <4>1, <4>2
    <3>2. \A i \in DOMAIN given' : given'[i].frame \in Nat
      <4>1. \A q \in Pieces : q.frame \in Nat
        BY DEF Pieces
      <4>2. \A i \in DOMAIN given' : given'[i] \in Pieces
        BY <2>2
      <4> QED BY <4>1, <4>2
    <3> QED BY <3>1, <3>2
  <2>8. Counted'
    BY <2>3, <2>4, <2>7 DEF Counted, LoopType
  <2> QED BY <2>5, <2>6, <2>8
<1>6. CASE PartFails
  <2>1. pc = "parts" /\ pc' = "ended" /\ result' = 1 /\ encoded' = encoded /\ stopAt' = stopAt
    BY <1>6 DEF PartFails, Close
  <2>2. given' = given \/ \E p \in Parts(BOOLEAN) : given' = Append(given, p)
    BY <1>6 DEF PartFails, WriteFails, output
  <2>3. CASE given' = given
    BY <2>1, <2>3 DEF LoopType, Stopping, Counted
  <2>4. CASE \E p \in Parts(BOOLEAN) : given' = Append(given, p)
    <3>1. /\ given' \in Seq(Pieces) /\ Len(given) \in Nat
          /\ DOMAIN given' = 1..(Len(given) + 1) /\ DOMAIN given = 1..Len(given)
          /\ \A i \in DOMAIN given : given'[i] = given[i]
          /\ given'[Len(given) + 1].frame = encoded
      BY <2>4, PartGiven
    <3>2. \A i \in DOMAIN given' : given'[i].frame <= encoded
      BY <3>1 DEF Counted, LoopType
    <3>3. LoopType' /\ Stopping'
      BY <2>1, <3>1 DEF LoopType, Stopping
    <3>4. Counted'
      BY <2>1, <3>2 DEF Counted
    <3> QED BY <3>3, <3>4
  <2> QED BY <2>2, <2>3, <2>4
<1>7. CASE Signal
  BY <1>7 DEF Signal, LoopType, Stopping, Counted, output
<1>8. CASE Fill \/ UNCHANGED vars
  <2>1. UNCHANGED <<pc, encoded, stopAt, given, result>>
    BY <1>8 DEF Fill, vars, output
  <2> QED BY <2>1 DEF LoopType, Stopping, Counted
<1> QED BY <1>1, <1>2, <1>3, <1>4, <1>5, <1>6, <1>7, <1>8 DEF Next

\* After SIGTERM no new frame is begun, the one in hand is finished, and a run
\* that ends with success has output every frame it began to its end.
THEOREM StopIsClean == Spec => []CleanStop
<1>1. LoopInv => CleanStop
  BY DEF LoopInv, LoopType, Stopping, Counted, CleanStop
<1> QED BY <1>1, InitLoop, StepLoop, PTL DEF Spec

-----------------------------------------------------------------------------
\* Induction on natural numbers, over a set in place of a predicate.
LEMMA NatSetInduction ==
  ASSUME NEW T, 0 \in T, \A n \in Nat : n \in T => n + 1 \in T
  PROVE  Nat \subseteq T
<1> SUFFICES ASSUME Nat \ T # {}
             PROVE  FALSE
  OBVIOUS
<1>1. PICK x \in Nat \ T : \A y \in Nat \ T : ~(<<y, x>> \in OpToRel(<, Nat))
  BY WFMin, NatLessThanWellFounded
<1>2. x # 0 /\ x - 1 \in Nat /\ x - 1 < x /\ (x - 1) + 1 = x
  OBVIOUS
<1>3. x - 1 \in T
  BY <1>1, <1>2 DEF OpToRel
<1> QED BY <1>2, <1>3

\* The recursive function in FlattenSeq.
FlatFun(s) ==
  CHOOSE f : f = [i \in 1..Len(s) |-> IF i = 1 THEN s[i] ELSE f[i - 1] \o s[i]]

\* The recursive function in FlattenSeq exists, for every sequence.
LEMMA FlatFunDef ==
  ASSUME NEW s, Len(s) \in Nat
  PROVE  FlatFun(s) = [i \in 1..Len(s) |-> IF i = 1 THEN s[i] ELSE FlatFun(s)[i - 1] \o s[i]]
<1> DEFINE Is(f, n) == f = [i \in 1..n |-> IF i = 1 THEN s[i] ELSE f[i - 1] \o s[i]]
           T == {n \in Nat : \E f : Is(f, n)}
<1>1. 0 \in T
  <2> DEFINE f == [i \in 1..0 |-> s[i]]
  <2>1. Is(f, 0)
    OBVIOUS
  <2> QED BY <2>1
<1>2. ASSUME NEW n \in Nat, n \in T
      PROVE  n + 1 \in T
  <2>1. PICK f : Is(f, n)
    BY <1>2
  <2> DEFINE x == IF n + 1 = 1 THEN s[n + 1] ELSE f[n] \o s[n + 1]
             g == [i \in 1..(n + 1) |-> IF i = n + 1 THEN x ELSE f[i]]
  <2>2. ASSUME NEW i \in 1..(n + 1)
        PROVE  g[i] = IF i = 1 THEN s[i] ELSE g[i - 1] \o s[i]
    <3>1. CASE i = n + 1
      <4>1. g[i] = x
        BY <3>1
      <4>2. i # 1 => n \in 1..(n + 1) /\ n # n + 1 /\ i - 1 = n
        BY <3>1
      <4>3. i # 1 => g[i - 1] = f[n]
        BY <4>2
      <4> QED BY <3>1, <4>1, <4>2, <4>3
    <3>2. CASE i # n + 1
      <4>1. i \in 1..n /\ g[i] = f[i]
        BY <3>2
      <4>2. f[i] = IF i = 1 THEN s[i] ELSE f[i - 1] \o s[i]
        BY <2>1, <4>1
      <4>3. i # 1 => i - 1 \in 1..(n + 1) /\ i - 1 # n + 1
        BY <4>1
      <4>4. i # 1 => g[i - 1] = f[i - 1]
        BY <4>3
      <4> QED BY <4>1, <4>2, <4>4
    <3> QED BY <3>1, <3>2
  <2>3. Is(g, n + 1)
    <3>1. g = [i \in 1..(n + 1) |-> g[i]]
      OBVIOUS
    <3>2. [i \in 1..(n + 1) |-> g[i]]
            = [i \in 1..(n + 1) |-> IF i = 1 THEN s[i] ELSE g[i - 1] \o s[i]]
      BY <2>2, Zenon
    <3>3. g = [i \in 1..(n + 1) |-> IF i = 1 THEN s[i] ELSE g[i - 1] \o s[i]]
      <4> HIDE DEF g
      <4> QED BY <3>1, <3>2
    <3> HIDE DEF g
    <3> QED BY <3>3
  <2>4. \E h : Is(h, n + 1)
    <3> HIDE DEF Is, g
    <3> QED BY <2>3
  <2>5. n + 1 \in Nat
    OBVIOUS
  <2> QED BY <2>4, <2>5
<1>3. Len(s) \in T
  <2> HIDE DEF T
  <2> QED BY <1>1, <1>2, NatSetInduction
<1> QED BY <1>3, Zenon DEF FlatFun

\* It starts with the first element and appends the next ones.
LEMMA FlatFunSteps ==
  ASSUME NEW s, Len(s) \in Nat
  PROVE  /\ Len(s) # 0 => FlatFun(s)[1] = s[1]
         /\ \A i \in 1..(Len(s) - 1) : FlatFun(s)[i + 1] = FlatFun(s)[i] \o s[i + 1]
<1> DEFINE f == FlatFun(s)
<1>1. \A i \in 1..Len(s) : f[i] = IF i = 1 THEN s[i] ELSE f[i - 1] \o s[i]
  <2>1. f = [i \in 1..Len(s) |-> IF i = 1 THEN s[i] ELSE f[i - 1] \o s[i]]
    BY FlatFunDef, Zenon
  <2> HIDE DEF f
  <2> QED BY <2>1, Zenon
<1> HIDE DEF f
<1>2. Len(s) # 0 => f[1] = s[1]
  BY <1>1
<1>3. ASSUME NEW i \in 1..(Len(s) - 1)
      PROVE  f[i + 1] = f[i] \o s[i + 1]
  <2>1. i + 1 \in 1..Len(s) /\ i + 1 # 1 /\ (i + 1) - 1 = i
    OBVIOUS
  <2>2. f[i + 1] = f[(i + 1) - 1] \o s[i + 1]
    BY <1>1, <2>1, Zenon
  <2> QED BY <2>1, <2>2
<1> QED BY <1>2, <1>3 DEF f

\* All strings of one more: the strings before, and it.
LEMMA FlattenAppend ==
  ASSUME NEW S, NEW s \in Seq(Seq(S)), NEW x \in Seq(S)
  PROVE  /\ FlattenSeq(s) \in Seq(S)
         /\ FlattenSeq(Append(s, x)) = FlattenSeq(s) \o x
<1> DEFINE t == Append(s, x)
           n == Len(s)
           f == FlatFun(s)
           g == FlatFun(t)
<1>1. /\ n \in Nat /\ Len(t) = n + 1 /\ \A i \in 1..n : t[i] = s[i] /\ s[i] \in Seq(S)
      /\ t[n + 1] = x
  OBVIOUS
<1>2. n # 0 => FlattenSeq(s) = f[n]
  BY Zenon DEF FlattenSeq, FlatFun
<1>3. FlattenSeq(t) = g[n + 1]
  <2>1. Len(t) # 0
    BY <1>1
  <2>2. FlattenSeq(t) = g[Len(t)]
    <3> HIDE DEF t
    <3> QED BY <2>1, Zenon DEF FlattenSeq, FlatFun
  <2> QED BY <1>1, <2>2
<1>4. /\ n # 0 => f[1] = s[1]
      /\ \A i \in 1..(n - 1) : f[i + 1] = f[i] \o s[i + 1]
  BY <1>1, FlatFunSteps
<1>5. /\ g[1] = t[1]
      /\ \A i \in 1..n : g[i + 1] = g[i] \o t[i + 1]
  <2>1. Len(t) \in Nat /\ Len(t) # 0 /\ Len(t) - 1 = n
    BY <1>1
  <2> HIDE DEF t, n
  <2> QED BY <2>1, FlatFunSteps
<1> HIDE DEF f, g, t
<1>6. CASE n = 0
  <2>1. s = <<>> /\ g[1] = x
    BY <1>1, <1>5, <1>6
  <2>2. FlattenSeq(s) = <<>>
    BY <2>1 DEF FlattenSeq
  <2>3. <<>> \o x = x /\ <<>> \in Seq(S)
    OBVIOUS
  <2>4. g[n + 1] = x
    BY <1>6, <2>1
  <2>5. FlattenSeq(t) = x /\ FlattenSeq(s) = <<>>
    BY <1>3, <2>2, <2>4, Zenon
  <2> QED BY <2>3, <2>5 DEF t
<1>7. CASE n # 0
  <2> HIDE DEF n
  <2> DEFINE T == {i \in Nat : i + 1 \in 1..n => f[i + 1] = g[i + 1] /\ f[i + 1] \in Seq(S)}
  <2>1. 0 \in T
    BY <1>1, <1>4, <1>5, <1>7
  <2>2. ASSUME NEW i \in Nat, i \in T
        PROVE  i + 1 \in T
    <3> SUFFICES ASSUME i + 2 \in 1..n
                 PROVE  f[i + 2] = g[i + 2] /\ f[i + 2] \in Seq(S)
      OBVIOUS
    <3>1. i + 1 \in 1..n /\ i + 1 \in 1..(n - 1) /\ (i + 1) + 1 = i + 2
      BY <1>1
    <3>2. f[i + 1] = g[i + 1] /\ f[i + 1] \in Seq(S)
      BY <2>2, <3>1
    <3>3. f[i + 2] = f[i + 1] \o s[i + 2] /\ g[i + 2] = g[i + 1] \o t[i + 2]
      BY <1>4, <1>5, <3>1
    <3>4. t[i + 2] = s[i + 2] /\ s[i + 2] \in Seq(S)
      BY <1>1
    <3> QED BY <3>2, <3>3, <3>4
  <2>3. \A i \in Nat : i \in T
    <3> HIDE DEF T
    <3> QED BY <2>1, <2>2, NatSetInduction
  <2>4. f[n] = g[n] /\ f[n] \in Seq(S)
    <3>1. n - 1 \in Nat /\ (n - 1) + 1 = n /\ n \in 1..n
      BY <1>1, <1>7
    <3>2. n - 1 \in T
      BY <2>3, <3>1
    <3> QED BY <3>1, <3>2
  <2>5. g[n + 1] = g[n] \o x
    <3>1. n \in 1..n
      BY <1>1, <1>7
    <3> QED BY <1>1, <1>5, <3>1, Zenon
  <2> QED BY <1>2, <1>3, <1>7, <2>4, <2>5 DEF t
<1> QED BY <1>6, <1>7

-----------------------------------------------------------------------------
\* One packet of the receiver: what the recursive function in Received does.
Nothing == [units |-> <<>>, open |-> <<>>]

Collected(got, p) ==
  LET sofar == IF FirstFragment(p) THEN <<UnitHeader(p)>> ELSE got.open
      more == sofar \o SubSeq(p, 3, Len(p))
  IN IF ~IsFragment(p) THEN [units |-> Append(got.units, p), open |-> <<>>]
     ELSE IF LastFragment(p) THEN [units |-> Append(got.units, more), open |-> <<>>]
     ELSE [units |-> got.units, open |-> more]

GotFun(s) ==
  CHOOSE got : got = [n \in 0..Len(s) |->
    IF n = 0 THEN Nothing ELSE Collected(got[n - 1], s[n].payload)]

\* What a receiver has is the last value of the recursive function in Received.
LEMMA ReceivedIs == ASSUME NEW s PROVE Received(s) = GotFun(s)[Len(s)].units
  BY Zenon DEF Received, GotFun, Collected, Nothing

\* That function exists, for every sequence of packets.
LEMMA GotFunDef ==
  ASSUME NEW s, Len(s) \in Nat
  PROVE  GotFun(s) = [n \in 0..Len(s) |->
           IF n = 0 THEN Nothing ELSE Collected(GotFun(s)[n - 1], s[n].payload)]
<1> DEFINE Is(f, n) == f = [i \in 0..n |->
                 IF i = 0 THEN Nothing ELSE Collected(f[i - 1], s[i].payload)]
           T == {n \in Nat : \E f : Is(f, n)}
<1>1. 0 \in T
  <2> DEFINE f == [i \in 0..0 |-> Nothing]
  <2>1. Is(f, 0)
    OBVIOUS
  <2> QED BY <2>1
<1>2. ASSUME NEW n \in Nat, n \in T
      PROVE  n + 1 \in T
  <2>1. PICK f : Is(f, n)
    BY <1>2
  <2> DEFINE x == Collected(f[n], s[n + 1].payload)
             g == [i \in 0..(n + 1) |-> IF i = n + 1 THEN x ELSE f[i]]
  <2>2. ASSUME NEW i \in 0..(n + 1)
        PROVE  g[i] = IF i = 0 THEN Nothing ELSE Collected(g[i - 1], s[i].payload)
    <3>1. CASE i = n + 1
      <4>1. g[i] = x /\ i # 0
        BY <3>1
      <4>2. n \in 0..(n + 1) /\ n # n + 1 /\ i - 1 = n
        BY <3>1
      <4>3. g[i - 1] = f[n]
        BY <4>2
      <4> QED BY <3>1, <4>1, <4>3
    <3>2. CASE i # n + 1
      <4>1. i \in 0..n /\ g[i] = f[i]
        BY <3>2
      <4>2. f[i] = IF i = 0 THEN Nothing ELSE Collected(f[i - 1], s[i].payload)
        BY <2>1, <4>1
      <4>3. i # 0 => i - 1 \in 0..(n + 1) /\ i - 1 # n + 1
        BY <4>1
      <4>4. i # 0 => g[i - 1] = f[i - 1]
        BY <4>3
      <4> QED BY <4>1, <4>2, <4>4
    <3> QED BY <3>1, <3>2
  <2>3. Is(g, n + 1)
    <3>1. g = [i \in 0..(n + 1) |-> g[i]]
      OBVIOUS
    <3>2. [i \in 0..(n + 1) |-> g[i]]
            = [i \in 0..(n + 1) |-> IF i = 0 THEN Nothing ELSE Collected(g[i - 1], s[i].payload)]
      BY <2>2, Zenon
    <3>3. g = [i \in 0..(n + 1) |-> IF i = 0 THEN Nothing ELSE Collected(g[i - 1], s[i].payload)]
      <4> HIDE DEF g
      <4> QED BY <3>1, <3>2
    <3> HIDE DEF g
    <3> QED BY <3>3
  <2>4. \E h : Is(h, n + 1)
    <3> HIDE DEF Is, g
    <3> QED BY <2>3
  <2>5. n + 1 \in Nat
    OBVIOUS
  <2> QED BY <2>4, <2>5
<1>3. Len(s) \in T
  <2> HIDE DEF T
  <2> QED BY <1>1, <1>2, NatSetInduction
<1> QED BY <1>3, Zenon DEF GotFun

\* What the receiver has after packets s.
State(s) == GotFun(s)[Len(s)]

\* It starts with nothing and collects one packet at a time.
LEMMA GotFunSteps ==
  ASSUME NEW s, Len(s) \in Nat
  PROVE  /\ GotFun(s)[0] = Nothing
         /\ \A n \in 0..(Len(s) - 1) : GotFun(s)[n + 1] = Collected(GotFun(s)[n], s[n + 1].payload)
<1> DEFINE f == GotFun(s)
<1>1. \A n \in 0..Len(s) : f[n] = IF n = 0 THEN Nothing ELSE Collected(f[n - 1], s[n].payload)
  <2>1. f = [n \in 0..Len(s) |-> IF n = 0 THEN Nothing ELSE Collected(f[n - 1], s[n].payload)]
    BY GotFunDef, Zenon
  <2> HIDE DEF f
  <2> QED BY <2>1, Zenon
<1> HIDE DEF f
<1>2. f[0] = Nothing
  BY <1>1
<1>3. ASSUME NEW n \in 0..(Len(s) - 1)
      PROVE  f[n + 1] = Collected(f[n], s[n + 1].payload)
  <2>1. n + 1 \in 0..Len(s) /\ n + 1 # 0 /\ (n + 1) - 1 = n
    OBVIOUS
  <2>2. f[n + 1] = Collected(f[(n + 1) - 1], s[n + 1].payload)
    BY <1>1, <2>1, Zenon
  <2> QED BY <2>1, <2>2
<1> QED BY <1>2, <1>3 DEF f

\* Before the first packet a receiver has nothing.
LEMMA StateEmpty == State(<<>>) = Nothing
<1>1. Len(<<>>) = 0
  OBVIOUS
<1> QED BY <1>1, GotFunSteps DEF State

\* One more packet.
LEMMA StateAppend ==
  ASSUME NEW S, NEW s \in Seq(S), NEW x \in S
  PROVE  State(Append(s, x)) = Collected(State(s), x.payload)
<1> DEFINE t == Append(s, x)
           n == Len(s)
           f == GotFun(s)
           g == GotFun(t)
<1>1. n \in Nat /\ Len(t) = n + 1 /\ (\A i \in 1..n : t[i] = s[i]) /\ t[n + 1] = x
  OBVIOUS
<1>2. f[0] = Nothing /\ \A i \in 0..(n - 1) : f[i + 1] = Collected(f[i], s[i + 1].payload)
  BY <1>1, GotFunSteps
<1>3. g[0] = Nothing /\ \A i \in 0..n : g[i + 1] = Collected(g[i], t[i + 1].payload)
  <2>1. Len(t) \in Nat /\ Len(t) - 1 = n
    BY <1>1
  <2> HIDE DEF t, n
  <2> QED BY <2>1, GotFunSteps
<1>4. State(s) = f[n] /\ State(t) = g[n + 1]
  <2>1. State(t) = g[Len(t)]
    BY Zenon DEF State
  <2> QED BY <1>1, <2>1 DEF State
<1> HIDE DEF f, g, t, n
<1> DEFINE T == {i \in Nat : i <= n => f[i] = g[i]}
<1>5. 0 \in T
  BY <1>2, <1>3
<1>6. ASSUME NEW i \in Nat, i \in T
      PROVE  i + 1 \in T
  <2> SUFFICES ASSUME i + 1 <= n
               PROVE  f[i + 1] = g[i + 1]
    OBVIOUS
  <2>1. i \in 0..(n - 1) /\ i \in 0..n /\ i + 1 \in 1..n /\ i <= n
    BY <1>1
  <2>2. f[i] = g[i]
    BY <1>6, <2>1
  <2>3. t[i + 1] = s[i + 1]
    BY <1>1, <2>1
  <2>4. f[i + 1] = Collected(f[i], s[i + 1].payload)
    BY <1>2, <2>1, Zenon
  <2>5. g[i + 1] = Collected(g[i], t[i + 1].payload)
    BY <1>3, <2>1, Zenon
  <2> QED BY <2>2, <2>3, <2>4, <2>5, Zenon
<1>7. \A i \in Nat : i \in T
  <2> HIDE DEF T
  <2> QED BY <1>5, <1>6, NatSetInduction
<1>8. f[n] = g[n]
  BY <1>1, <1>7
<1>9. g[n + 1] = Collected(g[n], t[n + 1].payload)
  <2>1. n \in 0..n
    BY <1>1
  <2> QED BY <1>3, <2>1, Zenon
<1>10. Collected(g[n], t[n + 1].payload) = Collected(f[n], x.payload)
  BY <1>1, <1>8, Zenon
<1> QED BY <1>4, <1>9, <1>10, Zenon DEF t

-----------------------------------------------------------------------------
\* Division with remainder.
LEMMA DivMod ==
  \A x \in Int, m \in Nat \ {0} :
    x = m * (x \div m) + (x % m) /\ x \div m \in Int /\ x % m \in 0..(m - 1)
  OBVIOUS

\* Quotient and remainder are the only ones.
LEMMA DivModUnique ==
  \A q, p \in Int, r, s \in Nat, m \in Nat \ {0} :
    r < m /\ s < m /\ m * q + r = m * p + s => q = p /\ r = s
  OBVIOUS

\* A number written as a multiple and a remainder.
LEMMA RemainderIs ==
  ASSUME NEW m \in Nat \ {0}, NEW x \in Int, NEW q \in Int, NEW r \in 0..(m - 1),
         x = m * q + r
  PROVE  x % m = r /\ x \div m = q
  BY DivMod, DivModUnique

\* The bytes rtp_send_nal puts in front of a fragment, and what a receiver
\* reads from them.
FragmentBytes(h, first, last) ==
  /\ (h \div 32) * 32 + 28 \in Bytes
  /\ ((h \div 32) * 32 + 28) % 32 = 28
  /\ ((h \div 32) * 32 + 28) \div 32 = h \div 32
  /\ (h % 32) + first + last \in Bytes
  /\ ((h % 32) + first + last) % 32 = h % 32
  /\ (h % 32) + first + last >= 128 <=> first = 128
  /\ ((h % 32) + first + last) % 128 >= 64 <=> last = 64
  /\ (h \div 32) * 32 + (h % 32) = h

\* FU indicator and FU header of rtp_send_nal: a receiver reads from them that the
\* packet is a fragment, whether it is the first or the last, and the unit's header.
LEMMA HeaderBytes ==
  ASSUME NEW h \in Bytes, NEW first \in {0, 128}, NEW last \in {0, 64}
  PROVE  FragmentBytes(h, first, last)
<1>1. h = 32 * (h \div 32) + (h % 32) /\ h \div 32 \in Int /\ h % 32 \in 0..31 /\ h \in 0..255
  BY DivMod DEF Bytes
<1> DEFINE q == h \div 32
           r == h % 32
<1>2. q \in 0..7 /\ r \in 0..31 /\ h = 32 * q + r
  BY <1>1
<1> HIDE DEF q, r
<1>3. (q * 32 + 28) % 32 = 28 /\ (q * 32 + 28) \div 32 = q
  <2>1. q * 32 + 28 = 32 * q + 28 /\ q * 32 + 28 \in Int /\ q \in Int /\ 28 \in 0..(32 - 1)
        /\ 32 \in Nat \ {0}
    BY <1>2
  <2> QED BY <2>1, RemainderIs
<1>4. \E k \in 0..6 : first + last = 32 * k
  <2>1. first + last \in {0, 64, 128, 192}
    OBVIOUS
  <2>2. 0 = 32 * 0 /\ 64 = 32 * 2 /\ 128 = 32 * 4 /\ 192 = 32 * 6
    OBVIOUS
  <2> QED BY <2>1, <2>2
<1>5. (r + first + last) % 32 = r
  <2>1. PICK k \in 0..6 : first + last = 32 * k
    BY <1>4
  <2>2. r + first + last = 32 * k + r /\ r + first + last \in Int /\ k \in Int
        /\ r \in 0..(32 - 1) /\ 32 \in Nat \ {0}
    BY <1>2, <2>1
  <2> QED BY <2>2, RemainderIs
<1>6. (r + first + last) % 128 = r + last
  <2>1. PICK m \in Nat \ {0} : m = 128
    OBVIOUS
  <2>2. PICK k \in Int : first = m * k
    BY <2>1
  <2>3. PICK x \in Int : x = r + first + last
    BY <1>2
  <2>4. PICK y \in 0..(m - 1) : y = r + last
    BY <1>2, <2>1
  <2>5. x = m * k + y
    BY <1>2, <2>2, <2>3, <2>4
  <2>6. x % m = y
    BY <2>5, RemainderIs
  <2> QED BY <2>1, <2>3, <2>4, <2>6
<1>7. r + last >= 64 <=> last = 64
  BY <1>2
<1>8. r + first + last >= 128 <=> first = 128
  BY <1>2
<1>9. q * 32 + 28 \in 0..255 /\ r + first + last \in 0..255 /\ q * 32 + r = h
  BY <1>2
<1> QED BY <1>3, <1>5, <1>6, <1>7, <1>8, <1>9 DEF q, r, Bytes, FragmentBytes

-----------------------------------------------------------------------------
\* How many bytes of a long unit the first k fragments carry.
Carried(u, k) == IF k = Fragments(u) THEN Len(u) ELSE k * FuPayload + 1

\* A unit above the limit has at least two fragments, and each carries the next FuPayload
\* bytes, the last one the rest.
LEMMA CarriedOn ==
  ASSUME NEW u \in Seq(Bytes), Len(u) > MaxPayload
  PROVE  /\ Fragments(u) \in Nat /\ Fragments(u) >= 2 /\ FuPayload \in Nat /\ FuPayload >= 1
         /\ Carried(u, 0) = 1 /\ Carried(u, Fragments(u)) = Len(u)
         /\ \A k \in 1..Fragments(u) :
              /\ Carried(u, k - 1) = (k - 1) * FuPayload + 1
              /\ Carried(u, k) = IF k = Fragments(u) THEN Len(u) ELSE (k - 1) * FuPayload + 1 + FuPayload
              /\ Carried(u, k - 1) \in 1..Len(u) /\ Carried(u, k) \in 1..Len(u)
              /\ Carried(u, k - 1) < Carried(u, k)
              /\ Carried(u, k) <= Carried(u, k - 1) + FuPayload
<1> DEFINE n == Len(u)
           F == FuPayload
           N == Fragments(u)
<1>1. n \in Nat /\ F \in Nat /\ F >= 1 /\ n - 1 > F
  BY PayloadAssumption DEF FuPayload, PayloadAssumption
<1>2. N = (n - 1 + F - 1) \div F
  BY DEF Fragments
<1>3. n - 1 + F - 1 = F * N + ((n - 1 + F - 1) % F) /\ N \in Int
      /\ (n - 1 + F - 1) % F \in 0..(F - 1)
  <2>1. n - 1 + F - 1 \in Int /\ F \in Nat \ {0}
    BY <1>1
  <2> HIDE DEF n, F, N
  <2> QED BY <1>2, <2>1, DivMod, Zenon
<1> HIDE DEF n, F, N
<1>4. PICK r \in 0..(F - 1) : n - 1 + F - 1 = F * N + r
  BY <1>3
<1>5. F * N = n + F - 2 - r
  <2>1. \A x \in Int : n - 1 + F - 1 = x + r => x = n + F - 2 - r
    BY <1>1
  <2>2. F * N \in Int
    BY <1>1, <1>3
  <2> QED BY <1>4, <2>1, <2>2
<1>6. N >= 2
  <2>1. F * N > F
    BY <1>1, <1>5
  <2>2. N <= 1 => F * N <= F
    <3>1. \A a \in Nat, b \in Int : b <= 1 => a * b <= a
      OBVIOUS
    <3> QED BY <1>1, <1>3, <3>1
  <2>3. F * N \in Int
    BY <1>1, <1>3
  <2> QED BY <1>1, <1>3, <2>1, <2>2, <2>3
<1>7. ASSUME NEW k \in 1..N
      PROVE  /\ (k - 1) * F \in Nat
             /\ k < N => k * F = (k - 1) * F + F /\ (k - 1) * F + F + 1 < n
             /\ k = N => (k - 1) * F + 1 < n /\ n <= (k - 1) * F + 1 + F
  <2>1. k * F = (k - 1) * F + F /\ (k - 1) * F \in Nat /\ k - 1 \in Nat
    <3>1. \A a, b \in Nat : (a + 1) * b = a * b + b /\ a * b \in Nat
      OBVIOUS
    <3>2. k - 1 \in Nat /\ (k - 1) + 1 = k
      BY <1>3
    <3> QED BY <1>1, <3>1, <3>2
  <2>2. CASE k = N
    <3>1. N * F = F * N /\ N * F = (k - 1) * F + F
      BY <1>1, <1>3, <2>1, <2>2
    <3>2. PICK w \in Nat : w = (k - 1) * F
      BY <2>1
    <3>3. w + F = n + F - 2 - r
      BY <1>5, <3>1, <3>2
    <3>4. w + 1 < n /\ n <= w + 1 + F
      BY <1>1, <3>3
    <3> QED BY <2>1, <2>2, <3>2, <3>4
  <2>3. CASE k < N
    <3>1. k * F <= (N - 1) * F /\ (N - 1) * F = F * N - F
      <4>1. \A a, b, c \in Nat : a <= b => a * c <= b * c
        OBVIOUS
      <4>2. \A b, c \in Nat : b * c = c * (b + 1) - c
        OBVIOUS
      <4>3. k \in Nat /\ N - 1 \in Nat /\ k <= N - 1 /\ (N - 1) + 1 = N
        BY <1>3, <2>3
      <4> QED BY <1>1, <4>1, <4>2, <4>3
    <3>2. PICK w \in Nat : w = (k - 1) * F
      BY <2>1
    <3>3. w + F <= n - 2 - r
      <4>1. F * N - F = n - 2 - r
        BY <1>1, <1>5
      <4> QED BY <2>1, <3>1, <3>2, <4>1
    <3>4. w + F + 1 < n
      BY <1>1, <3>3
    <3> QED BY <2>1, <2>3, <3>2, <3>4
  <2> QED BY <1>3, <2>2, <2>3
<1>8. ASSUME NEW k \in 1..N
      PROVE  /\ Carried(u, k - 1) = (k - 1) * F + 1
             /\ Carried(u, k) = IF k = N THEN n ELSE (k - 1) * F + 1 + F
  <2>1. k - 1 # N /\ k \in Nat
    BY <1>3
  <2>2. Carried(u, k - 1) = (k - 1) * F + 1
    BY <2>1 DEF Carried, N, F
  <2>3. k # N => k < N
    BY <1>3
  <2>4. k # N => k * F + 1 = (k - 1) * F + 1 + F
    <3>1. PICK w \in Nat : w = (k - 1) * F
      BY <1>7
    <3>2. k # N => k * F = w + F
      BY <1>7, <2>3, <3>1
    <3> QED BY <1>1, <3>1, <3>2
  <2> QED BY <2>2, <2>4 DEF Carried, N, F, n
<1>9. ASSUME NEW k \in 1..N
      PROVE  /\ Carried(u, k - 1) \in 1..n /\ Carried(u, k) \in 1..n
             /\ Carried(u, k - 1) < Carried(u, k)
             /\ Carried(u, k) <= Carried(u, k - 1) + F
  <2>1. PICK w \in Nat : w = (k - 1) * F
    BY <1>7
  <2>2. /\ k < N => w + F + 1 < n
        /\ k = N => w + 1 < n /\ n <= w + 1 + F
        /\ k < N \/ k = N
    <3>1. k < N \/ k = N
      BY <1>3
    <3>2. /\ k < N => (k - 1) * F + F + 1 < n
          /\ k = N => (k - 1) * F + 1 < n /\ n <= (k - 1) * F + 1 + F
      BY <1>7, Zenon
    <3> QED BY <2>1, <3>1, <3>2, Zenon
  <2>3. Carried(u, k - 1) = w + 1 /\ Carried(u, k) = IF k = N THEN n ELSE w + 1 + F
    BY <1>8, <2>1
  <2>4. CASE k = N
    BY <1>1, <2>2, <2>3, <2>4
  <2>5. CASE k < N
    <3>1. k # N
      BY <1>3, <2>5
    <3>2. Carried(u, k) = w + 1 + F
      BY <2>3, <3>1
    <3> QED BY <1>1, <2>2, <2>3, <2>5, <3>2
  <2> QED BY <2>2, <2>4, <2>5
<1>10. Carried(u, 0) = 1 /\ Carried(u, N) = n
  <2>1. 0 # N /\ 0 * F + 1 = 1
    BY <1>1, <1>6
  <2> QED BY <2>1 DEF Carried, n, N, F
<1> QED BY <1>1, <1>3, <1>6, <1>8, <1>9, <1>10 DEF n, N, F

-----------------------------------------------------------------------------
\* A fragment of a long unit, and what a receiver reads from it.
LEMMA FragmentIs ==
  ASSUME NEW u \in Seq(Bytes), Len(u) > MaxPayload, NEW k \in 1..Fragments(u)
  PROVE  /\ Payloads(u)[k] \in Seq(Bytes) /\ Len(Payloads(u)[k]) <= MaxPayload
         /\ IsFragment(Payloads(u)[k])
         /\ FirstFragment(Payloads(u)[k]) <=> k = 1
         /\ LastFragment(Payloads(u)[k]) <=> k = Fragments(u)
         /\ UnitHeader(Payloads(u)[k]) = u[1]
         /\ SubSeq(Payloads(u)[k], 3, Len(Payloads(u)[k]))
              = SubSeq(u, Carried(u, k - 1) + 1, Carried(u, k))
<1> DEFINE N == Fragments(u)
           c == Carried(u, k - 1)
           d == Carried(u, k)
           i == FuIndicator(u)
           h == FuHeader(u, k = 1, k = N)
           q == SubSeq(u, c + 1, d)
           p == <<i, h>> \o q
<1>1. /\ c = (k - 1) * FuPayload + 1
      /\ d = IF k = N THEN Len(u) ELSE (k - 1) * FuPayload + 1 + FuPayload
      /\ c \in 1..Len(u) /\ d \in 1..Len(u) /\ c < d /\ d <= c + FuPayload
      /\ Len(u) \in Nat /\ N \in Nat /\ FuPayload \in Nat
  BY CarriedOn, SMTT(40)
<1>2. Payloads(u)[k] = p
  <2>1. ~(Len(u) <= MaxPayload)
    BY <1>1, PayloadAssumption DEF PayloadAssumption
  <2>2. Payloads(u) = [j \in 1..N |->
          LET off == (j - 1) * FuPayload + 1
              upto == IF j = N THEN Len(u) ELSE off + FuPayload
          IN <<FuIndicator(u), FuHeader(u, j = 1, j = N)>> \o SubSeq(u, off + 1, upto)]
    BY <2>1 DEF Payloads
  <2>3. Payloads(u)[k] =
          LET off == (k - 1) * FuPayload + 1
              upto == IF k = N THEN Len(u) ELSE off + FuPayload
          IN <<i, h>> \o SubSeq(u, off + 1, upto)
    <3>1. k \in 1..N
      OBVIOUS
    <3> HIDE DEF N
    <3> QED BY <2>2, <3>1, Zenon DEF i, h
  <2> QED
    <3> HIDE DEF i, h, N
    <3> QED BY <1>1, <2>3
<1> DEFINE first == IF k = 1 THEN 128 ELSE 0
           last == IF k = N THEN 64 ELSE 0
<1>3. u[1] \in Bytes /\ first \in {0, 128} /\ last \in {0, 64}
      /\ i = (u[1] \div 32) * 32 + 28 /\ h = (u[1] % 32) + first + last
  BY <1>1 DEF FuIndicator, FuHeader
<1>4. /\ i \in Bytes /\ i % 32 = 28 /\ i \div 32 = u[1] \div 32
      /\ h \in Bytes /\ h % 32 = u[1] % 32
      /\ h >= 128 <=> first = 128
      /\ h % 128 >= 64 <=> last = 64
      /\ (u[1] \div 32) * 32 + (u[1] % 32) = u[1]
  <2> HIDE DEF i, h, first, last
  <2>1. FragmentBytes(u[1], first, last)
    BY <1>3, HeaderBytes
  <2>2. i = (u[1] \div 32) * 32 + 28 /\ h = (u[1] % 32) + first + last
    BY <1>3
  <2> QED BY <2>1, <2>2, Zenon DEF FragmentBytes
<1>5. first = 128 <=> k = 1
  OBVIOUS
<1>6. last = 64 <=> k = N
  OBVIOUS
<1> HIDE DEF i, h, first, last, c, d, N
<1>7. q \in Seq(Bytes) /\ Len(q) = d - c /\ \A j \in 1..(d - c) : q[j] = u[c + j]
  <2>1. c + 1 \in Int /\ d \in Int /\ \A j \in (c + 1)..d : u[j] \in Bytes
    BY <1>1
  <2>2. /\ q \in Seq(Bytes)
        /\ Len(q) = IF c + 1 <= d THEN d - (c + 1) + 1 ELSE 0
        /\ \A j \in 1..(d - (c + 1) + 1) : q[j] = u[(c + 1) + j - 1]
    BY <2>1, SubSeqProperties
  <2>3. c + 1 <= d /\ d - (c + 1) + 1 = d - c
    BY <1>1
  <2>4. ASSUME NEW j \in 1..(d - c)
        PROVE  q[j] = u[c + j]
    <3>1. (c + 1) + j - 1 = c + j
      BY <1>1
    <3> QED BY <2>2, <2>3, <3>1, Zenon
  <2>5. q \in Seq(Bytes) /\ Len(q) = d - c
    BY <2>2, <2>3, Zenon
  <2> QED BY <2>4, <2>5
<1>8. /\ p \in Seq(Bytes) /\ Len(p) = d - c + 2 /\ p[1] = i /\ p[2] = h
      /\ \A j \in 1..(d - c) : p[j + 2] = q[j]
  <2>1. <<i, h>> \in Seq(Bytes) /\ Len(<<i, h>>) = 2 /\ <<i, h>>[1] = i /\ <<i, h>>[2] = h
    BY <1>4
  <2> HIDE DEF q
  <2> QED BY <1>1, <1>7, <2>1
<1> HIDE DEF p
<1>9. SubSeq(p, 3, Len(p)) = q
  <2>1. \A j \in 3..Len(p) : p[j] \in Bytes
    BY <1>1, <1>8
  <2>2. Len(p) \in Int /\ 3 \in Int
    BY <1>1, <1>8
  <2>3. /\ SubSeq(p, 3, Len(p)) \in Seq(Bytes)
        /\ Len(SubSeq(p, 3, Len(p))) = IF 3 <= Len(p) THEN Len(p) - 3 + 1 ELSE 0
        /\ \A j \in 1..(Len(p) - 3 + 1) : SubSeq(p, 3, Len(p))[j] = p[3 + j - 1]
    BY <2>1, <2>2, SubSeqProperties
  <2> DEFINE t == SubSeq(p, 3, Len(p))
  <2> HIDE DEF t, q
  <2>4. 3 <= Len(p) /\ Len(p) - 3 + 1 = d - c
    BY <1>1, <1>8
  <2>5. ASSUME NEW j \in 1..(d - c)
        PROVE  t[j] = q[j]
    <3>1. 3 + j - 1 = j + 2
      OBVIOUS
    <3>2. t[j] = p[3 + j - 1]
      BY <2>3, <2>4, Zenon DEF t
    <3> QED BY <1>8, <3>1, <3>2, Zenon
  <2>6. t \in Seq(Bytes) /\ Len(t) = d - c
    BY <2>3, <2>4, Zenon DEF t
  <2>7. t = q
    <3>1. \A j \in 1..Len(t) : t[j] = q[j]
      BY <2>5, <2>6
    <3> QED BY <1>7, <2>6, <3>1, SeqEqual
  <2> QED BY <2>7 DEF t
<1>10. Len(p) <= MaxPayload
  BY <1>1, <1>8, PayloadAssumption DEF FuPayload, PayloadAssumption
<1>11. /\ IsFragment(p) /\ (FirstFragment(p) <=> k = 1) /\ (LastFragment(p) <=> k = N)
       /\ UnitHeader(p) = u[1]
  BY <1>4, <1>5, <1>6, <1>8, Zenon DEF IsFragment, FirstFragment, LastFragment, UnitHeader
<1> QED BY <1>2, <1>8, <1>9, <1>10, <1>11 DEF q, N, c, d

\* A fragment at the receiver: the unit grows by what the fragment carries, and
\* the last one finishes it.
LEMMA FragmentCollected ==
  ASSUME NEW u \in Seq(Bytes), Len(u) > MaxPayload, NEW k \in 1..Fragments(u), NEW got,
         k > 1 => got.open = SubSeq(u, 1, Carried(u, k - 1))
  PROVE  Collected(got, Payloads(u)[k]) =
           IF k = Fragments(u) THEN [units |-> Append(got.units, u), open |-> <<>>]
           ELSE [units |-> got.units, open |-> SubSeq(u, 1, Carried(u, k))]
<1> DEFINE N == Fragments(u)
           p == Payloads(u)[k]
           c == Carried(u, k - 1)
           d == Carried(u, k)
           sofar == IF FirstFragment(p) THEN <<UnitHeader(p)>> ELSE got.open
           more == sofar \o SubSeq(p, 3, Len(p))
<1>1. /\ IsFragment(p)
      /\ FirstFragment(p) <=> k = 1
      /\ LastFragment(p) <=> k = N
      /\ UnitHeader(p) = u[1]
      /\ SubSeq(p, 3, Len(p)) = SubSeq(u, c + 1, d)
  BY FragmentIs
<1>2. /\ c \in 1..Len(u) /\ d \in 1..Len(u) /\ c < d /\ Len(u) \in Nat /\ N \in Nat
      /\ Carried(u, 0) = 1 /\ Carried(u, N) = Len(u)
  BY CarriedOn
<1> HIDE DEF p
<1>3. sofar = SubSeq(u, 1, c)
  <2>1. CASE k = 1
    <3>1. c = 1
      BY <1>2, <2>1
    <3>2. SubSeq(u, 1, 1) = <<u[1]>>
      <4>1. SubSeq(u, 1, 1) = <<u[1]>> \o SubSeq(u, 1 + 1, 1)
        <5>1. 1 \in 1..Len(u) /\ 1 \in 1..1
          BY <1>2
        <5> QED BY <5>1, SubSeqRecursiveFirst
      <4>2. SubSeq(u, 1 + 1, 1) = <<>>
        BY SubSeqEmpty
      <4>3. <<u[1]>> \in Seq(Bytes)
        BY <1>2
      <4> QED BY <4>1, <4>2, <4>3, ConcatEmptySeq
    <3> QED BY <1>1, <2>1, <3>1, <3>2
  <2>2. CASE k # 1
    BY <1>1, <1>2, <2>2
  <2> QED BY <2>1, <2>2
<1> HIDE DEF sofar
<1>4. more = SubSeq(u, 1, d)
  <2>1. 1 \in 1..(Len(u) + 1) /\ c \in (1 - 1)..Len(u) /\ d \in c..Len(u)
    BY <1>2
  <2> HIDE DEF c, d
  <2>2. SubSeq(u, 1, c) \o SubSeq(u, c + 1, d) = SubSeq(u, 1, d)
    BY <2>1, ConcatAdjacentSubSeq
  <2> QED BY <1>1, <1>3, <2>2, Zenon
<1>5. k = N => SubSeq(u, 1, d) = u
  BY <1>2, SubSeqFull
<1>6. Collected(got, p) = IF k = N THEN [units |-> Append(got.units, more), open |-> <<>>]
                          ELSE [units |-> got.units, open |-> more]
  BY <1>1, Zenon DEF Collected, sofar
<1> HIDE DEF more
<1> QED BY <1>4, <1>5, <1>6 DEF p

-----------------------------------------------------------------------------
\* The payloads of a unit.
LEMMA PayloadsAre ==
  ASSUME NEW u \in Seq(Bytes), u # <<>>
  PROVE  /\ Payloads(u) \in Seq(Seq(Bytes)) /\ Len(Payloads(u)) \in Nat \ {0}
         /\ Len(u) <= MaxPayload => Len(Payloads(u)) = 1 /\ Payloads(u)[1] = u
         /\ Len(u) > MaxPayload => Len(Payloads(u)) = Fragments(u)
         /\ \A k \in 1..Len(Payloads(u)) : Len(Payloads(u)[k]) <= MaxPayload
<1>1. Len(u) \in Nat /\ MaxPayload \in Nat
  BY PayloadAssumption DEF PayloadAssumption
<1>2. CASE Len(u) <= MaxPayload
  <2>1. Payloads(u) = <<u>>
    BY <1>2 DEF Payloads
  <2> QED BY <1>1, <1>2, <2>1
<1>3. CASE ~(Len(u) <= MaxPayload)
  <2>1. Len(u) > MaxPayload
    BY <1>1, <1>3
  <2> DEFINE N == Fragments(u)
             P == Payloads(u)
             e(k) == LET off == (k - 1) * FuPayload + 1
                         upto == IF k = N THEN Len(u) ELSE off + FuPayload
                     IN <<FuIndicator(u), FuHeader(u, k = 1, k = N)>> \o SubSeq(u, off + 1, upto)
  <2>2. N \in Nat /\ N >= 2
    BY <2>1, CarriedOn
  <2>3. P = [k \in 1..N |-> e(k)]
    BY <1>3 DEF Payloads
  <2>4. \A k \in 1..N : P[k] \in Seq(Bytes) /\ Len(P[k]) <= MaxPayload
    BY <2>1, FragmentIs
  <2> HIDE DEF e, N
  <2>5. \A k \in 1..N : e(k) \in Seq(Bytes)
    <3> HIDE DEF P
    <3> QED BY <2>3, <2>4
  <2> HIDE DEF P
  <2>6. P \in Seq(Seq(Bytes)) /\ Len(P) = N
    BY <2>2, <2>3, <2>5
  <2> QED BY <1>1, <1>3, <2>2, <2>4, <2>6 DEF P, N
<1> QED BY <1>2, <1>3

\* What a receiver has after the first packets of a unit: nothing new before the
\* last one, and then the unit.
LEMMA UnitReceived ==
  ASSUME NEW S, NEW s \in Seq(S), NEW t \in Seq(S),
         NEW u \in Seq(Bytes), u # <<>>, ~IsFragment(u),
         Len(t) <= Len(Payloads(u)), \A k \in 1..Len(t) : t[k].payload = Payloads(u)[k]
  PROVE  State(s \o t).units = IF Len(t) = Len(Payloads(u)) THEN Append(State(s).units, u)
                               ELSE State(s).units
<1> DEFINE n == Len(Payloads(u))
           r(m) == s \o SubSeq(t, 1, m)
           U == State(s).units
           Good(m) == IF m = n THEN State(r(m)).units = Append(U, u)
                      ELSE /\ State(r(m)).units = U
                           /\ m > 0 => State(r(m)).open = SubSeq(u, 1, Carried(u, m))
           T == {m \in Nat : m <= Len(t) => Good(m)}
<1>1. /\ n \in Nat \ {0} /\ Len(t) \in Nat /\ Len(u) \in Nat /\ MaxPayload \in Nat
      /\ Len(u) <= MaxPayload => n = 1 /\ Payloads(u)[1] = u
      /\ Len(u) > MaxPayload => n = Fragments(u)
  BY PayloadsAre, PayloadAssumption DEF PayloadAssumption
<1>2. r(0) = s /\ r(Len(t)) = s \o t
  <2>1. SubSeq(t, 1, 0) = <<>>
    BY SubSeqEmpty
  <2>2. s \o <<>> = s
    BY ConcatEmptySeq
  <2>3. SubSeq(t, 1, Len(t)) = t
    BY SubSeqFull
  <2> QED BY <2>1, <2>2, <2>3
<1>3. ASSUME NEW m \in Nat, m + 1 <= Len(t)
      PROVE  State(r(m + 1)) = Collected(State(r(m)), Payloads(u)[m + 1])
  <2>1. m + 1 \in 1..Len(t) /\ 1 \in 1..Len(t) /\ m + 1 \in 1..Len(t) /\ (m + 1) - 1 = m
    BY <1>1, <1>3
  <2>2. SubSeq(t, 1, m + 1) = SubSeq(t, 1, m) \o <<t[m + 1]>>
    BY <2>1, SubSeqRecursiveSecond
  <2>3. t[m + 1] \in S /\ SubSeq(t, 1, m) \in Seq(S) /\ <<t[m + 1]>> \in Seq(S)
    <3>1. t[m + 1] \in S
      BY <2>1
    <3>2. \A i \in 1..m : t[i] \in S
      BY <1>1, <1>3
    <3>3. SubSeq(t, 1, m) \in Seq(S)
      BY <3>2, SubSeqProperties
    <3> QED BY <3>1, <3>3
  <2>4. r(m) \in Seq(S) /\ r(m + 1) = r(m) \o <<t[m + 1]>>
    <3> DEFINE a == SubSeq(t, 1, m)
               b == <<t[m + 1]>>
    <3>1. a \in Seq(S) /\ b \in Seq(S) /\ SubSeq(t, 1, m + 1) = a \o b
      BY <2>2, <2>3
    <3> HIDE DEF a, b
    <3>2. (s \o a) \o b = s \o (a \o b) /\ s \o a \in Seq(S)
      BY <3>1, ConcatAssociative, ConcatProperties, SMTT(40)
    <3>3. r(m) = s \o a /\ r(m + 1) = s \o (a \o b)
      BY <3>1 DEF a
    <3> QED BY <3>2, <3>3 DEF b
  <2> HIDE DEF r
  <2>5. r(m + 1) = Append(r(m), t[m + 1])
    BY <2>3, <2>4, AppendIsConcat
  <2>6. State(r(m + 1)) = Collected(State(r(m)), t[m + 1].payload)
    BY <2>3, <2>4, <2>5, StateAppend
  <2> QED BY <2>1, <2>6
<1> HIDE DEF n, U
<1>4. 0 \in T
  <2>1. 0 # n /\ ~(0 > 0) /\ State(r(0)).units = U
    <3> HIDE DEF r
    <3> QED BY <1>1, <1>2 DEF U
  <2> HIDE DEF r
  <2>2. Good(0)
    BY <2>1
  <2> HIDE DEF Good
  <2> QED BY <2>2
<1>5. ASSUME NEW m \in Nat, m \in T
      PROVE  m + 1 \in T
  <2> SUFFICES ASSUME m + 1 <= Len(t)
               PROVE  Good(m + 1)
    OBVIOUS
  <2> DEFINE got == State(r(m))
             p == Payloads(u)[m + 1]
  <2>1. m <= Len(t) /\ m < n /\ m + 1 <= n
    BY <1>1 DEF n
  <2>2. Good(m)
    BY <1>5, <2>1
  <2>3. got.units = U /\ (m > 0 => got.open = SubSeq(u, 1, Carried(u, m)))
    BY <1>1, <2>1, <2>2
  <2>4. State(r(m + 1)) = Collected(got, p)
    BY <1>3
  <2> HIDE DEF r, got
  <2>5. CASE Len(u) <= MaxPayload
    <3>1. n = 1 /\ m = 0 /\ p = u
      BY <1>1, <2>1, <2>5
    <3>2. Collected(got, u) = [units |-> Append(got.units, u), open |-> <<>>]
      BY DEF Collected
    <3>3. State(r(m + 1)).units = Append(U, u)
      BY <2>3, <2>4, <3>1, <3>2
    <3> QED BY <3>1, <3>3
  <2>6. CASE Len(u) > MaxPayload
    <3>1. n = Fragments(u) /\ m + 1 \in 1..Fragments(u) /\ (m + 1) - 1 = m
          /\ (m + 1 > 1 <=> m > 0) /\ m + 1 > 0
      BY <1>1, <2>1, <2>6
    <3>2. m + 1 > 1 => got.open = SubSeq(u, 1, Carried(u, (m + 1) - 1))
      BY <2>3, <3>1
    <3>3. Collected(got, p) =
            IF m + 1 = n THEN [units |-> Append(got.units, u), open |-> <<>>]
            ELSE [units |-> got.units, open |-> SubSeq(u, 1, Carried(u, m + 1))]
      <4> HIDE DEF p
      <4>1. Collected(got, Payloads(u)[m + 1]) =
              IF m + 1 = Fragments(u) THEN [units |-> Append(got.units, u), open |-> <<>>]
              ELSE [units |-> got.units, open |-> SubSeq(u, 1, Carried(u, m + 1))]
        BY <2>6, <3>1, <3>2, FragmentCollected
      <4> QED BY <3>1, <4>1 DEF p
    <3> HIDE DEF p
    <3>4. CASE m + 1 = n
      BY <2>3, <2>4, <3>3, <3>4
    <3>5. CASE m + 1 # n
      BY <2>3, <2>4, <3>3, <3>5
    <3> QED BY <3>4, <3>5
  <2> QED BY <1>1, <2>5, <2>6
<1>6. Len(t) \in T
  <2> HIDE DEF T
  <2> QED BY <1>1, <1>4, <1>5, NatSetInduction
<1>7. Good(Len(t))
  BY <1>1, <1>6
<1> QED BY <1>2, <1>7, Zenon DEF n, U

-----------------------------------------------------------------------------
\* A string of bytes cut from its end: the value at a position is made of that
\* at a later one.
IsCut(f, L, h, nx) ==
  f = [pos \in 1..(L + 1) |-> IF pos > L THEN <<>> ELSE h[pos] \o f[nx[pos]]]

\* The recursive function of such a cut exists, when positions only grow.
LEMMA CutExists ==
  ASSUME NEW L \in Nat, NEW h, NEW nx, \A pos \in 1..L : nx[pos] \in (pos + 1)..(L + 1)
  PROVE  \E f : IsCut(f, L, h, nx)
<1> DEFINE At(f, pos) == IF pos > L THEN <<>> ELSE h[pos] \o f[nx[pos]]
           Is(f, n) == f = [pos \in (L + 1 - n)..(L + 1) |-> At(f, pos)]
           Ex(n) == \E f : Is(f, n)
           T == {n \in Nat : n <= L => Ex(n)}
<1>1. 0 \in T
  <2> DEFINE f == [pos \in (L + 1 - 0)..(L + 1) |-> <<>>]
  <2>1. \A pos \in (L + 1 - 0)..(L + 1) : At(f, pos) = <<>>
    OBVIOUS
  <2>2. Is(f, 0)
    <3> HIDE DEF At
    <3> QED BY <2>1
  <2> QED
    <3> HIDE DEF Is, f
    <3> QED BY <2>2
<1>2. ASSUME NEW n \in Nat, n \in T
      PROVE  n + 1 \in T
  <2> SUFFICES ASSUME n + 1 <= L
               PROVE  Ex(n + 1)
    <3> HIDE DEF Ex
    <3> QED OBVIOUS
  <2>0. Ex(n)
    <3> HIDE DEF Ex
    <3> QED BY <1>2
  <2>1. PICK f : Is(f, n)
    <3> HIDE DEF Is
    <3> QED BY <2>0
  <2> DEFINE m == L + 1 - (n + 1)
             x == h[m] \o f[nx[m]]
             g == [pos \in m..(L + 1) |-> IF pos = m THEN x ELSE f[pos]]
  <2>2. m \in 1..L /\ m + 1 = L + 1 - n /\ nx[m] \in (m + 1)..(L + 1)
    OBVIOUS
  <2>3. ASSUME NEW pos \in m..(L + 1)
        PROVE  g[pos] = At(g, pos)
    <3>1. CASE pos = m
      <4>1. g[m] = x
        <5>1. m \in m..(L + 1)
          BY <2>2
        <5> HIDE DEF m, x
        <5> QED BY <5>1
      <4>2. g[nx[m]] = f[nx[m]]
        <5>1. nx[m] \in m..(L + 1) /\ nx[m] # m
          BY <2>2
        <5> QED BY <5>1
      <4>3. ~(m > L)
        BY <2>2
      <4>4. At(g, m) = x
        <5> HIDE DEF g, m
        <5> QED BY <4>2, <4>3, Zenon
      <4> HIDE DEF g, m, x, At
      <4> QED BY <3>1, <4>1, <4>4
    <3>2. CASE pos # m
      <4>1. pos \in (m + 1)..(L + 1) /\ g[pos] = f[pos]
        BY <2>2, <3>2
      <4>2. f[pos] = At(f, pos)
        <5> HIDE DEF At, g, x, m
        <5> QED BY <2>1, <2>2, <4>1
      <4>3. pos <= L => nx[pos] \in m..(L + 1) /\ nx[pos] # m
        BY <2>2, <4>1
      <4>4. pos <= L => g[nx[pos]] = f[nx[pos]]
        BY <4>3
      <4>5. ~(pos > L) => pos <= L
        BY <2>2
      <4> HIDE DEF g, m
      <4> QED BY <4>1, <4>2, <4>4, <4>5, Zenon
    <3> QED BY <3>1, <3>2
  <2>4. Is(g, n + 1)
    <3>1. g = [pos \in m..(L + 1) |-> g[pos]]
      OBVIOUS
    <3> HIDE DEF g, At
    <3>2. [pos \in m..(L + 1) |-> g[pos]] = [pos \in m..(L + 1) |-> At(g, pos)]
      BY <2>3, Zenon
    <3>3. g = [pos \in m..(L + 1) |-> At(g, pos)]
      BY <3>1, <3>2, Zenon
    <3> QED BY <3>3
  <2> HIDE DEF Is, g
  <2> QED BY <2>4
<1>3. L \in T
  <2> HIDE DEF T
  <2> QED BY <1>1, <1>2, NatSetInduction
<1>4. PICK f : Is(f, L)
  <2>1. Ex(L)
    <3> HIDE DEF Ex
    <3> QED BY <1>3
  <2> HIDE DEF Is
  <2> QED BY <2>1
<1>5. L + 1 - L = 1
  OBVIOUS
<1>6. f = [pos \in 1..(L + 1) |-> At(f, pos)]
  <2> HIDE DEF At
  <2> QED BY <1>4, <1>5
<1>7. IsCut(f, L, h, nx)
  BY <1>6 DEF IsCut
<1> QED BY <1>7

-----------------------------------------------------------------------------
\* The first start code.
FoundAt(b, from, f) ==
  /\ f \in from..(Len(b) + 1)
  /\ \A j \in from..(f - 1) : PrefixAt(b, j) = 0
  /\ f <= Len(b) => PrefixAt(b, f) # 0

\* A start code has three or four bytes and ends within the string.
LEMMA PrefixType ==
  ASSUME NEW b \in Seq(Bytes), NEW i \in 1..(Len(b) + 1)
  PROVE  PrefixAt(b, i) \in {0, 3, 4} /\ i + PrefixAt(b, i) \in i..(Len(b) + 1)
  BY DEF PrefixAt

\* A set of naturals has a least element.
LEMMA LeastOf ==
  ASSUME NEW S \in SUBSET Nat, S # {}
  PROVE  \E i \in S : \A j \in S : i <= j
<1>1. PICK i \in S : \A j \in S : ~(<<j, i>> \in OpToRel(<, Nat))
  BY WFMin, NatLessThanWellFounded
<1>2. ASSUME NEW j \in S
      PROVE  i <= j
  <2>1. i \in Nat /\ j \in Nat /\ ~(<<j, i>> \in OpToRel(<, Nat))
    BY <1>1
  <2>2. j < i => <<j, i>> \in OpToRel(<, Nat)
    BY <2>1 DEF OpToRel
  <2>3. i \in Nat /\ j \in Nat
    OBVIOUS
  <2>4. ~(j < i)
    BY <2>1, <2>2, Zenon
  <2> QED BY <2>3, <2>4
<1> QED BY <1>2

\* h264_find_start_code returns the first start code, or the end.
LEMMA Found ==
  ASSUME NEW b \in Seq(Bytes), NEW from \in 1..(Len(b) + 1)
  PROVE  FoundAt(b, from, FindStartCode(b, from))
<1> DEFINE S == {i \in from..Len(b) : PrefixAt(b, i) # 0}
           f == FindStartCode(b, from)
<1>1. Len(b) \in Nat
  OBVIOUS
<1>2. CASE S = {}
  <2>1. f = Len(b) + 1
    BY <1>2 DEF FindStartCode
  <2> HIDE DEF f
  <2> QED BY <1>1, <1>2, <2>1 DEF FoundAt, f
<1>3. CASE S # {}
  <2>1. f = CHOOSE i \in S : \A j \in S : i <= j
    BY <1>3, Zenon DEF FindStartCode
  <2>2. \E i \in S : \A j \in S : i <= j
    <3>1. S \in SUBSET Nat
      BY <1>1
    <3> HIDE DEF S
    <3> QED BY <1>3, <3>1, LeastOf
  <2>3. f \in S /\ \A j \in S : f <= j
    <3> HIDE DEF S, f
    <3> QED BY <2>1, <2>2, Zenon
  <2> HIDE DEF f
  <2> QED BY <1>1, <2>3 DEF FoundAt, f
<1> QED BY <1>2, <1>3

\* There is one first start code.
LEMMA FoundOnce ==
  ASSUME NEW b \in Seq(Bytes), NEW from \in 1..(Len(b) + 1), NEW f, FoundAt(b, from, f)
  PROVE  FindStartCode(b, from) = f
<1> DEFINE g == FindStartCode(b, from)
<1>1. FoundAt(b, from, g)
  BY Found
<1>2. Len(b) \in Nat
  OBVIOUS
<1> HIDE DEF g
<1>3. f \in from..(Len(b) + 1) /\ g \in from..(Len(b) + 1)
  BY <1>1 DEF FoundAt
<1>4. ~(g < f)
  <2> SUFFICES ASSUME g < f PROVE FALSE
    OBVIOUS
  <2>1. g <= Len(b) /\ g \in from..(f - 1)
    BY <1>2, <1>3
  <2> QED BY <1>1, <2>1 DEF FoundAt
<1>5. ~(f < g)
  <2> SUFFICES ASSUME f < g PROVE FALSE
    OBVIOUS
  <2>1. f <= Len(b) /\ f \in from..(g - 1)
    BY <1>2, <1>3
  <2> QED BY <1>1, <2>1 DEF FoundAt
<1>6. f = g
  BY <1>2, <1>3, <1>4, <1>5
<1> QED BY <1>6 DEF g

-----------------------------------------------------------------------------
\* The unit at a start code, and the next start code.
NextAt(b, pos) == FindStartCode(b, pos + PrefixAt(b, pos))

UnitAt(b, pos) ==
  IF pos + PrefixAt(b, pos) < NextAt(b, pos)
  THEN <<SubSeq(b, pos + PrefixAt(b, pos), NextAt(b, pos) - 1)>> ELSE <<>>

\* Behind a start code the search goes on further right, so rtp_send_annexb ends.
LEMMA NextIsLater ==
  ASSUME NEW b \in Seq(Bytes), NEW pos \in 1..Len(b)
  PROVE  /\ pos + PrefixAt(b, pos) \in 1..(Len(b) + 1)
         /\ FoundAt(b, pos + PrefixAt(b, pos), NextAt(b, pos))
         /\ NextAt(b, pos) \in (pos + 1)..(Len(b) + 1)
<1>1. Len(b) \in Nat /\ pos \in 1..(Len(b) + 1)
  OBVIOUS
<1>2. PrefixAt(b, pos) \in {0, 3, 4} /\ pos + PrefixAt(b, pos) \in pos..(Len(b) + 1)
  BY <1>1, PrefixType
<1>3. pos + PrefixAt(b, pos) \in 1..(Len(b) + 1)
  BY <1>1, <1>2
<1>4. FoundAt(b, pos + PrefixAt(b, pos), NextAt(b, pos))
  BY <1>3, Found DEF NextAt
<1>5. /\ NextAt(b, pos) \in (pos + PrefixAt(b, pos))..(Len(b) + 1)
      /\ NextAt(b, pos) <= Len(b) => PrefixAt(b, NextAt(b, pos)) # 0
  BY <1>4 DEF FoundAt
<1>6. PrefixAt(b, pos) = 0 => NextAt(b, pos) # pos
  BY <1>5
<1> DEFINE w == PrefixAt(b, pos)
           x == NextAt(b, pos)
<1> HIDE DEF w, x
<1>7. x \in (pos + 1)..(Len(b) + 1)
  <2>1. w \in {0, 3, 4} /\ x \in (pos + w)..(Len(b) + 1) /\ (w = 0 => x # pos)
    BY <1>2, <1>5, <1>6 DEF w, x
  <2> QED BY <1>1, <2>1
<1> QED BY <1>3, <1>4, <1>7 DEF x

\* The units from a position on: that at the position, then those from the next start code on.
LEMMA UnitsFromIs ==
  ASSUME NEW b \in Seq(Bytes)
  PROVE  /\ \A pos \in 1..Len(b) :
              UnitsFrom(b)[pos] = UnitAt(b, pos) \o UnitsFrom(b)[NextAt(b, pos)]
         /\ UnitsFrom(b)[Len(b) + 1] = <<>>
<1> DEFINE L == Len(b)
           h == [pos \in 1..L |-> UnitAt(b, pos)]
           nx == [pos \in 1..L |-> NextAt(b, pos)]
           Is(f) == f = [pos \in 1..(L + 1) |->
                           IF pos > L THEN <<>> ELSE UnitAt(b, pos) \o f[NextAt(b, pos)]]
<1>1. L \in Nat
  OBVIOUS
<1>2. \A pos \in 1..L : nx[pos] \in (pos + 1)..(L + 1)
  BY NextIsLater
<1>3. \E f : Is(f)
  <2>1. \E f : IsCut(f, L, h, nx)
    <3> HIDE DEF L, h, nx
    <3> QED BY <1>1, <1>2, CutExists
  <2>2. PICK f : f = [pos \in 1..(L + 1) |-> IF pos > L THEN <<>> ELSE h[pos] \o f[nx[pos]]]
    BY <2>1 DEF IsCut
  <2>3. \A pos \in 1..(L + 1) : ~(pos > L) => h[pos] = UnitAt(b, pos) /\ nx[pos] = NextAt(b, pos)
    <3>1. \A pos \in 1..(L + 1) : ~(pos > L) => pos \in 1..L
      BY <1>1
    <3> HIDE DEF L
    <3> QED BY <3>1
  <2> HIDE DEF L, h, nx
  <2>4. \A pos \in 1..(L + 1) :
          (IF pos > L THEN <<>> ELSE h[pos] \o f[nx[pos]])
            = (IF pos > L THEN <<>> ELSE UnitAt(b, pos) \o f[NextAt(b, pos)])
    BY <2>3, Zenon
  <2>5. Is(f)
    BY <2>2, <2>4, Zenon
  <2> HIDE DEF Is
  <2> QED BY <2>5
<1>4. UnitsFrom(b) = CHOOSE f : Is(f)
  BY Zenon DEF UnitsFrom, UnitAt, NextAt
<1> DEFINE f == UnitsFrom(b)
<1>5. Is(f)
  <2> HIDE DEF Is
  <2> QED BY <1>3, <1>4, Zenon
<1> HIDE DEF f
<1>6. \A pos \in 1..(L + 1) :
        f[pos] = IF pos > L THEN <<>> ELSE UnitAt(b, pos) \o f[NextAt(b, pos)]
  <2> HIDE DEF L
  <2> QED BY <1>5, Zenon
<1>7. L + 1 \in 1..(L + 1) /\ L + 1 > L
  BY <1>1
<1>8. \A pos \in 1..L : pos \in 1..(L + 1) /\ ~(pos > L)
  BY <1>1
<1> HIDE DEF L
<1> QED BY <1>6, <1>7, <1>8, Zenon DEF f, L

-----------------------------------------------------------------------------
\* A string that a start code can follow.
Closable(b) == b \in Seq(Bytes) /\ (b # <<>> => b[Len(b)] # 0)

\* A string and one more unit behind a start code, byte for byte.
Extends(c, b, sc, u) ==
  /\ c \in Seq(Bytes) /\ Len(b) \in Nat /\ Len(sc) \in {3, 4} /\ Len(u) \in Nat \ {0}
  /\ Len(c) = Len(b) + Len(sc) + Len(u)
  /\ \A i \in 1..Len(b) : c[i] = b[i]
  /\ c[Len(b) + 1] = 0 /\ c[Len(b) + 2] = 0
  /\ Len(sc) = 3 => c[Len(b) + 3] = 1
  /\ Len(sc) = 4 => c[Len(b) + 3] = 0 /\ c[Len(b) + 4] = 1
  /\ \A i \in 1..Len(u) : c[Len(b) + Len(sc) + i] = u[i]

\* A start code and a unit appended to a string are where they were appended.
LEMMA UnitBehind ==
  ASSUME NEW b, Closable(b), NEW k, NEW u, NalUnit(u)
  PROVE  Extends(b \o (StartCode(k) \o u), b, StartCode(k), u)
<1> DEFINE sc == StartCode(k)
           L == Len(b)
           m == Len(sc)
           d == sc \o u
           c == b \o d
<1>1. b \in Seq(Bytes) /\ u \in Seq(Bytes) /\ u # <<>>
  BY DEF Closable, NalUnit, Bytes
<1>2. /\ sc \in Seq(Bytes) /\ m \in {3, 4} /\ sc[1] = 0 /\ sc[2] = 0
      /\ m = 3 => sc[3] = 1
      /\ m = 4 => sc[3] = 0 /\ sc[4] = 1
  <2>1. CASE k = 1
    <3>1. sc = <<0, 0, 0, 1>>
      BY <2>1 DEF StartCode
    <3> QED BY <3>1 DEF Bytes
  <2>2. CASE k # 1
    <3>1. sc = <<0, 0, 1>>
      BY <2>2 DEF StartCode
    <3> QED BY <3>1 DEF Bytes
  <2> QED BY <2>1, <2>2
<1> HIDE DEF sc
<1>3. L \in Nat /\ Len(u) \in Nat \ {0}
  BY <1>1
<1>4. /\ d \in Seq(Bytes) /\ Len(d) = m + Len(u)
      /\ \A i \in 1..(m + Len(u)) : d[i] = IF i <= m THEN sc[i] ELSE u[i - m]
  BY <1>1, <1>2, ConcatProperties
<1> HIDE DEF d, m
<1>5. /\ c \in Seq(Bytes) /\ Len(c) = L + (m + Len(u))
      /\ \A i \in 1..(L + (m + Len(u))) : c[i] = IF i <= L THEN b[i] ELSE d[i - L]
  BY <1>1, <1>4, ConcatProperties
<1> HIDE DEF c, L
<1>6. \A i \in 1..L : c[i] = b[i]
  BY <1>2, <1>3, <1>5
<1>7. ASSUME NEW i \in 1..(m + Len(u))
      PROVE  c[L + i] = IF i <= m THEN sc[i] ELSE u[i - m]
  <2>1. L + i \in 1..(L + (m + Len(u))) /\ ~(L + i <= L) /\ (L + i) - L = i
    BY <1>2, <1>3
  <2>2. c[L + i] = d[i]
    BY <1>5, <2>1
  <2> QED BY <1>4, <2>2
<1>8. /\ c[L + 1] = 0 /\ c[L + 2] = 0
      /\ m = 3 => c[L + 3] = 1
      /\ m = 4 => c[L + 3] = 0 /\ c[L + 4] = 1
  <2>1. /\ 1 \in 1..(m + Len(u)) /\ 2 \in 1..(m + Len(u)) /\ 3 \in 1..(m + Len(u))
        /\ 4 \in 1..(m + Len(u)) /\ 1 <= m /\ 2 <= m /\ 3 <= m /\ (m = 4 => 4 <= m)
    BY <1>2, <1>3
  <2>2. c[L + 1] = sc[1] /\ c[L + 2] = sc[2] /\ c[L + 3] = sc[3]
    BY <1>7, <2>1, Zenon
  <2>3. m = 4 => c[L + 4] = sc[4]
    BY <1>7, <2>1, Zenon
  <2> QED BY <1>2, <2>2, <2>3, Zenon
<1>9. ASSUME NEW i \in 1..Len(u)
      PROVE  c[L + m + i] = u[i]
  <2>1. m + i \in 1..(m + Len(u)) /\ ~(m + i <= m) /\ (m + i) - m = i /\ L + (m + i) = L + m + i
    BY <1>2, <1>3
  <2>2. c[L + (m + i)] = u[i]
    BY <1>7, <2>1, Zenon
  <2> QED BY <2>1, <2>2, Zenon
<1>10. Len(c) = L + m + Len(u)
  BY <1>2, <1>3, <1>5
<1> QED BY <1>2, <1>3, <1>5, <1>6, <1>8, <1>9, <1>10, Zenon DEF c, d, sc, L, m, Extends

UnitAdded(c, b, k, u) ==
  Closable(b) /\ NalUnit(u) /\ c = b \o (StartCode(k) \o u)

\* The start codes of such a string: those it had, the new one, none inside the unit.
LEMMA PrefixesBehind ==
  ASSUME NEW c, NEW b, NEW k, NEW u, UnitAdded(c, b, k, u)
  PROVE  /\ \A i \in 1..Len(b) : PrefixAt(c, i) = PrefixAt(b, i)
         /\ PrefixAt(c, Len(b) + 1) = Len(StartCode(k))
         /\ \A i \in (Len(b) + Len(StartCode(k)) + 1)..Len(c) : PrefixAt(c, i) = 0
         /\ Closable(c)
<1> DEFINE L == Len(b)
           m == Len(StartCode(k))
           n == Len(u)
<1>1. /\ c \in Seq(Bytes) /\ L \in Nat /\ m \in {3, 4} /\ n \in Nat \ {0}
      /\ Len(c) = L + m + n
      /\ \A i \in 1..L : c[i] = b[i]
      /\ c[L + 1] = 0 /\ c[L + 2] = 0
      /\ m = 3 => c[L + 3] = 1
      /\ m = 4 => c[L + 3] = 0 /\ c[L + 4] = 1
      /\ \A i \in 1..n : c[L + m + i] = u[i]
  <2>1. Extends(c, b, StartCode(k), u)
    BY UnitBehind DEF UnitAdded
  <2> QED BY <2>1, Zenon DEF Extends
<1>2. b # <<>> => b[L] # 0
  BY DEF Closable, UnitAdded
<1>3. b # <<>> <=> L # 0
  BY DEF Closable, UnitAdded
<1>4. /\ u[n] # 0
      /\ \A i \in 1..(n - 2) : ~(u[i] = 0 /\ u[i + 1] = 0 /\ u[i + 2] \in {0, 1})
  BY DEF NalUnit, UnitAdded
<1> HIDE DEF L, m, n
<1>5. ASSUME NEW i \in 1..L
      PROVE  PrefixAt(c, i) = PrefixAt(b, i)
  <2>1. L # 0 /\ b[L] # 0 /\ c[L] = b[L] /\ c[i] = b[i]
    <3>1. L # 0 /\ L \in 1..L
      BY <1>1
    <3> QED BY <1>1, <1>2, <1>3, <3>1
  <2>2. CASE i + 2 > L
    <3>1. PrefixAt(b, i) = 0
      BY <2>2 DEF PrefixAt, L
    <3>2. i = L \/ i + 1 = L
      BY <1>1, <2>2
    <3>3. c[i] # 0 \/ c[i + 1] # 0
      BY <2>1, <3>2
    <3>4. PrefixAt(c, i) = 0
      BY <3>3, Zenon DEF PrefixAt
    <3> QED BY <3>1, <3>4
  <2>3. CASE i + 2 <= L
    <3>1. /\ ~(i + 2 > L) /\ ~(i + 2 > Len(c))
          /\ i + 1 \in 1..L /\ i + 2 \in 1..L
      BY <1>1, <2>3
    <3>2. c[i + 1] = b[i + 1] /\ c[i + 2] = b[i + 2]
      BY <1>1, <3>1
    <3>3. CASE i + 3 <= L
      <4>1. i + 3 <= Len(c) /\ c[i + 3] = b[i + 3]
        <5>1. i + 3 \in 1..L /\ i + 3 <= Len(c)
          BY <1>1, <3>3
        <5> QED BY <1>1, <5>1
      <4> QED BY <2>1, <3>1, <3>2, <3>3, <4>1, Zenon DEF PrefixAt, L
    <3>4. CASE ~(i + 3 <= L)
      <4>1. i + 2 = L
        BY <1>1, <2>3, <3>4
      <4>2. b[i + 2] # 0 /\ c[i + 2] # 0
        BY <2>1, <4>1
      <4> QED BY <2>1, <3>1, <3>2, <3>4, <4>2, Zenon DEF PrefixAt, L
    <3> QED BY <3>3, <3>4
  <2> QED BY <1>1, <2>2, <2>3
<1>6. PrefixAt(c, L + 1) = m
  <2>1. /\ ~((L + 1) + 2 > Len(c)) /\ (L + 1) + 1 = L + 2 /\ (L + 1) + 2 = L + 3
        /\ (L + 1) + 3 = L + 4 /\ (m = 4 => (L + 1) + 3 <= Len(c))
    BY <1>1
  <2>2. CASE m = 3
    BY <1>1, <2>1, <2>2 DEF PrefixAt
  <2>3. CASE m = 4
    BY <1>1, <2>1, <2>3 DEF PrefixAt
  <2> QED BY <1>1, <2>2, <2>3
<1>7. ASSUME NEW i \in (L + m + 1)..Len(c)
      PROVE  PrefixAt(c, i) = 0
  <2>1. PICK j \in 1..n : i = L + m + j
    BY <1>1
  <2>2. CASE j + 2 > n
    <3>1. i + 2 > Len(c)
      BY <1>1, <2>1, <2>2
    <3> QED BY <3>1 DEF PrefixAt
  <2>3. CASE j + 2 <= n
    <3>1. j \in 1..(n - 2) /\ j + 1 \in 1..n /\ j + 2 \in 1..n
          /\ i + 1 = L + m + (j + 1) /\ i + 2 = L + m + (j + 2)
      BY <1>1, <2>1, <2>3
    <3>2. c[i] = u[j] /\ c[i + 1] = u[j + 1] /\ c[i + 2] = u[j + 2]
      BY <1>1, <2>1, <3>1
    <3>3. ~(c[i] = 0 /\ c[i + 1] = 0 /\ c[i + 2] \in {0, 1})
      BY <1>4, <3>1, <3>2
    <3> QED BY <3>3 DEF PrefixAt
  <2> QED BY <1>1, <2>2, <2>3
<1>8. Closable(c)
  <2>1. n \in 1..n /\ L + m + n = Len(c)
    BY <1>1
  <2>2. c[Len(c)] = u[n]
    BY <1>1, <2>1
  <2> QED BY <1>1, <1>4, <2>2 DEF Closable
<1> QED BY <1>1, <1>5, <1>6, <1>7, <1>8 DEF L, m

-----------------------------------------------------------------------------
\* The first start code from a position of the old string on is where it was, the
\* new one if there was none.
LEMMA FoundBehind ==
  ASSUME NEW c, NEW b, NEW k, NEW u, UnitAdded(c, b, k, u),
         NEW from \in 1..(Len(b) + 1)
  PROVE  FindStartCode(c, from) = FindStartCode(b, from)
<1> DEFINE L == Len(b)
           f == FindStartCode(b, from)
<1>1. /\ \A i \in 1..L : PrefixAt(c, i) = PrefixAt(b, i)
      /\ PrefixAt(c, L + 1) = Len(StartCode(k))
  BY PrefixesBehind
<1>2. /\ c \in Seq(Bytes) /\ L \in Nat /\ Len(StartCode(k)) \in {3, 4} /\ Len(u) \in Nat \ {0}
      /\ Len(c) = L + Len(StartCode(k)) + Len(u)
  <2>1. Extends(c, b, StartCode(k), u)
    BY UnitBehind DEF UnitAdded
  <2> QED BY <2>1, Zenon DEF Extends
<1>3. b \in Seq(Bytes)
  BY DEF Closable, UnitAdded
<1>4. FoundAt(b, from, f)
  BY <1>3, Found
<1> HIDE DEF L, f
<1>5. /\ f \in from..(L + 1)
      /\ \A j \in from..(f - 1) : PrefixAt(b, j) = 0
      /\ f <= L => PrefixAt(b, f) # 0
      /\ from \in 1..(L + 1)
  BY <1>4 DEF FoundAt, L
<1>6. FoundAt(c, from, f)
  <2>1. f \in from..(Len(c) + 1)
    BY <1>2, <1>5
  <2>2. ASSUME NEW j \in from..(f - 1)
        PROVE  PrefixAt(c, j) = 0
    <3>1. j \in 1..L
      BY <1>2, <1>5
    <3> QED BY <1>1, <1>5, <3>1
  <2>3. PrefixAt(c, f) # 0
    <3>1. CASE f <= L
      <4>1. f \in 1..L
        BY <1>2, <1>5, <3>1
      <4> QED BY <1>1, <1>5, <3>1, <4>1
    <3>2. CASE f = L + 1
      BY <1>1, <1>2, <3>2
    <3> QED BY <1>2, <1>5, <3>1, <3>2
  <2> QED BY <2>1, <2>2, <2>3 DEF FoundAt
<1>7. from \in 1..(Len(c) + 1)
  BY <1>2, <1>5
<1> QED BY <1>2, <1>6, <1>7, FoundOnce DEF f

\* Appending to the second of two sequences appends to both.
LEMMA ConcatAppend ==
  ASSUME NEW S, NEW x \in Seq(S), NEW y \in Seq(S), NEW e \in S
  PROVE  x \o y \in Seq(S) /\ x \o Append(y, e) = Append(x \o y, e)
<1> DEFINE z == <<e>>
<1>1. z \in Seq(S) /\ x \o y \in Seq(S)
  OBVIOUS
<1>2. Append(y, e) = y \o z /\ Append(x \o y, e) = (x \o y) \o z
  BY <1>1, AppendIsConcat
<1> HIDE DEF z
<1>3. (x \o y) \o z = x \o (y \o z)
  BY <1>1, ConcatAssociative
<1> QED BY <1>1, <1>2, <1>3

OneMoreUnit(c, b, u) ==
  \A pos \in 1..(Len(b) + 1) :
    /\ UnitsFrom(b)[pos] \in Seq(Seq(Bytes))
    /\ UnitsFrom(c)[pos] = Append(UnitsFrom(b)[pos], u)

\* The units from a position of the old string on, and the new one.
LEMMA UnitsFromBehind ==
  ASSUME NEW c, NEW b, NEW k, NEW u, UnitAdded(c, b, k, u)
  PROVE  OneMoreUnit(c, b, u)
<1> DEFINE L == Len(b)
           m == Len(StartCode(k))
           n == Len(u)
<1>1. /\ \A i \in 1..L : PrefixAt(c, i) = PrefixAt(b, i)
      /\ PrefixAt(c, L + 1) = m
      /\ \A i \in (L + m + 1)..Len(c) : PrefixAt(c, i) = 0
  BY PrefixesBehind
<1>2. /\ c \in Seq(Bytes) /\ L \in Nat /\ m \in {3, 4} /\ n \in Nat \ {0}
      /\ Len(c) = L + m + n
      /\ \A i \in 1..L : c[i] = b[i]
      /\ \A i \in 1..n : c[L + m + i] = u[i]
  <2>1. Extends(c, b, StartCode(k), u)
    BY UnitBehind DEF UnitAdded
  <2> QED BY <2>1, Zenon DEF Extends
<1>3. b \in Seq(Bytes) /\ u \in Seq(Bytes)
  BY DEF Closable, NalUnit, Bytes, UnitAdded
<1> DEFINE B == UnitsFrom(b)
           C == UnitsFrom(c)
<1>4. /\ \A pos \in 1..L : B[pos] = UnitAt(b, pos) \o B[NextAt(b, pos)]
      /\ B[L + 1] = <<>>
  BY <1>3, UnitsFromIs
<1>5. /\ \A pos \in 1..Len(c) : C[pos] = UnitAt(c, pos) \o C[NextAt(c, pos)]
      /\ C[Len(c) + 1] = <<>>
  BY <1>2, UnitsFromIs
<1> HIDE DEF L, m, n, B, C
<1>6. C[L + 1] = <<u>>
  <2> DEFINE s == L + 1 + m
             e == Len(c) + 1
  <2>1. s \in 1..(Len(c) + 1) /\ s < e /\ L + 1 \in 1..Len(c)
    BY <1>2
  <2>2. FoundAt(c, s, e)
    <3>1. e \in s..(Len(c) + 1) /\ ~(e <= Len(c))
      BY <1>2
    <3>2. \A j \in s..(e - 1) : PrefixAt(c, j) = 0
      BY <1>1, <1>2
    <3> HIDE DEF s, e
    <3> QED BY <3>1, <3>2 DEF FoundAt
  <2>3. FindStartCode(c, s) = e
    <3> HIDE DEF s, e
    <3> QED BY <1>2, <2>1, <2>2, FoundOnce
  <2>4. (L + 1) + PrefixAt(c, L + 1) = s
    BY <1>1
  <2>5. NextAt(c, L + 1) = e
    BY <2>3, <2>4 DEF NextAt
  <2>6. SubSeq(c, s, e - 1) = u
    <3> DEFINE t == SubSeq(c, s, e - 1)
    <3>1. \A i \in s..(e - 1) : c[i] \in Bytes
      BY <1>2
    <3>2. s \in Int /\ e - 1 \in Int /\ s <= e - 1 /\ (e - 1) - s + 1 = n
      BY <1>2
    <3>3. t \in Seq(Bytes) /\ Len(t) = n /\ \A i \in 1..n : t[i] = c[s + i - 1]
      <4> HIDE DEF s, e
      <4>1. /\ t \in Seq(Bytes)
            /\ Len(t) = IF s <= e - 1 THEN (e - 1) - s + 1 ELSE 0
            /\ \A i \in 1..((e - 1) - s + 1) : t[i] = c[s + i - 1]
        BY <3>1, <3>2, SubSeqProperties
      <4> QED BY <3>2, <4>1, Zenon
    <3>4. ASSUME NEW i \in 1..n
          PROVE  t[i] = u[i]
      <4>1. s + i - 1 = L + m + i
        BY <1>2
      <4> HIDE DEF s, t
      <4> QED BY <1>2, <3>3, <4>1
    <3> HIDE DEF t
    <3>5. Len(t) = Len(u) /\ \A i \in 1..Len(t) : t[i] = u[i]
      BY <3>3, <3>4 DEF n
    <3>6. t = u
      BY <1>3, <3>3, <3>5, SeqEqual
    <3> QED BY <3>6 DEF t
  <2>7. UnitAt(c, L + 1) = <<u>>
    <3> HIDE DEF s, e
    <3> QED BY <2>1, <2>4, <2>5, <2>6, Zenon DEF UnitAt
  <2>8. C[L + 1] = <<u>> \o <<>>
    <3> HIDE DEF s
    <3> QED BY <1>5, <2>1, <2>5, <2>7
  <2>9. <<u>> \in Seq(Seq(Bytes))
    BY <1>3
  <2> QED BY <2>8, <2>9, ConcatEmptySeq
<1>7. ASSUME NEW pos \in 1..L
      PROVE  /\ NextAt(c, pos) = NextAt(b, pos) /\ UnitAt(c, pos) = UnitAt(b, pos)
             /\ UnitAt(b, pos) \in Seq(Seq(Bytes))
             /\ NextAt(b, pos) \in (pos + 1)..(L + 1)
             /\ C[pos] = UnitAt(b, pos) \o C[NextAt(b, pos)]
  <2> DEFINE s == pos + PrefixAt(b, pos)
             e == NextAt(b, pos)
  <2>1. s \in 1..(L + 1) /\ FoundAt(b, s, e) /\ e \in (pos + 1)..(L + 1)
    BY <1>3, NextIsLater DEF L
  <2>2. PrefixAt(c, pos) = PrefixAt(b, pos)
    BY <1>1
  <2>3. NextAt(c, pos) = e
    <3>1. FindStartCode(c, s) = FindStartCode(b, s)
      <4> HIDE DEF s
      <4> QED BY <2>1, FoundBehind DEF L
    <3> QED BY <2>2, <3>1, Zenon DEF NextAt
  <2> HIDE DEF s, e
  <2>4. s \in Int /\ e - 1 \in Int /\ \A i \in s..(e - 1) : b[i] \in Bytes /\ c[i] \in Bytes /\ c[i] = b[i]
    <3>1. \A i \in s..(e - 1) : i \in 1..L /\ i \in 1..Len(c)
      BY <1>2, <2>1
    <3>2. \A i \in 1..L : b[i] \in Bytes
      BY <1>3 DEF L
    <3>3. \A i \in 1..Len(c) : c[i] \in Bytes
      BY <1>2
    <3>4. s \in Int /\ e - 1 \in Int
      BY <1>2, <2>1
    <3> QED BY <1>2, <3>1, <3>2, <3>3, <3>4, Zenon
  <2>5. SubSeq(b, s, e - 1) \in Seq(Bytes) /\ SubSeq(c, s, e - 1) = SubSeq(b, s, e - 1)
    <3> DEFINE x == SubSeq(b, s, e - 1)
               y == SubSeq(c, s, e - 1)
               w == IF s <= e - 1 THEN (e - 1) - s + 1 ELSE 0
    <3>1. x \in Seq(Bytes) /\ Len(x) = w /\ \A i \in 1..((e - 1) - s + 1) : x[i] = b[s + i - 1]
      BY <2>4, SubSeqProperties
    <3>2. y \in Seq(Bytes) /\ Len(y) = w /\ \A i \in 1..((e - 1) - s + 1) : y[i] = c[s + i - 1]
      BY <2>4, SubSeqProperties
    <3>3. ASSUME NEW i \in 1..w
          PROVE  /\ i \in 1..((e - 1) - s + 1) /\ s + i - 1 \in s..(e - 1)
      BY <2>4
    <3> HIDE DEF x, y, w
    <3>4. \A i \in 1..Len(y) : y[i] = x[i]
      BY <2>4, <3>1, <3>2, <3>3, Zenon
    <3>5. x = y
      BY <3>1, <3>2, <3>4, SeqEqual
    <3> QED BY <3>1, <3>5 DEF x, y
  <2>6. UnitAt(c, pos) = UnitAt(b, pos)
    BY <2>2, <2>3, <2>5, Zenon DEF UnitAt, s, e
  <2>7. UnitAt(b, pos) \in Seq(Seq(Bytes))
    <3>1. UnitAt(b, pos) = <<SubSeq(b, s, e - 1)>> \/ UnitAt(b, pos) = <<>>
      BY Zenon DEF UnitAt, s, e
    <3> DEFINE x == SubSeq(b, s, e - 1)
    <3>2. <<x>> \in Seq(Seq(Bytes)) /\ <<>> \in Seq(Seq(Bytes))
      <4>1. x \in Seq(Bytes)
        BY <2>5
      <4> HIDE DEF x
      <4> QED BY <4>1
    <3> QED BY <3>1, <3>2, Zenon
  <2>8. pos \in 1..Len(c)
    BY <1>2
  <2>9. C[pos] = UnitAt(c, pos) \o C[NextAt(c, pos)]
    BY <1>5, <2>8, Zenon
  <2> QED BY <2>1, <2>3, <2>6, <2>7, <2>9, Zenon DEF e
<1> DEFINE Good(pos) == B[pos] \in Seq(Seq(Bytes)) /\ C[pos] = Append(B[pos], u)
           T == {i \in Nat : i <= L => \A pos \in (L + 1 - i)..(L + 1) : Good(pos)}
<1>8. 0 \in T
  <2>1. Good(L + 1)
    <3>1. Append(<<>>, u) = <<u>>
      OBVIOUS
    <3> QED BY <1>4, <1>6, <3>1
  <2> HIDE DEF Good
  <2> QED BY <1>2, <2>1
<1>9. ASSUME NEW i \in Nat, i \in T
      PROVE  i + 1 \in T
  <2> SUFFICES ASSUME i + 1 <= L, NEW pos \in (L + 1 - (i + 1))..(L + 1)
               PROVE  Good(pos)
    <3> HIDE DEF Good
    <3> QED OBVIOUS
  <2>1. \A q \in (L + 1 - i)..(L + 1) : Good(q)
    <3> HIDE DEF Good
    <3> QED BY <1>2, <1>9
  <2> HIDE DEF Good
  <2>2. CASE pos \in (L + 1 - i)..(L + 1)
    BY <2>1, <2>2
  <2>3. CASE pos = L - i
    <3> DEFINE x == UnitAt(b, pos)
               q == NextAt(b, pos)
    <3>1. pos \in 1..L
      BY <1>2, <2>3
    <3>2. x \in Seq(Seq(Bytes)) /\ q \in (pos + 1)..(L + 1) /\ C[pos] = x \o C[q] /\ B[pos] = x \o B[q]
      BY <1>4, <1>7, <3>1
    <3> HIDE DEF x, q
    <3>3. q \in (L + 1 - i)..(L + 1)
      BY <1>2, <2>3, <3>2
    <3>4. B[q] \in Seq(Seq(Bytes)) /\ C[q] = Append(B[q], u)
      BY <2>1, <3>3 DEF Good
    <3>5. x \o B[q] \in Seq(Seq(Bytes)) /\ x \o Append(B[q], u) = Append(x \o B[q], u)
      <4> DEFINE y == B[q]
      <4>1. y \in Seq(Seq(Bytes))
        BY <3>4
      <4> HIDE DEF y
      <4>2. x \o y \in Seq(Seq(Bytes)) /\ x \o Append(y, u) = Append(x \o y, u)
        <5>1. PICK SB : SB = Seq(Bytes)
          OBVIOUS
        <5>2. x \in Seq(SB) /\ y \in Seq(SB) /\ u \in SB
          BY <1>3, <3>2, <4>1, <5>1, Zenon
        <5>3. x \o y \in Seq(SB) /\ x \o Append(y, u) = Append(x \o y, u)
          BY <5>2, ConcatAppend
        <5> QED BY <5>1, <5>3, Zenon
      <4> QED BY <4>2 DEF y
    <3> QED BY <3>2, <3>4, <3>5 DEF Good
  <2> QED BY <1>2, <2>2, <2>3
<1>10. L \in T
  <2> HIDE DEF T
  <2> QED BY <1>2, <1>8, <1>9, NatSetInduction
<1>11. \A pos \in 1..(L + 1) : Good(pos)
  <2>1. L + 1 - L = 1
    BY <1>2
  <2> HIDE DEF Good
  <2> QED BY <1>2, <1>10, <2>1
<1> QED BY <1>11 DEF L, B, C, OneMoreUnit

-----------------------------------------------------------------------------
\* String b is the units U, each behind a start code.
Parsed(b, U) ==
  /\ Closable(b) /\ U \in Seq(Seq(Bytes))
  /\ b = <<>> => U = <<>>
  /\ b # <<>> => PrefixAt(b, 1) # 0 /\ UnitsFrom(b)[1] = U

\* The empty string holds no unit.
LEMMA ParsedEmpty == Parsed(<<>>, <<>>)
  BY DEF Parsed, Closable

\* A unit behind a start code adds one unit to what a string holds.
LEMMA ParsedBehind ==
  ASSUME NEW b, NEW U, Parsed(b, U), NEW k, NEW u, NalUnit(u)
  PROVE  /\ Parsed(b \o (StartCode(k) \o u), Append(U, u))
         /\ b \o (StartCode(k) \o u) # <<>>
<1> DEFINE c == b \o (StartCode(k) \o u)
           L == Len(b)
<1>1. UnitAdded(c, b, k, u) /\ Closable(b)
  BY DEF UnitAdded, Parsed
<1>2. b \in Seq(Bytes) /\ L \in Nat /\ (b = <<>> <=> L = 0) /\ U \in Seq(Seq(Bytes))
  BY DEF Parsed, Closable
<1>3. Extends(c, b, StartCode(k), u)
  BY <1>1, UnitBehind DEF UnitAdded
<1> HIDE DEF c, L
<1>4. Len(c) # 0 /\ Len(StartCode(k)) # 0
  <2>1. Len(c) = Len(b) + Len(StartCode(k)) + Len(u) /\ Len(b) \in Nat
        /\ Len(StartCode(k)) \in {3, 4} /\ Len(u) \in Nat \ {0}
    BY <1>3, Zenon DEF Extends
  <2> QED BY <2>1
<1>5. /\ \A i \in 1..L : PrefixAt(c, i) = PrefixAt(b, i)
      /\ PrefixAt(c, L + 1) = Len(StartCode(k))
      /\ Closable(c)
  BY <1>1, PrefixesBehind DEF L
<1>6. \A pos \in 1..(L + 1) : UnitsFrom(c)[pos] = Append(UnitsFrom(b)[pos], u)
  <2>1. OneMoreUnit(c, b, u)
    BY <1>1, UnitsFromBehind
  <2> QED BY <2>1, Zenon DEF L, OneMoreUnit
<1>7. PrefixAt(c, 1) # 0 /\ UnitsFrom(c)[1] = Append(U, u)
  <2>1. CASE b = <<>>
    <3>1. L + 1 = 1 /\ U = <<>> /\ 1 \in 1..(L + 1)
      BY <1>2, <2>1 DEF Parsed
    <3>2. UnitsFrom(b)[L + 1] = <<>>
      BY <1>2, UnitsFromIs DEF L
    <3> QED BY <1>4, <1>5, <1>6, <3>1, <3>2
  <2>2. CASE b # <<>>
    <3>1. 1 \in 1..L /\ 1 \in 1..(L + 1)
      BY <1>2, <2>2
    <3>2. PrefixAt(b, 1) # 0 /\ UnitsFrom(b)[1] = U
      BY <2>2 DEF Parsed
    <3> QED BY <1>5, <1>6, <3>1, <3>2
  <2> QED BY <2>1, <2>2
<1>8. c # <<>>
  BY <1>4
<1>9. u \in Seq(Bytes)
  BY DEF NalUnit, Bytes
<1>10. Append(U, u) \in Seq(Seq(Bytes))
  <2> DEFINE SB == Seq(Bytes)
  <2>1. U \in Seq(SB) /\ u \in SB
    BY <1>2, <1>9
  <2> HIDE DEF SB
  <2>2. Append(U, u) \in Seq(SB)
    BY <2>1
  <2> QED BY <2>2 DEF SB
<1>11. Parsed(c, Append(U, u))
  BY <1>5, <1>7, <1>8, <1>10 DEF Parsed
<1> QED BY <1>8, <1>11 DEF c

\* The scans find these units.
LEMMA ParsedUnits ==
  ASSUME NEW b, NEW U, Parsed(b, U), b # <<>>
  PROVE  Units(b) = U
<1>1. b \in Seq(Bytes) /\ Len(b) \in Nat \ {0}
  BY DEF Parsed, Closable
<1>2. PrefixAt(b, 1) # 0 /\ UnitsFrom(b)[1] = U
  BY DEF Parsed
<1>3. FoundAt(b, 1, 1)
  BY <1>1, <1>2 DEF FoundAt
<1>4. FindStartCode(b, 1) = 1
  <2>1. 1 \in 1..(Len(b) + 1)
    BY <1>1
  <2> QED BY <1>1, <1>3, <2>1, FoundOnce
<1>5. ~(1 > Len(b))
  BY <1>1
<1> QED BY <1>2, <1>4, <1>5, Zenon DEF Units

-----------------------------------------------------------------------------
\* Append, element by element.
LEMMA AppendOne ==
  ASSUME NEW S, NEW s \in Seq(S), NEW x \in S, NEW y \in S, NEW v \in Seq(S),
         Len(s) = 1, s[1] = x, Len(v) = 2, v[1] = x, v[2] = y
  PROVE  Append(s, y) = v
<1> DEFINE t == Append(s, y)
<1>1. /\ t \in Seq(S) /\ Len(t) = Len(s) + 1 /\ t[Len(s) + 1] = y
      /\ \A i \in 1..Len(s) : t[i] = s[i]
  OBVIOUS
<1> HIDE DEF t
<1>2. Len(t) = Len(v) /\ \A i \in 1..Len(t) : t[i] = v[i]
  BY <1>1
<1>3. t = v
  BY <1>1, <1>2, SeqEqual
<1> QED BY <1>3 DEF t

\* A second element appended.
LEMMA AppendTwo ==
  ASSUME NEW S, NEW x \in S, NEW y \in S
  PROVE  Append(<<x>>, y) = <<x, y>>
<1> DEFINE s == <<x>>
           v == <<x, y>>
<1>1. s \in Seq(S) /\ Len(s) = 1 /\ s[1] = x
  OBVIOUS
<1>2. v \in Seq(S) /\ Len(v) = 2 /\ v[1] = x /\ v[2] = y
  OBVIOUS
<1> HIDE DEF s, v
<1>3. Append(s, y) = v
  BY <1>1, <1>2, AppendOne
<1> QED BY <1>3 DEF s, v

\* One or two sequences joined.
LEMMA FlattenFew ==
  ASSUME NEW S, NEW x \in Seq(S), NEW y \in Seq(S)
  PROVE  FlattenSeq(<<x>>) = x /\ FlattenSeq(<<x, y>>) = x \o y
<1>1. <<>> \in Seq(Seq(S)) /\ <<x>> \in Seq(Seq(S))
  OBVIOUS
<1>2. Append(<<>>, x) = <<x>> /\ Append(<<x>>, y) = <<x, y>>
  <2>1. Append(<<>>, x) = <<x>>
    OBVIOUS
  <2>2. Append(<<x>>, y) = <<x, y>>
    BY AppendTwo, Zenon
  <2> QED BY <2>1, <2>2
<1>3. FlattenSeq(<<>>) = <<>>
  BY DEF FlattenSeq
<1>4. FlattenSeq(Append(<<>>, x)) = FlattenSeq(<<>>) \o x
  BY <1>1, FlattenAppend
<1>5. FlattenSeq(Append(<<x>>, y)) = FlattenSeq(<<x>>) \o y
  BY <1>1, FlattenAppend
<1>6. <<>> \o x = x
  BY ConcatEmptySeq
<1> QED BY <1>2, <1>3, <1>4, <1>5, <1>6

\* One or two units, as the encoder's parts have them.
Few(us) == us \in {<<u>> : u \in Coded} \cup {<<u, v>> : u, v \in Coded}

\* A part with bytes has one unit or two.
LEMMA FewCases ==
  ASSUME NEW us, Few(us)
  PROVE  \/ \E u \in Coded : us = <<u>>
         \/ \E u \in Coded, v \in Coded : us = <<u, v>>
  BY DEF Few

\* What a part adds to a string.
LEMMA AnnexBParsed ==
  ASSUME NEW b, NEW U, Parsed(b, U), NEW p, Few(p.units)
  PROVE  /\ Parsed(b \o AnnexB(p), U \o p.units) /\ b \o AnnexB(p) # <<>>
         /\ AnnexB(p) \in Seq(Bytes)
<1>1. b \in Seq(Bytes) /\ U \in Seq(Seq(Bytes))
  BY DEF Parsed, Closable
<1>2. \A u \in Coded : NalUnit(u) /\ u \in Seq(Bytes)
  BY CodedAssumption DEF NalUnit, Bytes
<1>3. ASSUME NEW k
      PROVE  StartCode(k) \in Seq(Bytes)
  <2>1. <<0, 0, 0, 1>> \in Seq(Bytes) /\ <<0, 0, 1>> \in Seq(Bytes)
    BY DEF Bytes
  <2> QED BY <2>1, Zenon DEF StartCode
<1>4. CASE \E u \in Coded : p.units = <<u>>
  <2>1. PICK u \in Coded : p.units = <<u>>
    BY <1>4
  <2> DEFINE x == StartCode(1) \o u
  <2>2. x \in Seq(Bytes)
    BY <1>2, <1>3
  <2>3. AnnexB(p) = x
    <3>1. [n \in 1..Len(p.units) |-> StartCode(n) \o p.units[n]] = <<x>>
      BY <2>1
    <3> HIDE DEF x
    <3> QED BY <2>2, <3>1, FlattenFew DEF AnnexB
  <2>4. Parsed(b \o x, Append(U, u)) /\ b \o x # <<>>
    BY <1>2, ParsedBehind
  <2>5. Append(U, u) = U \o p.units
    BY <1>1, <1>2, <2>1, AppendIsConcat
  <2> HIDE DEF x
  <2> QED BY <2>2, <2>3, <2>4, <2>5
<1>5. CASE \E u \in Coded, v \in Coded : p.units = <<u, v>>
  <2>1. PICK u \in Coded, v \in Coded : p.units = <<u, v>>
    BY <1>5
  <2> DEFINE x == StartCode(1) \o u
             y == StartCode(2) \o v
  <2>2. x \in Seq(Bytes) /\ y \in Seq(Bytes)
    BY <1>2, <1>3
  <2>3. AnnexB(p) = x \o y
    <3>1. [n \in 1..Len(p.units) |-> StartCode(n) \o p.units[n]] = <<x, y>>
      BY <2>1
    <3> HIDE DEF x, y
    <3> QED BY <2>2, <3>1, FlattenFew DEF AnnexB
  <2>4. Parsed(b \o x, Append(U, u))
    BY <1>2, ParsedBehind
  <2>5. Parsed((b \o x) \o y, Append(Append(U, u), v)) /\ (b \o x) \o y # <<>>
    <3> HIDE DEF x
    <3> QED BY <1>2, <2>4, ParsedBehind
  <2>6. Append(Append(U, u), v) = U \o p.units
    <3> DEFINE SB == Seq(Bytes)
    <3>1. U \in Seq(SB) /\ u \in SB /\ v \in SB
      BY <1>1, <1>2
    <3> HIDE DEF SB
    <3>2. Append(Append(U, u), v) = U \o <<u, v>>
      BY <3>1
    <3> QED BY <2>1, <3>2
  <2> HIDE DEF x, y
  <2>7. (b \o x) \o y = b \o (x \o y) /\ x \o y \in Seq(Bytes)
    BY <1>1, <2>2, ConcatAssociative
  <2> QED BY <2>3, <2>5, <2>6, <2>7
<1> QED BY <1>4, <1>5, FewCases

-----------------------------------------------------------------------------
\* The payloads of a part's packets.
Flow(us) == FlattenSeq([i \in DOMAIN us |-> Payloads(us[i])])

\* A unit of the encoder gives at least one payload, and none above the limit.
LEMMA CodedIs ==
  ASSUME NEW u \in Coded
  PROVE  /\ NalUnit(u) /\ u \in Seq(Bytes) /\ u # <<>> /\ ~IsFragment(u)
         /\ Payloads(u) \in Seq(Seq(Bytes)) /\ Len(Payloads(u)) \in Nat \ {0}
         /\ \A k \in 1..Len(Payloads(u)) : Len(Payloads(u)[k]) <= MaxPayload
<1>1. NalUnit(u)
  BY CodedAssumption
<1>2. u \in Seq(Bytes) /\ u # <<>> /\ ~IsFragment(u)
  BY <1>1 DEF NalUnit, Bytes
<1> QED BY <1>1, <1>2, PayloadsAre

\* The units of a part with bytes.
LEMMA FewType ==
  ASSUME NEW us, Few(us)
  PROVE  us \in Seq(Coded) /\ Len(us) \in {1, 2}
<1>1. CASE \E u \in Coded : us = <<u>>
  BY <1>1
<1>2. CASE \E u \in Coded, v \in Coded : us = <<u, v>>
  BY <1>2
<1> QED BY <1>1, <1>2, FewCases

\* The payloads of one unit, and of two.
LEMMA FlowIs ==
  /\ \A u \in Coded : Flow(<<u>>) = Payloads(u)
  /\ \A u \in Coded, v \in Coded : Flow(<<u, v>>) = Payloads(u) \o Payloads(v)
<1>1. ASSUME NEW u \in Coded
      PROVE  Flow(<<u>>) = Payloads(u)
  <2>1. [i \in DOMAIN <<u>> |-> Payloads(<<u>>[i])] = <<Payloads(u)>>
    OBVIOUS
  <2>2. Payloads(u) \in Seq(Seq(Bytes))
    BY CodedIs
  <2> QED BY <2>1, <2>2, FlattenFew DEF Flow
<1>2. ASSUME NEW u \in Coded, NEW v \in Coded
      PROVE  Flow(<<u, v>>) = Payloads(u) \o Payloads(v)
  <2>1. [i \in DOMAIN <<u, v>> |-> Payloads(<<u, v>>[i])] = <<Payloads(u), Payloads(v)>>
    OBVIOUS
  <2>2. Payloads(u) \in Seq(Seq(Bytes)) /\ Payloads(v) \in Seq(Seq(Bytes))
    BY CodedIs
  <2> QED BY <2>1, <2>2, FlattenFew DEF Flow
<1> QED BY <1>1, <1>2

\* A part with bytes gives at least one payload, and none above the limit.
LEMMA FlowType ==
  ASSUME NEW us, Few(us)
  PROVE  /\ Flow(us) \in Seq(Seq(Bytes)) /\ Len(Flow(us)) \in Nat \ {0}
         /\ \A k \in 1..Len(Flow(us)) : Len(Flow(us)[k]) <= MaxPayload
<1>1. CASE \E u \in Coded : us = <<u>>
  BY <1>1, CodedIs, FlowIs
<1>2. CASE \E u \in Coded, v \in Coded : us = <<u, v>>
  <2>1. PICK u \in Coded, v \in Coded : us = <<u, v>>
    BY <1>2
  <2> DEFINE x == Payloads(u)
             y == Payloads(v)
             f == x \o y
  <2>2. /\ x \in Seq(Seq(Bytes)) /\ Len(x) \in Nat \ {0}
        /\ \A k \in 1..Len(x) : Len(x[k]) <= MaxPayload
        /\ y \in Seq(Seq(Bytes)) /\ Len(y) \in Nat \ {0}
        /\ \A k \in 1..Len(y) : Len(y[k]) <= MaxPayload
    BY CodedIs
  <2>3. Flow(us) = f
    BY <2>1, FlowIs
  <2> HIDE DEF x, y, f
  <2>4. /\ f \in Seq(Seq(Bytes)) /\ Len(f) = Len(x) + Len(y)
        /\ \A k \in 1..(Len(x) + Len(y)) : f[k] = IF k <= Len(x) THEN x[k] ELSE y[k - Len(x)]
    BY <2>2, ConcatProperties DEF f
  <2>5. ASSUME NEW k \in 1..Len(f)
        PROVE  Len(f[k]) <= MaxPayload
    <3>1. CASE k <= Len(x)
      <4>1. k \in 1..Len(x) /\ f[k] = x[k]
        BY <2>2, <2>4, <3>1
      <4> QED BY <2>2, <4>1
    <3>2. CASE ~(k <= Len(x))
      <4>1. k - Len(x) \in 1..Len(y) /\ f[k] = y[k - Len(x)]
        BY <2>2, <2>4, <3>2
      <4> QED BY <2>2, <4>1
    <3> QED BY <3>1, <3>2
  <2>6. Len(f) \in Nat \ {0}
    BY <2>2, <2>4
  <2> QED BY <2>3, <2>4, <2>5, <2>6
<1> QED BY <1>1, <1>2, FewCases

\* The packets of a part.
LEMMA PacketsAre ==
  ASSUME NEW p, Few(p.units), NEW e
  PROVE  LET all == Flow(p.units)
         IN Packets(AnnexB(p), e) =
              [n \in 1..Len(all) |-> [payload |-> all[n], marker |-> e /\ n = Len(all)]]
<1> DEFINE b == AnnexB(p)
<1>1. Parsed(<<>> \o b, <<>> \o p.units) /\ <<>> \o b # <<>> /\ b \in Seq(Bytes)
  BY AnnexBParsed, ParsedEmpty
<1>2. <<>> \o b = b
  BY <1>1, ConcatEmptySeq
<1>3. <<>> \o p.units = p.units
  <2>1. p.units \in Seq(Coded)
    BY FewType
  <2> QED BY <2>1, ConcatEmptySeq
<1> HIDE DEF b
<1>4. Units(b) = p.units
  BY <1>1, <1>2, <1>3, ParsedUnits
<1> QED BY <1>4, Zenon DEF Packets, Flow, b

-----------------------------------------------------------------------------
\* What a receiver has after some packets of a part: some of its units, all of
\* them when it has all packets.
LEMMA FlowReceived ==
  ASSUME NEW S, NEW s \in Seq(S), NEW t \in Seq(S), NEW us, Few(us),
         Len(t) <= Len(Flow(us)), \A i \in 1..Len(t) : t[i].payload = Flow(us)[i],
         State(s).units \in Seq(Coded)
  PROVE  \E j \in 0..Len(us) :
           /\ State(s \o t).units = State(s).units \o SubSeq(us, 1, j)
           /\ Len(t) = Len(Flow(us)) => j = Len(us)
<1> DEFINE U == State(s).units
<1>1. U \in Seq(Coded) /\ Len(t) \in Nat
  OBVIOUS
<1>2. SubSeq(us, 1, 0) = <<>> /\ U \o <<>> = U
  <2>1. SubSeq(us, 1, 0) = <<>>
    BY SubSeqEmpty
  <2> HIDE DEF U
  <2> QED BY <1>1, <2>1, ConcatEmptySeq
<1>3. CASE \E u \in Coded : us = <<u>>
  <2>1. PICK u \in Coded : us = <<u>>
    BY <1>3
  <2>2. Flow(us) = Payloads(u) /\ Len(us) = 1 /\ us \in Seq(Coded)
    BY <2>1, FlowIs
  <2>3. State(s \o t).units = IF Len(t) = Len(Payloads(u)) THEN Append(U, u) ELSE U
    <3>1. Len(t) <= Len(Payloads(u)) /\ \A k \in 1..Len(t) : t[k].payload = Payloads(u)[k]
      BY <2>2
    <3> QED BY <3>1, CodedIs, UnitReceived
  <2>4. Append(U, u) = U \o SubSeq(us, 1, 1)
    <3>1. SubSeq(us, 1, 1) = us
      BY <2>2, SubSeqFull
    <3> HIDE DEF U
    <3> QED BY <1>1, <2>1, <3>1, AppendIsConcat
  <2> HIDE DEF U
  <2>5. CASE Len(t) = Len(Payloads(u))
    <3>1. 1 \in 0..Len(us)
      BY <2>2
    <3> QED BY <2>2, <2>3, <2>4, <2>5, <3>1 DEF U
  <2>6. CASE Len(t) # Len(Payloads(u))
    <3>1. 0 \in 0..Len(us)
      BY <2>2
    <3> QED BY <1>2, <2>2, <2>3, <2>6, <3>1 DEF U
  <2> QED BY <2>5, <2>6
<1>4. CASE \E u \in Coded, v \in Coded : us = <<u, v>>
  <2>1. PICK u \in Coded, v \in Coded : us = <<u, v>>
    BY <1>4
  <2> DEFINE x == Payloads(u)
             y == Payloads(v)
  <2>2. Flow(us) = x \o y /\ Len(us) = 2 /\ us \in Seq(Coded)
    <3>1. Flow(us) = x \o y
      BY <2>1, FlowIs, Zenon
    <3>2. Len(us) = 2
      BY <2>1
    <3> QED BY <3>1, <3>2, FewType
  <2>3. x \in Seq(Seq(Bytes)) /\ Len(x) \in Nat \ {0} /\ y \in Seq(Seq(Bytes)) /\ Len(y) \in Nat \ {0}
    BY CodedIs
  <2>4. SubSeq(us, 1, 1) = <<u>> /\ SubSeq(us, 1, 2) = us
    <3>1. SubSeq(us, 1, 2) = us
      BY <2>2, SubSeqFull
    <3>2. 1 \in 1..Len(us) /\ 1 \in 1..1
      BY <2>2
    <3>3. SubSeq(us, 1, 1) = <<us[1]>> \o SubSeq(us, 1 + 1, 1)
      BY <2>2, <3>2, SubSeqRecursiveFirst
    <3>4. SubSeq(us, 1 + 1, 1) = <<>> /\ <<us[1]>> \in Seq(Coded) /\ us[1] = u
      BY <2>1, SubSeqEmpty
    <3> QED BY <3>1, <3>3, <3>4, ConcatEmptySeq
  <2> HIDE DEF x, y
  <2> DEFINE f == x \o y
  <2>5. /\ Len(f) = Len(x) + Len(y)
        /\ \A k \in 1..(Len(x) + Len(y)) : f[k] = IF k <= Len(x) THEN x[k] ELSE y[k - Len(x)]
    BY <2>3, ConcatProperties
  <2> HIDE DEF f, U
  <2>6. Len(t) <= Len(f) /\ \A k \in 1..Len(t) : t[k].payload = f[k]
    BY <2>2 DEF f
  <2>7. CASE Len(t) <= Len(x)
    <3>1. ASSUME NEW k \in 1..Len(t)
          PROVE  t[k].payload = x[k]
      <4>1. k \in 1..(Len(x) + Len(y)) /\ k <= Len(x)
        BY <1>1, <2>3, <2>7
      <4> QED BY <2>5, <2>6, <4>1
    <3>2. State(s \o t).units = IF Len(t) = Len(x) THEN Append(U, u) ELSE U
      BY <2>7, <3>1, CodedIs, UnitReceived DEF x, U
    <3>3. Append(U, u) = U \o <<u>>
      BY <1>1, AppendIsConcat
    <3>4. Len(t) # Len(f)
      BY <1>1, <2>3, <2>5, <2>7
    <3>5. 0 \in 0..Len(us) /\ 1 \in 0..Len(us)
      BY <2>2
    <3>6. CASE Len(t) = Len(x)
      BY <2>2, <2>4, <3>2, <3>3, <3>4, <3>5, <3>6 DEF f, U
    <3>7. CASE Len(t) # Len(x)
      BY <1>2, <2>2, <3>2, <3>4, <3>5, <3>7 DEF f, U
    <3> QED BY <3>6, <3>7
  <2>8. CASE ~(Len(t) <= Len(x))
    <3> DEFINE t1 == SubSeq(t, 1, Len(x))
               t2 == SubSeq(t, Len(x) + 1, Len(t))
    <3>1. /\ Len(x) \in 0..Len(t) /\ Len(x) \in 1..Len(t) /\ Len(t) \in Len(x)..Len(t) /\ 1 \in 1..(Len(t) + 1)
          /\ 1 - 1 = 0
      BY <1>1, <2>3, <2>8
    <3>2. t1 \o t2 = t
      <4>1. t1 \o t2 = SubSeq(t, 1, Len(t))
        BY <3>1, ConcatAdjacentSubSeq
      <4> QED BY <4>1, SubSeqFull
    <3>3. \A i \in 1..Len(t) : t[i] \in S
      OBVIOUS
    <3>4. t1 \in Seq(S) /\ Len(t1) = Len(x) /\ \A k \in 1..Len(x) : t1[k] = t[k]
      <4>1. \A i \in 1..Len(x) : t[i] \in S
        BY <3>1, <3>3
      <4>2. /\ t1 \in Seq(S) /\ Len(t1) = IF 1 <= Len(x) THEN Len(x) - 1 + 1 ELSE 0
            /\ \A i \in 1..(Len(x) - 1 + 1) : t1[i] = t[1 + i - 1]
        BY <3>1, <4>1, SubSeqProperties
      <4> HIDE DEF t1
      <4> QED BY <2>3, <4>2
    <3>5. /\ t2 \in Seq(S) /\ Len(t2) = Len(t) - Len(x)
          /\ \A k \in 1..(Len(t) - Len(x)) : t2[k] = t[Len(x) + k]
      <4>1. \A i \in (Len(x) + 1)..Len(t) : t[i] \in S
        BY <2>3, <3>1, <3>3
      <4>2. /\ t2 \in Seq(S)
            /\ Len(t2) = IF Len(x) + 1 <= Len(t) THEN Len(t) - (Len(x) + 1) + 1 ELSE 0
            /\ \A i \in 1..(Len(t) - (Len(x) + 1) + 1) : t2[i] = t[(Len(x) + 1) + i - 1]
        BY <2>3, <3>1, <4>1, SubSeqProperties
      <4> HIDE DEF t2
      <4>3. Len(x) + 1 <= Len(t) /\ Len(t) - (Len(x) + 1) + 1 = Len(t) - Len(x)
        BY <1>1, <2>3, <2>8
      <4>4. ASSUME NEW k \in 1..(Len(t) - Len(x))
            PROVE  t2[k] = t[Len(x) + k]
        <5>1. (Len(x) + 1) + k - 1 = Len(x) + k
          BY <2>3
        <5> QED BY <4>2, <4>3, <5>1, Zenon
      <4> QED BY <4>2, <4>3, <4>4
    <3> HIDE DEF t1, t2
    <3>6. State(s \o t1).units = Append(U, u)
      <4>1. \A k \in 1..Len(t1) : t1[k].payload = x[k]
        <5>1. ASSUME NEW k \in 1..Len(x)
              PROVE  t1[k].payload = x[k]
          <6>1. k \in 1..Len(t) /\ k \in 1..(Len(x) + Len(y)) /\ k <= Len(x)
            BY <1>1, <2>3, <3>1
          <6> QED BY <2>5, <2>6, <3>4, <6>1
        <5> QED BY <3>4, <5>1
      <4>2. Len(t1) = Len(x) /\ Len(t1) <= Len(x)
        BY <2>3, <3>4
      <4>3. State(s \o t1).units = IF Len(t1) = Len(x) THEN Append(U, u) ELSE U
        <5>1. u \in Seq(Bytes) /\ u # <<>> /\ ~IsFragment(u)
          BY CodedIs
        <5> QED BY <3>4, <4>1, <4>2, <5>1, UnitReceived DEF x, U
      <4> QED BY <4>2, <4>3
    <3> DEFINE r == s \o t1
    <3>7. r \in Seq(S) /\ r \o t2 = s \o t
      <4>1. (s \o t1) \o t2 = s \o (t1 \o t2)
        BY <3>4, <3>5, ConcatAssociative, SMTT(40)
      <4> QED BY <3>2, <3>4, <4>1, ConcatProperties
    <3>8. State(r).units = Append(U, u)
      BY <3>6
    <3> HIDE DEF r
    <3>9. State(s \o t).units = IF Len(t2) = Len(y) THEN Append(Append(U, u), v) ELSE Append(U, u)
      <4>1. \A k \in 1..Len(t2) : t2[k].payload = y[k]
        <5>1. ASSUME NEW k \in 1..(Len(t) - Len(x))
              PROVE  t2[k].payload = y[k]
          <6>1. /\ Len(x) + k \in 1..Len(t) /\ Len(x) + k \in 1..(Len(x) + Len(y))
                /\ ~(Len(x) + k <= Len(x)) /\ (Len(x) + k) - Len(x) = k
            <7>1. Len(t) <= Len(x) + Len(y)
              BY <2>5, <2>6
            <7> QED BY <1>1, <2>3, <7>1
          <6>2. t[Len(x) + k].payload = f[Len(x) + k] /\ f[Len(x) + k] = y[(Len(x) + k) - Len(x)]
            BY <2>5, <2>6, <6>1, Zenon
          <6>3. t2[k] = t[Len(x) + k]
            BY <3>5
          <6> QED BY <6>1, <6>2, <6>3, Zenon
        <5> QED BY <3>5, <5>1
      <4>2. Len(t2) <= Len(y)
        BY <1>1, <2>3, <2>5, <2>6, <3>5
      <4>3. State(r \o t2).units = IF Len(t2) = Len(y) THEN Append(State(r).units, v) ELSE State(r).units
        BY <3>5, <3>7, <4>1, <4>2, CodedIs, UnitReceived DEF y
      <4> QED BY <3>7, <3>8, <4>3
    <3>10. Append(U, u) = U \o <<u>> /\ Append(Append(U, u), v) = U \o <<u, v>>
      <4>1. Append(U, u) = U \o <<u>>
        BY <1>1, AppendIsConcat
      <4>2. Append(Append(U, u), v) = U \o <<u, v>>
        BY <1>1, SMTT(40)
      <4> QED BY <4>1, <4>2
    <3>11. Len(t) = Len(f) <=> Len(t2) = Len(y)
      BY <1>1, <2>3, <2>5, <3>5
    <3>12. 1 \in 0..Len(us) /\ 2 \in 0..Len(us)
      BY <2>2
    <3>13. CASE Len(t2) = Len(y)
      BY <2>1, <2>2, <2>4, <3>9, <3>10, <3>12, <3>13 DEF f, U
    <3>14. CASE Len(t2) # Len(y)
      BY <2>2, <2>4, <3>9, <3>10, <3>11, <3>12, <3>14 DEF f, U
    <3> QED BY <3>13, <3>14
  <2> QED BY <2>7, <2>8
<1> QED BY <1>3, <1>4, FewCases

-----------------------------------------------------------------------------
\* What the parts of a run hold, as functions of the parts.
Produced(g) == FlattenSeq([i \in 1..Len(g) |-> g[i].units])

SilentOf(g) == {g[i].frame : i \in {j \in DOMAIN g : g[j].end /\ g[j].units = <<>>}}

\* A part is without bytes, or has one unit or two.
LEMMA PieceIs ==
  ASSUME NEW p \in Pieces
  PROVE  p.units \in Seq(Coded) /\ p.end \in BOOLEAN /\ p.frame \in Nat
         /\ (p.units = <<>> \/ Few(p.units))
<1>1. p.units = <<>> \/ Few(p.units)
  BY DEF Pieces, Few
<1>2. p.units \in Seq(Coded)
  <2>1. <<>> \in Seq(Coded)
    OBVIOUS
  <2> QED BY <1>1, <2>1, FewType
<1>3. p.end \in BOOLEAN /\ p.frame \in Nat
  BY DEF Pieces
<1> QED BY <1>1, <1>2, <1>3

\* One more part adds its units to what was produced.
LEMMA ProducedMore ==
  ASSUME NEW g \in Seq(Pieces), NEW p \in Pieces
  PROVE  /\ Produced(g) \in Seq(Coded)
         /\ Produced(Append(g, p)) = Produced(g) \o p.units
<1> DEFINE s == [i \in 1..Len(g) |-> g[i].units]
           h == Append(g, p)
           t == [i \in 1..Len(h) |-> h[i].units]
           n == Len(g)
<1>1. n \in Nat /\ \A i \in 1..n : g[i] \in Pieces
  OBVIOUS
<1>2. Len(h) = n + 1 /\ (\A i \in 1..n : h[i] = g[i]) /\ h[n + 1] = p
  <2> HIDE DEF Pieces
  <2> QED OBVIOUS
<1>3. s \in Seq(Seq(Coded)) /\ Len(s) = n /\ \A i \in 1..n : s[i] = g[i].units
  <2>1. \A i \in 1..n : g[i].units \in Seq(Coded)
    BY <1>1, PieceIs
  <2> QED BY <1>1, <2>1
<1>4. p.units \in Seq(Coded)
  BY PieceIs
<1> HIDE DEF s, h, n
<1>5. t = Append(s, p.units)
  <2> DEFINE v == Append(s, p.units)
             SC == Seq(Coded)
  <2>1. s \in Seq(SC) /\ p.units \in SC
    BY <1>3, <1>4
  <2> HIDE DEF SC
  <2>2. v \in Seq(SC) /\ Len(v) = n + 1 /\ (\A i \in 1..n : v[i] = s[i]) /\ v[n + 1] = p.units
    BY <1>1, <1>3, <2>1
  <2>3. ASSUME NEW i \in 1..(n + 1)
        PROVE  t[i] = v[i] /\ t[i] \in SC
    <3>1. t[i] = h[i].units
      BY <1>2
    <3> HIDE DEF v, t
    <3>2. CASE i \in 1..n
      <4>1. s[i] \in SC
        BY <1>3, <2>1, <3>2
      <4> QED BY <1>2, <1>3, <2>2, <3>1, <3>2, <4>1
    <3>3. CASE i = n + 1
      <4>1. h[i] = p /\ v[i] = p.units
        BY <1>2, <2>2, <3>3, Zenon
      <4>2. t[i] = p.units
        BY <3>1, <4>1, Zenon
      <4>3. t[i] = v[i]
        BY <4>1, <4>2
      <4>4. t[i] \in SC
        BY <2>1, <4>2
      <4> QED BY <4>3, <4>4
    <3> QED BY <1>1, <3>2, <3>3
  <2>4. Len(t) = n + 1 /\ t \in Seq(SC)
    <3>1. t = [i \in 1..(n + 1) |-> h[i].units]
      BY <1>2
    <3>2. \A i \in 1..(n + 1) : h[i].units \in SC
      <4> HIDE DEF t
      <4>1. \A i \in 1..(n + 1) : t[i] = h[i].units
        BY <3>1
      <4> QED BY <2>3, <4>1
    <3> QED BY <1>1, <3>1, <3>2
  <2> HIDE DEF t, v
  <2>5. \A i \in 1..Len(t) : t[i] = v[i]
    BY <2>3, <2>4
  <2>6. t = v
    BY <2>2, <2>4, <2>5, SeqEqual
  <2> QED BY <2>6 DEF v
<1> HIDE DEF t
<1>6. FlattenSeq(s) \in Seq(Coded) /\ FlattenSeq(t) = FlattenSeq(s) \o p.units
  BY <1>3, <1>4, <1>5, FlattenAppend
<1> QED BY <1>6 DEF Produced, s, t, h

\* One more part adds its frame to the silent ones when it ends it without bytes.
LEMMA SilentMore ==
  ASSUME NEW g \in Seq(Pieces), NEW p \in Pieces
  PROVE  SilentOf(Append(g, p)) =
           SilentOf(g) \cup IF p.end /\ p.units = <<>> THEN {p.frame} ELSE {}
<1> DEFINE n == Len(g)
           h == Append(g, p)
<1>1. /\ n \in Nat /\ DOMAIN g = 1..n /\ DOMAIN h = 1..(n + 1)
      /\ (\A i \in 1..n : h[i] = g[i]) /\ h[n + 1] = p
  <2> HIDE DEF Pieces
  <2> QED OBVIOUS
<1> HIDE DEF n, h
<1> DEFINE X == IF p.end /\ p.units = <<>> THEN {p.frame} ELSE {}
<1>2. ASSUME NEW f \in SilentOf(h)
      PROVE  f \in SilentOf(g) \cup X
  <2>1. PICK i \in 1..(n + 1) : h[i].end /\ h[i].units = <<>> /\ f = h[i].frame
    BY <1>1 DEF SilentOf
  <2> QED BY <1>1, <2>1 DEF SilentOf
<1>3. ASSUME NEW f \in SilentOf(g)
      PROVE  f \in SilentOf(h)
  <2>1. PICK i \in 1..n : g[i].end /\ g[i].units = <<>> /\ f = g[i].frame
    BY <1>1 DEF SilentOf
  <2>2. i \in 1..(n + 1) /\ h[i] = g[i]
    BY <1>1
  <2> QED BY <1>1, <2>1, <2>2 DEF SilentOf
<1>4. ASSUME NEW f \in X
      PROVE  f \in SilentOf(h)
  <2>1. n + 1 \in 1..(n + 1) /\ p.end /\ p.units = <<>> /\ f = p.frame
    BY <1>1
  <2> QED BY <1>1, <2>1 DEF SilentOf
<1>5. SilentOf(h) = SilentOf(g) \cup X
  BY <1>2, <1>3, <1>4
<1> QED BY <1>5 DEF h

-----------------------------------------------------------------------------
\* A remainder does not change with a multiple of the modulus.
LEMMA ModShift ==
  ASSUME NEW m \in Nat \ {0}, NEW x \in Int, NEW q \in Int
  PROVE  (x + m * q) % m = x % m
<1>1. x = m * (x \div m) + (x % m) /\ x \div m \in Int /\ x % m \in 0..(m - 1)
  BY DivMod
<1>2. x + m * q = m * ((x \div m) + q) + (x % m)
  BY <1>1
<1>3. x + m * q \in Int /\ (x \div m) + q \in Int
  BY <1>1
<1> QED BY <1>1, <1>2, <1>3, RemainderIs

\* Reducing an operand first changes nothing.
LEMMA ModAdd ==
  \A x, k \in Int, m \in Nat \ {0} : ((x % m) + k) % m = (x + k) % m
<1> TAKE x, k \in Int, m \in Nat \ {0}
<1> DEFINE y == (x % m) + k
           q == x \div m
<1>1. x = m * (x \div m) + (x % m) /\ x \div m \in Int /\ x % m \in Int
  BY DivMod
<1>2. y \in Int /\ q \in Int /\ x + k = y + m * q
  BY <1>1
<1> HIDE DEF y, q
<1>3. (y + m * q) % m = y % m
  BY <1>2, ModShift
<1> QED BY <1>2, <1>3 DEF y

-----------------------------------------------------------------------------
\* Every step leaves the output as it is, adds a part, or fails while adding one.
Quiet ==
  UNCHANGED <<sink, rtp, sent, file, given, encoded>> /\ (Failed => Failed')

Wrote(p) ==
  /\ Written(p) /\ sink' = sink /\ ~Failed
  /\ encoded' = IF p.end THEN encoded + 1 ELSE encoded

Broke(p) ==
  /\ WriteFails(p) /\ sink' = sink /\ ~Failed /\ Failed'
  /\ encoded' = encoded

\* Seen from the output every step is one of these.
LEMMA StepKinds ==
  ASSUME LoopInv, [Next]_vars
  PROVE  Quiet \/ \E p \in Pieces : p.frame = encoded /\ (Wrote(p) \/ Broke(p))
<1>1. \A ends \in SUBSET BOOLEAN : \A p \in Parts(ends) :
        p \in Pieces /\ p.frame = encoded /\ p.end \in ends
  BY DEF Parts, Pieces, LoopInv, LoopType
<1>2. CASE Header
  <2>1. pc = "header" /\ sink' = sink /\ encoded' = encoded /\ ~Failed
    BY <1>2 DEF Header, Failed
  <2>2. PICK p \in Parts({FALSE}) :
          \/ Written(p) /\ pc' = "head"
          \/ WriteFails(p) /\ pc' = "ended" /\ result' = 1
    BY <1>2 DEF Header, Close
  <2>3. p \in Pieces /\ p.frame = encoded /\ p.end = FALSE
    <3>1. {FALSE} \in SUBSET BOOLEAN
      OBVIOUS
    <3>2. p \in Pieces /\ p.frame = encoded /\ p.end \in {FALSE}
      BY <1>1, <3>1
    <3> QED BY <3>2
  <2>4. Wrote(p) \/ Broke(p)
    BY <2>1, <2>2, <2>3 DEF Wrote, Broke, Failed
  <2> QED BY <2>3, <2>4
<1>3. CASE ReadPart
  <2>1. pc = "parts" /\ sink' = sink /\ ~Failed
    BY <1>3 DEF ReadPart, Failed
  <2> DEFINE ends == IF part + 1 < MaxParts THEN BOOLEAN ELSE {TRUE}
  <2>2. PICK p \in Parts(ends) :
          /\ Written(p)
          /\ IF FrameDone(p)
             THEN Put(held) /\ encoded' = encoded + 1 /\ pc' = "head" /\ part' = 0
             ELSE part' = part + 1 /\ UNCHANGED <<pc, encoded, queued, lost, held>>
    BY <1>3 DEF ReadPart
  <2>3. ends \in SUBSET BOOLEAN
    OBVIOUS
  <2> HIDE DEF ends
  <2>4. p \in Pieces /\ p.frame = encoded
    BY <1>1, <2>3
  <2>5. encoded' = IF p.end THEN encoded + 1 ELSE encoded
    BY <2>2 DEF FrameDone
  <2>6. Wrote(p)
    BY <2>1, <2>2, <2>5 DEF Wrote
  <2> QED BY <2>4, <2>6
<1>4. CASE PartFails
  <2>1. pc = "parts" /\ pc' = "ended" /\ result' = 1 /\ sink' = sink /\ encoded' = encoded
    BY <1>4 DEF PartFails, Close
  <2>2. ~Failed /\ Failed'
    BY <2>1 DEF Failed
  <2>3. UNCHANGED output \/ \E p \in Parts(BOOLEAN) : WriteFails(p)
    BY <1>4 DEF PartFails
  <2>4. CASE UNCHANGED output
    BY <2>1, <2>2, <2>4 DEF output, Quiet
  <2>5. CASE \E p \in Parts(BOOLEAN) : WriteFails(p)
    <3>1. PICK p \in Parts(BOOLEAN) : WriteFails(p)
      BY <2>5
    <3>2. p \in Pieces /\ p.frame = encoded
      BY <1>1
    <3>3. Broke(p)
      BY <2>1, <2>2, <3>1 DEF Broke
    <3> QED BY <3>2, <3>3
  <2> QED BY <2>3, <2>4, <2>5
<1>5. CASE NextFrame \/ Finish \/ GrabSkipped \/ Grab \/ GrabFails
  <2>1. UNCHANGED <<sink, encoded, output>> /\ ~Failed
    BY <1>5 DEF NextFrame, Finish, GrabSkipped, Grab, GrabFails, Failed
  <2> QED BY <2>1 DEF output, Quiet
<1>6. CASE Fill \/ Signal \/ UNCHANGED vars
  <2>1. UNCHANGED <<sink, encoded, output, pc, result>>
    BY <1>6 DEF Fill, Signal, vars
  <2> QED BY <2>1 DEF output, Quiet, Failed
<1> QED BY <1>2, <1>3, <1>4, <1>5, <1>6 DEF Next

-----------------------------------------------------------------------------
Packet == [payload : Seq(Bytes), marker : BOOLEAN, seq : Nat, timestamp : Nat, frame : Nat]

\* The first k packets of a part.
Burst(p, k) ==
  [n \in 1..k |->
     [payload |-> Flow(p.units)[n], marker |-> p.end /\ n = Len(Flow(p.units)),
      seq |-> SeqAfter(n - 1), timestamp |-> rtp.timestamp, frame |-> p.frame]]

\* What output_write sends of a part is the beginning of its packets.
LEMMA SendsIs ==
  ASSUME NEW p, Few(p.units), NEW k \in 0..Len(Flow(p.units)), Sends(p, k)
  PROVE  /\ sent' = sent \o Burst(p, k)
         /\ rtp' = [seq |-> SeqAfter(k), timestamp |-> TimeAfter(p, k = Len(Flow(p.units)))]
<1> DEFINE all == Flow(p.units)
           packets == Packets(AnnexB(p), p.end)
<1>1. Len(all) \in Nat
  BY FlowType
<1>2. packets = [n \in 1..Len(all) |->
                   [payload |-> all[n], marker |-> p.end /\ n = Len(all)]]
  BY PacketsAre
<1> HIDE DEF packets, all
<1>3. Len(packets) = Len(all)
  BY <1>1, <1>2
<1>4. \A n \in 1..k : packets[n].payload = all[n] /\ packets[n].marker = (p.end /\ n = Len(all))
  <2>1. \A n \in 1..k : n \in 1..Len(all)
    BY <1>1 DEF all
  <2> QED BY <1>2, <2>1
<1>5. sent' = sent \o [n \in 1..k |->
                  [payload |-> packets[n].payload, marker |-> packets[n].marker,
                   seq |-> SeqAfter(n - 1), timestamp |-> rtp.timestamp,
                   frame |-> p.frame]]
  BY DEF Sends, packets
<1>6. [n \in 1..k |-> [payload |-> packets[n].payload, marker |-> packets[n].marker,
                       seq |-> SeqAfter(n - 1), timestamp |-> rtp.timestamp, frame |-> p.frame]]
        = Burst(p, k)
  BY <1>4, Zenon DEF Burst, all
<1>7. rtp' = [seq |-> SeqAfter(k), timestamp |-> TimeAfter(p, k = Len(packets))]
  BY DEF Sends, packets
<1> QED BY <1>3, <1>5, <1>6, <1>7, Zenon DEF all

\* Those packets, field by field.
LEMMA BurstIs ==
  ASSUME NEW p \in Pieces, Few(p.units), NEW k \in 0..Len(Flow(p.units)),
         rtp \in [seq : Nat, timestamp : Nat]
  PROVE  /\ Burst(p, k) \in Seq(Packet) /\ Len(Burst(p, k)) = k
         /\ \A n \in 1..k :
              /\ Burst(p, k)[n].payload = Flow(p.units)[n]
              /\ Burst(p, k)[n].marker = (p.end /\ n = Len(Flow(p.units)))
              /\ Burst(p, k)[n].seq = SeqAfter(n - 1)
              /\ Burst(p, k)[n].timestamp = rtp.timestamp
              /\ Burst(p, k)[n].frame = p.frame
<1> DEFINE all == Flow(p.units)
           t == Burst(p, k)
           e(n) == [payload |-> all[n], marker |-> p.end /\ n = Len(all),
                    seq |-> SeqAfter(n - 1), timestamp |-> rtp.timestamp, frame |-> p.frame]
<1>1. Len(all) \in Nat /\ all \in Seq(Seq(Bytes)) /\ k \in Nat
  BY FlowType
<1>2. t = [n \in 1..k |-> e(n)]
  BY DEF Burst
<1>3. \A n \in 1..k : e(n) \in Packet
  <2> TAKE n \in 1..k
  <2>1. all[n] \in Seq(Bytes)
    <3>1. n \in 1..Len(all)
      BY <1>1
    <3> HIDE DEF all
    <3> QED BY <1>1, <3>1
  <2>2. SeqAfter(n - 1) \in Nat
    <3>1. RtpSeqMod \in Nat \ {0} /\ rtp.seq + (n - 1) \in Int
      BY VencdAssumption DEF VencdAssumption
    <3>2. (rtp.seq + (n - 1)) % RtpSeqMod \in 0..(RtpSeqMod - 1)
      BY <3>1, DivMod
    <3> QED BY <3>1, <3>2 DEF SeqAfter
  <2>3. rtp.timestamp \in Nat /\ p.frame \in Nat /\ (p.end /\ n = Len(all)) \in BOOLEAN
    BY PieceIs
  <2> HIDE DEF all
  <2> QED BY <2>1, <2>2, <2>3, Zenon DEF Packet
<1>4. t \in Seq(Packet) /\ Len(t) = k
  <2> HIDE DEF t, e, Packet
  <2> QED BY <1>1, <1>2, <1>3
<1>5. \A n \in 1..k : t[n] = e(n)
  <2> HIDE DEF t, e
  <2> QED BY <1>2
<1>6. \A n \in 1..k : /\ t[n].payload = all[n] /\ t[n].marker = (p.end /\ n = Len(all))
                      /\ t[n].seq = SeqAfter(n - 1) /\ t[n].timestamp = rtp.timestamp
                      /\ t[n].frame = p.frame
  <2> HIDE DEF t, all
  <2> TAKE n \in 1..k
  <2>1. t[n] = [payload |-> all[n], marker |-> p.end /\ n = Len(all),
                seq |-> SeqAfter(n - 1), timestamp |-> rtp.timestamp, frame |-> p.frame]
    BY <1>5
  <2> DEFINE last == p.end /\ n = Len(all)
  <2>2. t[n] = [payload |-> all[n], marker |-> last, seq |-> SeqAfter(n - 1),
                timestamp |-> rtp.timestamp, frame |-> p.frame]
    BY <2>1
  <2> HIDE DEF last
  <2>3. /\ t[n].payload = all[n] /\ t[n].marker = last /\ t[n].seq = SeqAfter(n - 1)
        /\ t[n].timestamp = rtp.timestamp /\ t[n].frame = p.frame
    BY <2>2
  <2> QED BY <2>3, Zenon DEF last
<1> QED BY <1>4, <1>6 DEF t, all

-----------------------------------------------------------------------------
\* What is sent fits into a packet and is numbered without a gap.
NumberedIn(s) ==
  \A n \in DOMAIN s : Len(s[n].payload) <= MaxPayload /\ s[n].seq = (n - 1) % RtpSeqMod

SentInv ==
  /\ sent \in Seq(Packet) /\ rtp \in [seq : Nat, timestamp : Nat]
  /\ NumberedIn(sent) /\ rtp.seq = Len(sent) % RtpSeqMod

\* What has arrived is what was produced, as much as was sent when that failed.
ArrivedInv ==
  /\ sink \in {"rtp", "file"}
  /\ sink = "rtp" =>
       /\ State(sent).units \in Seq(Coded)
       /\ IF Failed THEN IsPrefix(State(sent).units, Produced(given))
          ELSE State(sent).units = Produced(given)
  /\ sink = "file" => sent = <<>> /\ (~Failed => Parsed(file, Produced(given)))

\* Their sequence numbers follow those sent before, and they fit into a packet.
LEMMA NumbersGoOn ==
  ASSUME SentInv, NEW p \in Pieces, Few(p.units), NEW k \in 0..Len(Flow(p.units))
  PROVE  /\ sent \o Burst(p, k) \in Seq(Packet) /\ NumberedIn(sent \o Burst(p, k))
         /\ SeqAfter(k) = Len(sent \o Burst(p, k)) % RtpSeqMod /\ SeqAfter(k) \in Nat
         /\ TimeAfter(p, k = Len(Flow(p.units))) \in Nat
<1> DEFINE t == Burst(p, k)
           N == Len(sent)
           r == sent \o t
<1>1. /\ t \in Seq(Packet) /\ Len(t) = k
      /\ \A n \in 1..k : t[n].payload = Flow(p.units)[n] /\ t[n].seq = SeqAfter(n - 1)
  BY BurstIs DEF SentInv
<1>2. /\ sent \in Seq(Packet) /\ N \in Nat /\ DOMAIN sent = 1..N /\ rtp.seq = N % RtpSeqMod
      /\ RtpSeqMod \in Nat \ {0} /\ RtpTimeMod \in Nat \ {0} /\ Step \in Nat
      /\ rtp.timestamp \in Nat
  BY VencdAssumption DEF SentInv, VencdAssumption
<1>3. Len(Flow(p.units)) \in Nat /\ \A n \in 1..Len(Flow(p.units)) : Len(Flow(p.units)[n]) <= MaxPayload
  BY FlowType
<1>4. \A i \in Int : SeqAfter(i) = (N + i) % RtpSeqMod
  <2> TAKE i \in Int
  <2>1. N \in Int /\ RtpSeqMod \in Nat \ {0} /\ rtp.seq = N % RtpSeqMod
    BY <1>2
  <2>2. ((N % RtpSeqMod) + i) % RtpSeqMod = (N + i) % RtpSeqMod
    BY <2>1, ModAdd, Zenon
  <2> QED BY <2>1, <2>2, Zenon DEF SeqAfter
<1> HIDE DEF t, N, Packet
<1>5. /\ r \in Seq(Packet) /\ Len(r) = N + k
      /\ \A n \in 1..(N + k) : r[n] = IF n <= N THEN sent[n] ELSE t[n - N]
  BY <1>1, <1>2, ConcatProperties DEF N
<1> HIDE DEF r
<1>6. ASSUME NEW n \in DOMAIN r
      PROVE  Len(r[n].payload) <= MaxPayload /\ r[n].seq = (n - 1) % RtpSeqMod
  <2>1. n \in 1..(N + k)
    BY <1>2, <1>5
  <2>2. CASE n <= N
    <3>1. n \in DOMAIN sent /\ r[n] = sent[n]
      BY <1>2, <1>5, <2>1, <2>2
    <3> QED BY <3>1 DEF SentInv, NumberedIn
  <2>3. CASE ~(n <= N)
    <3>1. n - N \in 1..k /\ r[n] = t[n - N] /\ N + ((n - N) - 1) = n - 1 /\ (n - N) - 1 \in Int
      <4>1. r[n] = t[n - N]
        BY <1>5, <2>1, <2>3, Zenon
      <4>2. k \in Nat
        BY <1>3
      <4> QED BY <1>2, <2>1, <2>3, <4>1, <4>2, SMTT(40)
    <3>2. n - N \in 1..Len(Flow(p.units))
      BY <1>2, <1>3, <2>1, <2>3
    <3> DEFINE j == n - N
    <3> HIDE DEF j
    <3>3. t[j].payload = Flow(p.units)[j] /\ t[j].seq = SeqAfter(j - 1)
      BY <1>1, <3>1 DEF j
    <3>4. Len(t[j].payload) <= MaxPayload
      BY <1>3, <3>2, <3>3 DEF j
    <3>5. SeqAfter(j - 1) = (n - 1) % RtpSeqMod
      BY <1>4, <3>1 DEF j
    <3> QED BY <3>1, <3>3, <3>4, <3>5 DEF j
  <2> QED BY <2>2, <2>3
<1>7. SeqAfter(k) = Len(r) % RtpSeqMod /\ SeqAfter(k) \in Nat
  <2>1. SeqAfter(k) = (N + k) % RtpSeqMod
    BY <1>4
  <2>2. (N + k) % RtpSeqMod \in 0..(RtpSeqMod - 1)
    BY <1>2, DivMod
  <2> QED BY <1>2, <1>5, <2>1, <2>2
<1>8. TimeAfter(p, k = Len(Flow(p.units))) \in Nat
  <2>1. (rtp.timestamp + Step) % RtpTimeMod \in 0..(RtpTimeMod - 1)
    <3>1. rtp.timestamp + Step \in Int
      BY <1>2
    <3> QED BY <1>2, <3>1, DivMod, Zenon
  <2>2. (rtp.timestamp + Step) % RtpTimeMod \in Nat
    BY <1>2, <2>1
  <2> QED BY <1>2, <2>2, Zenon DEF TimeAfter
<1> QED BY <1>5, <1>6, <1>7, <1>8 DEF r, t, NumberedIn

\* Sending some packets of a part keeps the numbering.
LEMMA SendsKeepNumbers ==
  ASSUME SentInv, NEW p \in Pieces, Few(p.units), NEW k \in 0..Len(Flow(p.units)), Sends(p, k)
  PROVE  SentInv'
<1> DEFINE r == sent \o Burst(p, k)
           x == TimeAfter(p, k = Len(Flow(p.units)))
           y == SeqAfter(k)
<1>1. sent' = r /\ rtp' = [seq |-> y, timestamp |-> x]
  BY SendsIs
<1>2. r \in Seq(Packet) /\ NumberedIn(r) /\ y = Len(r) % RtpSeqMod /\ y \in Nat /\ x \in Nat
  BY NumbersGoOn
<1> HIDE DEF r, x, y, Packet
<1>3. rtp' \in [seq : Nat, timestamp : Nat] /\ rtp'.seq = y
  BY <1>1, <1>2
<1> QED BY <1>1, <1>2, <1>3 DEF SentInv

\* A part with bytes has as many packets as payloads, at least one.
LEMMA PacketsCount ==
  ASSUME NEW p, Few(p.units)
  PROVE  Len(Packets(AnnexB(p), p.end)) = Len(Flow(p.units)) /\ Len(Flow(p.units)) \in Nat \ {0}
<1> DEFINE all == Flow(p.units)
           packets == Packets(AnnexB(p), p.end)
<1>1. Len(all) \in Nat \ {0}
  BY FlowType
<1>2. packets = [n \in 1..Len(all) |-> [payload |-> all[n], marker |-> p.end /\ n = Len(all)]]
  BY PacketsAre
<1> HIDE DEF packets, all
<1>3. Len(packets) = Len(all)
  BY <1>1, <1>2
<1> QED BY <1>1, <1>3 DEF packets, all

\* Every step keeps the numbering and the length of the packets.
LEMMA StepSent == SentInv /\ LoopInv /\ [Next]_vars => SentInv'
<1> SUFFICES ASSUME SentInv, LoopInv, [Next]_vars
             PROVE  SentInv'
  OBVIOUS
<1>1. CASE Quiet
  BY <1>1 DEF Quiet, SentInv, NumberedIn
<1>2. CASE \E p \in Pieces : p.frame = encoded /\ (Wrote(p) \/ Broke(p))
  <2>1. PICK p \in Pieces : Wrote(p) \/ Broke(p)
    BY <1>2
  <2>2. CASE UNCHANGED <<rtp, sent>>
    BY <2>2 DEF SentInv, NumberedIn
  <2>3. CASE ~UNCHANGED <<rtp, sent>>
    <3>1. p.units # <<>>
      BY <2>1, <2>3 DEF Wrote, Broke, Written, WriteFails
    <3>2. Few(p.units)
      BY <3>1, PieceIs
    <3>3. Len(Packets(AnnexB(p), p.end)) = Len(Flow(p.units)) /\ Len(Flow(p.units)) \in Nat \ {0}
      BY <3>2, PacketsCount
    <3>4. \/ Sends(p, Len(Flow(p.units)))
          \/ \E k \in 0..(Len(Flow(p.units)) - 1) : Sends(p, k)
      BY <2>1, <2>3, <3>1, <3>3 DEF Wrote, Broke, Written, WriteFails
    <3>5. \E k \in 0..Len(Flow(p.units)) : Sends(p, k)
      BY <3>3, <3>4
    <3> QED BY <3>2, <3>5, SendsKeepNumbers
  <2> QED BY <2>2, <2>3
<1> QED BY <1>1, <1>2, StepKinds

-----------------------------------------------------------------------------
\* A sequence is its own prefix.
LEMMA PrefixOfSelf ==
  ASSUME NEW S, NEW x \in Seq(S)
  PROVE  IsPrefix(x, x)
<1>1. Len(x) \in Nat
  OBVIOUS
<1> QED BY <1>1 DEF IsPrefix

\* A sequence is a prefix of what it is continued to.
LEMMA PrefixOfConcat ==
  ASSUME NEW S, NEW x \in Seq(S), NEW y \in Seq(S)
  PROVE  IsPrefix(x, x \o y)
<1> DEFINE z == x \o y
           n == Len(x)
<1>1. /\ z \in Seq(S) /\ Len(z) = n + Len(y) /\ n \in Nat /\ Len(y) \in Nat
      /\ \A i \in 1..(n + Len(y)) : z[i] = IF i <= n THEN x[i] ELSE y[i - n]
  BY ConcatProperties
<1> HIDE DEF z, n
<1>2. n <= Len(z)
  BY <1>1
<1>3. SubSeq(x, 1, n) = x
  BY SubSeqFull DEF n
<1>4. SubSeq(z, 1, n) = x
  <2> DEFINE t == SubSeq(z, 1, n)
  <2>0. \A i \in 1..n : z[i] \in S
    BY <1>1
  <2>1. t \in Seq(S) /\ Len(t) = n /\ \A i \in 1..n : t[i] = z[i]
    BY <1>1, <2>0, SubSeqProperties
  <2>2. \A i \in 1..n : t[i] = x[i]
    BY <1>1, <2>1
  <2> HIDE DEF t
  <2>3. t = x
    BY <2>1, <2>2, <1>1, SeqEqual DEF n
  <2> QED BY <2>3 DEF t
<1> QED BY <1>2, <1>3, <1>4 DEF IsPrefix, z, n

\* Some of what is appended, and all of it.
LEMMA SomeOfIt ==
  ASSUME NEW S, NEW x \in Seq(S), NEW y \in Seq(S), NEW j \in 0..Len(y)
  PROVE  /\ IsPrefix(x \o SubSeq(y, 1, j), x \o y)
         /\ x \o SubSeq(y, 1, j) \in Seq(S)
         /\ SubSeq(y, 1, Len(y)) = y
<1> DEFINE a == SubSeq(y, 1, j)
           b == SubSeq(y, j + 1, Len(y))
<1>1. a \in Seq(S) /\ b \in Seq(S)
  <2>1. Len(y) \in Nat /\ \A i \in 1..Len(y) : y[i] \in S
    OBVIOUS
  <2>2. (\A i \in 1..j : y[i] \in S) /\ (\A i \in (j + 1)..Len(y) : y[i] \in S)
    BY <2>1
  <2> QED BY <2>1, <2>2, SubSeqProperties
<1>2. SubSeq(y, 1, Len(y)) = y
  BY SubSeqFull, SMTT(40)
<1>3. a \o b = y
  <2>1. 1 \in 1..(Len(y) + 1) /\ j \in (1 - 1)..Len(y) /\ Len(y) \in j..Len(y)
    <3>1. Len(y) \in Nat
      OBVIOUS
    <3> QED BY <3>1
  <2>2. a \o b = SubSeq(y, 1, Len(y))
    BY <2>1, ConcatAdjacentSubSeq
  <2> QED BY <1>2, <2>2
<1> HIDE DEF a, b
<1>4. x \o y = (x \o a) \o b /\ x \o a \in Seq(S)
  <2>1. (x \o a) \o b = x \o (a \o b)
    BY <1>1, ConcatAssociative, SMTT(60)
  <2>2. x \o a \in Seq(S)
    BY <1>1, ConcatProperties
  <2>3. x \o y = (x \o a) \o b
    BY <1>3, <2>1, Zenon
  <2> QED BY <2>2, <2>3
<1>5. IsPrefix(x \o a, (x \o a) \o b)
  <2> DEFINE w == x \o a
  <2>1. w \in Seq(S)
    BY <1>4
  <2> HIDE DEF w
  <2>2. IsPrefix(w, w \o b)
    BY <1>1, <2>1, PrefixOfConcat
  <2> QED BY <2>2 DEF w
<1> QED BY <1>2, <1>4, <1>5 DEF a

-----------------------------------------------------------------------------
\* Packets of one more part.
LEMMA MorePackets ==
  ASSUME SentInv, NEW p \in Pieces, Few(p.units), NEW k \in 0..Len(Flow(p.units)), Sends(p, k),
         State(sent).units \in Seq(Coded)
  PROVE  /\ State(sent').units \in Seq(Coded)
         /\ IsPrefix(State(sent').units, State(sent).units \o p.units)
         /\ k = Len(Flow(p.units)) => State(sent').units = State(sent).units \o p.units
<1> DEFINE us == p.units
           t == Burst(p, k)
           U == State(sent).units
<1>1. us \in Seq(Coded) /\ Len(us) \in {1, 2}
  BY FewType
<1>2. /\ t \in Seq(Packet) /\ Len(t) = k
      /\ \A n \in 1..k : t[n].payload = Flow(us)[n]
  BY BurstIs DEF SentInv
<1>3. sent' = sent \o t /\ sent \in Seq(Packet)
  BY SendsIs DEF SentInv
<1>4. Len(Flow(us)) \in Nat
  BY FlowType
<1>5. Few(us) /\ U \in Seq(Coded) /\ k \in 0..Len(Flow(us))
  OBVIOUS
<1> HIDE DEF us, t, Packet
<1>6. Len(t) <= Len(Flow(us)) /\ \A n \in 1..Len(t) : t[n].payload = Flow(us)[n]
  BY <1>2, <1>4, <1>5
<1>7. PICK j \in 0..Len(us) :
        /\ State(sent \o t).units = U \o SubSeq(us, 1, j)
        /\ Len(t) = Len(Flow(us)) => j = Len(us)
  BY <1>2, <1>3, <1>5, <1>6, FlowReceived
<1>8. State(sent').units = U \o SubSeq(us, 1, j)
  BY <1>3, <1>7
<1> HIDE DEF U
<1>9. /\ IsPrefix(U \o SubSeq(us, 1, j), U \o us)
      /\ U \o SubSeq(us, 1, j) \in Seq(Coded) /\ SubSeq(us, 1, Len(us)) = us
  BY <1>1, <1>5, <1>7, SomeOfIt
<1>10. k = Len(Flow(us)) => State(sent').units = U \o us
  BY <1>2, <1>7, <1>8, <1>9
<1> QED BY <1>8, <1>9, <1>10 DEF U, us

\* What a step has to show when nothing but the outcome may change.
ArrivedWith(k, s, f, g, failed) ==
  /\ k \in {"rtp", "file"}
  /\ k = "rtp" =>
       /\ State(s).units \in Seq(Coded)
       /\ IF failed THEN IsPrefix(State(s).units, Produced(g))
          ELSE State(s).units = Produced(g)
  /\ k = "file" => s = <<>> /\ (~failed => Parsed(f, Produced(g)))

\* Every step keeps what has arrived equal to what was produced, and a prefix of it
\* when the step fails.
LEMMA StepArrived == ArrivedInv /\ SentInv /\ LoopInv /\ [Next]_vars => ArrivedInv'
<1> SUFFICES ASSUME ArrivedInv, SentInv, LoopInv, [Next]_vars
             PROVE  ArrivedInv'
  OBVIOUS
<1>0. ArrivedInv' <=> ArrivedWith(sink', sent', file', given', Failed')
  BY DEF ArrivedInv, ArrivedWith
<1>1. sink \in {"rtp", "file"} /\ given \in Seq(Pieces)
  BY DEF ArrivedInv, LoopInv, LoopType
<1>2. CASE Quiet
  <2>1. UNCHANGED <<sink, sent, file, given>> /\ (Failed => Failed')
    BY <1>2 DEF Quiet
  <2>2. sink = "rtp" => IsPrefix(State(sent).units, State(sent).units)
    BY PrefixOfSelf DEF ArrivedInv
  <2>3. ArrivedWith(sink, sent, file, given, Failed')
    BY <2>1, <2>2 DEF ArrivedInv, ArrivedWith
  <2> QED BY <1>0, <2>1, <2>3
<1>3. CASE \E p \in Pieces : p.frame = encoded /\ (Wrote(p) \/ Broke(p))
  <2>1. PICK p \in Pieces : Wrote(p) \/ Broke(p)
    BY <1>3
  <2>2. sink' = sink /\ ~Failed /\ given' = Append(given, p)
    BY <2>1 DEF Wrote, Broke, Written, WriteFails
  <2> DEFINE G == Produced(given)
             H == Produced(given')
             U == State(sent).units
  <2>3. G \in Seq(Coded) /\ H = G \o p.units
    BY <1>1, <2>2, ProducedMore
  <2>4. CASE p.units = <<>>
    <3>1. UNCHANGED <<sent, file>>
      BY <2>1, <2>4 DEF Wrote, Broke, Written, WriteFails
    <3>2. H = G
      <4> HIDE DEF G, H
      <4>1. G \o <<>> = G
        BY <2>3, ConcatEmptySeq
      <4> QED BY <2>3, <2>4, <4>1
    <3>3. sink = "rtp" => IsPrefix(U, U)
      BY PrefixOfSelf DEF ArrivedInv
    <3>4. ArrivedWith(sink, sent, file, given, FALSE)
      BY <2>2 DEF ArrivedInv, ArrivedWith
    <3>5. ArrivedWith(sink, sent, file, given', Failed')
      BY <3>2, <3>3, <3>4 DEF ArrivedWith
    <3> QED BY <1>0, <2>2, <3>1, <3>5
  <2>5. CASE p.units # <<>> /\ sink = "rtp"
    <3>1. Few(p.units)
      BY <2>5, PieceIs
    <3>2. Len(Packets(AnnexB(p), p.end)) = Len(Flow(p.units)) /\ Len(Flow(p.units)) \in Nat \ {0}
      BY <3>1, PacketsCount
    <3>3. U \in Seq(Coded) /\ U = G
      BY <2>2, <2>5 DEF ArrivedInv
    <3>4. \E k \in 0..Len(Flow(p.units)) :
            Sends(p, k) /\ (Failed' \/ k = Len(Flow(p.units)))
      <4>1. CASE Wrote(p)
        <5>1. Sends(p, Len(Flow(p.units)))
          BY <2>5, <3>2, <4>1 DEF Wrote, Written
        <5> QED BY <3>2, <5>1
      <4>2. CASE Broke(p)
        <5>1. PICK k \in 0..(Len(Flow(p.units)) - 1) : Sends(p, k)
          BY <2>5, <3>2, <4>2 DEF Broke, WriteFails
        <5>2. k \in 0..Len(Flow(p.units))
          BY <3>2
        <5> QED BY <4>2, <5>1, <5>2 DEF Broke
      <4> QED BY <2>1, <4>1, <4>2
    <3>5. PICK k \in 0..Len(Flow(p.units)) :
            Sends(p, k) /\ (Failed' \/ k = Len(Flow(p.units)))
      BY <3>4
    <3>6. /\ State(sent').units \in Seq(Coded)
          /\ IsPrefix(State(sent').units, U \o p.units)
          /\ k = Len(Flow(p.units)) => State(sent').units = U \o p.units
      BY <3>1, <3>3, <3>5, MorePackets
    <3>7. U \o p.units = H
      BY <2>3, <3>3
    <3>8. ArrivedWith(sink, sent', file', given', Failed')
      BY <2>5, <3>5, <3>6, <3>7 DEF ArrivedWith
    <3> QED BY <1>0, <2>2, <3>8
  <2>6. CASE p.units # <<>> /\ sink = "file"
    <3>1. Few(p.units)
      BY <2>6, PieceIs
    <3>2. sent = <<>> /\ sent' = sent /\ Parsed(file, G)
      BY <2>1, <2>2, <2>6 DEF ArrivedInv, Wrote, Broke, Written, WriteFails
    <3>3. Failed' \/ file' = file \o AnnexB(p)
      BY <2>1, <2>6 DEF Wrote, Broke, Written
    <3>4. Parsed(file \o AnnexB(p), H)
      <4>1. Parsed(file \o AnnexB(p), G \o p.units)
        BY <3>1, <3>2, AnnexBParsed
      <4> QED BY <2>3, <4>1
    <3>5. ArrivedWith(sink, sent', file', given', Failed')
      BY <2>6, <3>2, <3>3, <3>4 DEF ArrivedWith
    <3> QED BY <1>0, <2>2, <3>5
  <2> QED BY <1>1, <2>4, <2>5, <2>6
<1> QED BY <1>2, <1>3, StepKinds

-----------------------------------------------------------------------------
ArrivalInv == LoopInv /\ SentInv /\ ArrivedInv

\* At the start nothing was produced and nothing arrived.
LEMMA InitArrival == Init => ArrivalInv
<1> SUFFICES ASSUME Init PROVE ArrivalInv
  OBVIOUS
<1>1. /\ sink \in {"rtp", "file"} /\ rtp = [seq |-> 0, timestamp |-> 0]
      /\ sent = <<>> /\ file = <<>> /\ given = <<>> /\ ~Failed
  BY DEF Init, Failed
<1>2. SentInv
  <2>1. sent \in Seq(Packet) /\ Len(sent) = 0 /\ DOMAIN sent = {}
    <3> HIDE DEF Packet
    <3> QED BY <1>1
  <2>2. 0 % RtpSeqMod = 0
    <3>1. RtpSeqMod \in Nat \ {0} /\ 0 \in Int /\ 0 = RtpSeqMod * 0 + 0 /\ 0 \in 0..(RtpSeqMod - 1)
      BY VencdAssumption DEF VencdAssumption
    <3> QED BY <3>1, RemainderIs
  <2>3. rtp \in [seq : Nat, timestamp : Nat] /\ rtp.seq = 0
    BY <1>1
  <2> QED BY <2>1, <2>2, <2>3 DEF SentInv, NumberedIn
<1>3. Produced(<<>>) = <<>>
  <2> DEFINE none == [i \in 1..Len(<<>>) |-> <<>>[i].units]
  <2>1. none = <<>>
    OBVIOUS
  <2>2. FlattenSeq(<<>>) = <<>>
    BY DEF FlattenSeq
  <2> QED BY <2>1, <2>2 DEF Produced
<1>4. State(<<>>).units = <<>>
  BY StateEmpty DEF Nothing
<1>5. ArrivedInv
  <2>1. <<>> \in Seq(Coded)
    OBVIOUS
  <2> QED BY <1>1, <1>3, <1>4, <2>1, ParsedEmpty DEF ArrivedInv
<1> QED BY <1>2, <1>5, InitLoop DEF ArrivalInv

\* Numbering and arrival are kept together.
LEMMA StepArrival == ArrivalInv /\ [Next]_vars => ArrivalInv'
  BY StepLoop, StepSent, StepArrived DEF ArrivalInv

\* The invariant is what UnitsArrive states.
LEMMA ArrivalShows == ArrivalInv => UnitsArrive
<1> SUFFICES ASSUME ArrivalInv PROVE UnitsArrive
  OBVIOUS
<1>1. LoopInv /\ SentInv /\ ArrivedInv /\ sink \in {"rtp", "file"}
  BY DEF ArrivalInv, ArrivedInv
<1>2. ProducedUnits = Produced(given)
  BY Zenon DEF ProducedUnits, Produced
<1>3. CASE sink = "rtp"
  <2>1. Received(sent) = State(sent).units
    BY ReceivedIs DEF State
  <2>2. Delivered = State(sent).units
    BY <1>3, <2>1 DEF Delivered
  <2>3. IsPrefix(State(sent).units, State(sent).units)
    BY <1>1, <1>3, PrefixOfSelf DEF ArrivedInv
  <2>4. /\ ~Failed => Delivered = ProducedUnits
        /\ IsPrefix(Delivered, ProducedUnits)
    BY <1>1, <1>2, <1>3, <2>2, <2>3 DEF ArrivedInv
  <2> QED BY <1>1, <2>4 DEF UnitsArrive, SentInv, NumberedIn
<1>4. CASE sink = "file"
  <2>1. ~Failed => Parsed(file, Produced(given))
    BY <1>1, <1>4 DEF ArrivedInv
  <2>2. ~Failed => Delivered = ProducedUnits
    <3>1. CASE file # <<>>
      BY <1>2, <1>4, <2>1, <3>1, ParsedUnits DEF Delivered
    <3>2. CASE file = <<>>
      BY <1>2, <1>4, <2>1, <3>2 DEF Delivered, Parsed
    <3> QED BY <3>1, <3>2
  <2> QED BY <1>1, <1>4, <2>2 DEF UnitsArrive, SentInv, NumberedIn
<1> QED BY <1>1, <1>3, <1>4

\* A run that has not failed has delivered exactly the units the encoder
\* produced, over RTP after cutting and fragmenting and joining them again, or
\* in the file behind start codes, for every length and content of a unit; a
\* failed send leaves a prefix.  Every packet fits and numbers have no gap.
THEOREM OutputArrives == Spec => []UnitsArrive
<1> QED BY InitArrival, StepArrival, ArrivalShows, PTL DEF Spec

-----------------------------------------------------------------------------
\* The frames of the packets, their markers and their timestamps, q being the
\* frames that ended without bytes.
FramesUpTo(s, e) == \A n \in DOMAIN s : s[n].frame <= e

Marked(s, e, q) ==
  \A n \in DOMAIN s :
    s[n].marker <=>
      /\ s[n].frame < e
      /\ s[n].frame \notin q
      /\ \A m \in DOMAIN s : m > n => s[m].frame # s[n].frame

TimeOf(f, q) == ((f - Cardinality({x \in q : x < f})) * Step) % RtpTimeMod

Timed(s, q) == \A n \in DOMAIN s : s[n].timestamp = TimeOf(s[n].frame, q)

\* A frame ends without bytes.
LEMMA MarkedSilent ==
  ASSUME NEW s \in Seq(Packet), NEW e \in Nat, NEW q,
         FramesUpTo(s, e), Marked(s, e, q)
  PROVE  Marked(s, e + 1, q \cup {e})
<1>1. \A n \in DOMAIN s : s[n].frame \in Nat /\ s[n].frame <= e
  <2>1. \A x \in Packet : x.frame \in Nat
    BY DEF Packet
  <2> HIDE DEF Packet
  <2> QED BY <2>1 DEF FramesUpTo
<1>2. \A n \in DOMAIN s : (s[n].frame < e + 1 /\ s[n].frame \notin q \cup {e})
                            <=> (s[n].frame < e /\ s[n].frame \notin q)
  BY <1>1
<1> QED BY <1>2, Zenon DEF Marked

\* More packets of the frame in hand; d when they are its last.
LEMMA MarkedMore ==
  ASSUME NEW s \in Seq(Packet), NEW t \in Seq(Packet), NEW e \in Nat, NEW d \in BOOLEAN,
         NEW q \in SUBSET (0..(e - 1)),
         FramesUpTo(s, e), Marked(s, e, q), d => Len(t) > 0,
         \A n \in 1..Len(t) : t[n].frame = e /\ (t[n].marker <=> d /\ n = Len(t))
  PROVE  /\ FramesUpTo(s \o t, e)
         /\ Marked(s \o t, IF d THEN e + 1 ELSE e, q)
<1> DEFINE r == s \o t
           N == Len(s)
           K == Len(t)
           h == IF d THEN e + 1 ELSE e
<1>1. /\ r \in Seq(Packet) /\ Len(r) = N + K /\ N \in Nat /\ K \in Nat
      /\ DOMAIN r = 1..(N + K) /\ DOMAIN s = 1..N
      /\ \A i \in 1..(N + K) : r[i] = IF i <= N THEN s[i] ELSE t[i - N]
  <2>1. /\ r \in Seq(Packet) /\ Len(r) = N + K
        /\ \A i \in 1..(N + K) : r[i] = IF i <= N THEN s[i] ELSE t[i - N]
    BY ConcatProperties
  <2> HIDE DEF r, Packet
  <2> QED BY <2>1
<1>2. \A n \in 1..N : s[n].frame \in Nat /\ s[n].frame <= e
  <2>1. \A x \in Packet : x.frame \in Nat
    BY DEF Packet
  <2> HIDE DEF Packet
  <2> QED BY <1>1, <2>1 DEF FramesUpTo
<1>3. e \notin q
  OBVIOUS
<1>4. \A n \in 1..K : t[n].frame = e /\ (t[n].marker <=> d /\ n = K)
  OBVIOUS
<1>5. d => K > 0
  OBVIOUS
<1> HIDE DEF r, N, K, h, Packet
<1>6. \A n \in 1..N : r[n] = s[n]
  BY <1>1
<1>7. \A n \in (N + 1)..(N + K) : n - N \in 1..K /\ r[n] = t[n - N]
  BY <1>1
<1>8. \A n \in (N + 1)..(N + K) : r[n].frame = e /\ (r[n].marker <=> d /\ n = N + K)
  <2> TAKE n \in (N + 1)..(N + K)
  <2>1. n - N \in 1..K /\ r[n] = t[n - N] /\ (n - N = K <=> n = N + K)
    BY <1>1, <1>7
  <2> DEFINE j == n - N
  <2> HIDE DEF j
  <2>2. j \in 1..K /\ r[n] = t[j] /\ (j = K <=> n = N + K)
    BY <2>1 DEF j
  <2> QED BY <1>4, <2>2, Zenon
<1>9. FramesUpTo(r, e)
  <2>1. ASSUME NEW n \in 1..(N + K) PROVE r[n].frame <= e
    <3>1. n \in 1..N \/ n \in (N + 1)..(N + K)
      BY <1>1
    <3> QED BY <1>2, <1>6, <1>8, <3>1
  <2> QED BY <1>1, <2>1 DEF FramesUpTo
<1>10. ASSUME NEW n \in 1..(N + K)
       PROVE  r[n].marker <=>
                /\ r[n].frame < h /\ r[n].frame \notin q
                /\ \A m \in 1..(N + K) : m > n => r[m].frame # r[n].frame
  <2>1. CASE n \in 1..N
    <3>1. r[n] = s[n] /\ s[n].frame \in Nat /\ s[n].frame <= e
      BY <1>2, <1>6, <2>1
    <3>2. s[n].marker <=>
            /\ s[n].frame < e /\ s[n].frame \notin q
            /\ \A m \in 1..N : m > n => s[m].frame # s[n].frame
      BY <1>1, <2>1 DEF Marked
    <3>3. CASE s[n].frame = e
      <4>1. ~s[n].marker
        BY <3>2, <3>3
      <4>2. d => N + K \in 1..(N + K) /\ N + K > n /\ r[N + K].frame = e
        BY <1>1, <1>5, <1>8, <2>1
      <4>3. ~d => ~(r[n].frame < h)
        BY <3>1, <3>3 DEF h
      <4>4. r[n].frame = e /\ ~r[n].marker
        BY <3>1, <3>3, <4>1
      <4> QED BY <4>2, <4>3, <4>4
    <3>4. CASE s[n].frame # e
      <4>1. s[n].frame < e /\ r[n].frame < h
        BY <3>1, <3>4 DEF h
      <4>2. (\A m \in 1..N : m > n => s[m].frame # s[n].frame)
              <=> (\A m \in 1..(N + K) : m > n => r[m].frame # r[n].frame)
        <5>1. \A m \in (N + 1)..(N + K) : r[m].frame # r[n].frame
          BY <1>8, <3>1, <3>4
        <5>2. \A m \in 1..N : r[m].frame = s[m].frame
          BY <1>6
        <5>3. \A m \in 1..(N + K) : m \in 1..N \/ m \in (N + 1)..(N + K)
          BY <1>1
        <5>4. \A m \in 1..N : m \in 1..(N + K)
          BY <1>1
        <5> QED BY <3>1, <5>1, <5>2, <5>3, <5>4
      <4> QED BY <3>1, <3>2, <4>1, <4>2, Zenon
    <3> QED BY <3>3, <3>4
  <2>2. CASE n \in (N + 1)..(N + K)
    <3>1. r[n].frame = e /\ (r[n].marker <=> d /\ n = N + K)
      BY <1>8, <2>2
    <3>2. r[n].frame < h <=> d
      BY <3>1 DEF h
    <3>3. (\A m \in 1..(N + K) : m > n => r[m].frame # r[n].frame) <=> n = N + K
      <4>1. n # N + K => N + K \in (N + 1)..(N + K) /\ N + K \in 1..(N + K) /\ N + K > n
        BY <1>1, <2>2
      <4>2. n # N + K => r[N + K].frame = e
        BY <1>8, <4>1
      <4>3. n = N + K => \A m \in 1..(N + K) : ~(m > n)
        BY <1>1
      <4> QED BY <3>1, <4>1, <4>2, <4>3
    <3> QED BY <1>3, <3>1, <3>2, <3>3
  <2>3. n \in 1..N \/ n \in (N + 1)..(N + K)
    BY <1>1
  <2> QED BY <2>1, <2>2, <2>3
<1>11. Marked(r, h, q)
  BY <1>1, <1>10, Zenon DEF Marked
<1> QED BY <1>9, <1>11 DEF r, h

-----------------------------------------------------------------------------
\* The time of a frame does not depend on later ones.
LEMMA TimeKept ==
  ASSUME NEW e \in Nat, NEW q \in SUBSET (0..(e - 1)), NEW f \in Nat, f <= e
  PROVE  TimeOf(f, q \cup {e}) = TimeOf(f, q)
<1>1. {x \in q \cup {e} : x < f} = {x \in q : x < f}
  OBVIOUS
<1> QED BY <1>1, Zenon DEF TimeOf

\* A frame that ends moves the time by one step, without bytes by none.
LEMMA TimeNext ==
  ASSUME NEW e \in Nat, NEW q \in SUBSET (0..(e - 1))
  PROVE  /\ TimeOf(e + 1, q) = (TimeOf(e, q) + Step) % RtpTimeMod
         /\ TimeOf(e + 1, q \cup {e}) = TimeOf(e, q)
<1>1. IsFiniteSet(q)
  <2>1. IsFiniteSet(0..(e - 1))
    BY FS_Interval
  <2> QED BY <2>1, FS_Subset
<1>2. /\ {x \in q : x < e} = q /\ {x \in q : x < e + 1} = q
      /\ {x \in q \cup {e} : x < e + 1} = q \cup {e} /\ e \notin q
  <2>1. \A x \in q : x < e /\ x < e + 1 /\ x # e
    OBVIOUS
  <2>2. \A x \in q \cup {e} : x < e + 1
    BY <2>1
  <2>3. {x \in q : x < e} = q /\ {x \in q : x < e + 1} = q /\ e \notin q
    BY <2>1, Zenon
  <2>4. {x \in q \cup {e} : x < e + 1} = q \cup {e}
    BY <2>2, Zenon
  <2> QED BY <2>3, <2>4
<1>3. Cardinality(q) \in Nat /\ Cardinality(q \cup {e}) = Cardinality(q) + 1
  BY <1>1, <1>2, FS_CardinalityType, FS_AddElement
<1> DEFINE c == Cardinality(q)
           w == (e - c) * Step
<1>4. RtpTimeMod \in Nat \ {0} /\ Step \in Nat
  BY VencdAssumption DEF VencdAssumption
<1>5. w \in Int /\ ((e + 1) - c) * Step = w + Step /\ (e + 1) - (c + 1) = e - c
  <2> HIDE DEF c
  <2>1. c \in Nat
    BY <1>3 DEF c
  <2>2. \A a, b \in Int : (a + 1) * b = a * b + b /\ a * b \in Int
    OBVIOUS
  <2>3. (e + 1) - c = (e - c) + 1 /\ e - c \in Int /\ (e + 1) - (c + 1) = e - c
    BY <2>1
  <2> QED BY <1>4, <2>2, <2>3
<1>6. TimeOf(e, q) = w % RtpTimeMod
  BY <1>2, Zenon DEF TimeOf
<1>7. TimeOf(e + 1, q) = (w + Step) % RtpTimeMod
  <2>1. TimeOf(e + 1, q) = (((e + 1) - c) * Step) % RtpTimeMod
    BY <1>2, Zenon DEF TimeOf
  <2> QED BY <1>5, <2>1, Zenon
<1>8. TimeOf(e + 1, q \cup {e}) = w % RtpTimeMod
  <2>1. TimeOf(e + 1, q \cup {e}) = (((e + 1) - (c + 1)) * Step) % RtpTimeMod
    BY <1>2, <1>3, Zenon DEF TimeOf
  <2> QED BY <1>5, <2>1, Zenon
<1>9. ((w % RtpTimeMod) + Step) % RtpTimeMod = (w + Step) % RtpTimeMod
  <2> HIDE DEF w
  <2>1. w \in Int /\ Step \in Int /\ RtpTimeMod \in Nat \ {0}
    BY <1>4, <1>5
  <2> QED BY <2>1, ModAdd, Zenon
<1> HIDE DEF w
<1> QED BY <1>6, <1>7, <1>8, <1>9

-----------------------------------------------------------------------------
\* The packets so far, for a run whose parts ended the frames q without bytes.
FramesAre(s, q, e) ==
  /\ q \in SUBSET (0..(e - 1))
  /\ FramesUpTo(s, e) /\ Marked(s, e, q) /\ Timed(s, q)

\* Frames, markers and timestamps; the next packet has the time of the frame in hand.
FrameInv ==
  /\ FramesAre(sent, SilentOf(given), encoded)
  /\ sink \in {"rtp", "file"}
  /\ sink = "file" => sent = <<>>
  /\ sink = "rtp" => rtp.timestamp = TimeOf(encoded, SilentOf(given))

\* A frame ends without bytes.
LEMMA SilentFrame ==
  ASSUME NEW s \in Seq(Packet), NEW e \in Nat, NEW q, FramesAre(s, q, e)
  PROVE  FramesAre(s, q \cup {e}, e + 1)
<1>1. q \in SUBSET (0..(e - 1)) /\ FramesUpTo(s, e) /\ Marked(s, e, q) /\ Timed(s, q)
  BY DEF FramesAre
<1>2. \A n \in DOMAIN s : s[n].frame \in Nat /\ s[n].frame <= e
  <2>1. \A x \in Packet : x.frame \in Nat
    BY DEF Packet
  <2> HIDE DEF Packet
  <2> QED BY <1>1, <2>1 DEF FramesUpTo
<1>3. q \cup {e} \in SUBSET (0..((e + 1) - 1))
  BY <1>1
<1>4. FramesUpTo(s, e + 1)
  BY <1>2 DEF FramesUpTo
<1>5. Marked(s, e + 1, q \cup {e})
  BY <1>1, MarkedSilent
<1>6. Timed(s, q \cup {e})
  <2>1. \A n \in DOMAIN s : TimeOf(s[n].frame, q \cup {e}) = TimeOf(s[n].frame, q)
    <3> TAKE n \in DOMAIN s
    <3> DEFINE f == s[n].frame
    <3>1. f \in Nat /\ f <= e
      BY <1>2
    <3> HIDE DEF f
    <3>2. TimeOf(f, q \cup {e}) = TimeOf(f, q)
      BY <1>1, <3>1, TimeKept
    <3> QED BY <3>2 DEF f
  <2> QED BY <1>1, <2>1, Zenon DEF Timed
<1> QED BY <1>3, <1>4, <1>5, <1>6 DEF FramesAre

\* Packets of the frame in hand.
LEMMA FrameSent ==
  ASSUME NEW s \in Seq(Packet), NEW t \in Seq(Packet), NEW e \in Nat, NEW d \in BOOLEAN,
         NEW q, FramesAre(s, q, e), d => Len(t) > 0,
         \A n \in 1..Len(t) : /\ t[n].frame = e /\ t[n].timestamp = TimeOf(e, q)
                              /\ t[n].marker <=> d /\ n = Len(t)
  PROVE  FramesAre(s \o t, q, IF d THEN e + 1 ELSE e)
<1> DEFINE r == s \o t
           h == IF d THEN e + 1 ELSE e
<1>1. q \in SUBSET (0..(e - 1)) /\ FramesUpTo(s, e) /\ Marked(s, e, q) /\ Timed(s, q)
  BY DEF FramesAre
<1>2. \A n \in 1..Len(t) : t[n].frame = e /\ (t[n].marker <=> d /\ n = Len(t))
  OBVIOUS
<1>3. FramesUpTo(r, e) /\ Marked(r, h, q)
  BY <1>1, <1>2, MarkedMore
<1>4. /\ r \in Seq(Packet) /\ Len(r) = Len(s) + Len(t)
      /\ \A i \in 1..(Len(s) + Len(t)) : r[i] = IF i <= Len(s) THEN s[i] ELSE t[i - Len(s)]
  BY ConcatProperties
<1>5. \A n \in 1..Len(t) : t[n].frame = e /\ t[n].timestamp = TimeOf(e, q)
  OBVIOUS
<1> HIDE DEF r, Packet
<1>6. Timed(r, q)
  <2>1. ASSUME NEW n \in DOMAIN r
        PROVE  r[n].timestamp = TimeOf(r[n].frame, q)
    <3>1. n \in 1..(Len(s) + Len(t)) /\ Len(s) \in Nat /\ Len(t) \in Nat
      BY <1>4
    <3>2. CASE n <= Len(s)
      <4>1. r[n] = s[n] /\ n \in DOMAIN s
        BY <1>4, <3>1, <3>2
      <4> QED BY <1>1, <4>1, Zenon DEF Timed
    <3>3. CASE ~(n <= Len(s))
      <4>1. r[n] = t[n - Len(s)] /\ n - Len(s) \in 1..Len(t)
        BY <1>4, <3>1, <3>3
      <4> QED BY <1>5, <4>1, Zenon
    <3> QED BY <3>2, <3>3
  <2> QED BY <2>1 DEF Timed
<1>7. q \in SUBSET (0..(h - 1)) /\ FramesUpTo(r, h)
  <2>1. q \in SUBSET (0..(h - 1))
    BY <1>1
  <2>2. \A n \in DOMAIN r : r[n].frame \in Nat /\ r[n].frame <= e
    <3>1. \A x \in Packet : x.frame \in Nat
      BY DEF Packet
    <3> QED BY <1>3, <1>4, <3>1 DEF FramesUpTo
  <2> HIDE DEF h
  <2>3. h \in Nat /\ e <= h
    BY DEF h
  <2>4. FramesUpTo(r, h)
    BY <2>2, <2>3 DEF FramesUpTo
  <2> QED BY <2>1, <2>4
<1> QED BY <1>3, <1>6, <1>7, Zenon DEF FramesAre, r, h

\* Every step keeps markers and timestamps, a failing one included.
LEMMA StepFrames == FrameInv /\ SentInv /\ LoopInv /\ [Next]_vars => FrameInv'
<1> SUFFICES ASSUME FrameInv, SentInv, LoopInv, [Next]_vars
             PROVE  FrameInv'
  OBVIOUS
<1> DEFINE Q == SilentOf(given)
<1>0. FrameInv' <=> /\ FramesAre(sent', SilentOf(given'), encoded')
                    /\ sink' \in {"rtp", "file"}
                    /\ sink' = "file" => sent' = <<>>
                    /\ sink' = "rtp" => rtp'.timestamp = TimeOf(encoded', SilentOf(given'))
  BY DEF FrameInv, FramesAre, FramesUpTo, Marked, Timed, TimeOf, SilentOf
<1>1. /\ given \in Seq(Pieces) /\ encoded \in Nat /\ sent \in Seq(Packet)
      /\ rtp \in [seq : Nat, timestamp : Nat]
      /\ FramesAre(sent, Q, encoded) /\ Q \in SUBSET (0..(encoded - 1))
  BY DEF LoopInv, LoopType, SentInv, FrameInv, FramesAre
<1>2. CASE Quiet
  <2>1. UNCHANGED <<sink, rtp, sent, given, encoded>>
    BY <1>2 DEF Quiet
  <2> QED BY <1>0, <2>1 DEF FrameInv
<1>3. CASE \E p \in Pieces : p.frame = encoded /\ (Wrote(p) \/ Broke(p))
  <2>1. PICK p \in Pieces : p.frame = encoded /\ (Wrote(p) \/ Broke(p))
    BY <1>3
  <2>2. sink' = sink /\ given' = Append(given, p) /\ p.end \in BOOLEAN
    BY <2>1, PieceIs DEF Wrote, Broke, Written, WriteFails
  <2>3. SilentOf(given') = Q \cup IF p.end /\ p.units = <<>> THEN {encoded} ELSE {}
    BY <1>1, <2>1, <2>2, SilentMore
  <2> HIDE DEF Q
  <2>4. CASE p.units = <<>>
    <3>1. UNCHANGED <<rtp, sent>> /\ encoded' = IF p.end THEN encoded + 1 ELSE encoded
      BY <2>1, <2>4 DEF Wrote, Broke, Written, WriteFails
    <3>2. CASE p.end
      <4>1. SilentOf(given') = Q \cup {encoded} /\ encoded' = encoded + 1
        BY <2>3, <2>4, <3>1, <3>2
      <4>2. FramesAre(sent, Q \cup {encoded}, encoded + 1)
        BY <1>1, SilentFrame
      <4>3. TimeOf(encoded + 1, Q \cup {encoded}) = TimeOf(encoded, Q)
        BY <1>1, TimeNext
      <4> QED BY <1>0, <2>2, <3>1, <4>1, <4>2, <4>3 DEF FrameInv, Q
    <3>3. CASE ~p.end
      <4>1. SilentOf(given') = Q /\ encoded' = encoded
        BY <2>3, <3>1, <3>3
      <4> QED BY <1>0, <2>2, <3>1, <4>1 DEF FrameInv, Q
    <3> QED BY <3>2, <3>3
  <2>5. CASE p.units # <<>> /\ sink = "rtp"
    <3>1. Few(p.units)
      BY <2>5, PieceIs
    <3>2. Len(Packets(AnnexB(p), p.end)) = Len(Flow(p.units)) /\ Len(Flow(p.units)) \in Nat \ {0}
      BY <3>1, PacketsCount
    <3>3. SilentOf(given') = Q
      BY <2>3, <2>5
    <3>4. \E k \in 0..Len(Flow(p.units)) : \E d \in BOOLEAN :
            /\ Sends(p, k) /\ encoded' = IF d THEN encoded + 1 ELSE encoded
            /\ d <=> p.end /\ k = Len(Flow(p.units))
      <4>1. CASE Wrote(p)
        <5>1. Sends(p, Len(Flow(p.units))) /\ encoded' = IF p.end THEN encoded + 1 ELSE encoded
          BY <2>5, <3>2, <4>1 DEF Wrote, Written
        <5>2. Len(Flow(p.units)) \in 0..Len(Flow(p.units))
          BY <3>2
        <5> QED BY <2>2, <5>1, <5>2
      <4>2. CASE Broke(p)
        <5>1. PICK k \in 0..(Len(Flow(p.units)) - 1) : Sends(p, k)
          BY <2>5, <3>2, <4>2 DEF Broke, WriteFails
        <5>2. k \in 0..Len(Flow(p.units)) /\ k # Len(Flow(p.units))
          BY <3>2
        <5>3. encoded' = encoded
          BY <4>2 DEF Broke
        <5> QED BY <5>1, <5>2, <5>3
      <4> QED BY <2>1, <4>1, <4>2
    <3>5. PICK k \in 0..Len(Flow(p.units)), d \in BOOLEAN :
            /\ Sends(p, k) /\ encoded' = IF d THEN encoded + 1 ELSE encoded
            /\ d <=> p.end /\ k = Len(Flow(p.units))
      BY <3>4
    <3> DEFINE t == Burst(p, k)
               T == TimeAfter(p, k = Len(Flow(p.units)))
    <3>6. sent' = sent \o t /\ rtp'.timestamp = T
      <4>1. sent' = sent \o t /\ rtp' = [seq |-> SeqAfter(k), timestamp |-> T]
        BY <3>1, <3>5, SendsIs
      <4> HIDE DEF t, T
      <4> QED BY <4>1
    <3>7. /\ t \in Seq(Packet) /\ Len(t) = k
          /\ \A n \in 1..k :
               /\ t[n].marker = (p.end /\ n = Len(Flow(p.units)))
               /\ t[n].timestamp = rtp.timestamp
               /\ t[n].frame = encoded
      BY <1>1, <2>1, <3>1, BurstIs
    <3>8. rtp.timestamp = TimeOf(encoded, Q)
      BY <2>5 DEF FrameInv, Q
    <3>9. T = IF d THEN (rtp.timestamp + Step) % RtpTimeMod ELSE rtp.timestamp
      BY <3>5 DEF TimeAfter
    <3> HIDE DEF t, T, Packet
    <3>10. d => Len(t) > 0
      BY <3>2, <3>5, <3>7
    <3>11. \A n \in 1..Len(t) : /\ t[n].frame = encoded /\ t[n].timestamp = TimeOf(encoded, Q)
                                /\ t[n].marker <=> d /\ n = Len(t)
      <4> TAKE n \in 1..Len(t)
      <4>1. n \in 1..k /\ k \in Nat /\ k <= Len(Flow(p.units))
        BY <3>2, <3>7
      <4>2. /\ t[n].marker <=> (p.end /\ n = Len(Flow(p.units)))
            /\ t[n].timestamp = rtp.timestamp /\ t[n].frame = encoded
        BY <3>7, <4>1
      <4>3. (p.end /\ n = Len(Flow(p.units))) <=> (d /\ n = k)
        BY <3>2, <3>5, <4>1
      <4> QED BY <3>7, <3>8, <4>2, <4>3
    <3>12. FramesAre(sent \o t, Q, IF d THEN encoded + 1 ELSE encoded)
      BY <1>1, <3>7, <3>10, <3>11, FrameSent
    <3>13. rtp'.timestamp = TimeOf(encoded', Q)
      <4>1. TimeOf(encoded + 1, Q) = (TimeOf(encoded, Q) + Step) % RtpTimeMod
        BY <1>1, TimeNext
      <4> QED BY <3>5, <3>6, <3>8, <3>9, <4>1
    <3> QED BY <1>0, <2>2, <2>5, <3>3, <3>5, <3>6, <3>12, <3>13
  <2>6. CASE p.units # <<>> /\ sink = "file"
    <3>1. sent = <<>> /\ sent' = sent /\ sink' = "file"
      BY <2>1, <2>2, <2>6 DEF FrameInv, Wrote, Broke, Written, WriteFails
    <3>2. encoded' = encoded + 1 \/ encoded' = encoded
      BY <2>1 DEF Wrote, Broke
    <3>3. SilentOf(given') = Q
      BY <2>3, <2>6
    <3>4. Q \in SUBSET (0..(encoded' - 1))
      BY <1>1, <3>2
    <3>5. FramesAre(sent', Q, encoded')
      BY <3>1, <3>4 DEF FramesAre, FramesUpTo, Marked, Timed
    <3> QED BY <1>0, <3>1, <3>3, <3>5
  <2>7. sink \in {"rtp", "file"}
    BY DEF FrameInv
  <2> QED BY <2>4, <2>5, <2>6, <2>7
<1> QED BY <1>2, <1>3, StepKinds

-----------------------------------------------------------------------------
OutputInv == LoopInv /\ SentInv /\ FrameInv

\* At the start no packet was sent and the timestamp is that of frame 0.
LEMMA InitOutput == Init => OutputInv
<1> SUFFICES ASSUME Init PROVE OutputInv
  OBVIOUS
<1>1. /\ sink \in {"rtp", "file"} /\ rtp.timestamp = 0 /\ encoded = 0
      /\ sent = <<>> /\ given = <<>>
  BY DEF Init
<1>2. SilentOf(given) = {}
  BY <1>1 DEF SilentOf
<1>3. FramesAre(sent, {}, 0)
  BY <1>1 DEF FramesAre, FramesUpTo, Marked, Timed
<1>4. TimeOf(0, {}) = 0
  <2>1. {x \in {} : x < 0} = {}
    OBVIOUS
  <2>2. TimeOf(0, {}) = ((0 - 0) * Step) % RtpTimeMod
    BY <2>1, FS_EmptySet, Zenon DEF TimeOf
  <2>3. 0 % RtpTimeMod = 0
    <3>1. RtpTimeMod \in Nat \ {0} /\ 0 \in Int /\ 0 = RtpTimeMod * 0 + 0 /\ 0 \in 0..(RtpTimeMod - 1)
      BY VencdAssumption DEF VencdAssumption
    <3> QED BY <3>1, RemainderIs
  <2>4. (0 - 0) * Step = 0
    BY VencdAssumption DEF VencdAssumption
  <2> QED BY <2>2, <2>3, <2>4
<1>5. FrameInv
  BY <1>1, <1>2, <1>3, <1>4 DEF FrameInv
<1> QED BY <1>5, InitArrival DEF OutputInv, ArrivalInv

\* Frames, markers and timestamps are kept together with the numbering.
LEMMA StepOutput == OutputInv /\ [Next]_vars => OutputInv'
  BY StepLoop, StepSent, StepFrames DEF OutputInv

\* For every cut of a frame into partitions and units the marker is on its last
\* packet and on no other, and a frame whose last partition has no bytes, or
\* whose output fails, has none.
THEOREM MarkersEndFrames == Spec => []MarkerEndsFrame
<1>1. OutputInv => MarkerEndsFrame
  <2>1. Silent = SilentOf(given)
    BY Zenon DEF Silent, SilentOf
  <2> QED BY <2>1, Zenon DEF OutputInv, FrameInv, FramesAre, Marked, MarkerEndsFrame
<1> QED BY <1>1, InitOutput, StepOutput, PTL DEF Spec

\* All packets of a frame carry one timestamp, a step (modulo 2^32) behind that
\* of the frame before; a frame that ends without bytes costs the stream a step.
THEOREM FramesAreTimed == Spec => []TimestampPerFrame
<1>1. OutputInv => TimestampPerFrame
  <2>1. Silent = SilentOf(given)
    BY Zenon DEF Silent, SilentOf
  <2> QED BY <2>1, Zenon DEF OutputInv, FrameInv, FramesAre, Timed, TimeOf, TimestampPerFrame
<1> QED BY <1>1, InitOutput, StepOutput, PTL DEF Spec

-----------------------------------------------------------------------------
\* The counters of the loop stay within the limits of the command line.
CountInv ==
  /\ captured \in 0..Skip /\ encoded \in 0..Frames /\ part \in 0..MaxParts
  /\ stopAt \in -1..Frames
  /\ result \in {0, 1}
  /\ pc \in {"grab", "parts"} => encoded < Frames

\* The file has bytes, and without RTP the timestamp is not used.
FileInv ==
  /\ file \in Seq(Bytes)
  /\ sink = "file" => rtp.timestamp = 0

\* No counter leaves its range on any path through the loop.
LEMMA StepCount == CountInv /\ [Next]_vars => CountInv'
<1> SUFFICES ASSUME CountInv, [Next]_vars
             PROVE  CountInv'
  OBVIOUS
<1> USE DEF CountInv
<1>0. Frames \in Nat /\ Skip \in Nat /\ MaxParts \in Nat
  BY VencdAssumption DEF VencdAssumption
<1>1. CASE Header
  <2>1. /\ pc' = "head" \/ pc' = "ended"
        /\ result' = result \/ result' = 1
        /\ UNCHANGED <<captured, encoded, part, stopAt>>
    BY <1>1 DEF Header, Close
  <2> QED BY <2>1
<1>2. CASE NextFrame
  BY <1>2 DEF NextFrame, Continues
<1>3. CASE Finish \/ GrabFails \/ PartFails
  <2>1. /\ pc' = "ended" /\ result' \in {0, 1}
        /\ UNCHANGED <<captured, encoded, part, stopAt>>
    BY <1>3 DEF Finish, GrabFails, PartFails, Close
  <2> QED BY <2>1
<1>4. CASE GrabSkipped
  <2>1. /\ pc' = "head" /\ captured < Skip /\ captured' = captured + 1
        /\ UNCHANGED <<encoded, part, stopAt, result>>
    BY <1>4 DEF GrabSkipped
  <2> QED BY <1>0, <2>1
<1>5. CASE Grab
  BY <1>5 DEF Grab
<1>6. CASE ReadPart
  <2>1. PICK p \in Parts(IF part + 1 < MaxParts THEN BOOLEAN ELSE {TRUE}) :
          IF FrameDone(p)
          THEN encoded' = encoded + 1 /\ pc' = "head" /\ part' = 0
          ELSE part' = part + 1 /\ UNCHANGED <<pc, encoded>>
    BY <1>6 DEF ReadPart
  <2>2. pc = "parts" /\ UNCHANGED <<captured, stopAt, result>>
    BY <1>6 DEF ReadPart
  <2>3. p.end \in IF part + 1 < MaxParts THEN BOOLEAN ELSE {TRUE}
    <3> DEFINE ends == IF part + 1 < MaxParts THEN BOOLEAN ELSE {TRUE}
    <3>1. p \in Parts(ends)
      OBVIOUS
    <3> HIDE DEF ends
    <3>2. p.end \in ends
      BY <3>1 DEF Parts
    <3> QED BY <3>2 DEF ends
  <2>4. CASE p.end
    BY <1>0, <2>1, <2>2, <2>4 DEF FrameDone
  <2>5. CASE ~p.end
    <3>1. part + 1 < MaxParts
      BY <2>3, <2>5
    <3> QED BY <1>0, <2>1, <2>2, <2>5, <3>1 DEF FrameDone
  <2> QED BY <2>4, <2>5
<1>7. CASE Fill \/ UNCHANGED vars
  <2>1. UNCHANGED <<pc, captured, encoded, part, stopAt, result>>
    BY <1>7 DEF Fill, vars
  <2> QED BY <2>1
<1>8. CASE Signal
  BY <1>8, <1>0 DEF Signal
<1> QED BY <1>1, <1>2, <1>3, <1>4, <1>5, <1>6, <1>7, <1>8 DEF Next

\* What is written to the file are bytes, also when a part is cut short.
LEMMA StepFile == FileInv /\ LoopInv /\ [Next]_vars => FileInv'
<1> SUFFICES ASSUME FileInv, LoopInv, [Next]_vars
             PROVE  FileInv'
  OBVIOUS
<1> USE DEF FileInv
<1>1. CASE Quiet
  BY <1>1 DEF Quiet
<1>2. CASE \E p \in Pieces : p.frame = encoded /\ (Wrote(p) \/ Broke(p))
  <2>1. PICK p \in Pieces : Wrote(p) \/ Broke(p)
    BY <1>2
  <2>2. sink' = sink
    BY <2>1 DEF Wrote, Broke
  <2>3. CASE UNCHANGED <<rtp, file>>
    BY <2>2, <2>3
  <2>4. CASE sink = "rtp" /\ file' = file
    BY <2>2, <2>4
  <2>5. CASE ~UNCHANGED <<rtp, file>> /\ ~(sink = "rtp" /\ file' = file)
    <3>1. /\ p.units # <<>> /\ rtp' = rtp
          /\ \/ file' = file \o AnnexB(p)
             \/ \E k \in 0..(Len(AnnexB(p)) - 1) : file' = file \o SubSeq(AnnexB(p), 1, k)
      BY <2>1, <2>5 DEF Wrote, Broke, Written, WriteFails
    <3>2. Few(p.units)
      BY <3>1, PieceIs
    <3>3. AnnexB(p) \in Seq(Bytes)
      BY <3>2, ParsedEmpty, AnnexBParsed
    <3> DEFINE b == AnnexB(p)
    <3>4. \A k \in 0..(Len(b) - 1) : SubSeq(b, 1, k) \in Seq(Bytes)
      <4> HIDE DEF b
      <4> TAKE k \in 0..(Len(b) - 1)
      <4>1. b \in Seq(Bytes)
        BY <3>3 DEF b
      <4>2. \A i \in 1..k : b[i] \in Bytes
        BY <4>1
      <4>3. k \in Int
        BY <4>1
      <4> QED BY <4>2, <4>3, SubSeqProperties
    <3>5. PICK w \in Seq(Bytes) : file' = file \o w
      BY <3>1, <3>3, <3>4
    <3>6. file' \in Seq(Bytes)
      BY <3>5, ConcatProperties
    <3> QED BY <2>2, <3>1, <3>6
  <2> QED BY <2>3, <2>4, <2>5
<1> QED BY <1>1, <1>2, StepKinds

\* A time is within the range of a timestamp.
LEMMA TimeType ==
  ASSUME NEW e \in Nat, NEW q \in SUBSET (0..(e - 1)), NEW f \in Nat
  PROVE  TimeOf(f, q) \in 0..(RtpTimeMod - 1)
<1> DEFINE r == {x \in q : x < f}
           c == Cardinality(r)
<1>1. c \in Nat
  <2>1. IsFiniteSet(0..(e - 1))
    BY FS_Interval
  <2>3. r \in SUBSET (0..(e - 1))
    OBVIOUS
  <2> HIDE DEF r
  <2>2. IsFiniteSet(r)
    BY <2>1, <2>3, FS_Subset
  <2> QED BY <2>2, FS_CardinalityType
<1> HIDE DEF c
<1>2. RtpTimeMod \in Nat \ {0} /\ Step \in Nat
  BY VencdAssumption DEF VencdAssumption
<1>3. (f - c) * Step \in Int
  BY <1>1, <1>2
<1>4. ((f - c) * Step) % RtpTimeMod \in 0..(RtpTimeMod - 1)
  BY <1>2, <1>3, DivMod
<1> QED BY <1>4, Zenon DEF TimeOf, c

-----------------------------------------------------------------------------
TypeInv == BufferInv /\ OutputInv /\ CountInv /\ FileInv

\* The initial state is in the types.
LEMMA InitType == Init => TypeInv
<1> SUFFICES ASSUME Init PROVE TypeInv
  OBVIOUS
<1>1. BufferInv /\ OutputInv
  BY InitBuffers, InitOutput
<1>2. CountInv
  BY VencdAssumption DEF Init, CountInv, VencdAssumption
<1>3. FileInv
  BY DEF Init, FileInv
<1> QED BY <1>1, <1>2, <1>3 DEF TypeInv

\* Every step stays in the types.
LEMMA StepType == TypeInv /\ [Next]_vars => TypeInv'
  BY StepBuffers, StepOutput, StepCount, StepFile DEF TypeInv, OutputInv

\* The invariants together give the types: sequence numbers and timestamps
\* come from the numbering and from the frames.
LEMMA TypeShows == TypeInv => TypeOK
<1> SUFFICES ASSUME TypeInv PROVE TypeOK
  OBVIOUS
<1>1. BufferInv /\ LoopInv /\ SentInv /\ FrameInv /\ CountInv /\ FileInv
  BY DEF TypeInv, OutputInv
<1>2. /\ RtpSeqMod \in Nat \ {0} /\ RtpTimeMod \in Nat \ {0} /\ Frames \in Nat
  BY VencdAssumption DEF VencdAssumption
<1>3. /\ encoded \in 0..Frames /\ encoded \in Nat
      /\ SilentOf(given) \in SUBSET (0..(encoded - 1))
      /\ FramesUpTo(sent, encoded) /\ Timed(sent, SilentOf(given))
      /\ sink \in {"rtp", "file"}
  BY <1>1, <1>2 DEF CountInv, FrameInv, FramesAre
<1> DEFINE Typed == [payload : Seq(Bytes), marker : BOOLEAN, seq : 0..(RtpSeqMod - 1),
                     timestamp : 0..(RtpTimeMod - 1), frame : 0..Frames]
           Parted == [units : Seq(Coded), end : BOOLEAN, frame : 0..Frames]
<1>4. sent \in Seq(Typed)
  <2>1. ASSUME NEW n \in 1..Len(sent)
        PROVE  sent[n] \in Typed
    <3>1. sent[n] \in Packet /\ n \in DOMAIN sent /\ n \in Nat
      <4>1. sent \in Seq(Packet)
        BY <1>1 DEF SentInv
      <4> HIDE DEF Packet
      <4> QED BY <4>1
    <3>2. sent[n].seq \in 0..(RtpSeqMod - 1)
      <4>1. sent[n].seq = (n - 1) % RtpSeqMod
        BY <1>1, <3>1 DEF SentInv, NumberedIn
      <4>2. n - 1 \in Int
        BY <3>1
      <4>3. (n - 1) % RtpSeqMod \in 0..(RtpSeqMod - 1)
        BY <1>2, <4>2, DivMod
      <4> QED BY <4>1, <4>3
    <3>3. sent[n].frame \in 0..Frames
      <4>1. sent[n].frame <= encoded /\ sent[n].frame \in Nat
        BY <1>3, <3>1 DEF FramesUpTo, Packet
      <4> QED BY <1>2, <1>3, <4>1
    <3>4. sent[n].timestamp \in 0..(RtpTimeMod - 1)
      <4> DEFINE f == sent[n].frame
      <4>1. f \in Nat
        BY <3>3
      <4>2. sent[n].timestamp = TimeOf(f, SilentOf(given))
        BY <1>3, <3>1 DEF Timed
      <4> HIDE DEF f
      <4> QED BY <1>3, <4>1, <4>2, TimeType
    <3>5. \A x \in Packet :
            /\ x.seq \in 0..(RtpSeqMod - 1) /\ x.frame \in 0..Frames
            /\ x.timestamp \in 0..(RtpTimeMod - 1)
            => x \in Typed
      BY DEF Packet
    <3> QED BY <3>1, <3>2, <3>3, <3>4, <3>5, Zenon
  <2>2. Len(sent) \in Nat /\ sent = [n \in 1..Len(sent) |-> sent[n]]
    <3>1. sent \in Seq(Packet)
      BY <1>1 DEF SentInv
    <3> HIDE DEF Packet
    <3> QED BY <3>1
  <2> HIDE DEF Typed
  <2> QED BY <2>1, <2>2
<1>5. given \in Seq(Parted)
  <2>1. given \in Seq(Pieces) /\ \A i \in DOMAIN given : given[i].frame <= encoded
    BY <1>1 DEF LoopInv, LoopType, Counted
  <2>2. ASSUME NEW i \in 1..Len(given)
        PROVE  given[i] \in Parted
    <3>1. given[i] \in Pieces /\ i \in DOMAIN given
      <4> HIDE DEF Pieces
      <4> QED BY <2>1
    <3>2. given[i].frame \in 0..Frames
      <4>1. given[i].frame \in Nat /\ given[i].frame <= encoded
        BY <2>1, <3>1, PieceIs
      <4> QED BY <1>2, <1>3, <4>1
    <3>3. given[i].units \in Seq(Coded)
      BY <3>1, PieceIs
    <3>4. \A x \in Pieces : x.frame \in 0..Frames /\ x.units \in Seq(Coded) => x \in Parted
      BY DEF Pieces
    <3> QED BY <3>1, <3>2, <3>3, <3>4, Zenon
  <2>3. Len(given) \in Nat /\ given = [i \in 1..Len(given) |-> given[i]]
    <3> HIDE DEF Pieces
    <3> QED BY <2>1
  <2> HIDE DEF Parted
  <2> QED BY <2>2, <2>3
<1>6. rtp \in [seq : 0..(RtpSeqMod - 1), timestamp : 0..(RtpTimeMod - 1)]
  <2>1. rtp \in [seq : Nat, timestamp : Nat] /\ rtp.seq = Len(sent) % RtpSeqMod
        /\ Len(sent) \in Int
    <3>1. sent \in Seq(Packet)
      BY <1>1 DEF SentInv
    <3>2. Len(sent) \in Int
      <4> HIDE DEF Packet
      <4> QED BY <3>1
    <3> QED BY <1>1, <3>2 DEF SentInv
  <2>2. rtp.seq \in 0..(RtpSeqMod - 1)
    <3>1. Len(sent) % RtpSeqMod \in 0..(RtpSeqMod - 1)
      BY <1>2, <2>1, DivMod
    <3> QED BY <2>1, <3>1
  <2>3. rtp.timestamp \in 0..(RtpTimeMod - 1)
    <3>1. CASE sink = "rtp"
      <4>1. rtp.timestamp = TimeOf(encoded, SilentOf(given))
        BY <1>1, <3>1 DEF FrameInv
      <4> QED BY <1>3, <4>1, TimeType
    <3>2. CASE sink = "file"
      BY <1>1, <1>2, <3>2 DEF FileInv
    <3> QED BY <1>3, <3>1, <3>2
  <2> QED BY <2>1, <2>2, <2>3
<1> QED BY <1>1, <1>3, <1>4, <1>5, <1>6
        DEF TypeOK, BufferInv, CameraType, CountInv, FileInv

\* Every counter, number and sequence of run_encoder stays in its type: sequence
\* numbers in 16 bits, timestamps in 32, frames and buffers within the options.
THEOREM TypeCorrect == Spec => []TypeOK
<1> QED BY InitType, StepType, TypeShows, PTL DEF Spec

-----------------------------------------------------------------------------
\* The specification, with what its fairness is about spelled out: whenever the thread
\* or the camera can go on its next step can be taken, and the encoder comes to the end
\* of a frame it was given.
VencdRunsOn ==
  /\ Spec
  /\ [](LoopGoesOn /\ CameraGoesOn)
  /\ (pc = "parts" ~> ~(pc = "parts"))

\* Where a signal finds the loop, and what StopEnds waits for.
Signalled(q) == stopAt # -1 /\ pc = q
NoFrameYet == Signalled("grab") /\ filled = <<>> /\ lost # Buffers
FrameThere == Signalled("grab") /\ filled # <<>>
StopOver == pc = "ended" \/ lost = Buffers

\* A step of the camera or a second signal leaves the loop where it is.
LEMMA BesideTheLoop ==
  ASSUME NEW q, Signalled(q), Fill \/ Signal \/ UNCHANGED vars
  PROVE  Signalled(q)' /\ lost' = lost
BY DEF Signalled, Fill, Signal, vars, camera

\* From the header the loop is entered, or the program ends ...
LEMMA StopAtHeader ==
  /\ Signalled("header") /\ [Next]_vars => Signalled("header")' \/ Signalled("head")' \/ StopOver'
  /\ Signalled("header") /\ <<Progress>>_vars => Signalled("head")' \/ StopOver'
<1>1. Signalled("header") /\ (Next \/ Progress) =>
        Header \/ Fill \/ Signal
  BY DEF Signalled, Next, Progress, NextFrame, Finish, GrabSkipped, Grab, GrabFails,
         ReadPart, PartFails
<1>2. Signalled("header") /\ Header => Signalled("head")' \/ StopOver'
  BY DEF Signalled, StopOver, Header, Close
<1>3. Signalled("header") /\ Progress => Header
  BY DEF Signalled, Progress, NextFrame, Finish, GrabSkipped, Grab, ReadPart
<1> QED BY <1>1, <1>2, <1>3, BesideTheLoop

\* ... at its head the loop is left ...
LEMMA StopAtHead ==
  /\ Signalled("head") /\ [Next]_vars => Signalled("head")' \/ StopOver'
  /\ Signalled("head") /\ <<Progress>>_vars => StopOver'
<1>1. Signalled("head") /\ (Next \/ Progress) => Finish \/ Fill \/ Signal
  BY DEF Signalled, Next, Progress, Header, NextFrame, Continues, GrabSkipped, Grab, GrabFails,
         ReadPart, PartFails
<1>2. Signalled("head") /\ Finish => StopOver'
  BY DEF Signalled, StopOver, Finish, Close
<1>3. Signalled("head") /\ Progress => Finish
  BY DEF Signalled, Progress, Header, NextFrame, Continues, GrabSkipped, Grab, ReadPart
<1> QED BY <1>1, <1>2, <1>3, BesideTheLoop

\* ... VIDIOC_DQBUF waits for a frame, of which the camera fills one as long as it has
\* a buffer ...
LEMMA StopInGrab ==
  /\ NoFrameYet /\ [Next]_vars => NoFrameYet' \/ FrameThere' \/ StopOver'
  /\ NoFrameYet /\ <<Fill>>_vars => FrameThere' \/ StopOver'
  /\ BufferInv /\ NoFrameYet => queued # {}
<1>1. NoFrameYet /\ Next => GrabFails \/ Fill \/ Signal
  BY DEF NoFrameYet, Signalled, Next, Header, NextFrame, Finish, GrabSkipped, Grab,
         ReadPart, PartFails
<1>2. GrabFails => StopOver'
  BY DEF StopOver, GrabFails, Close
<1>3. NoFrameYet /\ Fill => FrameThere'
  <2> SUFFICES ASSUME NoFrameYet, Fill PROVE FrameThere'
    OBVIOUS
  <2>1. PICK b \in queued : filled' = Append(<<>>, b)
    BY DEF Fill, NoFrameYet
  <2>2. Append(<<>>, b) # <<>>
    OBVIOUS
  <2>3. Signalled("grab")'
    BY BesideTheLoop DEF NoFrameYet
  <2> QED BY <2>1, <2>2, <2>3 DEF FrameThere
<1>4. NoFrameYet /\ (Signal \/ UNCHANGED vars) => NoFrameYet'
  <2> SUFFICES ASSUME NoFrameYet, Signal \/ UNCHANGED vars PROVE NoFrameYet'
    OBVIOUS
  <2>1. Signalled("grab")' /\ lost' = lost
    BY BesideTheLoop DEF NoFrameYet
  <2>2. filled' = filled
    BY DEF Signal, vars, camera
  <2> QED BY <2>1, <2>2 DEF NoFrameYet
<1>5. BufferInv /\ NoFrameYet => queued # {}
  <2> SUFFICES ASSUME BufferInv, NoFrameYet, queued = {} PROVE FALSE
    OBVIOUS
  <2>1. pc = "grab" /\ filled = <<>> /\ lost # Buffers
    BY DEF NoFrameYet, Signalled
  <2>2. InOnePlace /\ held = NoBuffer
    BY <2>1 DEF BufferInv
  <2>3. Range(filled) = {}
    BY <2>1 DEF Range
  <2> QED BY <2>1, <2>2, <2>3 DEF InOnePlace
<1> QED BY <1>1, <1>2, <1>3, <1>4, <1>5

\* ... which is then given back or encoded ...
LEMMA StopWithFrame ==
  /\ BufferInv /\ FrameThere /\ [Next]_vars =>
       FrameThere' \/ Signalled("head")' \/ Signalled("parts")' \/ StopOver'
  /\ FrameThere /\ <<Progress>>_vars => Signalled("head")' \/ Signalled("parts")' \/ StopOver'
<1>1. FrameThere /\ Next => GrabSkipped \/ Grab \/ GrabFails \/ Fill \/ Signal
  BY DEF FrameThere, Signalled, Next, Header, NextFrame, Finish, ReadPart, PartFails
<1>2. FrameThere /\ (GrabSkipped \/ Grab \/ GrabFails) =>
        Signalled("head")' \/ Signalled("parts")' \/ StopOver'
  BY DEF FrameThere, Signalled, StopOver, GrabSkipped, Grab, GrabFails, Close
<1>3. FrameThere /\ Progress => GrabSkipped \/ Grab
  BY DEF FrameThere, Signalled, Progress, Header, NextFrame, Finish, ReadPart
<1>4. BufferInv /\ FrameThere /\ (Fill \/ Signal \/ UNCHANGED vars) => FrameThere'
  <2> SUFFICES ASSUME BufferInv, FrameThere, Fill \/ Signal \/ UNCHANGED vars
               PROVE  FrameThere'
    OBVIOUS
  <2>1. Signalled("grab")'
    BY BesideTheLoop DEF FrameThere
  <2>2. filled' # <<>>
    <3>1. CASE Fill
      <4>1. PICK b \in queued : filled' = Append(filled, b)
        BY <3>1 DEF Fill
      <4>2. filled \in Seq(Buffers)
        BY DEF BufferInv, CameraType
      <4>3. b \in Buffers
        BY DEF BufferInv, CameraType
      <4> QED BY <4>1, <4>2, <4>3
    <3>2. CASE Signal \/ UNCHANGED vars
      BY <3>2 DEF FrameThere, Signal, vars, camera
    <3> QED BY <3>1, <3>2
  <2> QED BY <2>1, <2>2 DEF FrameThere
<1> QED BY <1>1, <1>2, <1>3, <1>4

\* ... and when its parts are read the loop comes back to its head.
LEMMA StopInParts ==
  Signalled("parts") /\ [Next]_vars => Signalled("parts")' \/ Signalled("head")' \/ StopOver'
<1>1. Signalled("parts") /\ Next => ReadPart \/ PartFails \/ Fill \/ Signal
  BY DEF Signalled, Next, Header, NextFrame, Finish, GrabSkipped, Grab, GrabFails
<1>2. Signalled("parts") /\ (ReadPart \/ PartFails) =>
        Signalled("parts")' \/ Signalled("head")' \/ StopOver'
  BY DEF Signalled, StopOver, ReadPart, PartFails, Close
<1> QED BY <1>1, <1>2, BesideTheLoop

\* After a signal the program ends, unless every buffer is lost: from wherever in the
\* loop the signal finds it the head comes next but for one frame, and the camera does
\* not run out of buffers to fill.
THEOREM StopComesToAnEnd == VencdRunsOn => StopEnds
<1>1. VencdRunsOn => []BufferInv
  BY InitBuffers, StepBuffers, PTL DEF VencdRunsOn, Spec
<1>2. VencdRunsOn => (Signalled("header") ~> Signalled("head") \/ StopOver)
  <2>1. Signalled("header") => LoopReady
    BY DEF Signalled, LoopReady
  <2> QED BY <2>1, StopAtHeader, PTL DEF VencdRunsOn, Spec, LoopGoesOn
<1>3. VencdRunsOn => (Signalled("head") ~> StopOver)
  <2>1. Signalled("head") => LoopReady
    BY DEF Signalled, LoopReady
  <2> QED BY <2>1, StopAtHead, PTL DEF VencdRunsOn, Spec, LoopGoesOn
<1>4. VencdRunsOn => (NoFrameYet ~> FrameThere \/ StopOver)
  BY <1>1, StopInGrab, PTL DEF VencdRunsOn, Spec, CameraGoesOn
<1>5. VencdRunsOn => (FrameThere ~> Signalled("head") \/ Signalled("parts") \/ StopOver)
  <2>1. FrameThere => LoopReady
    BY DEF FrameThere, Signalled, LoopReady
  <2> QED BY <1>1, <2>1, StopWithFrame, PTL DEF VencdRunsOn, Spec, LoopGoesOn
<1>6. VencdRunsOn => (Signalled("parts") ~> Signalled("head") \/ StopOver)
  <2>1. Signalled("parts") => pc = "parts"
    BY DEF Signalled
  <2> QED BY <2>1, StopInParts, PTL DEF VencdRunsOn, Spec
<1>7. BufferInv /\ stopAt # -1 =>
        \/ Signalled("header") \/ Signalled("head") \/ Signalled("parts")
        \/ NoFrameYet \/ FrameThere \/ StopOver
  BY DEF BufferInv, Signalled, NoFrameYet, FrameThere, StopOver
<1>8. VencdRunsOn => (stopAt # -1 ~> StopOver)
  BY <1>1, <1>2, <1>3, <1>4, <1>5, <1>6, <1>7, PTL
<1> QED BY <1>8, PTL DEF StopEnds, StopOver
=============================================================================
