------------------------ MODULE MavlinkBridgeProofs ------------------------
(***************************************************************************)
(* omega4-mavlinkd, for every size of the buffers and every length of the  *)
(* datagrams: what the runs check of MavlinkBridge.                        *)
(***************************************************************************)
EXTENDS MavlinkBridge, FiniteSetTheorems, TLAPS

Spans == [first : Nat, last : Nat]

\* The numbers recv(), read() and write() take the smaller of.
LEMMA Smaller ==
  \A a, b \in Int : Min({a, b}) \in {a, b} /\ Min({a, b}) <= a /\ Min({a, b}) <= b
<1> SUFFICES ASSUME NEW a \in Int, NEW b \in Int
             PROVE  Min({a, b}) \in {a, b} /\ Min({a, b}) <= a /\ Min({a, b}) <= b
  OBVIOUS
<1>1. \E x \in {a, b} : \A y \in {a, b} : x <= y
  OBVIOUS
<1>2. Min({a, b}) \in {a, b} /\ \A y \in {a, b} : Min({a, b}) <= y
  BY <1>1 DEF Min
<1> QED BY <1>2

-----------------------------------------------------------------------------
\* Towards the peer: datagrams are of bytes that were read, one after the other.
UpInv ==
  /\ fromFc \in Nat /\ read \in 0..fromFc /\ unsent \in Nat
  /\ toPeer \in Seq(Spans)
  /\ TransparentToPeer

LEMMA InitUp == Init => UpInv
<1> SUFFICES ASSUME Init PROVE UpInv
  OBVIOUS
<1>1. NotCarried = {}
  BY DEF Init, NotCarried
<1> QED BY <1>1, FS_EmptySet DEF Init, UpInv, TransparentToPeer

\* n bytes are read and sent, or their sendto fails.
LEMMA SentOn ==
  ASSUME UpInv, NEW n \in Nat \ {0}, read + n <= fromFc,
         fromFc' = fromFc, read' = read + n,
         \/ /\ toPeer' = Append(toPeer, [first |-> read + 1, last |-> read + n])
            /\ unsent' = unsent
         \/ unsent' = unsent + n /\ toPeer' = toPeer
  PROVE  UpInv'
<1> DEFINE new == (read + 1)..(read + n)
<1>1. /\ read \in Nat /\ toPeer \in Seq(Spans) /\ unsent \in Nat /\ Len(toPeer) \in Nat
      /\ DOMAIN toPeer = 1..Len(toPeer)
      /\ \A i \in DOMAIN toPeer : /\ toPeer[i].first \in Nat /\ toPeer[i].last \in Nat
                                  /\ toPeer[i].first \in 1..toPeer[i].last
                                  /\ toPeer[i].last <= read
      /\ \A i, j \in DOMAIN toPeer : i < j => toPeer[i].last < toPeer[j].first
      /\ Cardinality(NotCarried) = unsent
  <2>1. \A x \in Spans : x.first \in Nat /\ x.last \in Nat
    BY DEF Spans
  <2>2. /\ read \in Nat /\ toPeer \in Seq(Spans) /\ unsent \in Nat
        /\ TransparentToPeer
    BY DEF UpInv
  <2>3. \A i \in DOMAIN toPeer : toPeer[i] \in Spans
    BY <2>2
  <2> QED BY <2>1, <2>2, <2>3 DEF TransparentToPeer
<1>2. fromFc' \in Nat /\ read' \in 0..fromFc'
  BY <1>1 DEF UpInv
<1>3. CASE toPeer' = Append(toPeer, [first |-> read + 1, last |-> read + n]) /\ unsent' = unsent
  <2>1. /\ toPeer' \in Seq(Spans)
        /\ DOMAIN toPeer' = 1..(Len(toPeer) + 1)
        /\ \A i \in DOMAIN toPeer : toPeer'[i] = toPeer[i]
        /\ toPeer'[Len(toPeer) + 1].first = read + 1
        /\ toPeer'[Len(toPeer) + 1].last = read + n
    <3>1. [first |-> read + 1, last |-> read + n] \in Spans
      BY <1>1 DEF Spans
    <3> QED BY <1>1, <1>3, <3>1
  <2>2. \A i, j \in DOMAIN toPeer' : i < j => toPeer'[i].last < toPeer'[j].first
    BY <1>1, <2>1
  <2>3. \A i \in DOMAIN toPeer' : /\ toPeer'[i].first \in 1..toPeer'[i].last
                                  /\ toPeer'[i].last <= read'
    BY <1>1, <2>1
  <2>4. NotCarried' = NotCarried
    <3>1. ASSUME NEW b \in NotCarried
          PROVE  b \in NotCarried'
      BY <1>1, <2>1, <3>1 DEF NotCarried
    <3>2. ASSUME NEW b \in NotCarried'
          PROVE  b \in NotCarried
      <4>1. b \notin new
        BY <1>1, <2>1, <3>2 DEF NotCarried
      <4> QED BY <1>1, <2>1, <3>2, <4>1 DEF NotCarried
    <3> QED BY <3>1, <3>2
  <2> QED BY <1>1, <1>2, <1>3, <2>1, <2>2, <2>3, <2>4 DEF UpInv, TransparentToPeer
<1>4. CASE unsent' = unsent + n /\ toPeer' = toPeer
  <2>1. NotCarried' = NotCarried \cup new
    <3>1. ASSUME NEW b \in NotCarried'
          PROVE  b \in NotCarried \cup new
      BY <1>1, <1>4, <3>1 DEF NotCarried
    <3>2. ASSUME NEW b \in NotCarried
          PROVE  b \in NotCarried'
      BY <1>1, <1>4, <3>2 DEF NotCarried
    <3>3. ASSUME NEW b \in new
          PROVE  b \in NotCarried'
      BY <1>1, <1>4, <3>3 DEF NotCarried
    <3> QED BY <3>1, <3>2, <3>3
  <2>2. NotCarried \cap new = {}
    BY <1>1 DEF NotCarried
  <2>3. IsFiniteSet(NotCarried)
    <3>1. 1 \in Int /\ read \in Int
      BY <1>1
    <3>2. IsFiniteSet(1..read)
      BY <3>1, FS_Interval
    <3>3. NotCarried \in SUBSET (1..read)
      BY DEF NotCarried
    <3> QED BY <3>2, <3>3, FS_Subset
  <2>4. IsFiniteSet(new) /\ Cardinality(new) = n
    BY <1>1, FS_Interval
  <2> HIDE DEF new
  <2>5. Cardinality(NotCarried') = unsent + n
    <3>1. Cardinality(NotCarried \cup new) = Cardinality(NotCarried) + n - Cardinality({})
      BY <2>2, <2>3, <2>4, FS_Union
    <3> QED BY <1>1, <2>1, <3>1, FS_EmptySet
  <2>6. \A i \in DOMAIN toPeer' : /\ toPeer'[i].first \in 1..toPeer'[i].last
                                  /\ toPeer'[i].last <= read'
    BY <1>1, <1>4
  <2> QED BY <1>1, <1>2, <1>4, <2>5, <2>6 DEF UpInv, TransparentToPeer
<1> QED BY <1>3, <1>4

\* The other direction, or nothing, or more bytes on the UART.
LEMMA UpStays ==
  ASSUME UpInv, UNCHANGED <<read, toPeer, unsent>>, fromFc' \in Nat, fromFc <= fromFc'
  PROVE  UpInv'
<1>1. NotCarried' = NotCarried
  BY DEF NotCarried
<1> QED BY <1>1 DEF UpInv, TransparentToPeer

LEMMA StepUp == UpInv /\ [Next]_vars => UpInv'
<1> SUFFICES ASSUME UpInv, [Next]_vars
             PROVE  UpInv'
  OBVIOUS
<1>1. CASE Iterate
  <2>1. CASE read = fromFc
    BY <1>1, <2>1, UpStays DEF Iterate, SerialToUdp, UpInv
  <2>2. CASE read # fromFc
    <3> DEFINE n == Min({fromFc - read, BufSize})
    <3>1. read \in Nat /\ fromFc \in Nat /\ read < fromFc /\ BufSize \in Nat \ {0}
      BY <2>2, BridgeAssumption DEF UpInv, BridgeAssumption
    <3>2. n \in Nat \ {0} /\ read + n <= fromFc
      <4>1. fromFc - read \in Int /\ BufSize \in Int /\ fromFc - read > 0 /\ BufSize > 0
        BY <3>1
      <4>2. n \in {fromFc - read, BufSize} /\ n <= fromFc - read
        BY <4>1, Smaller
      <4> HIDE DEF n
      <4> QED BY <3>1, <4>1, <4>2
    <3>3. /\ fromFc' = fromFc /\ read' = read + n
          /\ \/ /\ toPeer' = Append(toPeer, [first |-> read + 1, last |-> read + n])
                /\ unsent' = unsent
             \/ unsent' = unsent + n /\ toPeer' = toPeer
      BY <1>1, <2>2 DEF Iterate, SerialToUdp
    <3> HIDE DEF n
    <3> QED BY <3>2, <3>3, SentOn
  <2> QED BY <2>1, <2>2
<1>2. CASE ~Iterate
  BY <1>2, UpStays DEF Next, UartIn, UdpIn, UartOut, vars, UpInv
<1> QED BY <1>1, <1>2

\* The peer gets the bytes of the UART in order and none twice, and misses
\* exactly those whose sendto failed.
THEOREM Transparent == Spec => []TransparentToPeer
<1>1. UpInv => TransparentToPeer
  BY DEF UpInv
<1> QED BY <1>1, InitUp, StepUp, PTL DEF Spec

-----------------------------------------------------------------------------
\* Towards the flight controller: the datagrams are numbered on, and what the
\* UART has taken is of those that were read from the socket.
InTurn(s) ==
  /\ \A d \in DOMAIN s : s[d].first \in 1..s[d].last
  /\ \A d, e \in DOMAIN s : d < e => s[d].last < s[e].first

DownInv ==
  /\ sent \in Seq(Spans) /\ taken \in 0..Len(sent)
  /\ toFc \in Seq(Nat) /\ held \in 0..Room
  /\ InTurn(sent)
  /\ \A i \in DOMAIN toFc : taken > 0 /\ toFc[i] <= sent[taken].last
  /\ CutAtTheEnd

LEMMA SentTypes ==
  ASSUME DownInv
  PROVE  /\ Len(sent) \in Nat /\ DOMAIN sent = 1..Len(sent)
         /\ \A d \in DOMAIN sent : sent[d].first \in Nat /\ sent[d].last \in Nat
<1>1. \A x \in Spans : x.first \in Nat /\ x.last \in Nat
  BY DEF Spans
<1>2. sent \in Seq(Spans)
  BY DEF DownInv
<1>3. \A d \in DOMAIN sent : sent[d] \in Spans
  BY <1>2
<1> QED BY <1>1, <1>2, <1>3

LEMMA InitDown == Init => DownInv
  BY BridgeAssumption DEF Init, DownInv, InTurn, CutAtTheEnd, BridgeAssumption

\* The peer sends another datagram.
LEMMA UdpInDown ==
  ASSUME DownInv, UdpIn
  PROVE  DownInv'
<1>1. PICK len \in 1..MaxLen :
        sent' = Append(sent, [first |-> Asked + 1, last |-> Asked + len])
  BY DEF UdpIn
<1>2. len \in Nat \ {0}
  BY BridgeAssumption DEF BridgeAssumption
<1>3. /\ Len(sent) \in Nat /\ DOMAIN sent = 1..Len(sent) /\ sent \in Seq(Spans)
      /\ \A d \in DOMAIN sent : sent[d].first \in Nat /\ sent[d].last \in Nat
      /\ InTurn(sent)
  BY SentTypes DEF DownInv
<1>4. Asked \in Nat /\ \A d \in DOMAIN sent : sent[d].last <= Asked
  BY <1>3 DEF Asked, InTurn
<1>5. /\ sent' \in Seq(Spans)
      /\ Len(sent') = Len(sent) + 1 /\ DOMAIN sent' = 1..(Len(sent) + 1)
      /\ \A d \in DOMAIN sent : sent'[d] = sent[d]
      /\ sent'[Len(sent) + 1].first = Asked + 1
      /\ sent'[Len(sent) + 1].last = Asked + len
  <2>1. [first |-> Asked + 1, last |-> Asked + len] \in Spans
    BY <1>2, <1>4 DEF Spans
  <2> QED BY <1>1, <1>3, <2>1
<1>6. InTurn(sent)'
  BY <1>2, <1>3, <1>4, <1>5, SMTT(40) DEF InTurn
<1>7. /\ taken' = taken /\ toFc' = toFc /\ held' = held
      /\ taken \in 0..Len(sent) /\ toFc \in Seq(Nat) /\ held \in 0..Room
  BY DEF UdpIn, DownInv
<1>8. \A d \in 1..taken : d \in DOMAIN sent /\ sent'[d] = sent[d]
  BY <1>3, <1>5, <1>7
<1>9. \A i \in DOMAIN toFc' : taken' > 0 /\ toFc'[i] <= sent'[taken'].last
  BY <1>3, <1>7, <1>8 DEF DownInv
<1>10. CutAtTheEnd'
  BY <1>7, <1>8 DEF DownInv, CutAtTheEnd
<1> QED BY <1>3, <1>5, <1>6, <1>7, <1>9, <1>10 DEF DownInv

\* The UART takes the first bytes of a datagram, or none.
LEMMA Forwarded ==
  ASSUME DownInv, taken < Len(sent), sent' = sent,
         NEW w \in Nat, Forward(First, w),
         w <= sent[taken + 1].last - First + 1, w <= Room - held
  PROVE  DownInv'
<1> DEFINE new == [i \in 1..w |-> First + i - 1]
<1>1. /\ Len(sent) \in Nat /\ DOMAIN sent = 1..Len(sent) /\ sent \in Seq(Spans)
      /\ \A d \in DOMAIN sent : sent[d].first \in Nat /\ sent[d].last \in Nat
      /\ InTurn(sent)
      /\ taken \in 0..Len(sent) /\ toFc \in Seq(Nat) /\ held \in 0..Room
  BY SentTypes DEF DownInv
<1>2. /\ taken + 1 \in DOMAIN sent
      /\ First = sent[taken + 1].first /\ First \in Nat \ {0}
      /\ First <= sent[taken + 1].last
      /\ taken > 0 => /\ taken \in DOMAIN sent /\ sent[taken].last < First
                      /\ sent[taken].last \in Nat
      /\ taken \in Nat /\ sent[taken + 1].last \in Nat
  <2>1. taken \in Nat /\ taken + 1 \in 1..Len(sent) /\ (taken > 0 => taken \in 1..Len(sent))
    BY <1>1
  <2>2. /\ sent[taken + 1].first \in 1..sent[taken + 1].last
        /\ sent[taken + 1].first \in Nat /\ sent[taken + 1].last \in Nat
    BY <1>1, <2>1 DEF InTurn
  <2>3. taken > 0 => sent[taken].last < sent[taken + 1].first /\ sent[taken].last \in Nat
    BY <1>1, <2>1 DEF InTurn
  <2> QED BY <1>1, <2>1, <2>2, <2>3 DEF First
<1>3. new \in Seq(Nat) /\ Len(new) = w /\ \A i \in 1..w : new[i] = First + i - 1
  <2>1. \A i \in 1..w : First + i - 1 \in Nat
    BY <1>2
  <2> QED BY <2>1
<1>4. taken' = taken + 1 /\ toFc' = toFc \o new /\ held' = held + w
  BY DEF Forward
<1> HIDE DEF new
<1>5. /\ toFc' \in Seq(Nat) /\ Len(toFc) \in Nat
      /\ DOMAIN toFc = 1..Len(toFc) /\ DOMAIN toFc' = 1..(Len(toFc) + w)
      /\ \A i \in 1..Len(toFc) : toFc'[i] = toFc[i]
      /\ \A i \in 1..w : toFc'[Len(toFc) + i] = First + i - 1
  BY <1>1, <1>3, <1>4
<1>a. \A i \in 1..Len(toFc) : /\ toFc[i] \in Nat /\ taken > 0
                               /\ toFc[i] <= sent[taken].last /\ toFc[i] < First
  <2>1. \A i \in 1..Len(toFc) : toFc[i] \in Nat /\ taken > 0 /\ toFc[i] <= sent[taken].last
    <3>1. \A i \in DOMAIN toFc : taken > 0 /\ toFc[i] <= sent[taken].last
      BY DEF DownInv
    <3>2. \A i \in 1..Len(toFc) : toFc[i] \in Nat
      BY <1>1
    <3> QED BY <1>5, <3>1, <3>2
  <2> QED BY <1>2, <2>1
<1>6. \A i \in (Len(toFc) + 1)..(Len(toFc) + w) : toFc'[i] = First + (i - Len(toFc)) - 1
  <2>1. ASSUME NEW i \in (Len(toFc) + 1)..(Len(toFc) + w)
        PROVE  toFc'[i] = First + (i - Len(toFc)) - 1
    <3>1. i - Len(toFc) \in 1..w /\ Len(toFc) + (i - Len(toFc)) = i
      BY <1>5, <2>1
    <3> QED BY <1>5, <3>1
  <2> QED BY <2>1
<1>7. taken' \in 0..Len(sent) /\ held' \in 0..Room
  BY <1>1, <1>4, BridgeAssumption DEF BridgeAssumption
<1>8. ASSUME NEW i \in DOMAIN toFc'
      PROVE  /\ toFc'[i] <= sent[taken + 1].last
             /\ \/ toFc'[i] = (IF i = 1 THEN 1 ELSE toFc'[i - 1] + 1)
                \/ \E d \in 1..(taken + 1) : /\ toFc'[i] = sent[d].first
                                             /\ i > 1 => toFc'[i - 1] < toFc'[i]
  <2>1. CASE i \in 1..Len(toFc)
    <3>1. \/ toFc[i] = (IF i = 1 THEN 1 ELSE toFc[i - 1] + 1)
          \/ \E d \in 1..taken : /\ toFc[i] = sent[d].first
                                 /\ i > 1 => toFc[i - 1] < toFc[i]
      <4>1. i \in DOMAIN toFc
        BY <1>5, <2>1
      <4> QED BY <4>1 DEF DownInv, CutAtTheEnd
    <3>2. toFc'[i] = toFc[i] /\ (i # 1 => toFc'[i - 1] = toFc[i - 1])
      BY <1>5, <2>1
    <3>3. toFc'[i] <= sent[taken + 1].last
      BY <1>2, <1>a, <2>1, <3>2
    <3>4. 1..taken \subseteq 1..(taken + 1)
      BY <1>1
    <3>5. CASE toFc[i] = (IF i = 1 THEN 1 ELSE toFc[i - 1] + 1)
      BY <3>2, <3>3, <3>5
    <3>6. CASE \E d \in 1..taken : /\ toFc[i] = sent[d].first
                                   /\ i > 1 => toFc[i - 1] < toFc[i]
      <4>1. i > 1 => i # 1
        BY <2>1
      <4> QED BY <3>2, <3>3, <3>4, <3>6, <4>1
    <3> QED BY <3>1, <3>5, <3>6
  <2>2. CASE i = Len(toFc) + 1
    <3>1. toFc'[i] = First
      BY <1>2, <1>5, <1>6, <1>8, <2>2
    <3>2. i > 1 => toFc'[i - 1] < First
      <4>1. SUFFICES ASSUME i > 1
                     PROVE  toFc'[i - 1] < First
        OBVIOUS
      <4>2. i - 1 \in 1..Len(toFc) /\ toFc'[i - 1] = toFc[i - 1]
        BY <1>5, <2>2, <4>1
      <4> QED BY <1>a, <4>2
    <3>3. taken + 1 \in 1..(taken + 1)
      BY <1>1
    <3> QED BY <1>2, <3>1, <3>2, <3>3
  <2>3. CASE i > Len(toFc) + 1
    <3>1. /\ i \in (Len(toFc) + 1)..(Len(toFc) + w)
          /\ i - 1 \in (Len(toFc) + 1)..(Len(toFc) + w)
          /\ i # 1
      BY <1>5, <1>8, <2>3, SMTT(40)
    <3>2. /\ toFc'[i] = First + (i - Len(toFc)) - 1
          /\ toFc'[i - 1] = First + ((i - 1) - Len(toFc)) - 1
      BY <1>6, <3>1
    <3>3. toFc'[i] = toFc'[i - 1] + 1
      <4>1. i \in Int /\ Len(toFc) \in Int /\ First \in Int
        <5>1. Len(toFc) \in Int /\ First \in Int /\ i \in 1..(Len(toFc) + w)
          BY <1>2, <1>5, <1>8
        <5>2. i \in Int
          BY <5>1
        <5> QED BY <1>2, <5>1, <5>2
      <4> QED BY <3>2, <4>1
    <3>4. toFc'[i] <= sent[taken + 1].last
      <4>1. i \in Int /\ Len(toFc) \in Int /\ First \in Int /\ sent[taken + 1].last \in Int
        <5>1. Len(toFc) \in Int /\ First \in Int /\ i \in 1..(Len(toFc) + w)
          BY <1>2, <1>5, <1>8
        <5>2. i \in Int
          BY <5>1
        <5> QED BY <1>2, <5>1, <5>2
      <4>2. i - Len(toFc) <= sent[taken + 1].last - First + 1
        <5>1. i \in 1..(Len(toFc) + w)
          BY <1>5, <1>8
        <5>2. i - Len(toFc) <= w
          BY <4>1, <5>1
        <5> QED BY <4>1, <5>2
      <4> QED BY <3>2, <4>1, <4>2
    <3> QED BY <3>1, <3>3, <3>4
  <2> QED BY <1>5, <1>8, <2>1, <2>2, <2>3
<1>9. \A i \in DOMAIN toFc' : taken' > 0 /\ toFc'[i] <= sent'[taken'].last
  <2>1. \A i \in DOMAIN toFc' : toFc'[i] <= sent[taken + 1].last
    BY <1>8
  <2>2. taken' > 0 /\ taken' = taken + 1
    BY <1>2, <1>4
  <2> QED BY <2>1, <2>2
<1>10. CutAtTheEnd'
  BY <1>4, <1>8 DEF CutAtTheEnd
<1> QED BY <1>1, <1>5, <1>7, <1>9, <1>10 DEF DownInv

\* The other direction, or the UART sends.
LEMMA DownStays ==
  ASSUME DownInv, UNCHANGED <<sent, taken, toFc>>, held' \in 0..Room
  PROVE  DownInv'
  BY DEF DownInv, InTurn, CutAtTheEnd

LEMMA StepDown == DownInv /\ [Next]_vars => DownInv'
<1> SUFFICES ASSUME DownInv, [Next]_vars
             PROVE  DownInv'
  OBVIOUS
<1>1. CASE Iterate
  <2>1. CASE taken = Len(sent)
    BY <1>1, <2>1, DownStays DEF Iterate, UdpToSerial, DownInv
  <2>2. CASE taken # Len(sent)
    <3> DEFINE w == Min({Received, Room - held})
    <3>1. /\ taken \in 0..Len(sent) /\ Len(sent) \in Nat /\ DOMAIN sent = 1..Len(sent)
          /\ \A d \in DOMAIN sent : sent[d].first \in Nat /\ sent[d].last \in Nat
          /\ \A d \in DOMAIN sent : sent[d].first \in 1..sent[d].last
          /\ held \in 0..Room
          /\ Room \in Nat /\ BufSize \in Nat
      BY SentTypes, BridgeAssumption DEF DownInv, InTurn, BridgeAssumption
    <3>2. /\ taken < Len(sent) /\ taken + 1 \in DOMAIN sent
          /\ sent[taken + 1].last - First + 1 \in Nat
          /\ Room - held \in Nat
      <4>1. taken < Len(sent) /\ taken + 1 \in DOMAIN sent
        BY <2>2, <3>1
      <4>2. /\ sent[taken + 1].first \in 1..sent[taken + 1].last
            /\ sent[taken + 1].first \in Nat /\ sent[taken + 1].last \in Nat
        BY <3>1, <4>1
      <4>3. sent[taken + 1].last - First + 1 \in Nat
        BY <4>2 DEF First
      <4> QED BY <3>1, <4>1, <4>3
    <3>3. Received \in Nat /\ Received <= sent[taken + 1].last - First + 1
      <4> DEFINE l == sent[taken + 1].last - First + 1
      <4>1. l \in Nat /\ l \in Int /\ BufSize \in Int /\ Received = Min({l, BufSize})
        BY <3>1, <3>2 DEF Received
      <4> HIDE DEF l
      <4>2. Received \in {l, BufSize} /\ Received <= l
        BY <4>1, Smaller
      <4>3. Received \in Nat /\ Received <= l
        BY <3>1, <4>1, <4>2
      <4> QED BY <4>3 DEF l
    <3>4. w \in Nat /\ w <= Received /\ w <= Room - held
      <4>0. Received \in Int /\ Room - held \in Int
        BY <3>2, <3>3
      <4>1. w \in {Received, Room - held} /\ w <= Received /\ w <= Room - held
        BY <4>0, Smaller
      <4> HIDE DEF w
      <4> QED BY <3>2, <3>3, <4>1
    <3>5. Forward(First, w) /\ sent' = sent
      BY <1>1, <2>2 DEF Iterate, UdpToSerial
    <3> HIDE DEF w
    <3>6. w <= sent[taken + 1].last - First + 1
      BY <3>2, <3>3, <3>4
    <3> QED BY <3>2, <3>4, <3>5, <3>6, Forwarded
  <2> QED BY <2>1, <2>2
<1>2. CASE UdpIn
  BY <1>2, UdpInDown
<1>3. CASE UartOut
  <2>1. held > 0 /\ held' = held - 1 /\ UNCHANGED <<sent, taken, toFc>>
    BY <1>3 DEF UartOut
  <2>2. held' \in 0..Room
    BY <2>1, BridgeAssumption DEF DownInv, BridgeAssumption
  <2> QED BY <2>1, <2>2, DownStays
<1>4. CASE UartIn \/ UNCHANGED vars
  BY <1>4, DownStays DEF UartIn, vars, DownInv
<1> QED BY <1>1, <1>2, <1>3, <1>4 DEF Next

\* Whatever fits into the buffers of the loop and of the UART: the bytes of a
\* datagram that reach the flight controller are its first ones, in order.
THEOREM FrontOfEach == Spec => []CutAtTheEnd
<1>1. DownInv => CutAtTheEnd
  BY DEF DownInv
<1> QED BY <1>1, InitDown, StepDown, PTL DEF Spec
=============================================================================
