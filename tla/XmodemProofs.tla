---------------------------- MODULE XmodemProofs ----------------------------
(***************************************************************************)
(* The XMODEM sender, for files of any length: as long as fewer time-outs  *)
(* are premature than block numbers tell apart, the receiver stores the    *)
(* file in order and the sender counts acknowledgements rightly.           *)
(***************************************************************************)
EXTENDS Xmodem, Integers, TLAPS

\* What is under way.
Messages == [kind : {"block", "garbled", "eot", "noise"}, number : 0..(BlkMod - 1), n : 0..Blocks]

IsBlock(m) == m.kind = "block"

-----------------------------------------------------------------------------
\* A string less its first element, and with one more.
LEMMA Popped ==
  ASSUME NEW S, NEW s \in Seq(S), s # <<>>
  PROVE  /\ Tail(s) \in Seq(S) /\ Head(s) = s[1] /\ s[1] \in S
         /\ Len(s) \in Nat /\ Len(s) > 0 /\ Len(Tail(s)) = Len(s) - 1
         /\ DOMAIN s = 1..Len(s) /\ DOMAIN Tail(s) = 1..(Len(s) - 1)
         /\ \A i \in 1..(Len(s) - 1) : Tail(s)[i] = s[i + 1]
  OBVIOUS

\* The new element is the last one.
LEMMA Pushed ==
  ASSUME NEW S, NEW s \in Seq(S), NEW x \in S
  PROVE  /\ Append(s, x) \in Seq(S)
         /\ Len(s) \in Nat /\ Len(Append(s, x)) = Len(s) + 1
         /\ DOMAIN s = 1..Len(s) /\ DOMAIN Append(s, x) = 1..(Len(s) + 1)
         /\ \A i \in 1..Len(s) : Append(s, x)[i] = s[i]
         /\ Append(s, x)[Len(s) + 1] = x
  OBVIOUS

\* The first element is replaced: what a garbled block or answer is.
LEMMA Replaced ==
  ASSUME NEW S, NEW s \in Seq(S), s # <<>>, NEW x \in S
  PROVE  /\ <<x>> \o Tail(s) \in Seq(S)
         /\ Len(s) \in Nat /\ Len(<<x>> \o Tail(s)) = Len(s)
         /\ DOMAIN s = 1..Len(s) /\ DOMAIN (<<x>> \o Tail(s)) = 1..Len(s)
         /\ (<<x>> \o Tail(s))[1] = x
         /\ \A i \in 2..Len(s) : (<<x>> \o Tail(s))[i] = s[i]
<1>1. /\ Tail(s) \in Seq(S) /\ Len(s) \in Nat /\ Len(s) > 0 /\ Len(Tail(s)) = Len(s) - 1
      /\ DOMAIN s = 1..Len(s)
      /\ \A i \in 1..(Len(s) - 1) : Tail(s)[i] = s[i + 1]
  BY Popped
<1>2. /\ <<x>> \in Seq(S) /\ Len(<<x>>) = 1
      /\ <<x>> \o Tail(s) \in Seq(S) /\ Len(<<x>> \o Tail(s)) = 1 + (Len(s) - 1)
      /\ (<<x>> \o Tail(s))[1] = x
  BY <1>1
<1>3. ASSUME NEW i \in 2..Len(s)
      PROVE  (<<x>> \o Tail(s))[i] = s[i]
  <2>1. (<<x>> \o Tail(s))[i] = Tail(s)[i - 1]
    BY <1>1
  <2>2. i - 1 \in 1..(Len(s) - 1) /\ (i - 1) + 1 = i
    BY <1>1
  <2> QED BY <1>1, <2>1, <2>2
<1> QED BY <1>1, <1>2, <1>3

\* Numbers on the line.
LEMMA NumberRange == \A n \in Nat : Number(n) \in 0..(BlkMod - 1)
<1>1. \A n \in Nat, m \in Nat \ {0} : n % m \in 0..(m - 1)
  OBVIOUS
<1> QED BY <1>1, XmodemAssumption DEF Number, XmodemAssumption

\* Blocks less than BlkMod apart have numbers of their own.
LEMMA NumbersDiffer ==
  ASSUME NEW a \in Nat, NEW b \in Nat, a <= b, b - a < BlkMod, Number(a) = Number(b)
  PROVE  a = b
<1>1. \A x, m \in Nat : m > 0 => /\ x = m * (x \div m) + (x % m)
                                 /\ x \div m \in Nat /\ x % m \in 0..(m - 1)
  OBVIOUS
<1>2. \A p, q, m \in Nat : q >= p /\ m * q - m * p < m => p = q
  <2> SUFFICES ASSUME NEW p \in Nat, NEW q \in Nat, NEW m \in Nat, q > p
               PROVE  m * q - m * p >= m
    OBVIOUS
  <2>1. PICK d \in Nat : q = p + 1 + d
    <3>1. q - p - 1 \in Nat /\ q = p + 1 + (q - p - 1)
      OBVIOUS
    <3> QED BY <3>1
  <2>2. m * q = m * p + m + m * d /\ m * d \in Nat /\ m * p \in Nat
    BY <2>1
  <2> QED BY <2>2
<1>3. \A p, q, m \in Nat : q < p => m * q <= m * p
  OBVIOUS
<1> DEFINE p == a \div BlkMod
           q == b \div BlkMod
<1>4. /\ a = BlkMod * p + (a % BlkMod) /\ p \in Nat /\ a % BlkMod \in Nat
      /\ b = BlkMod * q + (b % BlkMod) /\ q \in Nat
      /\ a % BlkMod = b % BlkMod /\ BlkMod \in Nat /\ BlkMod > 0
  BY <1>1, XmodemAssumption DEF Number, XmodemAssumption
<1> HIDE DEF p, q
<1>5. PICK u \in Nat, v \in Nat : u = BlkMod * p /\ v = BlkMod * q
  BY <1>4
<1>6. v >= u /\ v - u < BlkMod
  BY <1>4, <1>5
<1>7. q >= p \/ u = v
  BY <1>3, <1>4, <1>5, <1>6
<1>8. u = v
  BY <1>2, <1>4, <1>5, <1>6, <1>7
<1> QED BY <1>4, <1>5, <1>8

-----------------------------------------------------------------------------
\* A block under way has its number and is one of the file.
Numbered ==
  \A i \in DOMAIN toRx :
    IsBlock(toRx[i]) => toRx[i].number = Number(toRx[i].n) /\ toRx[i].n \in 1..Blocks

TypeInv == TypeOK /\ Numbered

\* The line carries blocks and bytes one way, answers the other.
LEMMA MessagesTyped == TypeOK => toRx \in Seq(Messages) /\ toTx \in Seq(Answers)
  BY DEF TypeOK, Messages

\* What the sender writes: a block under its number, or the byte in c.
LEMMA BlockSent ==
  ASSUME NEW n \in 1..Blocks
  PROVE  /\ Block(n, n) \in Messages
         /\ IsBlock(Block(n, n)) /\ Block(n, n).n = n /\ Block(n, n).number = Number(n)
<1>1. n \in Nat /\ n \in 0..Blocks
  BY XmodemAssumption DEF XmodemAssumption
<1>2. Number(n) \in 0..(BlkMod - 1)
  BY <1>1, NumberRange
<1> QED BY <1>1, <1>2 DEF Block, Messages, IsBlock

\* The byte written at the end of the file is no block.
LEMMA ByteSent ==
  ASSUME NEW b
  PROVE  Byte(b) \in Messages /\ ~IsBlock(Byte(b))
<1>1. 0 \in 0..(BlkMod - 1) /\ 0 \in 0..Blocks
  BY XmodemAssumption DEF XmodemAssumption
<1>2. (IF b = "EOT" THEN "eot" ELSE "noise") \in {"block", "garbled", "eot", "noise"}
  OBVIOUS
<1> QED BY <1>1, <1>2 DEF Byte, Messages, IsBlock

\* write_all of a numbered block of the file, or of a byte, keeps the line's type.
LEMMA WriteTyped ==
  ASSUME TypeInv, NEW m \in Messages, Write(m),
         IsBlock(m) => m.number = Number(m.n) /\ m.n \in 1..Blocks
  PROVE  toRx' \in Seq(Messages) /\ Numbered'
<1>1. toRx \in Seq(Messages) /\ toRx' = Append(toRx, m)
  BY MessagesTyped DEF TypeInv, Write
<1>2. /\ toRx' \in Seq(Messages) /\ Len(toRx) \in Nat
      /\ DOMAIN toRx = 1..Len(toRx) /\ DOMAIN toRx' = 1..(Len(toRx) + 1)
      /\ \A i \in 1..Len(toRx) : toRx'[i] = toRx[i]
      /\ toRx'[Len(toRx) + 1] = m
  BY <1>1, Pushed
<1>3. \A i \in DOMAIN toRx' : i \in 1..Len(toRx) \/ i = Len(toRx) + 1
  BY <1>2
<1> QED BY <1>2, <1>3 DEF TypeInv, Numbered

\* The sender's state after a block is acknowledged, or to be repeated.
LEMMA SendFromTyped ==
  ASSUME TypeInv, NEW n \in 1..(Blocks + 1), SendFrom(n)
  PROVE  /\ toRx' \in Seq(Messages) /\ Numbered'
         /\ pc' \in {"block", "eot"} /\ blk' \in 1..Blocks
         /\ c' = c /\ tries' \in 0..Tries /\ result' = result
<1> USE XmodemAssumption DEF XmodemAssumption
<1>1. CASE n <= Blocks
  <2>1. Write(Block(n, n)) /\ pc' = "block" /\ blk' = n /\ UNCHANGED <<c, tries, result>>
    BY <1>1 DEF SendFrom
  <2>2. n \in 1..Blocks
    BY <1>1
  <2> QED BY <2>1, <2>2, BlockSent, WriteTyped DEF TypeInv, TypeOK
<1>2. CASE ~(n <= Blocks)
  <2>1. Write(Byte(c)) /\ pc' = "eot" /\ tries' = 1 /\ UNCHANGED <<blk, c, result>>
    BY <1>2 DEF SendFrom
  <2>2. 1 \in 0..Tries
    OBVIOUS
  <2> QED BY <2>1, <2>2, ByteSent, WriteTyped DEF TypeInv, TypeOK
<1> QED BY <1>1, <1>2

\* An answer is read, or a time-out expires.
LEMMA ReadTyped ==
  ASSUME TypeOK, Read \/ Expire
  PROVE  /\ toTx' \in Seq(Answers) /\ early' \in 0..MaxEarly
         /\ rx' = rx /\ stored' = stored
<1>1. CASE Read
  <2>1. toTx \in Seq(Answers) /\ toTx # <<>> /\ toTx' = Tail(toTx)
    BY <1>1 DEF TypeOK, Read
  <2> QED BY <1>1, <2>1, Popped DEF Read, TypeOK, receiver
<1>2. CASE Expire
  BY <1>2, XmodemAssumption DEF Expire, TypeOK, receiver, XmodemAssumption
<1> QED BY <1>1, <1>2

\* The answer is one.
LEMMA AnswerTyped == TypeOK /\ toTx # <<>> => Answer \in Answers
  BY Popped DEF TypeOK, Answer

\* Before the invitation the line is empty.
LEMMA InitTyped == Init => TypeInv
  BY XmodemAssumption DEF Init, TypeInv, TypeOK, Numbered, XmodemAssumption, Answers

\* Every step of wait_receiver and send_xmodem_1k keeps the types.
LEMMA SenderTyped == TypeInv /\ SenderStep => TypeInv'
<1> SUFFICES ASSUME TypeInv, SenderStep
             PROVE  TypeInv'
  OBVIOUS
<1>0. (Read \/ Expire) => /\ toTx' \in Seq(Answers) /\ early' \in 0..MaxEarly
                          /\ rx' = rx /\ stored' = stored
  BY ReadTyped DEF TypeInv
<1>1. CASE Invited \/ Acked \/ Resend
  <2>1. PICK n \in 1..(Blocks + 1) : SendFrom(n)
    <3>1. 1 \in 1..(Blocks + 1) /\ blk \in 1..(Blocks + 1) /\ blk + 1 \in 1..(Blocks + 1)
      BY XmodemAssumption DEF XmodemAssumption, TypeInv, TypeOK
    <3> QED BY <1>1, <3>1 DEF Invited, Acked, Resend
  <2>2. Read \/ Expire
    BY <1>1 DEF Invited, Acked, Resend
  <2>3. /\ toRx' \in Seq(Messages) /\ Numbered'
        /\ pc' \in {"block", "eot"} /\ blk' \in 1..Blocks
        /\ c' = c /\ tries' \in 0..Tries /\ result' = result
    BY <2>1, SendFromTyped
  <2> QED BY <1>0, <2>2, <2>3 DEF TypeInv, TypeOK, Messages
<1>2. CASE Echo
  <2>1. Read /\ UNCHANGED <<sender, toRx>>
    BY <1>2 DEF Echo
  <2> QED BY <1>0, <2>1 DEF TypeInv, TypeOK, Numbered, sender
<1>3. CASE NotInvited \/ Cancelled \/ Finished \/ GivesUp
  <2>1. PICK status \in {0, 1} : End(status)
    BY <1>3 DEF NotInvited, Cancelled, Finished, GivesUp
  <2>2. Read \/ Expire
    BY <1>3 DEF NotInvited, Cancelled, Finished, GivesUp
  <2> QED BY <1>0, <2>1, <2>2 DEF TypeInv, TypeOK, Numbered, End
<1>4. CASE EotAgain
  <2>1. /\ Write(Byte(c')) /\ tries' = tries + 1 /\ tries < Tries
        /\ UNCHANGED <<pc, blk, result>>
        /\ Read \/ Expire
        /\ c' = c \/ (toTx # <<>> /\ c' = Answer)
    BY <1>4 DEF EotAgain, Read
  <2>2. c' \in Answers \cup {"EOT"}
    BY <2>1, AnswerTyped DEF TypeInv, TypeOK
  <2>3. toRx' \in Seq(Messages) /\ Numbered'
    BY <2>1, ByteSent, WriteTyped
  <2>4. tries' \in 0..Tries
    BY <2>1, XmodemAssumption DEF XmodemAssumption, TypeInv, TypeOK
  <2> QED BY <1>0, <2>1, <2>2, <2>3, <2>4 DEF TypeInv, TypeOK, Messages
<1> QED BY <1>1, <1>2, <1>3, <1>4 DEF SenderStep

-----------------------------------------------------------------------------
\* What the receiver may make of what arrives.
Ignores == UNCHANGED <<toTx, rx, stored>>

Refuses == Listens /\ stored' = stored /\ \E a \in {"NAK", "CAN"} :
             toTx' = Append(toTx, a) /\ rx' \in {rx, "cancelled"}

AcksEnd == Listens /\ Head(toRx).kind = "eot" /\ Reply("ACK") /\ rx' = "done" /\ stored' = stored

Stores ==
  /\ Listens /\ IsBlock(Head(toRx)) /\ Head(toRx).number = Number(Len(stored) + 1)
  /\ Reply("ACK") /\ rx' = "receiving" /\ stored' = Append(stored, Head(toRx).n)

AcksAgain ==
  /\ Listens /\ IsBlock(Head(toRx)) /\ Head(toRx).number = Number(Len(stored))
  /\ Reply("ACK") /\ rx' = rx /\ stored' = stored

\* The receiver's step is one of these.
LEMMA RxTakeCases ==
  ASSUME RxTake
  PROVE  /\ toRx # <<>> /\ toRx' = Tail(toRx)
         /\ Ignores \/ Refuses \/ AcksEnd \/ Stores \/ AcksAgain
<1> DEFINE m == Head(toRx)
<1>1. toRx # <<>> /\ toRx' = Tail(toRx)
  BY DEF RxTake
<1>2. CASE ~Listens \/ m.kind = "noise"
  <2>1. UNCHANGED <<receiver, toTx>>
    BY <1>2 DEF RxTake
  <2> QED BY <1>1, <2>1 DEF Ignores, receiver
<1>3. CASE Listens /\ m.kind = "garbled"
  <2>1. Reply("NAK") /\ UNCHANGED receiver
    BY <1>3 DEF RxTake
  <2> QED BY <1>1, <1>3, <2>1 DEF Refuses, receiver, Reply
<1>4. CASE Listens /\ m.kind = "eot"
  <2>1. Reply("ACK") /\ rx' = "done" /\ UNCHANGED stored
    BY <1>4 DEF RxTake
  <2> QED BY <1>1, <1>4, <2>1 DEF AcksEnd
<1>5. CASE Listens /\ m.kind = "block" /\ m.number = Expected
  <2>1. \/ Reply("ACK") /\ rx' = "receiving" /\ stored' = Append(stored, m.n)
        \/ m.number = Number(Len(stored)) /\ Reply("ACK") /\ UNCHANGED receiver
    BY <1>5 DEF RxTake
  <2> QED BY <1>1, <1>5, <2>1 DEF Stores, AcksAgain, IsBlock, receiver, Expected
<1>6. CASE Listens /\ m.kind = "block" /\ m.number # Expected /\ m.number = Number(Len(stored))
  <2>1. Reply("ACK") /\ UNCHANGED receiver
    BY <1>6 DEF RxTake
  <2> QED BY <1>1, <1>6, <2>1 DEF AcksAgain, IsBlock, receiver
<1>7. CASE /\ Listens /\ m.kind \notin {"noise", "garbled", "eot"}
           /\ ~(m.kind = "block" /\ m.number \in {Expected, Number(Len(stored))})
  <2>1. Reply("CAN") /\ rx' = "cancelled" /\ UNCHANGED stored
    BY <1>7 DEF RxTake
  <2> QED BY <1>1, <1>7, <2>1 DEF Refuses, Reply
<1> QED BY <1>2, <1>3, <1>4, <1>5, <1>6, <1>7

\* What is under way when its first element is gone, or garbled.
LEMMA ArrivedTyped ==
  ASSUME TypeInv, toRx # <<>>, toRx' = Tail(toRx)
  PROVE  toRx' \in Seq(Messages) /\ Numbered'
<1>1. toRx \in Seq(Messages)
  BY MessagesTyped DEF TypeInv
<1>2. /\ toRx' \in Seq(Messages) /\ Len(toRx) \in Nat
      /\ DOMAIN toRx = 1..Len(toRx) /\ DOMAIN toRx' = 1..(Len(toRx) - 1)
      /\ \A i \in 1..(Len(toRx) - 1) : toRx'[i] = toRx[i + 1]
  BY <1>1, Popped
<1>3. \A i \in 1..(Len(toRx) - 1) : i + 1 \in 1..Len(toRx)
  BY <1>2
<1> QED BY <1>2, <1>3 DEF TypeInv, Numbered

Garbled(m) == [m EXCEPT !.kind = IF @ = "block" THEN "garbled" ELSE "noise"]

\* A garbled block, or byte, is not a block any more.
LEMMA GarbledTyped ==
  ASSUME TypeInv, toRx # <<>>
  PROVE  Garbled(Head(toRx)) \in Messages /\ ~IsBlock(Garbled(Head(toRx)))
<1>1. Head(toRx) \in Messages
  BY MessagesTyped, Popped DEF TypeInv
<1> QED BY <1>1 DEF Garbled, Messages, IsBlock

\* Those behind the garbled one stay where they are.
LEMMA GarbledOnLine ==
  ASSUME TypeInv, toRx # <<>>, toRx' = <<Garbled(Head(toRx))>> \o Tail(toRx)
  PROVE  /\ toRx' \in Seq(Messages) /\ Numbered'
         /\ Len(toRx) \in Nat /\ Len(toRx') = Len(toRx)
         /\ DOMAIN toRx = 1..Len(toRx) /\ DOMAIN toRx' = 1..Len(toRx)
         /\ ~IsBlock(toRx'[1]) /\ \A i \in 2..Len(toRx) : toRx'[i] = toRx[i]
<1>1. toRx \in Seq(Messages)
  BY MessagesTyped DEF TypeInv
<1>2. Garbled(Head(toRx)) \in Messages /\ ~IsBlock(Garbled(Head(toRx)))
  BY GarbledTyped
<1>3. /\ toRx' \in Seq(Messages)
      /\ Len(toRx) \in Nat /\ Len(toRx') = Len(toRx)
      /\ DOMAIN toRx = 1..Len(toRx) /\ DOMAIN toRx' = 1..Len(toRx)
      /\ ~IsBlock(toRx'[1]) /\ \A i \in 2..Len(toRx) : toRx'[i] = toRx[i]
  BY <1>1, <1>2, Replaced
<1>4. \A i \in DOMAIN toRx' : i = 1 \/ (i \in 2..Len(toRx) /\ i \in DOMAIN toRx)
  BY <1>3
<1> QED BY <1>3, <1>4 DEF TypeInv, Numbered

\* What the line loses and garbles keeps the types.
LEMMA LineTyped == TypeInv /\ LineFault => TypeInv'
<1> SUFFICES ASSUME TypeInv, LineFault
             PROVE  TypeInv'
  OBVIOUS
<1>1. UNCHANGED <<pc, blk, c, tries, result, rx, stored, early>>
  BY DEF LineFault, sender, receiver
<1>2. CASE LineRx
  <2>1. toRx # <<>> /\ toTx' = toTx
        /\ (toRx' = Tail(toRx) \/ toRx' = <<Garbled(Head(toRx))>> \o Tail(toRx))
    BY <1>2 DEF LineRx, Garbled
  <2>2. toRx' \in Seq(Messages) /\ Numbered'
    BY <2>1, ArrivedTyped, GarbledOnLine
  <2> QED BY <1>1, <2>1, <2>2 DEF TypeInv, TypeOK, Messages
<1>3. CASE LineTx
  <2>1. /\ toTx # <<>> /\ toRx' = toRx
        /\ toTx' = Tail(toTx) \/ toTx' = <<"noise">> \o Tail(toTx)
    BY <1>3 DEF LineTx
  <2>2. toTx \in Seq(Answers) /\ "noise" \in Answers
    BY DEF TypeInv, TypeOK, Answers
  <2>3. Tail(toTx) \in Seq(Answers) /\ <<"noise">> \o Tail(toTx) \in Seq(Answers)
    <3> HIDE DEF Answers
    <3> QED BY <2>1, <2>2, Popped, Replaced
  <2>4. toTx' \in Seq(Answers)
    BY <2>1, <2>3
  <2> QED BY <1>1, <2>1, <2>4 DEF TypeInv, TypeOK, Numbered
<1> QED BY <1>2, <1>3 DEF LineFault

\* The receiver stores blocks of the file only.
LEMMA ReceiverTyped == TypeInv /\ ReceiverStep => TypeInv'
<1> SUFFICES ASSUME TypeInv, ReceiverStep
             PROVE  TypeInv'
  OBVIOUS
<1>1. UNCHANGED <<pc, blk, c, tries, result, early>>
  BY DEF ReceiverStep, sender
<1>2. toTx \in Seq(Answers) /\ \A a \in {"C", "NAK", "CAN", "ACK"} : Append(toTx, a) \in Seq(Answers)
  BY DEF TypeInv, TypeOK, Answers
<1>3. CASE RxAsk \/ RxCancel
  <2>1. /\ \E a \in {"C", "NAK", "CAN"} : toTx' = Append(toTx, a)
        /\ rx' \in {rx, "cancelled"} /\ stored' = stored
    BY <1>3 DEF RxAsk, RxCancel, Reply, receiver
  <2>2. toRx' = toRx
    BY <1>3 DEF RxAsk, RxCancel, ReceiverStep
  <2> QED BY <1>1, <1>2, <2>1, <2>2 DEF TypeInv, TypeOK, Numbered
<1>4. CASE RxTake
  <2>1. /\ toRx # <<>> /\ toRx' = Tail(toRx)
        /\ Ignores \/ Refuses \/ AcksEnd \/ Stores \/ AcksAgain
    BY <1>4, RxTakeCases
  <2>2. toRx' \in Seq(Messages) /\ Numbered'
    BY <2>1, ArrivedTyped
  <2>3. toTx' \in Seq(Answers)
    BY <1>2, <2>1 DEF Ignores, Refuses, AcksEnd, Stores, AcksAgain, Reply, TypeInv, TypeOK
  <2>4. rx' \in {"ready", "receiving", "done", "cancelled"}
    BY <2>1 DEF Ignores, Refuses, AcksEnd, Stores, AcksAgain, TypeInv, TypeOK
  <2>5. stored' \in Seq(1..Blocks)
    <3>1. CASE Stores
      <4>1. Head(toRx).n \in 1..Blocks
        <5>1. toRx \in Seq(Messages)
          BY MessagesTyped DEF TypeInv
        <5>2. Head(toRx) = toRx[1] /\ 1 \in DOMAIN toRx
          BY <2>1, <5>1, Popped
        <5> QED BY <3>1, <5>2 DEF Stores, TypeInv, Numbered
      <4>2. stored \in Seq(1..Blocks)
        BY DEF TypeInv, TypeOK
      <4> QED BY <3>1, <4>1, <4>2, Pushed DEF Stores
    <3>2. CASE ~Stores
      BY <2>1, <3>2 DEF Ignores, Refuses, AcksEnd, AcksAgain, TypeInv, TypeOK
    <3> QED BY <3>1, <3>2
  <2> QED BY <1>1, <2>2, <2>3, <2>4, <2>5 DEF TypeInv, TypeOK, Messages
<1> QED BY <1>3, <1>4 DEF ReceiverStep

\* TypeInv is inductive, whatever the bounds.
LEMMA StepTyped == TypeInv /\ [Next]_vars => TypeInv'
<1>1. TypeInv /\ UNCHANGED vars => TypeInv'
  BY DEF vars, sender, receiver, TypeInv, TypeOK, Numbered
<1> QED BY <1>1, SenderTyped, ReceiverTyped, LineTyped DEF Next

\* The variables of send_xmodem_1k and what is on the line keep their types.
THEOREM TypeCorrect == Spec => []TypeOK
<1>1. TypeInv => TypeOK
  BY DEF TypeInv
<1> QED BY <1>1, InitTyped, StepTyped, PTL DEF Spec

-----------------------------------------------------------------------------
\* Blocks, bytes and answers under way are one, and one more for each premature
\* time-out: whoever sends something has taken something, or has waited in vain.
\* (A receiver that cancels does so out of turn.)
FewUnderWay == rx # "cancelled" => Len(toTx) + Len(toRx) <= 1 + early

\* Until the invitation nothing is sent, stored or acknowledged.
Uninvited ==
  pc = "invite" =>
    toRx = <<>> /\ stored = <<>> /\ \A j \in DOMAIN toTx : toTx[j] # "ACK"

\* Blocks under way are in order, and close to what the receiver has.
Ascending ==
  \A i, j \in DOMAIN toRx :
    i < j /\ IsBlock(toRx[i]) /\ IsBlock(toRx[j]) => toRx[i].n <= toRx[j].n

Near ==
  \A i \in DOMAIN toRx :
    IsBlock(toRx[i]) =>
      Len(stored) <= toRx[i].n /\ toRx[i].n <= Len(stored) + 1 + early

\* A block the sender is past has as many messages behind it, at least, as it
\* is past it.
Behind ==
  pc = "block" =>
    \A i \in DOMAIN toRx :
      /\ toRx[i].kind # "eot"
      /\ IsBlock(toRx[i]) => toRx[i].n <= blk /\ blk - toRx[i].n <= Len(toRx) - i

\* The sender is ahead by premature time-outs only, and stays so when the
\* acknowledgements under way arrive.
Ahead ==
  pc = "block" =>
    /\ Len(stored) <= blk
    /\ blk - 1 <= Len(stored) + early
    /\ \A j \in DOMAIN toTx : toTx[j] = "ACK" => blk - 1 + j <= Len(stored) + early

Complete == pc = "eot" \/ result = 0 => Len(stored) + early >= Blocks

\* What is stored is a prefix of the file, and the rest that makes it so.
Inv ==
  /\ TypeInv
  /\ StoresPrefix
  /\ FewUnderWay
  /\ Uninvited
  /\ Ascending /\ Near
  /\ Behind
  /\ Ahead
  /\ Complete

\* What TypeInv says of lengths and numbers.
LEMMA Typed ==
  ASSUME TypeInv
  PROVE  /\ toRx \in Seq(Messages) /\ toTx \in Seq(Answers)
         /\ Len(toRx) \in Nat /\ Len(toTx) \in Nat /\ Len(stored) \in Nat
         /\ DOMAIN toRx = 1..Len(toRx) /\ DOMAIN toTx = 1..Len(toTx)
         /\ DOMAIN stored = 1..Len(stored)
         /\ early \in Nat /\ early <= MaxEarly /\ blk \in Nat /\ blk >= 1 /\ blk <= Blocks
         /\ Blocks \in Nat /\ Blocks >= 1 /\ MaxEarly \in Nat /\ BlkMod \in Nat
         /\ \A i \in DOMAIN toRx : IsBlock(toRx[i]) => toRx[i].n \in Nat
<1>1. toRx \in Seq(Messages) /\ toTx \in Seq(Answers) /\ stored \in Seq(1..Blocks)
  BY MessagesTyped DEF TypeInv, TypeOK
<1>2. Blocks \in Nat /\ Blocks >= 1 /\ MaxEarly \in Nat /\ BlkMod \in Nat
  BY XmodemAssumption DEF XmodemAssumption
<1>3. /\ Len(toRx) \in Nat /\ Len(toTx) \in Nat /\ Len(stored) \in Nat
      /\ DOMAIN toRx = 1..Len(toRx) /\ DOMAIN toTx = 1..Len(toTx)
      /\ DOMAIN stored = 1..Len(stored)
  BY <1>1
<1>4. /\ early \in Nat /\ early <= MaxEarly /\ blk \in Nat /\ blk >= 1 /\ blk <= Blocks
  BY <1>2 DEF TypeInv, TypeOK
<1>5. \A i \in DOMAIN toRx : IsBlock(toRx[i]) => toRx[i].n \in Nat
  BY <1>2 DEF TypeInv, Numbered
<1> QED BY <1>1, <1>2, <1>3, <1>4, <1>5

-----------------------------------------------------------------------------
\* The answers under way when the first of them is gone, or is garbled: no
\* acknowledgement comes later than before.
LEMMA AnswersMove ==
  ASSUME NEW s \in Seq(Answers), s # <<>>, NEW t, t \in {Tail(s), <<"noise">> \o Tail(s)}
  PROVE  /\ Len(t) \in Nat /\ Len(t) <= Len(s)
         /\ \A j \in DOMAIN t :
              t[j] = "ACK" => \E k \in DOMAIN s : s[k] = "ACK" /\ j <= k /\ j \in Nat
<1>1. CASE t = Tail(s)
  <2>1. /\ Len(s) \in Nat /\ Len(s) > 0 /\ Len(t) = Len(s) - 1
        /\ DOMAIN s = 1..Len(s) /\ DOMAIN t = 1..(Len(s) - 1)
        /\ \A i \in 1..(Len(s) - 1) : t[i] = s[i + 1]
    BY <1>1, Popped
  <2>2. \A i \in 1..(Len(s) - 1) : i + 1 \in 1..Len(s) /\ i <= i + 1 /\ i \in Nat
    BY <2>1
  <2> QED BY <2>1, <2>2, SMTT(40)
<1>2. CASE t = <<"noise">> \o Tail(s)
  <2>1. "noise" \in Answers
    BY DEF Answers
  <2>2. /\ Len(s) \in Nat /\ Len(t) = Len(s)
        /\ DOMAIN s = 1..Len(s) /\ DOMAIN t = 1..Len(s)
        /\ t[1] = "noise" /\ \A i \in 2..Len(s) : t[i] = s[i]
    BY <1>2, <2>1, Replaced
  <2>3. \A n \in Nat : \A i \in 1..n : i \in Nat /\ i <= i /\ (i = 1 \/ i \in 2..n)
    OBVIOUS
  <2>4. ASSUME NEW j \in DOMAIN t, t[j] = "ACK"
        PROVE  j \in DOMAIN s /\ s[j] = "ACK" /\ j <= j /\ j \in Nat
    <3>1. j \in 1..Len(s) /\ j # 1
      BY <2>2, <2>4
    <3>2. j \in 2..Len(s) /\ j <= j /\ j \in Nat
      BY <2>2, <2>3, <3>1
    <3> QED BY <2>2, <2>4, <3>1, <3>2
  <2>5. \A n \in Nat : n <= n
    OBVIOUS
  <2>6. Len(t) \in Nat /\ Len(t) <= Len(s)
    BY <2>2, <2>5, Zenon
  <2> QED BY <2>4, <2>6
<1> QED BY <1>1, <1>2

\* The receiver takes a message, or the line loses it: the others move up.
\* When the message was the next block, the others are of it or later.
LEMMA MessagesMoveUp ==
  ASSUME Inv, toRx # <<>>, toRx' = Tail(toRx), early' = early, Len(stored') \in Nat,
         \/ Len(stored') = Len(stored)
         \/ /\ Len(stored') = Len(stored) + 1
            /\ IsBlock(toRx[1]) /\ toRx[1].n = Len(stored) + 1
  PROVE  Ascending' /\ Near'
<1>1. /\ Len(toRx) \in Nat /\ Len(toRx) > 0
      /\ DOMAIN toRx = 1..Len(toRx) /\ DOMAIN toRx' = 1..(Len(toRx) - 1)
      /\ \A i \in 1..(Len(toRx) - 1) : toRx'[i] = toRx[i + 1]
  <2>1. toRx \in Seq(Messages)
    BY Typed DEF Inv
  <2> QED BY <2>1, Popped
<1>2. /\ early \in Nat /\ Len(stored) \in Nat
      /\ \A i \in DOMAIN toRx : IsBlock(toRx[i]) => toRx[i].n \in Nat
  BY Typed DEF Inv
<1>3. \A i \in 1..(Len(toRx) - 1) : i + 1 \in 1..Len(toRx) /\ 1 < i + 1 /\ 1 \in 1..Len(toRx)
  BY <1>1
<1>4. \A i, j \in 1..(Len(toRx) - 1) : i < j => i + 1 < j + 1
  BY <1>1
<1>5. Ascending'
  BY <1>1, <1>3, <1>4 DEF Inv, Ascending
<1>6. Near'
  <2> SUFFICES ASSUME NEW i \in 1..(Len(toRx) - 1), IsBlock(toRx[i + 1])
               PROVE  /\ Len(stored') <= toRx[i + 1].n
                      /\ toRx[i + 1].n <= Len(stored') + 1 + early
    BY <1>1 DEF Near
  <2>1. /\ Len(stored) <= toRx[i + 1].n /\ toRx[i + 1].n <= Len(stored) + 1 + early
        /\ toRx[i + 1].n \in Nat
    BY <1>1, <1>2, <1>3 DEF Inv, Near
  <2>2. IsBlock(toRx[1]) => toRx[1].n <= toRx[i + 1].n
    BY <1>1, <1>3 DEF Inv, Ascending
  <2> QED BY <1>2, <2>1, <2>2
<1> QED BY <1>5, <1>6

\* The message in front is gone: those behind the others are as many as before.
LEMMA BehindMovesUp ==
  ASSUME Inv, toRx # <<>>, toRx' = Tail(toRx), pc' = pc, blk' = blk
  PROVE  Behind' /\ Len(toRx') = Len(toRx) - 1
<1>1. /\ Len(toRx) \in Nat /\ Len(toRx) > 0 /\ Len(toRx') = Len(toRx) - 1
      /\ DOMAIN toRx = 1..Len(toRx) /\ DOMAIN toRx' = 1..(Len(toRx) - 1)
      /\ \A i \in 1..(Len(toRx) - 1) : toRx'[i] = toRx[i + 1]
  <2>1. toRx \in Seq(Messages)
    BY Typed DEF Inv
  <2> QED BY <2>1, Popped
<1>2. \A i \in 1..(Len(toRx) - 1) : i + 1 \in 1..Len(toRx) /\ Len(toRx) - (i + 1) = Len(toRx) - 1 - i
  BY <1>1
<1> QED BY <1>1, <1>2 DEF Inv, Behind

-----------------------------------------------------------------------------
\* The sender writes a message: a byte, or a block no earlier than those
\* under way and not too far ahead.
LEMMA MessageWritten ==
  ASSUME Inv, NEW m \in Messages, Write(m), stored' = stored,
         early' \in Nat, early <= early',
         IsBlock(m) =>
           /\ Len(stored) <= m.n /\ m.n <= Len(stored) + 1 + early'
           /\ \A i \in DOMAIN toRx : IsBlock(toRx[i]) => toRx[i].n <= m.n
  PROVE  /\ Ascending' /\ Near'
         /\ Len(toRx) \in Nat /\ Len(toRx') = Len(toRx) + 1
         /\ DOMAIN toRx = 1..Len(toRx) /\ DOMAIN toRx' = 1..(Len(toRx) + 1)
         /\ \A i \in 1..Len(toRx) : toRx'[i] = toRx[i]
         /\ toRx'[Len(toRx) + 1] = m
<1>1. /\ Len(toRx) \in Nat /\ Len(toRx') = Len(toRx) + 1
      /\ DOMAIN toRx = 1..Len(toRx) /\ DOMAIN toRx' = 1..(Len(toRx) + 1)
      /\ \A i \in 1..Len(toRx) : toRx'[i] = toRx[i]
      /\ toRx'[Len(toRx) + 1] = m
  <2>1. toRx \in Seq(Messages) /\ toRx' = Append(toRx, m)
    BY Typed DEF Inv, Write
  <2> QED BY <2>1, Pushed
<1>2. /\ early \in Nat /\ Len(stored) \in Nat
      /\ \A i \in DOMAIN toRx : IsBlock(toRx[i]) => toRx[i].n \in Nat
  BY Typed DEF Inv
<1>3. \A i \in 1..(Len(toRx) + 1) : i \in 1..Len(toRx) \/ i = Len(toRx) + 1
  BY <1>1
<1>4. Ascending'
  <2> SUFFICES ASSUME NEW i \in 1..(Len(toRx) + 1), NEW j \in 1..(Len(toRx) + 1), i < j,
                      IsBlock(toRx'[i]), IsBlock(toRx'[j])
               PROVE  toRx'[i].n <= toRx'[j].n
    BY <1>1 DEF Ascending
  <2>1. i \in 1..Len(toRx)
    BY <1>1
  <2>2. CASE j \in 1..Len(toRx)
    BY <1>1, <2>1, <2>2 DEF Inv, Ascending
  <2>3. CASE j = Len(toRx) + 1
    BY <1>1, <2>1, <2>3
  <2> QED BY <1>3, <2>2, <2>3
<1>5. Near'
  <2> SUFFICES ASSUME NEW i \in 1..(Len(toRx) + 1), IsBlock(toRx'[i])
               PROVE  Len(stored) <= toRx'[i].n /\ toRx'[i].n <= Len(stored) + 1 + early'
    BY <1>1 DEF Near
  <2>1. CASE i \in 1..Len(toRx)
    <3>1. /\ Len(stored) <= toRx[i].n /\ toRx[i].n <= Len(stored) + 1 + early
          /\ toRx[i].n \in Nat /\ toRx'[i] = toRx[i]
      BY <1>1, <1>2, <2>1 DEF Inv, Near
    <3> QED BY <1>2, <3>1
  <2>2. CASE i = Len(toRx) + 1
    BY <1>1, <2>2
  <2> QED BY <1>3, <2>1, <2>2
<1> QED BY <1>1, <1>4, <1>5

\* From a block the sender goes on to the next, or repeats it.
LEMMA SendFromKept ==
  ASSUME Inv, pc = "block", TypeInv', NEW n \in {blk, blk + 1}, SendFrom(n),
         rx' = rx, stored' = stored, early' \in Nat, early <= early', Len(toTx') \in Nat,
         rx # "cancelled" => Len(toTx') + Len(toRx) <= early',
         n - 1 <= Len(stored) + early',
         \A j \in DOMAIN toTx' : toTx'[j] = "ACK" => n - 1 + j <= Len(stored) + early'
  PROVE  Inv'
<1>1. /\ Len(toRx) \in Nat /\ Len(stored) \in Nat /\ early \in Nat
      /\ blk \in Nat /\ blk >= 1 /\ blk <= Blocks /\ Blocks \in Nat
      /\ \A i \in DOMAIN toRx : IsBlock(toRx[i]) => toRx[i].n \in Nat
  BY Typed DEF Inv
<1>2. n \in Nat /\ blk <= n /\ n <= blk + 1 /\ Len(stored) <= n
  BY <1>1 DEF Inv, Ahead
<1>3. \A i \in DOMAIN toRx :
        /\ toRx[i].kind # "eot"
        /\ IsBlock(toRx[i]) => toRx[i].n <= blk /\ blk - toRx[i].n <= Len(toRx) - i
  BY DEF Inv, Behind
<1>4. \A i \in DOMAIN toRx : IsBlock(toRx[i]) => toRx[i].n <= n
  BY <1>1, <1>2, <1>3
<1>5. StoresPrefix' /\ Uninvited' /\ pc' \in {"block", "eot"} /\ result' = result
  BY DEF Inv, StoresPrefix, SendFrom, Uninvited
<1>6. ASSUME NEW m \in Messages, Write(m), IsBlock(m) => m.n = n
      PROVE  /\ Ascending' /\ Near' /\ FewUnderWay'
             /\ Len(toRx) \in Nat /\ Len(toRx') = Len(toRx) + 1
             /\ DOMAIN toRx = 1..Len(toRx) /\ DOMAIN toRx' = 1..(Len(toRx) + 1)
             /\ \A i \in 1..Len(toRx) : toRx'[i] = toRx[i]
             /\ toRx'[Len(toRx) + 1] = m
  <2>1. n <= Len(stored) + 1 + early'
    BY <1>1, <1>2
  <2>2. /\ Ascending' /\ Near'
        /\ Len(toRx) \in Nat /\ Len(toRx') = Len(toRx) + 1
        /\ DOMAIN toRx = 1..Len(toRx) /\ DOMAIN toRx' = 1..(Len(toRx) + 1)
        /\ \A i \in 1..Len(toRx) : toRx'[i] = toRx[i]
        /\ toRx'[Len(toRx) + 1] = m
    BY <1>2, <1>4, <1>6, <2>1, MessageWritten
  <2>3. FewUnderWay'
    BY <2>2 DEF FewUnderWay
  <2> QED BY <2>2, <2>3
<1>7. CASE n <= Blocks
  <2>1. Write(Block(n, n)) /\ pc' = "block" /\ blk' = n /\ UNCHANGED <<c, tries, result>>
    BY <1>7 DEF SendFrom
  <2> DEFINE m == Block(n, n)
  <2>2. m \in Messages /\ IsBlock(m) /\ m.n = n /\ m.kind = "block"
    BY <1>1, <1>2, <1>7, BlockSent DEF IsBlock
  <2> HIDE DEF m
  <2>3. /\ Ascending' /\ Near' /\ FewUnderWay'
        /\ Len(toRx') = Len(toRx) + 1
        /\ DOMAIN toRx = 1..Len(toRx) /\ DOMAIN toRx' = 1..(Len(toRx) + 1)
        /\ \A i \in 1..Len(toRx) : toRx'[i] = toRx[i]
        /\ toRx'[Len(toRx) + 1] = m
    BY <1>6, <2>1, <2>2 DEF m
  <2>4. Behind'
    <3> SUFFICES ASSUME NEW i \in 1..(Len(toRx) + 1)
                 PROVE  /\ toRx'[i].kind # "eot"
                        /\ IsBlock(toRx'[i]) =>
                             toRx'[i].n <= n /\ n - toRx'[i].n <= Len(toRx) + 1 - i
      BY <2>1, <2>3 DEF Behind
    <3>1. CASE i \in 1..Len(toRx)
      <4>1. toRx'[i] = toRx[i] /\ toRx[i].kind # "eot"
        BY <1>3, <2>3, <3>1
      <4>2. IsBlock(toRx[i]) =>
              toRx[i].n \in Nat /\ toRx[i].n <= blk /\ blk - toRx[i].n <= Len(toRx) - i
        <5>1. i \in DOMAIN toRx
          BY <2>3, <3>1
        <5> QED BY <1>1, <1>3, <5>1
      <4>3. \A x, k, l \in Nat : x <= blk /\ blk - x <= l - k => x <= n /\ n - x <= l + 1 - k
        BY <1>1, <1>2
      <4>4. i \in Nat
        BY <1>1
      <4>5. IsBlock(toRx[i]) => toRx[i].n <= n /\ n - toRx[i].n <= Len(toRx) + 1 - i
        BY <1>1, <4>2, <4>3, <4>4
      <4> QED BY <4>1, <4>5, Zenon
    <3>2. CASE i = Len(toRx) + 1
      BY <1>1, <1>2, <2>2, <2>3, <3>2
    <3> QED BY <1>1, <3>1, <3>2
  <2>5. Ahead'
    BY <1>2, <2>1 DEF Ahead
  <2>6. Complete'
    BY <1>1, <1>5, <2>1 DEF Inv, Complete
  <2> QED BY <1>5, <2>3, <2>4, <2>5, <2>6 DEF Inv
<1>8. CASE ~(n <= Blocks)
  <2>1. Write(Byte(c)) /\ pc' = "eot" /\ tries' = 1 /\ UNCHANGED <<blk, c, result>>
    BY <1>8 DEF SendFrom
  <2>2. Ascending' /\ Near' /\ FewUnderWay'
    BY <1>6, <2>1, ByteSent
  <2>3. Behind' /\ Ahead'
    BY <2>1 DEF Behind, Ahead
  <2>4. Complete'
    BY <1>1, <1>2, <1>8 DEF Complete
  <2> QED BY <1>5, <2>2, <2>3, <2>4 DEF Inv
<1> QED BY <1>7, <1>8

\* The sender reads an answer: no acknowledgement comes later than before.
LEMMA AnswerRead ==
  ASSUME Inv, Read
  PROVE  /\ rx' = rx /\ stored' = stored /\ early' = early
         /\ toTx # <<>> /\ Len(toTx') \in Nat /\ Len(toTx') = Len(toTx) - 1
         /\ Answer = toTx[1] /\ 1 \in DOMAIN toTx
         /\ \A j \in DOMAIN toTx' : j \in Nat /\ j + 1 \in DOMAIN toTx /\ toTx'[j] = toTx[j + 1]
<1>1. toTx \in Seq(Answers)
  BY Typed DEF Inv
<1>2. toTx # <<>> /\ toTx' = Tail(toTx) /\ rx' = rx /\ stored' = stored /\ early' = early
  BY DEF Read, receiver
<1>3. /\ Head(toTx) = toTx[1] /\ Len(toTx) \in Nat /\ Len(toTx) > 0
      /\ Len(toTx') = Len(toTx) - 1
      /\ DOMAIN toTx = 1..Len(toTx) /\ DOMAIN toTx' = 1..(Len(toTx) - 1)
      /\ \A i \in 1..(Len(toTx) - 1) : toTx'[i] = toTx[i + 1]
  BY <1>1, <1>2, Popped
<1>4. \A n \in Nat : \A j \in 1..(n - 1) : j \in Nat /\ j + 1 \in 1..n
  OBVIOUS
<1> QED BY <1>2, <1>3, <1>4 DEF Answer

\* After a read or a time-out there is room for a message of the sender.
LEMMA AnswerOrTimeout ==
  ASSUME Inv, Read \/ Expire
  PROVE  /\ rx' = rx /\ stored' = stored /\ early' \in Nat /\ early <= early'
         /\ Len(toTx') \in Nat
         /\ rx # "cancelled" => Len(toTx') + Len(toRx) <= early'
         /\ \A j \in DOMAIN toTx' : toTx'[j] = "ACK" =>
              j \in Nat /\ \E k \in DOMAIN toTx : toTx[k] = "ACK" /\ j <= k
<1>1. /\ early \in Nat /\ Len(toTx) \in Nat /\ Len(toRx) \in Nat
      /\ DOMAIN toTx = 1..Len(toTx)
  BY Typed DEF Inv
<1>2. CASE Read
  <2>1. /\ rx' = rx /\ stored' = stored /\ early' = early
        /\ Len(toTx') \in Nat /\ Len(toTx') = Len(toTx) - 1
        /\ \A j \in DOMAIN toTx' : j \in Nat /\ j + 1 \in DOMAIN toTx /\ toTx'[j] = toTx[j + 1]
    BY <1>2, AnswerRead
  <2>2. rx # "cancelled" => Len(toTx') + Len(toRx) <= early'
    BY <1>1, <2>1 DEF Inv, FewUnderWay
  <2>3. ASSUME NEW j \in DOMAIN toTx', toTx'[j] = "ACK"
        PROVE  j \in Nat /\ \E k \in DOMAIN toTx : toTx[k] = "ACK" /\ j <= k
    <3>1. j \in Nat /\ j + 1 \in DOMAIN toTx /\ toTx[j + 1] = "ACK"
      BY <2>1, <2>3
    <3>2. j <= j + 1
      BY <3>1
    <3> QED BY <3>1, <3>2
  <2> QED BY <1>1, <2>1, <2>2, <2>3
<1>3. CASE Expire
  <2>1. toTx' = toTx /\ rx' = rx /\ stored' = stored
    BY <1>3 DEF Expire, receiver
  <2>2. \/ toRx = <<>> /\ toTx = <<>> /\ early' = early
        \/ early' = early + 1
    BY <1>3 DEF Expire, Quiet
  <2>3. rx # "cancelled" => Len(toTx') + Len(toRx) <= early'
    BY <1>1, <2>1, <2>2 DEF Inv, FewUnderWay
  <2>4. \A j \in DOMAIN toTx : j \in Nat /\ j <= j
    BY <1>1
  <2> QED BY <1>1, <2>1, <2>2, <2>3, <2>4
<1> QED BY <1>2, <1>3

\* The sender stops: what is under way stays.
LEMMA EndKept ==
  ASSUME Inv, TypeInv', Read \/ Expire, NEW status, End(status),
         status = 0 => Len(stored) + early >= Blocks
  PROVE  Inv'
<1>1. /\ rx' = rx /\ stored' = stored /\ early' \in Nat /\ early <= early'
      /\ Len(toTx') \in Nat
      /\ rx # "cancelled" => Len(toTx') + Len(toRx) <= early'
  BY AnswerOrTimeout
<1>2. pc' = "ended" /\ result' = status /\ toRx' = toRx
  BY DEF End
<1>3. /\ Len(toRx) \in Nat /\ Len(stored) \in Nat /\ early \in Nat /\ Blocks \in Nat
      /\ \A i \in DOMAIN toRx : IsBlock(toRx[i]) => toRx[i].n \in Nat
  BY Typed DEF Inv
<1>4. FewUnderWay'
  BY <1>1, <1>2, <1>3 DEF FewUnderWay
<1>5. Near'
  <2>1. \A x \in Nat : x <= Len(stored) + 1 + early => x <= Len(stored) + 1 + early'
    BY <1>1, <1>3
  <2> QED BY <1>1, <1>2, <1>3, <2>1 DEF Inv, Near
<1>6. Complete'
  BY <1>1, <1>2, <1>3 DEF Complete
<1> QED BY <1>1, <1>2, <1>4, <1>5, <1>6 DEF Inv, StoresPrefix, Uninvited, Ascending, Behind, Ahead

\* Every step of wait_receiver and send_xmodem_1k keeps Inv.
LEMMA SenderKept ==
  ASSUME Inv, SenderStep
  PROVE  Inv'
<1>1. TypeInv'
  BY SenderTyped DEF Inv
<1>2. /\ Len(toRx) \in Nat /\ Len(stored) \in Nat /\ early \in Nat /\ Len(toTx) \in Nat
      /\ blk \in Nat /\ blk >= 1 /\ Blocks \in Nat /\ Blocks >= 1
      /\ DOMAIN toTx = 1..Len(toTx)
  BY Typed DEF Inv
<1>3. CASE Invited
  <2>1. /\ pc = "invite" /\ Read /\ SendFrom(1)
        /\ toRx = <<>> /\ stored = <<>> /\ \A j \in DOMAIN toTx : toTx[j] # "ACK"
    BY <1>3 DEF Invited, Inv, Uninvited
  <2>2. /\ rx' = rx /\ stored' = <<>> /\ early' = early
        /\ Len(toTx') \in Nat /\ Len(toTx') = Len(toTx) - 1
        /\ \A j \in DOMAIN toTx' : toTx'[j] # "ACK"
    BY <2>1, AnswerRead
  <2>3. Write(Block(1, 1)) /\ pc' = "block" /\ blk' = 1 /\ result' = result
    BY <1>2, <2>1 DEF SendFrom
  <2> DEFINE m == Block(1, 1)
  <2>4. m \in Messages /\ m.n = 1 /\ m.kind = "block"
    BY <1>2, BlockSent DEF IsBlock
  <2> HIDE DEF m
  <2>5. toRx' = <<m>>
    BY <2>1, <2>3 DEF Write, m
  <2>6. Len(toRx') = 1 /\ DOMAIN toRx' = {1} /\ toRx'[1] = m /\ Len(stored) = 0 /\ Len(toRx) = 0
    BY <2>1, <2>5
  <2>7. FewUnderWay'
    BY <1>2, <2>2, <2>6 DEF Inv, FewUnderWay
  <2>8. Ascending' /\ Near'
    BY <1>2, <2>1, <2>2, <2>4, <2>6 DEF Ascending, Near
  <2>9. Behind' /\ Ahead'
    BY <1>2, <2>1, <2>2, <2>3, <2>4, <2>6 DEF Behind, Ahead
  <2>10. Complete' /\ Uninvited' /\ StoresPrefix'
    BY <2>1, <2>2, <2>3 DEF Inv, Complete, Uninvited, StoresPrefix
  <2> QED BY <1>1, <2>7, <2>8, <2>9, <2>10 DEF Inv
<1>4. CASE Echo
  <2>1. pc = "invite" /\ Read /\ UNCHANGED <<pc, blk, result, toRx>>
    BY <1>4 DEF Echo, sender
  <2>2. /\ rx' = rx /\ stored' = stored /\ early' = early
        /\ Len(toTx') \in Nat /\ Len(toTx') = Len(toTx) - 1
        /\ \A j \in DOMAIN toTx' : j + 1 \in DOMAIN toTx /\ toTx'[j] = toTx[j + 1]
    BY <2>1, AnswerRead
  <2>3. FewUnderWay'
    BY <1>2, <2>1, <2>2 DEF Inv, FewUnderWay
  <2>4. Uninvited'
    BY <2>1, <2>2 DEF Inv, Uninvited
  <2> QED BY <1>1, <2>1, <2>2, <2>3, <2>4
          DEF Inv, StoresPrefix, Ascending, Near, Behind, Ahead, Complete
<1>5. CASE NotInvited \/ Cancelled \/ GivesUp
  <2>1. (Read \/ Expire) /\ End(1)
    BY <1>5 DEF NotInvited, Cancelled, GivesUp
  <2> QED BY <1>1, <2>1, EndKept
<1>6. CASE Finished
  <2>1. Read /\ End(0) /\ pc = "eot"
    BY <1>6 DEF Finished
  <2> QED BY <1>1, <2>1, EndKept DEF Inv, Complete
<1>7. CASE Acked
  <2>1. pc = "block" /\ Read /\ Answer = "ACK" /\ SendFrom(blk + 1)
    BY <1>7 DEF Acked
  <2>2. /\ rx' = rx /\ stored' = stored /\ early' = early
        /\ Len(toTx') \in Nat /\ Len(toTx') = Len(toTx) - 1
        /\ toTx[1] = "ACK" /\ 1 \in DOMAIN toTx
        /\ \A j \in DOMAIN toTx' : j \in Nat /\ j + 1 \in DOMAIN toTx /\ toTx'[j] = toTx[j + 1]
    BY <2>1, AnswerRead
  <2>3. \A j \in DOMAIN toTx : toTx[j] = "ACK" => blk - 1 + j <= Len(stored) + early
    BY <2>1 DEF Inv, Ahead
  <2>4. blk <= Len(stored) + early
    BY <1>2, <2>2, <2>3
  <2>5. \A j \in DOMAIN toTx' : toTx'[j] = "ACK" => blk + j <= Len(stored) + early
    <3>1. ASSUME NEW j \in DOMAIN toTx', toTx'[j] = "ACK"
          PROVE  blk + j <= Len(stored) + early
      <4>1. j \in Nat /\ blk - 1 + (j + 1) <= Len(stored) + early
        BY <2>2, <2>3, <3>1
      <4> QED BY <1>2, <4>1
    <3> QED BY <3>1
  <2>6. rx # "cancelled" => Len(toTx') + Len(toRx) <= early'
    BY <1>2, <2>2 DEF Inv, FewUnderWay
  <2> DEFINE n == blk + 1
  <2>7. n - 1 = blk /\ n \in {blk, blk + 1}
    BY <1>2
  <2> HIDE DEF n
  <2>8. n - 1 <= Len(stored) + early' /\ early' \in Nat /\ early <= early'
    BY <1>2, <2>2, <2>4, <2>7
  <2>9. \A j \in DOMAIN toTx' : toTx'[j] = "ACK" => n - 1 + j <= Len(stored) + early'
    BY <2>2, <2>5, <2>7
  <2>10. SendFrom(n)
    BY <2>1 DEF n
  <2> QED BY <1>1, <2>1, <2>2, <2>6, <2>7, <2>8, <2>9, <2>10, SendFromKept
<1>8. CASE Resend
  <2>1. pc = "block" /\ (Read \/ Expire) /\ SendFrom(blk)
    BY <1>8 DEF Resend
  <2>2. /\ rx' = rx /\ stored' = stored /\ early' \in Nat /\ early <= early'
        /\ Len(toTx') \in Nat
        /\ rx # "cancelled" => Len(toTx') + Len(toRx) <= early'
        /\ \A j \in DOMAIN toTx' : toTx'[j] = "ACK" =>
             j \in Nat /\ \E k \in DOMAIN toTx : toTx[k] = "ACK" /\ j <= k
    BY <2>1, AnswerOrTimeout
  <2>3. blk - 1 <= Len(stored) + early'
    BY <1>2, <2>1, <2>2 DEF Inv, Ahead
  <2>4. ASSUME NEW j \in DOMAIN toTx', toTx'[j] = "ACK"
        PROVE  blk - 1 + j <= Len(stored) + early'
    <3>1. PICK k \in DOMAIN toTx : toTx[k] = "ACK" /\ j <= k /\ j \in Nat
      BY <2>2, <2>4
    <3>2. k \in Nat /\ blk - 1 + k <= Len(stored) + early
      BY <1>2, <2>1, <3>1 DEF Inv, Ahead
    <3> QED BY <1>2, <2>2, <3>1, <3>2
  <2> QED BY <1>1, <2>1, <2>2, <2>3, <2>4, SendFromKept
<1>9. CASE EotAgain
  <2>1. /\ pc = "eot" /\ (Read \/ Expire) /\ Write(Byte(c')) /\ UNCHANGED <<pc, blk, result>>
    BY <1>9 DEF EotAgain
  <2>2. /\ rx' = rx /\ stored' = stored /\ early' \in Nat /\ early <= early'
        /\ Len(toTx') \in Nat
        /\ rx # "cancelled" => Len(toTx') + Len(toRx) <= early'
    BY <2>1, AnswerOrTimeout
  <2>3. Ascending' /\ Near' /\ Len(toRx') = Len(toRx) + 1
    BY <2>1, <2>2, ByteSent, MessageWritten
  <2>4. FewUnderWay'
    BY <1>2, <2>2, <2>3 DEF FewUnderWay
  <2>5. Complete'
    BY <1>2, <2>1, <2>2 DEF Inv, Complete
  <2> QED BY <1>1, <2>1, <2>2, <2>3, <2>4, <2>5 DEF Inv, StoresPrefix, Uninvited, Behind, Ahead
<1> QED BY <1>3, <1>4, <1>5, <1>6, <1>7, <1>8, <1>9 DEF SenderStep

-----------------------------------------------------------------------------
\* The receiver is not deceived by its numbers: with fewer premature time-outs
\* than numbers, the block it takes for the next one is the next one, and the
\* block it takes for a repeated one is the last one.
LEMMA NumbersTell ==
  ASSUME Inv, MaxEarly + 1 < BlkMod, toRx # <<>>, IsBlock(Head(toRx))
  PROVE  /\ Head(toRx) = toRx[1] /\ 1 \in DOMAIN toRx
         /\ Head(toRx).number = Number(Len(stored) + 1) => toRx[1].n = Len(stored) + 1
         /\ Head(toRx).number = Number(Len(stored)) => toRx[1].n = Len(stored)
<1>1. Head(toRx) = toRx[1] /\ 1 \in DOMAIN toRx
  <2>1. toRx \in Seq(Messages)
    BY Typed DEF Inv
  <2> QED BY <2>1, Popped
<1>2. /\ Len(stored) \in Nat /\ early \in Nat /\ early <= MaxEarly
      /\ MaxEarly \in Nat /\ BlkMod \in Nat /\ toRx[1].n \in Nat
  BY <1>1, Typed DEF Inv
<1>3. PICK n \in Nat : n = toRx[1].n
  BY <1>2
<1>4. Len(stored) <= n /\ n <= Len(stored) + 1 + early /\ toRx[1].number = Number(n)
  BY <1>1, <1>3 DEF Inv, Near, TypeInv, Numbered
<1>5. PICK l \in Nat : l = Len(stored)
  BY <1>2
<1>6. l + 1 \in Nat /\ l <= n /\ n <= l + 1 + early /\ (l + 1 <= n \/ n = l)
  BY <1>2, <1>4, <1>5
<1>7. ASSUME Number(n) = Number(l + 1)
      PROVE  n = l + 1
  <2>1. n - (l + 1) < BlkMod /\ (l + 1) - l < BlkMod
    BY <1>2, <1>6
  <2>2. CASE l + 1 <= n
    BY <1>6, <1>7, <2>1, <2>2, NumbersDiffer
  <2>3. CASE n = l
    <3>1. l <= l + 1
      OBVIOUS
    <3>2. l = l + 1
      BY <1>6, <1>7, <2>1, <2>3, <3>1, NumbersDiffer
    <3> QED BY <3>2
  <2> QED BY <1>6, <2>2, <2>3
<1>8. ASSUME Number(n) = Number(l)
      PROVE  n = l
  <2>1. n - l < BlkMod
    BY <1>2, <1>6
  <2> QED BY <1>6, <1>8, <2>1, NumbersDiffer
<1> QED BY <1>1, <1>3, <1>4, <1>5, <1>7, <1>8

\* An acknowledgement is sent for the block at the head: it is the last of
\* the answers under way, and the sender is no further past the block than
\* messages are behind it.
LEMMA BlockAcked ==
  ASSUME Inv, pc = "block", Listens, toRx # <<>>, IsBlock(toRx[1]), 1 \in DOMAIN toRx
  PROVE  toRx[1].n <= blk /\ blk + Len(toTx) <= toRx[1].n + early
<1>1. /\ Len(toRx) \in Nat /\ Len(toTx) \in Nat /\ early \in Nat /\ blk \in Nat
      /\ toRx[1].n \in Nat
  BY Typed DEF Inv
<1>2. toRx[1].n <= blk /\ blk - toRx[1].n <= Len(toRx) - 1
  BY DEF Inv, Behind
<1>3. Len(toTx) + Len(toRx) <= 1 + early
  BY DEF Inv, FewUnderWay, Listens
<1>4. \A n, b, x, y, e \in Nat : b - n <= x - 1 /\ y + x <= 1 + e => b + y <= n + e
  OBVIOUS
<1> QED BY <1>1, <1>2, <1>3, <1>4

\* The receiver answers: what is under way grows by the answer.
LEMMA AnswerSent ==
  ASSUME Inv, NEW a \in Answers, toTx' = Append(toTx, a)
  PROVE  /\ Len(toTx) \in Nat /\ Len(toTx') = Len(toTx) + 1
         /\ \A j \in DOMAIN toTx' :
              (j \in DOMAIN toTx /\ toTx'[j] = toTx[j]) \/ (j = Len(toTx) + 1 /\ toTx'[j] = a)
<1>1. /\ Len(toTx) \in Nat /\ Len(toTx') = Len(toTx) + 1
      /\ DOMAIN toTx = 1..Len(toTx) /\ DOMAIN toTx' = 1..(Len(toTx) + 1)
      /\ \A i \in 1..Len(toTx) : toTx'[i] = toTx[i]
      /\ toTx'[Len(toTx) + 1] = a
  <2>1. toTx \in Seq(Answers)
    BY Typed DEF Inv
  <2> HIDE DEF Answers
  <2> QED BY <2>1, Pushed
<1>2. \A n \in Nat : \A j \in 1..(n + 1) : j \in 1..n \/ j = n + 1
  OBVIOUS
<1> QED BY <1>1, <1>2

\* What the receiver makes of a message keeps Inv: here the numbers must tell
\* blocks apart.
LEMMA RxTakeKept ==
  ASSUME Inv, MaxEarly + 1 < BlkMod, RxTake, UNCHANGED <<sender, early>>, TypeInv'
  PROVE  Inv'
<1>1. /\ toRx # <<>> /\ toRx' = Tail(toRx)
      /\ Ignores \/ Refuses \/ AcksEnd \/ Stores \/ AcksAgain
  BY RxTakeCases
<1>2. UNCHANGED <<pc, blk, result, early>>
  BY DEF sender
<1>3. /\ Len(toRx) \in Nat /\ Len(toTx) \in Nat /\ Len(stored) \in Nat
      /\ early \in Nat /\ blk \in Nat /\ Blocks \in Nat /\ DOMAIN toTx = 1..Len(toTx)
      /\ DOMAIN stored = 1..Len(stored)
  BY Typed DEF Inv
<1>4. Behind' /\ Len(toRx') = Len(toRx) - 1
  BY <1>1, <1>2, BehindMovesUp
<1>5. pc # "invite"
  BY <1>1 DEF Inv, Uninvited
<1>6. \A a \in {"NAK", "CAN", "ACK"} : a \in Answers
  BY DEF Answers
<1>7. FewUnderWay'
  <2>1. CASE toTx' = toTx /\ rx' = rx
    BY <1>2, <1>3, <1>4, <2>1 DEF Inv, FewUnderWay
  <2>2. CASE Listens /\ \E a \in Answers : toTx' = Append(toTx, a)
    <3>1. rx # "cancelled"
      BY <2>2 DEF Listens
    <3>2. Len(toTx') = Len(toTx) + 1
      BY <2>2, AnswerSent
    <3> QED BY <1>2, <1>3, <1>4, <3>1, <3>2 DEF Inv, FewUnderWay
  <2> QED BY <1>1, <1>6, <2>1, <2>2 DEF Ignores, Refuses, AcksEnd, Stores, AcksAgain, Reply
<1>8. CASE stored' = stored
  <2>1. Ascending' /\ Near'
    BY <1>1, <1>2, <1>3, <1>8, MessagesMoveUp
  <2>2. Ahead'
    <3> SUFFICES ASSUME pc = "block", NEW j \in DOMAIN toTx', toTx'[j] = "ACK"
                 PROVE  blk - 1 + j <= Len(stored) + early
      BY <1>2, <1>8 DEF Inv, Ahead
    <3>1. CASE Ignores
      BY <3>1 DEF Ignores, Inv, Ahead
    <3>2. CASE Refuses
      <4>1. PICK a \in {"NAK", "CAN"} : toTx' = Append(toTx, a)
        BY <3>2 DEF Refuses
      <4>2. j \in DOMAIN toTx /\ toTx[j] = "ACK"
        BY <1>6, <4>1, AnswerSent
      <4> QED BY <4>2 DEF Inv, Ahead
    <3>3. CASE AcksEnd
      <4>1. toRx[1].kind = "eot" /\ 1 \in DOMAIN toRx
        <5>1. toRx \in Seq(Messages)
          BY Typed DEF Inv
        <5> QED BY <1>1, <3>3, <5>1, Popped DEF AcksEnd
      <4> QED BY <4>1 DEF Inv, Behind
    <3>4. CASE AcksAgain
      <4>1. toTx' = Append(toTx, "ACK") /\ Listens /\ IsBlock(Head(toRx))
        BY <3>4 DEF AcksAgain, Reply
      <4>2. toRx[1].n = Len(stored) /\ IsBlock(toRx[1]) /\ 1 \in DOMAIN toRx
        BY <1>1, <3>4, NumbersTell DEF AcksAgain
      <4>3. blk + Len(toTx) <= Len(stored) + early
        BY <1>1, <4>1, <4>2, BlockAcked
      <4>4. CASE j \in DOMAIN toTx /\ toTx'[j] = toTx[j]
        BY <4>4 DEF Inv, Ahead
      <4>5. CASE j = Len(toTx) + 1
        BY <1>3, <4>3, <4>5
      <4> QED BY <1>6, <4>1, <4>4, <4>5, AnswerSent
    <3>5. CASE Stores
      <4>1. stored' = Append(stored, Head(toRx).n) /\ stored \in Seq(1..Blocks)
        BY <3>5 DEF Stores, Inv, TypeInv, TypeOK
      <4>2. Len(stored') = Len(stored) + 1
        BY <4>1
      <4> QED BY <1>3, <1>8, <4>2
    <3> QED BY <1>1, <3>1, <3>2, <3>3, <3>4, <3>5
  <2>3. StoresPrefix' /\ Uninvited' /\ Complete'
    BY <1>2, <1>5, <1>8 DEF Inv, StoresPrefix, Uninvited, Complete
  <2> QED BY <1>4, <1>7, <2>1, <2>2, <2>3 DEF Inv
<1>9. CASE Stores
  <2>1. /\ toRx[1].n = Len(stored) + 1 /\ IsBlock(toRx[1]) /\ 1 \in DOMAIN toRx
        /\ Head(toRx) = toRx[1]
    BY <1>1, <1>9, NumbersTell DEF Stores
  <2>2. /\ Listens /\ toTx' = Append(toTx, "ACK") /\ stored' = Append(stored, Len(stored) + 1)
    BY <1>9, <2>1 DEF Stores, Reply
  <2>3. stored \in Seq(1..Blocks) /\ StoresPrefix
    BY DEF Inv, TypeInv, TypeOK
  <2>4. Len(stored') = Len(stored) + 1 /\ StoresPrefix'
    BY <1>3, <2>2, <2>3 DEF StoresPrefix
  <2>5. Ascending' /\ Near'
    BY <1>1, <1>2, <1>3, <2>1, <2>4, MessagesMoveUp
  <2>6. Ahead'
    <3> SUFFICES ASSUME pc = "block"
                 PROVE  /\ Len(stored) + 1 <= blk
                        /\ blk - 1 <= Len(stored) + 1 + early
                        /\ \A j \in DOMAIN toTx' : toTx'[j] = "ACK" =>
                             blk - 1 + j <= Len(stored) + 1 + early
      BY <1>2, <2>4 DEF Ahead
    <3>1. Len(stored) + 1 <= blk /\ blk + Len(toTx) <= Len(stored) + 1 + early
      BY <1>1, <2>1, <2>2, BlockAcked
    <3>2. blk - 1 <= Len(stored) + 1 + early
      BY <1>3, <3>1
    <3>3. ASSUME NEW j \in DOMAIN toTx', toTx'[j] = "ACK"
          PROVE  blk - 1 + j <= Len(stored) + 1 + early
      <4>1. CASE j \in DOMAIN toTx /\ toTx'[j] = toTx[j]
        <5>1. j \in Nat /\ blk - 1 + j <= Len(stored) + early
          BY <1>3, <3>3, <4>1 DEF Inv, Ahead
        <5> QED BY <1>3, <5>1
      <4>2. CASE j = Len(toTx) + 1
        BY <1>3, <3>1, <4>2
      <4> QED BY <1>6, <2>2, <4>1, <4>2, AnswerSent
    <3> QED BY <3>1, <3>2, <3>3
  <2>7. Complete' /\ Uninvited'
    BY <1>2, <1>3, <1>5, <2>4 DEF Inv, Complete, Uninvited
  <2> QED BY <1>4, <1>7, <2>4, <2>5, <2>6, <2>7 DEF Inv
<1> QED BY <1>1, <1>8, <1>9 DEF Ignores, Refuses, AcksEnd, AcksAgain

\* The receiver asks, or cancels: neither is an acknowledgement.
LEMMA ReceiverKept ==
  ASSUME Inv, MaxEarly + 1 < BlkMod, ReceiverStep
  PROVE  Inv'
<1>1. TypeInv'
  BY ReceiverTyped DEF Inv
<1>2. UNCHANGED <<sender, early>>
  BY DEF ReceiverStep
<1>3. CASE RxTake
  BY <1>1, <1>2, <1>3, RxTakeKept
<1>4. CASE RxAsk \/ RxCancel
  <2>1. PICK a \in {"C", "NAK", "CAN"} : toTx' = Append(toTx, a)
    BY <1>4 DEF RxAsk, RxCancel, Reply
  <2>2. stored' = stored /\ toRx' = toRx
    BY <1>4 DEF RxAsk, RxCancel, receiver
  <2>3. \/ rx' = rx /\ toRx = <<>> /\ toTx = <<>>
        \/ rx' = "cancelled"
    BY <1>4 DEF RxAsk, RxCancel, Quiet, receiver
  <2>4. a \in Answers /\ a # "ACK"
    BY DEF Answers
  <2>5. /\ Len(toTx) \in Nat /\ Len(toTx') = Len(toTx) + 1
        /\ \A j \in DOMAIN toTx' : toTx'[j] = "ACK" => j \in DOMAIN toTx /\ toTx[j] = "ACK"
    BY <2>1, <2>4, AnswerSent
  <2>6. FewUnderWay'
    BY <1>2, <2>2, <2>3, <2>5, Typed DEF Inv, FewUnderWay
  <2>7. Uninvited' /\ Ahead'
    BY <1>2, <2>2, <2>5 DEF Inv, Uninvited, Ahead, sender
  <2> QED BY <1>1, <1>2, <2>2, <2>6, <2>7
          DEF Inv, StoresPrefix, Ascending, Near, Behind, Complete, sender
<1> QED BY <1>3, <1>4 DEF ReceiverStep

\* The line loses or garbles what comes next.
LEMMA LineKept ==
  ASSUME Inv, LineFault
  PROVE  Inv'
<1>1. TypeInv'
  BY LineTyped DEF Inv
<1>2. UNCHANGED <<pc, blk, result, rx, stored, early>>
  BY DEF LineFault, sender, receiver
<1>3. /\ Len(toRx) \in Nat /\ Len(toTx) \in Nat /\ Len(stored) \in Nat
      /\ early \in Nat /\ blk \in Nat /\ DOMAIN toTx = 1..Len(toTx)
  BY Typed DEF Inv
<1>4. StoresPrefix' /\ Complete'
  BY <1>2 DEF Inv, StoresPrefix, Complete
<1>5. CASE LineRx
  <2>1. toRx # <<>> /\ toTx' = toTx
    BY <1>5 DEF LineRx
  <2>2. Uninvited' /\ Ahead'
    BY <1>2, <2>1 DEF Inv, Uninvited, Ahead
  <2>3. CASE toRx' = Tail(toRx)
    <3>1. Ascending' /\ Near' /\ Behind' /\ Len(toRx') = Len(toRx) - 1
      BY <1>2, <1>3, <2>1, <2>3, MessagesMoveUp, BehindMovesUp
    <3>2. FewUnderWay'
      BY <1>2, <1>3, <2>1, <3>1 DEF Inv, FewUnderWay
    <3> QED BY <1>1, <1>4, <2>2, <3>1, <3>2 DEF Inv
  <2>4. CASE toRx' = <<Garbled(Head(toRx))>> \o Tail(toRx)
    <3>1. /\ Len(toRx') = Len(toRx)
          /\ DOMAIN toRx = 1..Len(toRx) /\ DOMAIN toRx' = 1..Len(toRx)
          /\ ~IsBlock(toRx'[1]) /\ \A i \in 2..Len(toRx) : toRx'[i] = toRx[i]
      BY <2>1, <2>4, GarbledOnLine DEF Inv
    <3>2. \A i \in 1..Len(toRx) : i = 1 \/ toRx'[i] = toRx[i]
      BY <1>3, <3>1
    <3>3. Ascending'
      BY <3>1, <3>2 DEF Inv, Ascending
    <3>4. Near'
      BY <1>2, <3>1, <3>2 DEF Inv, Near
    <3>5. toRx'[1].kind # "eot"
      <4>1. toRx'[1] = Garbled(Head(toRx))
        BY <2>4
      <4>2. Head(toRx) \in Messages
        BY <2>1, Typed, Popped DEF Inv
      <4> QED BY <4>1, <4>2 DEF Garbled, Messages
    <3>6. Behind'
      BY <1>2, <3>1, <3>2, <3>5 DEF Inv, Behind
    <3>7. FewUnderWay'
      BY <1>2, <2>1, <3>1 DEF Inv, FewUnderWay
    <3> QED BY <1>1, <1>4, <2>2, <3>3, <3>4, <3>6, <3>7 DEF Inv
  <2> QED BY <1>5, <2>3, <2>4 DEF LineRx, Garbled
<1>6. CASE LineTx
  <2>1. toTx # <<>> /\ toRx' = toRx /\ toTx' \in {Tail(toTx), <<"noise">> \o Tail(toTx)}
    BY <1>6 DEF LineTx
  <2>2. toTx \in Seq(Answers)
    BY Typed DEF Inv
  <2>3. /\ Len(toTx') \in Nat /\ Len(toTx') <= Len(toTx)
        /\ \A j \in DOMAIN toTx' :
             toTx'[j] = "ACK" => \E k \in DOMAIN toTx : toTx[k] = "ACK" /\ j <= k /\ j \in Nat
    BY <2>1, <2>2, AnswersMove
  <2>4. FewUnderWay'
    BY <1>2, <1>3, <2>1, <2>3 DEF Inv, FewUnderWay
  <2>5. Uninvited'
    BY <1>2, <2>1, <2>3 DEF Inv, Uninvited
  <2>6. Ahead'
    <3> SUFFICES ASSUME pc = "block", NEW j \in DOMAIN toTx', toTx'[j] = "ACK"
                 PROVE  blk - 1 + j <= Len(stored) + early
      BY <1>2 DEF Inv, Ahead
    <3>1. PICK k \in DOMAIN toTx : toTx[k] = "ACK" /\ j <= k /\ j \in Nat
      BY <2>3
    <3>2. k \in Nat /\ blk - 1 + k <= Len(stored) + early
      BY <1>3, <3>1 DEF Inv, Ahead
    <3> QED BY <1>3, <3>1, <3>2
  <2> QED BY <1>1, <1>2, <1>4, <2>1, <2>4, <2>5, <2>6 DEF Inv, Ascending, Near, Behind
<1> QED BY <1>5, <1>6 DEF LineFault

\* Nothing is under way, sent or stored.
LEMMA InitInv == Init => Inv
<1> SUFFICES ASSUME Init
             PROVE  Inv
  OBVIOUS
<1>1. Len(stored) = 0 /\ stored = <<>> /\ DOMAIN toTx = {} /\ DOMAIN toRx = {}
      /\ Len(toTx) = 0 /\ Len(toRx) = 0 /\ pc = "invite" /\ result = 1 /\ early = 0
  BY DEF Init
<1>2. StoresPrefix
  BY <1>1 DEF StoresPrefix
<1>3. TypeInv
  BY InitTyped
<1> QED BY <1>1, <1>2, <1>3 DEF Init, Inv, FewUnderWay, Uninvited, Ascending, Near,
          Behind, Ahead, Complete

\* Inv is inductive when the premature time-outs are few enough.
LEMMA StepInv ==
  ASSUME MaxEarly + 1 < BlkMod
  PROVE  Inv /\ [Next]_vars => Inv'
<1>1. Inv /\ UNCHANGED vars => Inv'
  BY StepTyped DEF vars, sender, receiver, Inv, StoresPrefix, FewUnderWay, Uninvited,
     Ascending, Near, Behind, Ahead, Complete
<1> QED BY <1>1, SenderKept, ReceiverKept, LineKept DEF Next

\* The receiver stores the blocks of the file in order, each once, although
\* send_xmodem_1k repeats blocks and counts them in one byte: as long as fewer
\* of its time-outs are premature than there are other block numbers.
THEOREM StoredInOrder ==
  ASSUME MaxEarly + 1 < BlkMod
  PROVE  Spec => []StoresPrefix
<1>1. Inv => StoresPrefix
  BY DEF Inv
<1> QED BY <1>1, InitInv, StepInv, PTL DEF Spec

\* send_xmodem_1k, which counts acknowledgements and does not match them to
\* blocks, is ahead of the receiver by its premature time-outs at most, also
\* when it reports success.
THEOREM CountsInStep ==
  ASSUME MaxEarly + 1 < BlkMod
  PROVE  Spec => []InStep
<1>1. Inv => InStep
  BY DEF Inv, Ahead, Complete, InStep
<1> QED BY <1>1, InitInv, StepInv, PTL DEF Spec
=============================================================================
