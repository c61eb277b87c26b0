--------------------------- MODULE MavlinkBridge ---------------------------
(***************************************************************************)
(* omega4-mavlinkd: the loop that copies what the flight controller sends  *)
(* on the UART into UDP datagrams and UDP datagrams to the UART.  Bytes    *)
(* are numbered in the order they are sent, in each direction.             *)
(***************************************************************************)
EXTENDS Integers, Sequences, FiniteSets, FiniteSetsExt

CONSTANTS
  BufSize,    \* MAVLINK_BUF_SIZE, 512
  Room,       \* bytes the driver of the UART holds for transmission
  MaxLen,     \* the largest datagram the peer sends
  MaxUp,      \* bound: bytes the flight controller sends
  MaxDown,    \* bound: bytes the peer sends
  SendMayFail \* whether sendto on the UDP socket may fail

ASSUME BridgeAssumption ==
  /\ {BufSize, Room, MaxLen, MaxUp, MaxDown} \subseteq Nat \ {0}
  /\ SendMayFail \in BOOLEAN

VARIABLES
  fromFc,  \* bytes the flight controller has sent
  read,    \* of those, bytes read from the UART
  toPeer,  \* datagrams sent to the peer: intervals of byte numbers
  unsent,  \* bytes read from the UART whose sendto failed
  sent,    \* datagrams the peer has sent
  taken,   \* of those, datagrams read from the socket
  toFc,    \* bytes accepted by the UART, in order
  held     \* of those, bytes still in the transmit buffer

vars == <<fromFc, read, toPeer, unsent, sent, taken, toFc, held>>

Init ==
  /\ fromFc = 0
  /\ read = 0
  /\ toPeer = <<>>
  /\ unsent = 0
  /\ sent = <<>>
  /\ taken = 0
  /\ toFc = <<>>
  /\ held = 0

\* Bytes the peer has sent.
Asked == IF sent = <<>> THEN 0 ELSE sent[Len(sent)].last

-----------------------------------------------------------------------------
\* The world: bytes arrive on the UART, datagrams on the socket, and the
\* UART sends what it holds at the speed of the line.
UartIn ==
  /\ fromFc < MaxUp
  /\ fromFc' = fromFc + 1
  /\ UNCHANGED <<read, toPeer, unsent, sent, taken, toFc, held>>

UdpIn ==
  /\ \E len \in 1..MaxLen :
       /\ Asked + len <= MaxDown
       /\ sent' = Append(sent, [first |-> Asked + 1, last |-> Asked + len])
  /\ UNCHANGED <<fromFc, read, toPeer, unsent, taken, toFc, held>>

UartOut ==
  /\ held > 0
  /\ held' = held - 1
  /\ UNCHANGED <<fromFc, read, toPeer, unsent, sent, taken, toFc>>

-----------------------------------------------------------------------------
\* A mistake: the whole buffer sent, not the bytes read.
SerialToUdpWhole ==
  IF read = fromFc THEN UNCHANGED <<read, toPeer, unsent>>
  ELSE /\ read' = read + Min({fromFc - read, BufSize})
       /\ toPeer' = Append(toPeer, [first |-> read + 1, last |-> read + BufSize])
       /\ UNCHANGED unsent

\* pfds[0]: read() what is there, up to the buffer, and send it as one datagram.
SerialToUdp ==
  IF read = fromFc THEN UNCHANGED <<read, toPeer, unsent>>
  ELSE LET n == Min({fromFc - read, BufSize})
       IN /\ read' = read + n
          /\ \/ /\ toPeer' = Append(toPeer, [first |-> read + 1, last |-> read + n])
                /\ UNCHANGED unsent
             \/ /\ SendMayFail
                /\ unsent' = unsent + n
                /\ UNCHANGED toPeer

\* The next datagram is taken, and the UART takes `written` bytes from the
\* one numbered `from` on.
Forward(from, written) ==
  /\ taken' = taken + 1
  /\ toFc' = toFc \o [i \in 1..written |-> from + i - 1]
  /\ held' = held + written

\* The datagram at the head of the socket, cut to the buffer by recv().
First == sent[taken + 1].first
Received == Min({sent[taken + 1].last - First + 1, BufSize})

\* A mistake: the end of a datagram sent where there is no room for all of it.
UdpToSerialTail ==
  IF taken = Len(sent) THEN UNCHANGED <<taken, toFc, held>>
  ELSE LET written == Min({Received, Room - held})
       IN Forward(First + Received - written, written)

\* pfds[1]: recv() cuts the datagram to the buffer, the non-blocking write()
\* takes what fits into the transmit buffer, and the rest is not kept.
UdpToSerial ==
  IF taken = Len(sent) THEN UNCHANGED <<taken, toFc, held>>
  ELSE Forward(First, Min({Received, Room - held}))

\* One iteration of the loop after poll.
Iterate ==
  /\ read < fromFc \/ taken < Len(sent)
  /\ SerialToUdp
  /\ UdpToSerial
  /\ UNCHANGED <<fromFc, sent>>

Next == UartIn \/ UdpIn \/ UartOut \/ Iterate

Spec == Init /\ [][Next]_vars

-----------------------------------------------------------------------------
\* Transparent towards the peer: datagrams carry bytes that were read, in
\* order and none twice, and all of them but those whose sendto failed.
NotCarried == {b \in 1..read : \A i \in DOMAIN toPeer : b \notin toPeer[i].first..toPeer[i].last}

TransparentToPeer ==
  /\ \A i, j \in DOMAIN toPeer : i < j => toPeer[i].last < toPeer[j].first
  /\ \A i \in DOMAIN toPeer : toPeer[i].first \in 1..toPeer[i].last /\ toPeer[i].last <= read
  /\ Cardinality(NotCarried) = unsent

\* What does not get through is the end of a datagram: the bytes of one that
\* reach the UART are its first ones, and datagrams are not mixed.
CutAtTheEnd ==
  \A i \in DOMAIN toFc :
    toFc[i] = (IF i = 1 THEN 1 ELSE toFc[i - 1] + 1)
    \/ \E d \in 1..taken : /\ toFc[i] = sent[d].first
                           /\ i > 1 => toFc[i - 1] < toFc[i]
=============================================================================
