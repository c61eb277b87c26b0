------------------------------- MODULE Xmodem -------------------------------
(***************************************************************************)
(* "mfg-aic-uart load": wait_receiver and send_xmodem_1k on one end of a   *)
(* serial line, an XMODEM-1K receiver (the Wi-Fi chip's boot ROM, not part *)
(* of this code) on the other.  The line loses and garbles blocks and      *)
(* answers.  A time-out of the sender is premature when something is still *)
(* on its way: a slow receiver, or a signal, since read_byte_timeout       *)
(* returns on EINTR as it does after its time.                             *)
(***************************************************************************)
EXTENDS Naturals, Sequences

CONSTANTS
  Blocks,    \* blocks of 1024 bytes in the file
  BlkMod,    \* values of the block number on the line: 2^8
  Tries,     \* times the end of the file is announced: 10
  MaxEarly   \* bound: premature time-outs in a run

ASSUME XmodemAssumption ==
  /\ Blocks \in Nat \ {0}
  /\ BlkMod \in Nat /\ BlkMod > 2
  /\ Tries \in Nat \ {0}
  /\ MaxEarly \in Nat

VARIABLES
  pc,      \* sender: "invite" (wait_receiver), "block", "eot", or "ended"
  blk,     \* the block being sent
  c,       \* what is sent at the end: EOT, or the answer that was read into it
  tries,   \* times it has been sent
  result,  \* of send_xmodem_1k or wait_receiver; 0 is followed by the jump to the image
  toRx,    \* blocks and bytes on their way to the receiver
  toTx,    \* answers on their way to the sender
  rx,      \* receiver: "ready" (it sends 'C'), "receiving", "done" or "cancelled"
  stored,  \* blocks the receiver has accepted, in order
  early    \* premature time-outs so far

sender == <<pc, blk, c, tries, result>>
receiver == <<rx, stored>>
vars == <<sender, toRx, toTx, receiver, early>>

Init ==
  /\ pc = "invite"
  /\ blk = 1
  /\ c = "EOT"
  /\ tries = 0
  /\ result = 1
  /\ toRx = <<>> /\ toTx = <<>>
  /\ rx = "ready"
  /\ stored = <<>>
  /\ early = 0

-----------------------------------------------------------------------------
Quiet == toRx = <<>> /\ toTx = <<>>

Number(n) == n % BlkMod

\* A block of the file (n) under the number of block k.
Block(k, n) == [kind |-> "block", number |-> Number(k), n |-> n]
Byte(b) == [kind |-> IF b = "EOT" THEN "eot" ELSE "noise", number |-> 0, n |-> 0]

\* write_all returns when the line has taken everything (tcdrain).
Write(m) == toRx' = Append(toRx, m)

\* What is written once n - 1 blocks are acknowledged, and the state it leaves.
SendFrom(n) ==
  IF n <= Blocks
  THEN pc' = "block" /\ blk' = n /\ Write(Block(n, n)) /\ UNCHANGED <<c, tries, result>>
  ELSE pc' = "eot" /\ Write(Byte(c)) /\ tries' = 1 /\ UNCHANGED <<blk, c, result>>

End(status) ==
  /\ pc' = "ended"
  /\ result' = status
  /\ UNCHANGED <<blk, c, tries, toRx>>

Read == toTx # <<>> /\ toTx' = Tail(toTx) /\ UNCHANGED <<receiver, early>>
Answer == Head(toTx)

\* A time-out of read_byte_timeout.
Expire ==
  /\ UNCHANGED <<toTx, receiver>>
  /\ \/ Quiet /\ UNCHANGED early
     \/ ~Quiet /\ early < MaxEarly /\ early' = early + 1

\* wait_receiver: 'C' and NAK are an invitation, and so is CAN, which cmd_load
\* does not tell from them; other bytes are echoes.
Invited ==
  /\ pc = "invite"
  /\ Read
  /\ Answer \in {"C", "NAK", "CAN"}
  /\ SendFrom(1)

Echo ==
  /\ pc = "invite"
  /\ Read
  /\ Answer \notin {"C", "NAK", "CAN"}
  /\ UNCHANGED <<sender, toRx>>

NotInvited == pc = "invite" /\ Expire /\ End(1)

\* Mistakes: an unexpected answer, or a time-out, counts as an acknowledgement.
AckedLoose ==
  /\ pc = "block"
  /\ Read
  /\ Answer \notin {"NAK", "CAN"}
  /\ SendFrom(blk + 1)

AckedSilence ==
  /\ pc = "block"
  /\ (Read /\ Answer = "ACK") \/ Expire
  /\ SendFrom(blk + 1)

\* The loop on one block.
Acked ==
  /\ pc = "block"
  /\ Read
  /\ Answer = "ACK"
  /\ SendFrom(blk + 1)

\* Mistakes: the file is read again before a block is repeated; a block is
\* repeated on a NAK only.
ResendReadsOn ==
  /\ pc = "block"
  /\ (Read /\ Answer \notin {"ACK", "CAN"}) \/ Expire
  /\ Write(Block(blk, IF blk < Blocks THEN blk + 1 ELSE blk))
  /\ UNCHANGED sender

ResendOnNak ==
  /\ pc = "block"
  /\ Read /\ Answer \notin {"ACK", "CAN"}
  /\ SendFrom(blk)

Resend ==
  /\ pc = "block"
  /\ \/ Read /\ Answer \notin {"ACK", "CAN"}
     \/ Expire
  /\ SendFrom(blk)

Cancelled ==
  /\ pc = "block"
  /\ Read
  /\ Answer = "CAN"
  /\ End(1)

\* The loop on the end of the file.  The answer is read into the variable that
\* is sent: an answer other than ACK is what the next try sends.
Finished ==
  /\ pc = "eot"
  /\ Read
  /\ Answer = "ACK"
  /\ End(0)

EotAgain ==
  /\ pc = "eot"
  /\ tries < Tries
  /\ \/ Read /\ Answer # "ACK" /\ c' = Answer
     \/ Expire /\ UNCHANGED c
  /\ tries' = tries + 1
  /\ Write(Byte(c'))
  /\ UNCHANGED <<pc, blk, result>>

GivesUp ==
  /\ pc = "eot"
  /\ tries = Tries
  /\ (Read /\ Answer # "ACK") \/ Expire
  /\ End(1)

SenderStep ==
  \/ Invited \/ Echo \/ NotInvited
  \/ Acked \/ Resend \/ Cancelled
  \/ Finished \/ EotAgain \/ GivesUp

-----------------------------------------------------------------------------
\* The receiver.
Reply(a) == toTx' = Append(toTx, a)

Listens == rx \in {"ready", "receiving"}

\* It asks for the first block, or for a block it has waited for too long.
RxAsk ==
  /\ Quiet
  /\ Listens
  /\ Reply(IF rx = "ready" THEN "C" ELSE "NAK")
  /\ UNCHANGED <<receiver, toRx>>

Expected == Number(Len(stored) + 1)

\* What it makes of the next block or byte.
RxTake ==
  /\ toRx # <<>>
  /\ toRx' = Tail(toRx)
  /\ LET m == Head(toRx)
     IN CASE ~Listens \/ m.kind = "noise" -> UNCHANGED <<receiver, toTx>>
          [] Listens /\ m.kind = "garbled" -> Reply("NAK") /\ UNCHANGED receiver
          [] Listens /\ m.kind = "eot" -> Reply("ACK") /\ rx' = "done" /\ UNCHANGED stored
          [] Listens /\ m.kind = "block" /\ m.number = Expected ->
               Reply("ACK") /\ rx' = "receiving" /\ stored' = Append(stored, m.n)
          [] Listens /\ m.kind = "block" /\ m.number = Number(Len(stored)) ->
               Reply("ACK") /\ UNCHANGED receiver
          [] OTHER -> Reply("CAN") /\ rx' = "cancelled" /\ UNCHANGED stored

RxCancel ==
  /\ Listens
  /\ Reply("CAN")
  /\ rx' = "cancelled"
  /\ UNCHANGED <<toRx, stored>>

ReceiverStep == (RxAsk \/ RxTake \/ RxCancel) /\ UNCHANGED <<sender, early>>

\* The line loses or garbles what comes next; a garbled byte is an answer
\* nobody expects.
LineRx ==
  /\ toRx # <<>>
  /\ toRx' \in {Tail(toRx),
                <<[Head(toRx) EXCEPT !.kind = IF @ = "block" THEN "garbled" ELSE "noise"]>>
                  \o Tail(toRx)}
  /\ toRx' # toRx
  /\ UNCHANGED toTx

LineTx ==
  /\ toTx # <<>>
  /\ Answer # "noise"
  /\ toTx' \in {Tail(toTx), <<"noise">> \o Tail(toTx)}
  /\ UNCHANGED toRx

LineFault == (LineRx \/ LineTx) /\ UNCHANGED <<sender, receiver, early>>

Next ==
  \/ SenderStep
  \/ ReceiverStep
  \/ LineFault

\* Sender and receiver go on, and of the blocks and of the answers that are
\* sent again and again some come through.
Fairness ==
  /\ WF_vars(SenderStep)
  /\ WF_vars(RxAsk /\ UNCHANGED <<sender, early>>)
  /\ WF_vars(RxTake /\ UNCHANGED <<sender, early>>)
  /\ SF_vars(RxTake /\ Head(toRx).kind = "block" /\ UNCHANGED <<sender, early>>)
  /\ SF_vars(SenderStep /\ toTx # <<>> /\ Answer \in {"C", "ACK"} /\ toTx' # toTx)

Spec == Init /\ [][Next]_vars /\ Fairness

-----------------------------------------------------------------------------
Answers == {"C", "ACK", "NAK", "CAN", "noise"}

TypeOK ==
  /\ pc \in {"invite", "block", "eot", "ended"}
  /\ blk \in 1..Blocks
  /\ c \in Answers \cup {"EOT"}
  /\ tries \in 0..Tries
  /\ result \in {0, 1}
  /\ toRx \in Seq([kind : {"block", "garbled", "eot", "noise"},
                 number : 0..(BlkMod - 1), n : 0..Blocks])
  /\ toTx \in Seq(Answers)
  /\ rx \in {"ready", "receiving", "done", "cancelled"}
  /\ stored \in Seq(1..Blocks)
  /\ early \in 0..MaxEarly

\* The receiver has a prefix of the file: nothing twice and nothing out of
\* order, although blocks are repeated and their numbers wrap around.
StoresPrefix == stored = [i \in 1..Len(stored) |-> i]

\* Acknowledgements are counted, not matched: the sender is ahead of the
\* receiver by at most the blocks it sent again too early, and without such a
\* time-out not at all, whatever is lost or garbled.  So success is reported, and
\* the chip told to jump to the image, only when the receiver has all of it,
\* but for as many blocks as time-outs were premature.
InStep ==
  /\ pc = "block" => Len(stored) + early >= blk - 1 /\ Len(stored) <= blk
  /\ result = 0 => Len(stored) + early >= Blocks

\* As long as the receiver does not cancel, the sender comes to an end: the
\* loop on a block, which has no limit, is left.
Ends == [](rx # "cancelled") => <>(pc = "ended")
=============================================================================
