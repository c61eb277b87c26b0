------------------------------ MODULE HpmcuMbox ------------------------------
(***************************************************************************)
(* omega4-hpmcu-mbox: a ping from sysfs, under a mutex, and what runs      *)
(* beside it: the interrupt of the mailbox controller, the transmit queue  *)
(* of the mailbox framework, which keeps pointers to the one mb->msg, and  *)
(* clear_store, which takes no lock.  The controller and the framework are *)
(* not of this repository and modelled from how the client uses them.      *)
(* rx_count, last_cmd, last_data and last_status are left out: only        *)
(* status_show reads them.                                                 *)
(***************************************************************************)
EXTENDS HpmcuMcu

CONSTANT QueueLen  \* messages the framework queues behind the one in transmission

ASSUME MboxAssumption == QueueLen \in Nat

VARIABLES
  ping,     \* where omega4_hpmcu_mbox_send is: "none" when the lock is free
  msg,      \* mb->msg
  done,     \* whether rx_done is complete; every ping starts it anew, so no one counts further
  irq,      \* whether the interrupt handler has a message in hand
  active,   \* whether the framework has a message in transmission
  queued,   \* pointers to mb->msg it has queued
  clearing, \* whether clear_store is between the two directions
  outcome,  \* how the last ping ended: "none", "ok", "matched", "timeout", "nobufs"
  quiet,    \* whether it began with nothing under way, and the MCU was not restarted since
  clean     \* whether a ping is under way and no clear and no restart of the MCU fell into it

mboxVars == <<ping, msg, done, irq, active, queued, clearing, outcome, quiet, clean>>

MboxInit ==
  /\ ping = "none"
  /\ msg = Zero
  /\ done = FALSE
  /\ irq = FALSE
  /\ active = FALSE
  /\ queued = 0
  /\ clearing = FALSE
  /\ outcome = "none"
  /\ quiet = FALSE
  /\ clean = FALSE

MboxTypeOK ==
  /\ ping \in {"none", "send", "wait", "look", "poll", "match"}
  /\ msg \in {Zero} \cup Datas
  /\ done \in BOOLEAN
  /\ irq \in BOOLEAN
  /\ active \in BOOLEAN
  /\ queued \in 0..QueueLen
  /\ clearing \in BOOLEAN
  /\ outcome \in {"none", "ok", "matched", "timeout", "nobufs"}
  /\ quiet \in BOOLEAN
  /\ clean \in BOOLEAN

-----------------------------------------------------------------------------
NothingUnderWay ==
  mcu = "loop" /\ a2b = {} /\ ~b2a.up /\ ~irq /\ queued = 0 /\ ~clearing

\* omega4_hpmcu_mbox_reinit: enables a mailbox found disabled, and drops what it holds.
Reinit ==
  IF enabled
  THEN /\ a2b' = {Older(p) : p \in a2b}
       /\ UNCHANGED <<b2a, enabled>>
  ELSE /\ a2b' = {}
       /\ b2a' = [b2a EXCEPT !.up = FALSE]
       /\ enabled' = TRUE

\* Everything on its way is now of an earlier ping.
Begin(d) ==
  /\ ping = "none"
  /\ ping' = "send"
  /\ msg' = d
  /\ Reinit
  /\ taken' = {Older(p) : p \in taken}
  /\ answered' = FALSE
  /\ outcome' = "none"
  /\ quiet' = NothingUnderWay
  /\ clean' = ~clearing
  /\ UNCHANGED <<mcu, markSets, irq, active, queued, clearing>>

\* A mistake: the completion not reinitialised.
PingNoReinit(d) == Begin(d) /\ UNCHANGED done

\* omega4_hpmcu_mbox_send up to mbox_send_message.
Ping(d) == Begin(d) /\ done' = FALSE

\* The framework hands a pointer to mb->msg to the controller, which writes
\* what it finds there now.
Submit == a2b' = {[word |-> msg, last |-> TRUE]}

Returns(how) == ping' = "none" /\ outcome' = how /\ clean' = FALSE

chipButA2B == <<mcu, taken, b2a, enabled, markSets, answered>>
chipButB2A == <<mcu, taken, a2b, enabled, markSets, answered>>

\* A mistake: one message more than the queue takes.
PingSendOverfull ==
  /\ ping = "send"
  /\ ping' = "wait"
  /\ active' = TRUE
  /\ IF active
     THEN queued <= QueueLen /\ queued' = queued + 1 /\ UNCHANGED a2b
     ELSE Submit /\ UNCHANGED queued
  /\ UNCHANGED <<chipButA2B, msg, done, irq, clearing, outcome, quiet, clean>>

\* mbox_send_message: transmitted, queued, or refused.
PingSend ==
  /\ ping = "send"
  /\ \/ /\ ~active
        /\ Submit
        /\ active' = TRUE
        /\ ping' = "wait"
        /\ UNCHANGED <<queued, outcome, clean>>
     \/ /\ active
        /\ queued < QueueLen
        /\ queued' = queued + 1
        /\ ping' = "wait"
        /\ UNCHANGED <<a2b, active, outcome, clean>>
     \/ /\ active
        /\ queued = QueueLen
        /\ Returns("nobufs")
        /\ UNCHANGED <<a2b, active, queued>>
  /\ UNCHANGED <<chipButA2B, msg, done, irq, clearing, quiet>>

\* The MCU has taken the message in transmission: the next one, if any.
TxDone ==
  /\ active
  /\ a2b = {}
  /\ \/ queued > 0 /\ queued' = queued - 1 /\ Submit /\ UNCHANGED active
     \/ queued = 0 /\ active' = FALSE /\ UNCHANGED <<a2b, queued>>
  /\ UNCHANGED <<chipButA2B, ping, msg, done, irq, clearing, outcome, quiet, clean>>

-----------------------------------------------------------------------------
\* omega4_hpmcu_mbox_rx.
Rx == done' = TRUE

\* The interrupt handler takes a message ...
IrqTake ==
  /\ enabled
  /\ b2a.up
  /\ ~irq
  /\ irq' = TRUE
  /\ b2a' = [b2a EXCEPT !.up = FALSE]
  /\ UNCHANGED <<chipButB2A, ping, msg, done, active, queued, clearing, outcome, quiet, clean>>

\* ... and calls the client.
IrqDeliver ==
  /\ irq
  /\ Rx
  /\ irq' = FALSE
  /\ UNCHANGED <<mcuVars, ping, msg, active, queued, clearing, outcome, quiet, clean>>

restOfMbox == <<msg, irq, active, queued, clearing, quiet>>

\* wait_for_completion_timeout sees a message, whichever it is ...
PingDone ==
  /\ ping = "wait"
  /\ done
  /\ done' = FALSE
  /\ Returns("ok")
  /\ UNCHANGED <<mcuVars, restOfMbox>>

\* ... or none for OMEGA4_MBOX_TIMEOUT_MS.
PingExpires ==
  /\ ping = "wait"
  /\ ~done
  /\ ping' = "look"
  /\ UNCHANGED <<mcuVars, restOfMbox, done, outcome, clean>>

\* omega4_hpmcu_mbox_poll_rx: the status read ...
PingLook ==
  /\ ping = "look"
  /\ ping' = IF b2a.up THEN "poll" ELSE "match"
  /\ UNCHANGED <<mcuVars, restOfMbox, done, outcome, clean>>

\* ... and the message taken, if the status says there is one ...
PingPoll ==
  /\ ping = "poll"
  /\ Rx
  /\ b2a' = [b2a EXCEPT !.up = FALSE]
  /\ Returns("ok")
  /\ UNCHANGED <<chipButB2A, restOfMbox>>

\* A mistake: no second look at the registers.
PingNoMatch ==
  /\ ping = "match"
  /\ Returns("timeout")
  /\ UNCHANGED <<mcuVars, restOfMbox, done>>

\* ... otherwise "treat exact matches as a valid response".
PingMatch ==
  /\ ping = "match"
  /\ Returns(IF b2a.word = msg THEN "matched" ELSE "timeout")
  /\ UNCHANGED <<mcuVars, restOfMbox, done>>

\* clear_store, first the registers to the MCU, then those from it.
ClearA2B ==
  /\ ~clearing
  /\ clearing' = TRUE
  /\ a2b' = {}
  /\ clean' = FALSE
  /\ UNCHANGED <<chipButA2B, ping, msg, done, irq, active, queued, outcome, quiet>>

ClearB2A ==
  /\ clearing
  /\ clearing' = FALSE
  /\ b2a' = [up |-> FALSE, word |-> Zero]
  /\ clean' = FALSE
  /\ UNCHANGED <<chipButB2A, ping, msg, done, irq, active, queued, outcome, quiet>>

MboxStep ==
  \/ \E d \in Datas : Ping(d)
  \/ PingSend \/ PingDone \/ PingExpires \/ PingLook \/ PingPoll \/ PingMatch
  \/ TxDone \/ IrqTake \/ IrqDeliver
  \/ ClearA2B \/ ClearB2A

-----------------------------------------------------------------------------
\* A ping that began with nothing under way (no message in a register, in the
\* interrupt handler or in the queue) and returned 0 on a message was answered
\* by the MCU: a completion left over from an earlier ping does not count.
SuccessIsAnswer == quiet /\ outcome = "ok" => answered

\* "... to avoid false timeouts": a ping that the MCU has answered by then does
\* not time out, even when the status of its answer was lost or its interrupt
\* is late, unless a clear or a restart of the MCU fell into it.
NoFalseTimeout == [][outcome' = "timeout" /\ clean => ~answered]_outcome
=============================================================================
