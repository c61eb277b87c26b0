----------------------------- MODULE LinkStatus -----------------------------
(***************************************************************************)
(* The status file of omega4-linkd: when the loops of the three modes      *)
(* reach write_status_file, and what another process finds in the file     *)
(* while it is replaced.  Time is counted in ticks; the loop takes no time *)
(* except where it waits, in poll or usleep.                               *)
(***************************************************************************)
EXTENDS Integers

CONSTANTS
  Mode,      \* --mode: "tx", "rx" or "ping"
  Kinds,     \* what arrives: "plain", "fec", "bad" and "foreign" frames, "datagram"s
  Wait,      \* the timeout of poll, 1000 ms; in ping mode the usleep, --interval-ms
  Interval,  \* --status-interval-ms, 1000 by default
  Respawn,   \* ticks between the end of the process and its next start
  MayFail,   \* whether creating, closing or renaming the file may fail
  MayCrash,  \* whether the process may end
  MaxTime    \* bound: ticks

ASSUME StatusAssumption ==
  /\ Mode \in {"tx", "rx", "ping"}
  /\ Kinds \in SUBSET {"plain", "fec", "bad", "foreign", "datagram"}
  /\ {Wait, Interval, Respawn, MaxTime} \subseteq Nat \ {0}
  /\ {MayFail, MayCrash} \subseteq BOOLEAN

VARIABLES
  now,    \* the clock
  pc,     \* where the process is: "waiting", "writing", "renaming" or "down"
  since,  \* when the process entered the wait, or ended
  up,     \* when the process started: the epoch of status_state
  last,   \* status.last_us, None before the first write
  tmp,    \* the temporary file: None, or a snapshot [at, complete]
  file,   \* the status file: None, or such a snapshot
  failed  \* whether the last attempt to write the file failed

vars == <<now, pc, since, up, last, tmp, file, failed>>

None == [at |-> -1, complete |-> FALSE]

Init ==
  /\ now = 0
  /\ pc = "waiting"
  /\ since = 0
  /\ up = 0
  /\ last = -1
  /\ tmp = None
  /\ file = None
  /\ failed = FALSE

Snapshot == [at : -1..MaxTime, complete : BOOLEAN]

TypeOK ==
  /\ now \in 0..MaxTime
  /\ pc \in {"waiting", "writing", "renaming", "down"}
  /\ since \in 0..now
  /\ up \in 0..now
  /\ last \in -1..now
  /\ tmp \in Snapshot
  /\ file \in Snapshot
  /\ failed \in BOOLEAN

-----------------------------------------------------------------------------
Expired == now - since >= Wait

\* Whether the process, if it is up, has something to do before time passes.
Busy == pc \in {"writing", "renaming"} \/ (pc = "waiting" /\ Expired)

Tick ==
  /\ ~Busy
  /\ pc = "down" => now - since < Respawn
  /\ now < MaxTime
  /\ now' = now + 1
  /\ UNCHANGED <<pc, since, up, last, tmp, file, failed>>

WaitAgain == pc' = "waiting" /\ since' = now

\* write_status_file: nothing to do before the interval is over.
NotDue == last >= 0 /\ now - last < Interval

ReachStatus == IF NotDue THEN WaitAgain ELSE pc' = "writing" /\ since' = since

\* rx_loop goes back to poll, past write_status_file, after a FEC frame, a
\* frame that does not parse and a frame of another stream.
Continues(kind) == Mode = "rx" /\ kind \in {"fec", "bad", "foreign"}

\* Something arrives during the wait: poll returns at once.
Read ==
  /\ pc = "waiting"
  /\ Mode # "ping"
  /\ \E kind \in Kinds : IF Continues(kind) THEN WaitAgain ELSE ReachStatus
  /\ UNCHANGED <<now, up, last, tmp, file, failed>>

\* A mistake: back to poll without a look at the status file.
TimeOutIdle ==
  /\ pc = "waiting"
  /\ Expired
  /\ WaitAgain
  /\ UNCHANGED <<now, up, last, tmp, file, failed>>

\* poll returns 0, or usleep is over.
TimeOut ==
  /\ pc = "waiting"
  /\ Expired
  /\ ReachStatus
  /\ UNCHANGED <<now, up, last, tmp, file, failed>>

\* A mistake: the status file itself opened for writing.
CreateInPlace ==
  /\ pc = "writing"
  /\ tmp = None \/ tmp.complete
  /\ tmp' = [at |-> now, complete |-> FALSE]
  /\ file' = tmp'
  /\ UNCHANGED <<now, pc, since, up, last, failed>>

\* fopen creates the temporary file, empty until fclose has flushed it.
Create ==
  /\ pc = "writing"
  /\ tmp = None \/ tmp.complete
  /\ tmp' = [at |-> now, complete |-> FALSE]
  /\ UNCHANGED <<now, pc, since, up, last, file, failed>>

Close ==
  /\ pc = "writing"
  /\ tmp # None /\ ~tmp.complete
  /\ tmp' = [tmp EXCEPT !.complete = TRUE]
  /\ pc' = "renaming"
  /\ UNCHANGED <<now, since, up, last, file, failed>>

\* fopen, fclose or rename fails: the loop goes on and tries again next time.
Fail ==
  /\ MayFail
  /\ pc \in {"writing", "renaming"}
  /\ tmp' = None
  /\ failed' = TRUE
  /\ WaitAgain
  /\ UNCHANGED <<now, up, last, file>>

Rename ==
  /\ pc = "renaming"
  /\ file' = tmp
  /\ tmp' = None
  /\ last' = now
  /\ failed' = FALSE
  /\ WaitAgain
  /\ UNCHANGED <<now, up>>

\* The process ends; its temporary file, named after its pid, is never used again.
Crash ==
  /\ MayCrash
  /\ pc # "down"
  /\ pc' = "down"
  /\ since' = now
  /\ tmp' = None
  /\ UNCHANGED <<now, up, last, file, failed>>

\* procd starts it again; status_state starts from zero.
Start ==
  /\ pc = "down"
  /\ now - since >= Respawn
  /\ WaitAgain
  /\ up' = now
  /\ last' = -1
  /\ failed' = FALSE
  /\ UNCHANGED <<now, tmp, file>>

Next ==
  \/ Tick \/ Read \/ TimeOut
  \/ Create \/ Close \/ Fail \/ Rename
  \/ Crash \/ Start

Spec == Init /\ [][Next]_vars

-----------------------------------------------------------------------------
\* "The file is updated atomically": a reader finds no file or a whole one,
\* whatever fails and whenever the process ends.
WholeOrAbsent == file = None \/ file.complete

\* "... once per second by default": while the process runs and the last
\* attempt to write the file did not fail, the file is no older than the
\* interval and the wait the loop may have entered just before its end.
Fresh ==
  pc # "down" /\ ~failed =>
    now - (IF file.at > up THEN file.at ELSE up) <= Interval + Wait
=============================================================================
