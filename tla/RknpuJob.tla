------------------------------ MODULE RknpuJob ------------------------------
(***************************************************************************)
(* The job queue of the NPU driver (rknpu_job.c, rknpu_soft_reset) on the  *)
(* RV1103B: one core (num_irqs is 1) and blocking submissions of PC jobs,  *)
(* each by a thread of its own; any process may also reset the NPU by      *)
(* ioctl (RKNPU_ACT_RESET).  The SoC has one processor, on which the       *)
(* interrupt handler runs to its end between two steps of the threads; the *)
(* threads are preempted anywhere outside irq_lock.                        *)
(***************************************************************************)
EXTENDS Naturals, Sequences, FiniteSets, SequencesExt

CONSTANTS
  None,        \* no job (NULL)
  Bad,         \* an interrupt whose status is not what the job asked for
  Outside,     \* the thread that resets the NPU by ioctl
  MaxLoad      \* bound: submissions, parts of their tasks beyond the first, and
               \* resets by ioctl, all together

\* Submissions, a job each, numbered as they come to the list.
Jobs == 1..MaxLoad

ASSUME JobsAssumption ==
  /\ MaxLoad \in Nat
  /\ None \notin Jobs /\ Bad \notin Jobs /\ Outside \notin Jobs /\ None # Bad

VARIABLES
  pc,         \* where each thread is
  job,        \* struct rknpu_job of each submission
  takes,      \* the job a thread took off the list in rknpu_job_next
  owner,      \* subcore_data->job
  todo,       \* subcore_data->todo_list
  hw,         \* the job the NPU is working on
  irq,        \* pending interrupt: of a job's last task, Bad, or None
  resetting,  \* soft_reseting
  resetLock,  \* holder of reset_lock
  resets,     \* resets by ioctl so far
  load        \* submissions, further parts and resets so far

queue == <<owner, todo>>
npu == <<hw, irq>>
reset == <<resetting, resetLock, resets>>
vars == <<pc, job, takes, queue, npu, reset, load>>

Threads == Jobs \cup {Outside}

\* kzalloc; chunks is what is left of task_number, in units of max_submit_number;
\* begun stands for hw_commit_time: not yet, in the present round of
\* rknpu_job_wait, or before it; doneBy for RKNPU_JOB_DONE and the job whose
\* end the interrupt told of.
NewJob ==
  [chunks |-> 1, begun |-> "no", lastTask |-> FALSE, doneBy |-> None,
   irqEntry |-> FALSE, rounds |-> 0, late |-> FALSE, ret |-> "none"]

Init ==
  /\ pc = [t \in Threads |-> "idle"]
  /\ job = [j \in Jobs |-> NewJob]
  /\ takes = [t \in Threads |-> None]
  /\ owner = None /\ todo = <<>>
  /\ hw = None /\ irq = None
  /\ resetting = FALSE /\ resetLock = None /\ resets = 0
  /\ load = 0

\* Nobody is in the middle of something: the time-outs and the sleeps of
\* 100 ms are longer than what a thread does between two of its sleeps.
Sleeping == {"idle", "wait", "abort", "resetsleep", "returned"}
Settled == \A t \in Threads : pc[t] \in Sleeping

Done(j) == job[j].doneBy # None

Goes(t, to) == pc' = [pc EXCEPT ![t] = to]

-----------------------------------------------------------------------------
\* rknpu_submit, rknpu_job_alloc and rknpu_job_schedule up to the list.
Submit(j) ==
  /\ pc[j] = "idle"
  /\ \A k \in Jobs : k < j => pc[k] # "idle"
  /\ \E n \in 1..(MaxLoad - load) :
       /\ job' = [job EXCEPT ![j] = [NewJob EXCEPT !.chunks = n]]
       /\ load' = load + n
  /\ todo' = Append(todo, j)
  /\ Goes(j, "next")
  /\ UNCHANGED <<takes, owner, npu, reset>>

\* rknpu_job_next: soft_reseting is read before the lock is taken ...
NextCheck(j) ==
  /\ pc[j] = "next"
  /\ Goes(j, IF resetting THEN "wait" ELSE "take")
  /\ UNCHANGED <<job, takes, queue, npu, reset, load>>

\* What rknpu_job_next does to the job it takes off the list.
Begun(b) == IF pc[b] = "wait" THEN "now" ELSE "before"

NextNothing(j) ==
  /\ pc[j] = "take"
  /\ owner # None \/ todo = <<>>
  /\ Goes(j, "wait")
  /\ UNCHANGED <<job, takes, queue, npu, reset, load>>

\* A mistake: a job is taken while another one has the core.
NextTakeBusy(j) ==
  /\ pc[j] = "take"
  /\ todo # <<>>
  /\ owner' = Head(todo) /\ todo' = Tail(todo)
  /\ job' = [job EXCEPT ![Head(todo)].begun = Begun(Head(todo))]
  /\ takes' = [takes EXCEPT ![j] = Head(todo)]
  /\ Goes(j, "commit")
  /\ UNCHANGED <<npu, reset, load>>

\* ... under it the first job gets the core ...
NextTake(j) ==
  /\ pc[j] = "take"
  /\ owner = None /\ todo # <<>>
  /\ owner' = Head(todo) /\ todo' = Tail(todo)
  /\ job' = [job EXCEPT ![Head(todo)].begun = Begun(Head(todo))]
  /\ takes' = [takes EXCEPT ![j] = Head(todo)]
  /\ Goes(j, "commit")
  /\ UNCHANGED <<npu, reset, load>>

\* The registers are written: a pending interrupt is cleared and the NPU
\* started; one that is still busy may take no notice.
Starts(b) == irq' = None /\ hw' \in {b} \cup ({hw} \ {None})

\* ... and outside it is committed.
Commit(j) ==
  /\ pc[j] = "commit"
  /\ job' = [job EXCEPT ![takes[j]].lastTask = TRUE]
  /\ Starts(takes[j])
  /\ takes' = [takes EXCEPT ![j] = None]
  /\ Goes(j, "wait")
  /\ UNCHANGED <<queue, reset, load>>

-----------------------------------------------------------------------------
\* rknpu_job_wait: the condition of wait_event_timeout holds ...
Woken(j) ==
  /\ pc[j] = "wait"
  /\ Done(j) \/ resetting
  /\ Goes(j, "check")
  /\ UNCHANGED <<job, takes, queue, npu, reset, load>>

\* A mistake: a job the NPU has not begun is waited for as long as it takes.
LeavesPatient(j) == job[j].rounds + 1 >= 3 /\ job[j].begun # "no"

\* The loop is left after a time-out: after the third, or when the NPU has
\* had the job for the whole of it.
Leaves(j) == job[j].rounds + 1 >= 3 \/ job[j].begun = "before"

\* ... or its time is over: once more, unless the NPU has had all of it.
TimeOut(j) ==
  /\ pc[j] = "wait"
  /\ ~(Done(j) \/ resetting)
  /\ Settled
  /\ job' = [job EXCEPT ![j].rounds = IF @ < 3 THEN @ + 1 ELSE @,
                        ![j].begun = IF @ = "now" THEN "before" ELSE @,
                        ![j].late = Leaves(j)]
  /\ Goes(j, IF Leaves(j) THEN "check" ELSE "wait")
  /\ UNCHANGED <<takes, queue, npu, reset, load>>

\* What rknpu_job_wait returns: last_task and RKNPU_JOB_DONE are read without
\* the lock.
Result(j) ==
  CASE ~job[j].lastTask -> "EINVAL"
    [] job[j].lastTask /\ job[j].late -> "ETIMEDOUT"
    [] job[j].lastTask /\ ~job[j].late /\ Done(j) -> "ok"
    [] OTHER -> "EINVAL"

Check(j) ==
  /\ pc[j] = "check"
  /\ job' = [job EXCEPT ![j].ret = Result(j), ![j].rounds = 0, ![j].late = FALSE]
  /\ Goes(j, IF ~job[j].lastTask THEN "unqueue"
             ELSE IF Result(j) = "ok" THEN "returned" ELSE "abort")
  /\ UNCHANGED <<takes, queue, npu, reset, load>>

\* A mistake: the job stays on the list.
UnqueueNot(j) ==
  /\ pc[j] = "unqueue"
  /\ Goes(j, "abort")
  /\ UNCHANGED <<job, takes, queue, npu, reset, load>>

\* A job that was not committed is taken off the list.
Unqueue(j) ==
  /\ pc[j] = "unqueue"
  /\ todo' = RemoveFirst(todo, j)
  /\ Goes(j, "abort")
  /\ UNCHANGED <<job, takes, owner, npu, reset, load>>

-----------------------------------------------------------------------------
\* A mistake: no sleep.
SleptNot(j) ==
  /\ pc[j] = "abort"
  /\ Goes(j, "clear")
  /\ UNCHANGED <<job, takes, queue, npu, reset, load>>

\* rknpu_job_abort: 100 ms for an interrupt, or a commit, that is under way ...
Slept(j) ==
  /\ pc[j] = "abort"
  /\ Settled
  /\ Goes(j, "clear")
  /\ UNCHANGED <<job, takes, queue, npu, reset, load>>

\* A mistake: the core is left to the job.
ClearNot(j) ==
  /\ pc[j] = "clear"
  /\ Goes(j, IF job[j].ret = "ETIMEDOUT" THEN "reset" ELSE "returned")
  /\ UNCHANGED <<job, takes, queue, npu, reset, load>>

\* ... then the core is taken from the job, unless it has seen an interrupt.
Clear(j) ==
  /\ pc[j] = "clear"
  /\ owner' = IF owner = j /\ ~job[j].irqEntry THEN None ELSE owner
  /\ Goes(j, IF job[j].ret = "ETIMEDOUT" THEN "reset" ELSE "returned")
  /\ UNCHANGED <<job, takes, todo, npu, reset, load>>

-----------------------------------------------------------------------------
AfterReset(t) == IF t = Outside THEN "idle" ELSE "returned"

\* RKNPU_ACT_RESET.
ActReset ==
  /\ pc[Outside] = "idle"
  /\ load < MaxLoad
  /\ load' = load + 1
  /\ resets' = resets + 1
  /\ Goes(Outside, "reset")
  /\ UNCHANGED <<job, takes, queue, npu, resetting, resetLock>>

\* rknpu_soft_reset: nothing if another thread is at it ...
ResetBusy(t) ==
  /\ pc[t] = "reset"
  /\ resetLock # None
  /\ Goes(t, AfterReset(t))
  /\ UNCHANGED <<job, takes, queue, npu, reset, load>>

ResetBegin(t) ==
  /\ pc[t] = "reset"
  /\ resetLock = None
  /\ resetLock' = t
  /\ resetting' = TRUE
  /\ Goes(t, "resetsleep")
  /\ UNCHANGED <<job, takes, queue, npu, resets, load>>

\* ... after 100 ms the waiting threads are woken and the NPU is reset ...
ResetNpu(t) ==
  /\ pc[t] = "resetsleep"
  /\ Settled
  /\ hw' = None /\ irq' = None
  /\ Goes(t, "resetend")
  /\ UNCHANGED <<job, takes, queue, reset, load>>

\* ... which may fail: soft_reseting stays as it is.
ResetFails(t) ==
  /\ pc[t] = "resetsleep"
  /\ Settled
  /\ UNCHANGED npu \/ (hw' = None /\ irq' = None)
  /\ resetLock' = None
  /\ Goes(t, AfterReset(t))
  /\ UNCHANGED <<job, takes, queue, resetting, resets, load>>

ResetEnd(t) ==
  /\ pc[t] = "resetend"
  /\ resetting' = FALSE
  /\ resetLock' = None
  /\ Goes(t, AfterReset(t))
  /\ UNCHANGED <<job, takes, queue, npu, resets, load>>

-----------------------------------------------------------------------------
\* The NPU comes to the end of a job's tasks, or reports something else.
HwDone ==
  /\ hw # None
  /\ irq' = hw /\ hw' = None
  /\ UNCHANGED <<pc, job, takes, queue, reset, load>>

HwBad ==
  /\ irq = None
  /\ irq' = Bad
  /\ hw' \in {hw, None}
  /\ UNCHANGED <<pc, job, takes, queue, reset, load>>

\* rknpu_irq_handler: the status is compared with what the job that has the
\* core was committed with; another job's may be the same.
Valid == job[owner].lastTask /\ irq # Bad
Invalid == ~job[owner].lastTask \/ irq # owner

\* The rest of the handler: rknpu_job_next and the commit of its job.
Others(after) ==
  IF resetting \/ todo = <<>>
  THEN owner' = None /\ todo' = todo /\ job' = after /\ irq' = None /\ hw' = hw
  ELSE /\ owner' = Head(todo) /\ todo' = Tail(todo)
       /\ job' = [after EXCEPT ![Head(todo)].begun = Begun(Head(todo)),
                               ![Head(todo)].lastTask = TRUE]
       /\ Starts(Head(todo))

IrqIdle ==
  /\ irq # None /\ owner = None
  /\ Others(job)
  /\ UNCHANGED <<pc, takes, reset, load>>

IrqInvalid ==
  /\ irq # None /\ owner # None
  /\ Invalid
  /\ job' = [job EXCEPT ![owner].irqEntry = TRUE]
  /\ irq' = None
  /\ UNCHANGED <<pc, takes, queue, hw, reset, load>>

\* rknpu_job_done: the tasks did not fit into one submission to the NPU ...
IrqChunk ==
  /\ irq # None /\ owner # None
  /\ Valid
  /\ job[owner].chunks > 1
  /\ job' = [job EXCEPT ![owner].irqEntry = TRUE, ![owner].chunks = @ - 1]
  /\ Starts(owner)
  /\ UNCHANGED <<pc, takes, queue, reset, load>>

\* A mistake: nobody looks at the list.
IrqDoneAlone ==
  /\ irq # None /\ owner # None
  /\ Valid
  /\ job[owner].chunks = 1
  /\ owner' = None /\ todo' = todo /\ irq' = None /\ hw' = hw
  /\ job' = [job EXCEPT ![owner].irqEntry = TRUE, ![owner].doneBy = irq]
  /\ UNCHANGED <<pc, takes, reset, load>>

\* ... or the job is done and the next one gets the core.
IrqDone ==
  /\ irq # None /\ owner # None
  /\ Valid
  /\ job[owner].chunks = 1
  /\ Others([job EXCEPT ![owner].irqEntry = TRUE, ![owner].doneBy = irq])
  /\ UNCHANGED <<pc, takes, reset, load>>

-----------------------------------------------------------------------------
Awake(j) ==
  \/ NextCheck(j) \/ NextNothing(j) \/ NextTake(j) \/ Commit(j)
  \/ Woken(j) \/ TimeOut(j) \/ Check(j) \/ Unqueue(j) \/ Slept(j) \/ Clear(j)

Reset(t) == ResetBusy(t) \/ ResetBegin(t) \/ ResetNpu(t) \/ ResetFails(t) \/ ResetEnd(t)

Next ==
  \/ \E j \in Jobs : Submit(j) \/ Awake(j)
  \/ ActReset
  \/ \E t \in Threads : Reset(t)
  \/ HwDone \/ HwBad
  \/ IrqIdle \/ IrqInvalid \/ IrqChunk \/ IrqDone

\* The threads get the processor and time goes by; the NPU need not do anything.
Spec ==
  /\ Init /\ [][Next]_vars
  /\ \A j \in Jobs : WF_vars(Awake(j))
  /\ \A t \in Threads : WF_vars(Reset(t))

-----------------------------------------------------------------------------
JobType ==
  [chunks : 1..MaxLoad, begun : {"no", "now", "before"}, lastTask : BOOLEAN,
   doneBy : Jobs \cup {None}, irqEntry : BOOLEAN, rounds : 0..3, late : BOOLEAN,
   ret : {"none", "ok", "EINVAL", "ETIMEDOUT"}]

TypeOK ==
  /\ pc \in [Threads -> {"idle", "next", "take", "commit", "wait", "check", "unqueue",
                         "abort", "clear", "reset", "resetsleep", "resetend", "returned"}]
  /\ job \in [Jobs -> JobType]
  /\ takes \in [Threads -> Jobs \cup {None}]
  /\ owner \in Jobs \cup {None}
  /\ todo \in Seq(Jobs)
  /\ hw \in Jobs \cup {None}
  /\ irq \in Jobs \cup {None, Bad}
  /\ resetting \in BOOLEAN
  /\ resetLock \in Threads \cup {None}
  /\ resets \in 0..MaxLoad
  /\ load \in 0..MaxLoad

Underway(j) == pc[j] \in {"next", "take", "commit", "wait"}

\* A job that is neither done nor given up is in one place: once on the list,
\* or it has the core.
WaitsInOnePlace ==
  /\ \A j \in Jobs : Underway(j) /\ ~Done(j) => (j \in Range(todo) \/ owner = j)
  /\ owner \notin Range(todo)
  /\ \A m, n \in DOMAIN todo : todo[m] = todo[n] => m = n

\* One thread at a time writes the NPU's registers, for a job that has the
\* core and whose submission has not returned and freed it.
CommitsOwner ==
  \A t \in Threads : pc[t] = "commit" =>
    /\ takes[t] = owner
    /\ pc[owner] # "returned"

\* What the driver asserts when it is removed, as far as it holds: no freed job
\* is on the list, and none has the core but one that got an interrupt which
\* did not finish it: an unexpected status, or the end of a part of its tasks.
LeftBehind ==
  /\ \A j \in Range(todo) : pc[j] # "returned"
  /\ owner # None /\ pc[owner] = "returned" => job[owner].irqEntry /\ ~Done(owner)

GaveUp == {j \in Jobs : job[j].ret \in {"EINVAL", "ETIMEDOUT"}}

\* The core never idles while jobs wait for it, as long as nobody resets the
\* NPU or gives up a job: somebody is about to call rknpu_job_next.
WorkConserving ==
  todo # <<>> /\ owner = None /\ GaveUp = {} /\ resets = 0 =>
    \E j \in Jobs : pc[j] \in {"next", "take"}

\* Success is the end of the job's own tasks, and not of another's: as long as
\* no job was given up, which may leave the NPU at work for it.
SuccessIsOwn ==
  GaveUp = {} /\ resets = 0 => \A j \in Jobs : job[j].doneBy \in {None, j}

\* Every submission returns: whatever the NPU does, and also when the core is
\* never free again or a reset failed.
SubmitsReturn == \A j \in Jobs : pc[j] # "idle" ~> pc[j] = "returned"
=============================================================================
