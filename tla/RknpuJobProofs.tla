--------------------------- MODULE RknpuJobProofs ---------------------------
(***************************************************************************)
(* The NPU's job queue, for every number of submissions: what the runs     *)
(* check of RknpuJob with three of them, but for the end of every          *)
(* submission, which needs fairness.                                       *)
(***************************************************************************)
EXTENDS RknpuJob, SequenceTheorems, TLAPS

\* Each job is on the list once.
NoneTwice(s) == \A m, n \in DOMAIN s : s[m] = s[n] => m = n

-----------------------------------------------------------------------------
\* A job added to the list.
LEMMA ListAppend ==
  ASSUME NEW s \in Seq(Jobs), NEW j \in Jobs, NoneTwice(s), j \notin Range(s)
  PROVE  /\ Append(s, j) \in Seq(Jobs)
         /\ Range(Append(s, j)) = Range(s) \cup {j}
         /\ NoneTwice(Append(s, j))
<1>1. /\ Append(s, j) \in Seq(Jobs)
      /\ DOMAIN Append(s, j) = 1..(Len(s) + 1)
      /\ \A i \in 1..Len(s) : Append(s, j)[i] = s[i]
      /\ Append(s, j)[Len(s) + 1] = j
      /\ DOMAIN s = 1..Len(s) /\ Len(s) \in Nat
  OBVIOUS
<1>2. Range(Append(s, j)) = Range(s) \cup {j}
  BY <1>1 DEF Range
<1>3. NoneTwice(Append(s, j))
  BY <1>1 DEF Range, NoneTwice
<1> QED BY <1>1, <1>2, <1>3

\* The first job taken off it.
LEMMA ListTail ==
  ASSUME NEW s \in Seq(Jobs), s # <<>>, NoneTwice(s)
  PROVE  /\ Head(s) \in Range(s) /\ Head(s) \in Jobs
         /\ Tail(s) \in Seq(Jobs)
         /\ Range(Tail(s)) = Range(s) \ {Head(s)}
         /\ NoneTwice(Tail(s))
<1>1. /\ Tail(s) \in Seq(Jobs)
      /\ Len(s) \in Nat /\ Len(s) > 0
      /\ DOMAIN Tail(s) = 1..(Len(s) - 1)
      /\ \A i \in 1..(Len(s) - 1) : Tail(s)[i] = s[i + 1]
      /\ DOMAIN s = 1..Len(s)
      /\ Head(s) = s[1] /\ Head(s) \in Jobs
  OBVIOUS
<1>2. Head(s) \in Range(s)
  BY <1>1 DEF Range
<1>3. Range(Tail(s)) \subseteq Range(s) \ {Head(s)}
  BY <1>1 DEF Range, NoneTwice
<1>4. ASSUME NEW x \in Range(s), x # Head(s)
      PROVE  x \in Range(Tail(s))
  <2>1. PICK i \in 1..Len(s) : s[i] = x
    BY <1>1 DEF Range
  <2>2. i # 1 /\ i - 1 \in 1..(Len(s) - 1) /\ Tail(s)[i - 1] = s[i]
    BY <1>1, <1>4, <2>1
  <2> QED BY <1>1, <2>1, <2>2 DEF Range
<1>5. NoneTwice(Tail(s))
  BY <1>1 DEF NoneTwice
<1> QED BY <1>1, <1>2, <1>3, <1>4, <1>5

\* Arithmetic of the part of a list behind position q.
LEMMA BehindIt ==
  \A n \in Nat : \A q \in 1..n :
    /\ n - (q + 1) + 1 = n - q
    /\ (IF q + 1 <= n THEN n - (q + 1) + 1 ELSE 0) = n - q
    /\ \A i \in 1..(n - q) : (q + 1) + i - 1 = q + i
    /\ \A i \in 1..(n - 1) :
         IF i < q THEN i \in 1..(q - 1) /\ i <= q - 1
         ELSE i - (q - 1) \in 1..(n - q) /\ ~(i <= q - 1) /\ q + (i - (q - 1)) = i + 1
  OBVIOUS

\* A job removed from it, wherever it is.
LEMMA ListRemove ==
  ASSUME NEW s \in Seq(Jobs), NEW j \in Jobs, NoneTwice(s)
  PROVE  /\ RemoveFirst(s, j) \in Seq(Jobs)
         /\ Range(RemoveFirst(s, j)) = Range(s) \ {j}
         /\ NoneTwice(RemoveFirst(s, j))
<1>0. DOMAIN s = 1..Len(s) /\ Len(s) \in Nat
  OBVIOUS
<1>1. CASE \E i \in 1..Len(s) : s[i] = j
  <2> DEFINE I == {i \in 1..Len(s) : s[i] = j}
  <2>1. PICK k \in I : \A i \in I : k <= i
    BY <1>0, <1>1 DEF NoneTwice
  <2>2. Min(I) \in I
    BY <2>1 DEF Min
  <2>3. RemoveFirst(s, j) = RemoveAt(s, Min(I))
    BY <1>1 DEF RemoveFirst, SelectInSeq
  <2> HIDE DEF I
  <2>4. PICK p \in 1..Len(s) : s[p] = j /\ RemoveFirst(s, j) = RemoveAt(s, p)
    BY <2>2, <2>3 DEF I
  <2> DEFINE front == SubSeq(s, 1, p - 1)
             back == SubSeq(s, p + 1, Len(s))
             r == front \o back
  <2>5. /\ front \in Seq(Jobs)
        /\ Len(front) = p - 1
        /\ \A i \in 1..(p - 1) : front[i] = s[i]
    BY <1>0, <2>4
  <2>6. /\ back \in Seq(Jobs)
        /\ Len(back) = Len(s) - p
        /\ \A i \in 1..(Len(s) - p) : back[i] = s[p + i]
    <3>1. /\ p + 1 \in Int /\ Len(s) \in Int
          /\ \A i \in (p + 1)..Len(s) : s[i] \in Jobs
      BY <1>0, <2>4
    <3>2. /\ back \in Seq(Jobs)
          /\ Len(back) = IF p + 1 <= Len(s) THEN Len(s) - (p + 1) + 1 ELSE 0
          /\ \A i \in 1..(Len(s) - (p + 1) + 1) : back[i] = s[(p + 1) + i - 1]
      BY <3>1, SubSeqProperties
    <3> HIDE DEF back
    <3>3. /\ Len(s) - (p + 1) + 1 = Len(s) - p
          /\ (IF p + 1 <= Len(s) THEN Len(s) - (p + 1) + 1 ELSE 0) = Len(s) - p
          /\ \A i \in 1..(Len(s) - p) : (p + 1) + i - 1 = p + i
      BY <1>0, <2>4, BehindIt
    <3> QED BY <3>2, <3>3
  <2>7. /\ r \in Seq(Jobs)
        /\ DOMAIN r = 1..(Len(s) - 1)
        /\ \A i \in 1..(Len(s) - 1) : r[i] = IF i < p THEN s[i] ELSE s[i + 1]
    <3> HIDE DEF front, back
    <3>1. /\ r \in Seq(Jobs)
          /\ Len(r) = Len(front) + Len(back)
          /\ \A i \in 1..(Len(front) + Len(back)) :
               r[i] = IF i <= Len(front) THEN front[i] ELSE back[i - Len(front)]
      BY <2>5, <2>6, ConcatProperties
    <3> HIDE DEF r
    <3>2. Len(r) = Len(s) - 1 /\ DOMAIN r = 1..Len(r)
      BY <1>0, <2>4, <2>5, <2>6, <3>1
    <3>a. /\ Len(front) + Len(back) = Len(s) - 1
          /\ \A i \in 1..(Len(s) - 1) : r[i] = IF i <= p - 1 THEN front[i] ELSE back[i - (p - 1)]
      BY <1>0, <2>4, <2>5, <2>6, <3>1
    <3>3. ASSUME NEW i \in 1..(Len(s) - 1), i < p
          PROVE  r[i] = s[i]
      <4>1. i \in 1..(p - 1) /\ i <= p - 1
        BY <1>0, <2>4, <3>3, BehindIt
      <4> QED BY <2>5, <3>a, <4>1
    <3>4. ASSUME NEW i \in 1..(Len(s) - 1), ~(i < p)
          PROVE  r[i] = s[i + 1]
      <4>1. /\ i - (p - 1) \in 1..(Len(s) - p)
            /\ ~(i <= p - 1)
            /\ p + (i - (p - 1)) = i + 1
        BY <1>0, <2>4, <3>4, BehindIt
      <4>2. r[i] = back[i - (p - 1)]
        BY <3>a, <4>1
      <4>3. back[i - (p - 1)] = s[p + (i - (p - 1))]
        BY <2>6, <4>1
      <4> QED BY <4>1, <4>2, <4>3
    <3> QED BY <3>1, <3>2, <3>3, <3>4
  <2> HIDE DEF r
  <2>8. ASSUME NEW i \in 1..(Len(s) - 1)
        PROVE  r[i] \in Range(s) /\ r[i] # j
    <3> DEFINE at == IF i < p THEN i ELSE i + 1
    <3>1. at \in 1..Len(s) /\ at # p /\ r[i] = s[at]
      BY <1>0, <2>4, <2>7
    <3> QED BY <1>0, <2>4, <3>1 DEF Range, NoneTwice
  <2>9. ASSUME NEW x \in Range(s), x # j
        PROVE  x \in Range(r)
    <3>1. PICK i \in 1..Len(s) : s[i] = x
      BY <1>0 DEF Range
    <3>2. CASE i < p
      <4>1. i \in 1..(Len(s) - 1) /\ r[i] = x
        BY <1>0, <2>4, <2>7, <3>1, <3>2
      <4> QED BY <2>7, <4>1 DEF Range
    <3>3. CASE i > p
      <4>1. i - 1 \in 1..(Len(s) - 1) /\ r[i - 1] = x
        BY <1>0, <2>4, <2>7, <3>1, <3>3
      <4> QED BY <2>7, <4>1 DEF Range
    <3> QED BY <1>0, <2>4, <2>9, <3>1, <3>2, <3>3
  <2>10. NoneTwice(r)
    <3>1. ASSUME NEW m \in 1..(Len(s) - 1), NEW n \in 1..(Len(s) - 1), r[m] = r[n]
          PROVE  m = n
      <4> DEFINE at(i) == IF i < p THEN i ELSE i + 1
      <4>1. at(m) \in 1..Len(s) /\ at(n) \in 1..Len(s) /\ s[at(m)] = s[at(n)]
        BY <1>0, <2>4, <2>7, <3>1
      <4>2. at(m) = at(n)
        BY <1>0, <4>1 DEF NoneTwice
      <4> QED BY <1>0, <2>4, <4>2
    <3> QED BY <2>7, <3>1 DEF NoneTwice
  <2>11. RemoveFirst(s, j) = r
    BY <2>4 DEF RemoveAt, r, front, back
  <2>12. Range(r) = Range(s) \ {j}
    BY <2>7, <2>8, <2>9 DEF Range
  <2> QED BY <2>7, <2>10, <2>11, <2>12
<1>2. CASE ~\E i \in 1..Len(s) : s[i] = j
  <2>1. RemoveFirst(s, j) = s
    BY <1>2 DEF RemoveFirst
  <2>2. j \notin Range(s)
    BY <1>0, <1>2 DEF Range
  <2> QED BY <2>1, <2>2
<1> QED BY <1>1, <1>2

-----------------------------------------------------------------------------
\* Nobody has reset the NPU or given up a job.
Normal == GaveUp = {} /\ resets = 0

Resetting == {"reset", "resetsleep", "resetend"}

\* A job on the list is waited for, and nothing has happened to it yet ...
ListWaits ==
  /\ NoneTwice(todo)
  /\ owner \notin Range(todo)
  /\ \A j \in Range(todo) :
       /\ pc[j] \in {"next", "take", "commit", "wait", "check", "unqueue"}
       /\ ~job[j].lastTask /\ ~Done(j)

\* ... a job that is waited for is there or has the core ...
WaitedFor ==
  \A j \in Jobs : Underway(j) /\ ~Done(j) => j \in Range(todo) \/ owner = j

\* ... the job that has the core is not done, and is left it by its thread only
\* if it has seen an interrupt ...
OwnerWaits ==
  owner # None =>
    /\ ~Done(owner)
    /\ pc[owner] # "idle"
    /\ pc[owner] \in Resetting \cup {"returned"} => job[owner].irqEntry

\* ... one thread commits, for the job that has the core and is not committed
\* yet, and whose own thread has not come past the sleep of rknpu_job_abort ...
OneCommits ==
  /\ \A t \in Threads : pc[t] = "commit" =>
       /\ takes[t] = owner /\ owner \in Jobs
       /\ ~job[owner].lastTask
       /\ pc[owner] \notin Resetting \cup {"clear", "returned"}
  /\ \A t, u \in Threads : pc[t] = "commit" /\ pc[u] = "commit" => t = u

\* ... a thread that gives up a job has a reason to, and resets have one.
Reasons ==
  /\ pc[Outside] \in Resetting \cup {"idle"}
  /\ pc[Outside] # "idle" => resets # 0
  /\ \A j \in Jobs :
       /\ pc[j] \in {"idle", "next", "take", "commit", "wait", "check"} => job[j].ret = "none"
       /\ pc[j] \in {"unqueue", "abort", "clear"} => job[j].ret \in {"EINVAL", "ETIMEDOUT"}
       /\ pc[j] \in Resetting => job[j].ret = "ETIMEDOUT"
  /\ resetting => ~Normal
  /\ resets <= load

\* In normal operation the NPU works for the job that has the core, and
\* interrupts are that job's.
HwOwned ==
  Normal =>
    /\ hw \in {None, owner}
    /\ irq \in {None, Bad, owner}
    /\ irq \in Jobs => hw = None
    /\ \A j \in Jobs : job[j].doneBy \in {None, j}

Inv ==
  /\ TypeOK
  /\ ListWaits
  /\ WaitedFor
  /\ OwnerWaits
  /\ OneCommits
  /\ Reasons
  /\ HwOwned
  /\ WorkConserving

LEMMA InitInv == Init => Inv
<1> SUFFICES ASSUME Init PROVE Inv
  OBVIOUS
<1> USE JobsAssumption
<1>1. /\ MaxLoad \in Nat
      /\ \A t \in Threads : pc[t] = "idle"
      /\ \A j \in Jobs : job[j] = NewJob
      /\ todo = <<>> /\ Range(todo) = {} /\ todo \in Seq(Jobs)
      /\ owner = None
  BY DEF Init, Range, JobsAssumption
<1>2. TypeOK
  <2>1. ASSUME NEW j \in Jobs
        PROVE  NewJob \in JobType
    BY DEF NewJob, JobType, Jobs, JobsAssumption
  <2>2. job \in [Jobs -> JobType]
    BY <2>1 DEF Init
  <2>3. pc \in [Threads -> {"idle"}] /\ takes \in [Threads -> {None}]
    BY DEF Init
  <2>4. 0 \in 0..MaxLoad
    BY <1>1
  <2> QED BY <1>1, <2>2, <2>3, <2>4 DEF Init, TypeOK
<1>3. Jobs \subseteq Threads /\ Outside \in Threads
  BY DEF Threads
<1>4. ListWaits /\ WaitedFor /\ OwnerWaits /\ OneCommits
  BY <1>1, <1>3 DEF ListWaits, WaitedFor, OwnerWaits, OneCommits, NoneTwice, Underway
<1>5. Reasons
  BY <1>1, <1>3 DEF Reasons, Resetting, NewJob, Init
<1>6. HwOwned
  BY <1>1 DEF HwOwned, Init, NewJob, JobsAssumption
<1>7. WorkConserving
  BY <1>1 DEF WorkConserving
<1> QED BY <1>2, <1>4, <1>5, <1>6, <1>7 DEF Inv

-----------------------------------------------------------------------------
\* The steps of a job's thread, of a thread that resets, and of the NPU.
LEMMA ThreadsDef ==
  /\ Jobs \subseteq Threads /\ Outside \in Threads /\ Outside \notin Jobs
  /\ None \notin Jobs /\ Bad \notin Jobs /\ None # Bad
  /\ MaxLoad \in Nat
  /\ \A t \in Threads : t \in Jobs \/ t = Outside
  BY JobsAssumption DEF Threads, JobsAssumption

\* What the updates of a struct rknpu_job leave in the fields that matter below.
Fields(q, lastTask, doneBy, irqEntry, ret) ==
  /\ q \in JobType
  /\ q.lastTask = lastTask /\ q.doneBy = doneBy /\ q.irqEntry = irqEntry /\ q.ret = ret

LEMMA JobNew ==
  ASSUME NEW n \in 1..MaxLoad, NEW q, q = [NewJob EXCEPT !.chunks = n]
  PROVE  Fields(q, FALSE, None, FALSE, "none")
<1>1. NewJob \in JobType
  BY JobsAssumption DEF NewJob, JobType, Jobs, JobsAssumption
<1>2. /\ NewJob.lastTask = FALSE /\ NewJob.doneBy = None
      /\ NewJob.irqEntry = FALSE /\ NewJob.ret = "none"
  BY DEF NewJob
<1> QED BY <1>1, <1>2 DEF JobType, Fields

LEMMA JobBegins ==
  ASSUME NEW r \in JobType, NEW v \in {"no", "now", "before"},
         NEW q, q = [r EXCEPT !.begun = v]
  PROVE  Fields(q, r.lastTask, r.doneBy, r.irqEntry, r.ret)
  BY DEF JobType, Fields

LEMMA JobCommitted ==
  ASSUME NEW r \in JobType, NEW q, q = [r EXCEPT !.lastTask = TRUE]
  PROVE  Fields(q, TRUE, r.doneBy, r.irqEntry, r.ret)
  BY DEF JobType, Fields

LEMMA JobBeginsCommitted ==
  ASSUME NEW r \in JobType, NEW v \in {"no", "now", "before"},
         NEW q, q = [r EXCEPT !.begun = v, !.lastTask = TRUE]
  PROVE  Fields(q, TRUE, r.doneBy, r.irqEntry, r.ret)
<1> DEFINE a == [r EXCEPT !.begun = v]
<1>1. q = [a EXCEPT !.lastTask = TRUE]
  BY Zenon
<1>2. Fields(a, r.lastTask, r.doneBy, r.irqEntry, r.ret)
  BY JobBegins
<1> HIDE DEF a
<1>3. Fields(q, TRUE, a.doneBy, a.irqEntry, a.ret)
  BY <1>1, <1>2, JobCommitted DEF Fields
<1> QED BY <1>2, <1>3 DEF Fields

LEMMA JobInterrupted ==
  ASSUME NEW r \in JobType, NEW q, q = [r EXCEPT !.irqEntry = TRUE]
  PROVE  Fields(q, r.lastTask, r.doneBy, TRUE, r.ret) /\ q.chunks = r.chunks
  BY DEF JobType, Fields

LEMMA JobPartDone ==
  ASSUME NEW r \in JobType, r.chunks > 1,
         NEW q, q = [r EXCEPT !.irqEntry = TRUE, !.chunks = @ - 1]
  PROVE  Fields(q, r.lastTask, r.doneBy, TRUE, r.ret)
<1> DEFINE a == [r EXCEPT !.irqEntry = TRUE]
<1>1. q = [a EXCEPT !.chunks = r.chunks - 1]
  BY Zenon
<1>2. Fields(a, r.lastTask, r.doneBy, TRUE, r.ret)
  BY JobInterrupted
<1>3. r.chunks - 1 \in 1..MaxLoad
  BY JobsAssumption DEF JobType, JobsAssumption
<1> HIDE DEF a
<1>4. Fields(q, a.lastTask, a.doneBy, a.irqEntry, a.ret)
  BY <1>1, <1>2, <1>3 DEF JobType, Fields
<1> QED BY <1>2, <1>4 DEF Fields

LEMMA JobDone ==
  ASSUME NEW r \in JobType, NEW v \in Jobs,
         NEW q, q = [r EXCEPT !.irqEntry = TRUE, !.doneBy = v]
  PROVE  Fields(q, r.lastTask, v, TRUE, r.ret)
<1> DEFINE a == [r EXCEPT !.irqEntry = TRUE]
<1>1. q = [a EXCEPT !.doneBy = v]
  BY Zenon
<1>2. Fields(a, r.lastTask, r.doneBy, TRUE, r.ret)
  BY JobInterrupted
<1> HIDE DEF a
<1>4. Fields(q, a.lastTask, v, a.irqEntry, a.ret)
  BY <1>1, <1>2 DEF JobType, Fields
<1> QED BY <1>2, <1>4 DEF Fields

LEMMA JobTimedOut ==
  ASSUME NEW r \in JobType, NEW n \in 0..3, NEW v \in {"no", "now", "before"}, NEW w \in BOOLEAN,
         NEW q, q = [r EXCEPT !.rounds = n, !.begun = v, !.late = w]
  PROVE  Fields(q, r.lastTask, r.doneBy, r.irqEntry, r.ret)
<1> DEFINE a == [r EXCEPT !.rounds = n]
           b == [a EXCEPT !.begun = v]
<1>1. q = [b EXCEPT !.late = w]
  BY Zenon
<1>2. Fields(a, r.lastTask, r.doneBy, r.irqEntry, r.ret)
  BY DEF JobType, Fields
<1> HIDE DEF a
<1>3. Fields(b, a.lastTask, a.doneBy, a.irqEntry, a.ret)
  BY <1>2, JobBegins DEF Fields
<1> HIDE DEF b
<1>4. Fields(q, b.lastTask, b.doneBy, b.irqEntry, b.ret)
  BY <1>1, <1>3 DEF JobType, Fields
<1> QED BY <1>2, <1>3, <1>4 DEF Fields

LEMMA JobChecked ==
  ASSUME NEW r \in JobType, NEW v \in {"ok", "EINVAL", "ETIMEDOUT"},
         NEW q, q = [r EXCEPT !.ret = v, !.rounds = 0, !.late = FALSE]
  PROVE  Fields(q, r.lastTask, r.doneBy, r.irqEntry, v)
<1> DEFINE a == [r EXCEPT !.ret = v]
           b == [a EXCEPT !.rounds = 0]
<1>1. q = [b EXCEPT !.late = FALSE]
  BY Zenon
<1>2. Fields(a, r.lastTask, r.doneBy, r.irqEntry, v)
  BY DEF JobType, Fields
<1> HIDE DEF a
<1>3. Fields(b, a.lastTask, a.doneBy, a.irqEntry, a.ret)
  BY <1>2 DEF JobType, Fields
<1> HIDE DEF b
<1>4. Fields(q, b.lastTask, b.doneBy, b.irqEntry, b.ret)
  BY <1>1, <1>3 DEF JobType, Fields
<1> QED BY <1>2, <1>3, <1>4 DEF Fields

-----------------------------------------------------------------------------
\* One job of many is updated.
LEMMA JobsUpdated ==
  ASSUME NEW f \in [Jobs -> JobType], NEW j \in Jobs, NEW q, NEW g,
         NEW lastTask, NEW doneBy, NEW irqEntry, NEW ret,
         Fields(q, lastTask, doneBy, irqEntry, ret),
         g = [f EXCEPT ![j] = q]
  PROVE  /\ g \in [Jobs -> JobType]
         /\ Fields(g[j], lastTask, doneBy, irqEntry, ret)
         /\ \A k \in Jobs : k # j => g[k] = f[k]
  BY DEF Fields

-----------------------------------------------------------------------------
LEMMA Listed == TypeOK => Range(todo) \subseteq Jobs
  BY DEF TypeOK, Range

Places ==
  {"idle", "next", "take", "commit", "wait", "check", "unqueue",
   "abort", "clear", "reset", "resetsleep", "resetend", "returned"}

\* One thread goes on.
LEMMA Moves ==
  ASSUME TypeOK, NEW t \in Threads, NEW to \in Places, Goes(t, to)
  PROVE  /\ pc' \in [Threads -> Places]
         /\ pc'[t] = to
         /\ \A u \in Threads : u # t => pc'[u] = pc[u]
<1>1. pc \in [Threads -> Places]
  BY DEF TypeOK, Places
<1> QED BY <1>1 DEF Goes

\* The fields of a job that the invariant is about stay as they are.
Kept(k) ==
  /\ job'[k].lastTask = job[k].lastTask /\ job'[k].doneBy = job[k].doneBy
  /\ job'[k].irqEntry = job[k].irqEntry /\ job'[k].ret = job[k].ret

\* The type invariant, in the parts a step leaves alone or not.
LEMMA TypeParts ==
  ASSUME TypeOK,
         pc' \in [Threads -> Places], job' \in [Jobs -> JobType],
         takes' \in [Threads -> Jobs \cup {None}],
         owner' \in Jobs \cup {None}, todo' \in Seq(Jobs),
         hw' \in Jobs \cup {None}, irq' \in Jobs \cup {None, Bad},
         UNCHANGED <<reset, load>>
  PROVE  TypeOK'
  BY DEF TypeOK, Places, reset

\* A thread goes on, and the jobs and the queue do not change, or not in a way
\* the invariant is about.
LEMMA GoesOn ==
  ASSUME Inv, NEW t \in Threads, NEW to \in Places, Goes(t, to),
         UNCHANGED <<takes, queue>>, \A k \in Jobs : Kept(k),
         to # "commit", pc[t] # "commit",
         t \in Jobs => pc[t] # "idle" /\ to # "idle",
         to \in {"next", "take", "wait"} => pc[t] \in {"next", "take", "wait"},
         to \in Resetting \cup {"clear", "returned"} =>
           \/ Settled \/ pc[t] \in Resetting \cup {"clear", "returned"} \/ t = Outside
           \/ t \in Jobs /\ job[t].lastTask,
         t \in Jobs /\ to \in Resetting \cup {"returned"} =>
           pc[t] \in Resetting \/ Done(t),
         pc[t] \in {"next", "take", "commit", "wait", "check", "unqueue"} =>
           \/ to \in {"next", "take", "commit", "wait", "check", "unqueue"}
           \/ t \in Jobs /\ job[t].lastTask
  PROVE  ListWaits' /\ WaitedFor' /\ OwnerWaits' /\ OneCommits'
<1> USE ThreadsDef
<1>1. /\ pc'[t] = to
      /\ \A u \in Threads : u # t => pc'[u] = pc[u]
  BY Moves DEF Inv
<1>2. owner' = owner /\ todo' = todo /\ takes' = takes
  BY DEF queue
<1>3. ListWaits'
  BY <1>1, <1>2 DEF Inv, TypeOK, ListWaits, Kept, Done, NoneTwice, Range
<1>4. WaitedFor'
  BY <1>1, <1>2 DEF Inv, WaitedFor, Kept, Done, Underway
<1>5. OwnerWaits'
  BY <1>1, <1>2 DEF Inv, TypeOK, OwnerWaits, Kept, Done
<1>6. OneCommits'
  <2>1. Settled => \A u \in Threads : pc[u] # "commit"
    BY DEF Settled, Sleeping
  <2> QED BY <1>1, <1>2, <2>1 DEF Inv, OneCommits, Kept
<1> QED BY <1>3, <1>4, <1>5, <1>6

\* Nothing is said of resets and given-up jobs that was not so before.
LEMMA NormalKept ==
  ASSUME \A k \in Jobs : Kept(k), resets' = resets
  PROVE  Normal' = Normal /\ GaveUp' = GaveUp
  BY DEF Normal, GaveUp, Kept

\* What a step that only lets a thread go on does not change.
LEMMA NothingDone ==
  ASSUME Inv, UNCHANGED <<job, queue>>, resets' = resets,
         hw' \in {hw, None}, irq' \in {irq, None},
         (irq' = irq /\ hw' = hw) \/ (irq' = None /\ hw' = None)
  PROVE  HwOwned'
  BY ThreadsDef DEF Inv, HwOwned, Normal, GaveUp, queue


\* A thread that leaves rknpu_job_next has found nothing to do there.
LEMMA CoreBusy ==
  ASSUME Inv, NEW t \in Threads, NEW to \in Places, Goes(t, to),
         UNCHANGED queue, \A k \in Jobs : Kept(k), resets' = resets,
         pc[t] \in {"next", "take"} =>
           \/ to \in {"next", "take"} \/ todo = <<>> \/ owner # None \/ ~Normal
  PROVE  WorkConserving'
<1>1. pc'[t] = to /\ \A u \in Threads : u # t => pc'[u] = pc[u]
  BY Moves DEF Inv
<1>2. SUFFICES ASSUME todo # <<>>, owner = None, Normal
               PROVE  \E k \in Jobs : pc'[k] \in {"next", "take"}
  BY NormalKept DEF WorkConserving, Normal, queue
<1>3. PICK k \in Jobs : pc[k] \in {"next", "take"}
  BY <1>2 DEF Inv, WorkConserving, Normal
<1> QED BY <1>1, <1>2, <1>3, ThreadsDef

\* A job's thread goes on, and nothing is reset.
LEMMA ReasonsKept ==
  ASSUME Inv, NEW j \in Jobs, NEW to \in Places \ {"idle"}, Goes(j, to),
         \A k \in Jobs : Kept(k), UNCHANGED <<resets, resetting, load>>,
         to \in {"next", "take", "commit", "wait", "check"} =>
           pc[j] \in {"next", "take", "commit", "wait", "check"},
         to \in {"unqueue", "abort", "clear"} => pc[j] \in {"unqueue", "abort", "clear"},
         to \in Resetting => job[j].ret = "ETIMEDOUT"
  PROVE  Reasons'
<1>1. pc'[j] = to /\ \A u \in Threads : u # j => pc'[u] = pc[u]
  BY Moves, ThreadsDef DEF Inv
<1>2. Normal' = Normal
  BY NormalKept
<1>3. pc'[Outside] = pc[Outside]
  BY <1>1, ThreadsDef
<1>4. ASSUME NEW k \in Jobs
      PROVE  /\ pc'[k] \in {"idle", "next", "take", "commit", "wait", "check"} =>
                  job'[k].ret = "none"
             /\ pc'[k] \in {"unqueue", "abort", "clear"} =>
                  job'[k].ret \in {"EINVAL", "ETIMEDOUT"}
             /\ pc'[k] \in Resetting => job'[k].ret = "ETIMEDOUT"
  <2>1. job'[k].ret = job[k].ret
    BY DEF Kept
  <2>2. CASE k = j
    BY <1>1, <2>1, <2>2 DEF Inv, Reasons, Resetting
  <2>3. CASE k # j
    BY <1>1, <2>1, <2>3, ThreadsDef DEF Inv, Reasons, Resetting
  <2> QED BY <2>2, <2>3
<1> QED BY <1>2, <1>3, <1>4 DEF Inv, Reasons

-----------------------------------------------------------------------------
\* rknpu_job_next, up to the lock.
LEMMA NextCheckStep ==
  ASSUME Inv, NEW j \in Jobs, NextCheck(j)
  PROVE  Inv'
<1> USE ThreadsDef
<1> DEFINE to == IF resetting THEN "wait" ELSE "take"
<1>1. /\ pc[j] = "next" /\ Goes(j, to) /\ to \in Places \ {"idle"}
      /\ UNCHANGED <<job, takes, queue, npu, reset, load>>
      /\ to \in {"wait", "take"}
      /\ \A k \in Jobs : Kept(k)
  BY DEF NextCheck, Places, Kept
<1>2. ~resetting => to = "take"
  OBVIOUS
<1> HIDE DEF to
<1>3. TypeOK'
  <2>1. pc' \in [Threads -> Places]
    BY <1>1, Moves DEF Inv
  <2> QED BY <1>1, <2>1, TypeParts DEF Inv, TypeOK, queue, npu
<1>4. ListWaits' /\ WaitedFor' /\ OwnerWaits' /\ OneCommits'
  BY <1>1, GoesOn DEF Resetting
<1>5. Reasons'
  BY <1>1, ReasonsKept DEF Resetting, reset
<1>6. HwOwned'
  BY <1>1, NothingDone DEF npu, reset
<1>7. WorkConserving'
  BY <1>1, <1>2, CoreBusy DEF Inv, Reasons, reset
<1> QED BY <1>3, <1>4, <1>5, <1>6, <1>7 DEF Inv

\* There is nothing to do in rknpu_job_next.
LEMMA NextNothingStep ==
  ASSUME Inv, NEW j \in Jobs, NextNothing(j)
  PROVE  Inv'
<1> USE ThreadsDef
<1>1. /\ pc[j] = "take" /\ Goes(j, "wait") /\ "wait" \in Places \ {"idle"}
      /\ UNCHANGED <<job, takes, queue, npu, reset, load>>
      /\ owner # None \/ todo = <<>>
      /\ \A k \in Jobs : Kept(k)
  BY DEF NextNothing, Places, Kept
<1>2. TypeOK'
  <2>1. pc' \in [Threads -> Places]
    BY <1>1, Moves DEF Inv
  <2> QED BY <1>1, <2>1, TypeParts DEF Inv, TypeOK, queue, npu
<1>3. ListWaits' /\ WaitedFor' /\ OwnerWaits' /\ OneCommits'
  BY <1>1, GoesOn DEF Resetting
<1>4. Reasons'
  BY <1>1, ReasonsKept DEF Resetting, reset
<1>5. HwOwned'
  BY <1>1, NothingDone DEF npu, reset
<1>6. WorkConserving'
  BY <1>1, CoreBusy DEF reset
<1> QED BY <1>2, <1>3, <1>4, <1>5, <1>6 DEF Inv

\* The condition of wait_event_timeout holds.
LEMMA WokenStep ==
  ASSUME Inv, NEW j \in Jobs, Woken(j)
  PROVE  Inv'
<1> USE ThreadsDef
<1>1. /\ pc[j] = "wait" /\ Goes(j, "check") /\ "check" \in Places \ {"idle"}
      /\ UNCHANGED <<job, takes, queue, npu, reset, load>>
      /\ \A k \in Jobs : Kept(k)
  BY DEF Woken, Places, Kept
<1>2. TypeOK'
  <2>1. pc' \in [Threads -> Places]
    BY <1>1, Moves DEF Inv
  <2> QED BY <1>1, <2>1, TypeParts DEF Inv, TypeOK, queue, npu
<1>3. ListWaits' /\ WaitedFor' /\ OwnerWaits' /\ OneCommits'
  BY <1>1, GoesOn DEF Resetting
<1>4. Reasons'
  BY <1>1, ReasonsKept DEF Resetting, reset
<1>5. HwOwned'
  BY <1>1, NothingDone DEF npu, reset
<1>6. WorkConserving'
  BY <1>1, CoreBusy DEF reset
<1> QED BY <1>2, <1>3, <1>4, <1>5, <1>6 DEF Inv

\* The sleep of rknpu_job_abort is over: nobody is about to commit.
LEMMA SleptStep ==
  ASSUME Inv, NEW j \in Jobs, Slept(j)
  PROVE  Inv'
<1> USE ThreadsDef
<1>1. /\ pc[j] = "abort" /\ Goes(j, "clear") /\ "clear" \in Places \ {"idle"}
      /\ UNCHANGED <<job, takes, queue, npu, reset, load>>
      /\ Settled
      /\ \A k \in Jobs : Kept(k)
  BY DEF Slept, Places, Kept
<1>2. TypeOK'
  <2>1. pc' \in [Threads -> Places]
    BY <1>1, Moves DEF Inv
  <2> QED BY <1>1, <2>1, TypeParts DEF Inv, TypeOK, queue, npu
<1>3. ListWaits' /\ WaitedFor' /\ OwnerWaits' /\ OneCommits'
  BY <1>1, GoesOn DEF Resetting
<1>4. Reasons'
  BY <1>1, ReasonsKept DEF Resetting, reset
<1>5. HwOwned'
  BY <1>1, NothingDone DEF npu, reset
<1>6. WorkConserving'
  BY <1>1, CoreBusy DEF reset
<1> QED BY <1>2, <1>3, <1>4, <1>5, <1>6 DEF Inv

-----------------------------------------------------------------------------
\* A job comes to the list: it has not been anywhere before.
LEMMA SubmitStep ==
  ASSUME Inv, NEW j \in Jobs, Submit(j)
  PROVE  Inv'
<1> USE ThreadsDef
<1>1. PICK n \in 1..(MaxLoad - load) :
        /\ job' = [job EXCEPT ![j] = [NewJob EXCEPT !.chunks = n]]
        /\ load' = load + n
  BY DEF Submit
<1>2. /\ pc[j] = "idle" /\ Goes(j, "next") /\ "next" \in Places
      /\ todo' = Append(todo, j)
      /\ UNCHANGED <<takes, owner, npu, reset>>
  BY DEF Submit, Places
<1>3. n \in 1..MaxLoad /\ load' \in 0..MaxLoad
  BY <1>1 DEF Inv, TypeOK
<1>4. /\ pc' \in [Threads -> Places] /\ pc'[j] = "next"
      /\ \A u \in Threads : u # j => pc'[u] = pc[u]
  BY <1>2, Moves DEF Inv
<1>5. /\ job' \in [Jobs -> JobType]
      /\ Fields(job'[j], FALSE, None, FALSE, "none")
      /\ \A k \in Jobs : k # j => job'[k] = job[k]
  <2> DEFINE q == [NewJob EXCEPT !.chunks = n]
  <2>1. Fields(q, FALSE, None, FALSE, "none")
    BY <1>3, JobNew
  <2>2. job' = [job EXCEPT ![j] = q]
    BY <1>1
  <2> HIDE DEF q
  <2> QED BY <2>1, <2>2, JobsUpdated DEF Inv, TypeOK
<1>6. j \notin Range(todo) /\ owner # j
  BY <1>2 DEF Inv, ListWaits, OwnerWaits
<1>7. /\ todo' \in Seq(Jobs)
      /\ Range(todo') = Range(todo) \cup {j}
      /\ NoneTwice(todo')
  BY <1>2, <1>6, ListAppend DEF Inv, TypeOK, ListWaits
<1>8. TypeOK'
  BY <1>2, <1>3, <1>4, <1>5, <1>7 DEF Inv, TypeOK, Places, npu, reset
<1>9. job[j].ret = "none"
  BY <1>2 DEF Inv, Reasons
<1>10. GaveUp' = GaveUp /\ Normal' = Normal
  BY <1>2, <1>5, <1>9 DEF GaveUp, Normal, reset, Fields
<1>11. ListWaits'
  BY <1>2, <1>4, <1>5, <1>6, <1>7, Listed DEF Inv, ListWaits, Fields, Done
<1>12. WaitedFor'
  BY <1>2, <1>4, <1>5, <1>7 DEF Inv, WaitedFor, Underway, Done
<1>13. OwnerWaits'
  BY <1>2, <1>4, <1>5, <1>6 DEF Inv, TypeOK, OwnerWaits, Done
<1>14. OneCommits'
  BY <1>2, <1>4, <1>5, <1>6 DEF Inv, OneCommits
<1>15. Reasons'
  <2>1. resets' <= load'
    BY <1>1, <1>2 DEF Inv, TypeOK, Reasons, reset
  <2> QED BY <1>2, <1>4, <1>5, <1>10, <2>1 DEF Inv, Reasons, Resetting, reset, Fields
<1>16. HwOwned'
  BY <1>2, <1>5, <1>10 DEF Inv, HwOwned, npu, Fields
<1>17. WorkConserving'
  BY <1>4 DEF WorkConserving
<1> QED BY <1>8, <1>11, <1>12, <1>13, <1>14, <1>15, <1>16, <1>17 DEF Inv

\* rknpu_job_next takes the first job off the list.
LEMMA NextTakeStep ==
  ASSUME Inv, NEW j \in Jobs, NextTake(j)
  PROVE  Inv'
<1> USE ThreadsDef
<1> DEFINE b == Head(todo)
<1>1. /\ pc[j] = "take" /\ Goes(j, "commit") /\ "commit" \in Places
      /\ owner = None /\ todo # <<>>
      /\ owner' = b /\ todo' = Tail(todo)
      /\ job' = [job EXCEPT ![b].begun = Begun(b)]
      /\ takes' = [takes EXCEPT ![j] = b]
      /\ UNCHANGED <<npu, reset, load>>
  BY DEF NextTake, Places
<1>2. /\ b \in Range(todo) /\ b \in Jobs
      /\ todo' \in Seq(Jobs)
      /\ Range(todo') = Range(todo) \ {b}
      /\ NoneTwice(todo')
  BY <1>1, ListTail DEF Inv, TypeOK, ListWaits
<1>3. /\ pc' \in [Threads -> Places] /\ pc'[j] = "commit"
      /\ \A u \in Threads : u # j => pc'[u] = pc[u]
  BY <1>1, Moves DEF Inv
<1> HIDE DEF b
<1>4. job' \in [Jobs -> JobType] /\ \A k \in Jobs : Kept(k)
  <2> DEFINE q == [job[b] EXCEPT !.begun = Begun(b)]
  <2>1. job[b] \in JobType /\ Begun(b) \in {"no", "now", "before"}
    BY <1>2 DEF Inv, TypeOK, Begun
  <2>2. Fields(q, job[b].lastTask, job[b].doneBy, job[b].irqEntry, job[b].ret)
    BY <2>1, JobBegins
  <2>3. job' = [job EXCEPT ![b] = q]
    BY <1>1
  <2> HIDE DEF q
  <2>4. /\ job' \in [Jobs -> JobType]
        /\ Fields(job'[b], job[b].lastTask, job[b].doneBy, job[b].irqEntry, job[b].ret)
        /\ \A k \in Jobs : k # b => job'[k] = job[k]
    BY <1>2, <2>2, <2>3, JobsUpdated DEF Inv, TypeOK
  <2> QED BY <2>4 DEF Kept, Fields
<1>5. /\ takes' \in [Threads -> Jobs \cup {None}] /\ takes'[j] = b
      /\ \A u \in Threads : u # j => takes'[u] = takes[u]
  BY <1>1, <1>2 DEF Inv, TypeOK
<1>6. TypeOK'
  BY <1>1, <1>2, <1>3, <1>4, <1>5, TypeParts DEF Inv, TypeOK, npu
<1>7. GaveUp' = GaveUp /\ Normal' = Normal
  BY <1>1, <1>4, NormalKept DEF reset
<1>8. ListWaits'
  BY <1>1, <1>2, <1>3, <1>4, Listed DEF Inv, ListWaits, Kept, Done
<1>9. WaitedFor'
  BY <1>1, <1>2, <1>3, <1>4 DEF Inv, WaitedFor, Underway, Kept, Done
<1>a. /\ pc[b] \in {"next", "take", "commit", "wait", "check", "unqueue"}
      /\ ~job[b].lastTask /\ ~Done(b)
  BY <1>2 DEF Inv, ListWaits
<1>b. /\ pc'[b] \in {"next", "take", "commit", "wait", "check", "unqueue"}
      /\ job'[b].lastTask = job[b].lastTask /\ job'[b].doneBy = job[b].doneBy
  BY <1>2, <1>3, <1>4, <1>a DEF Kept
<1>10. OwnerWaits'
  BY <1>1, <1>a, <1>b DEF OwnerWaits, Done, Resetting
<1>11. \A u \in Threads : pc[u] # "commit"
  BY <1>1 DEF Inv, OneCommits
<1>12. OneCommits'
  BY <1>1, <1>2, <1>3, <1>5, <1>11, <1>a, <1>b DEF OneCommits, Resetting
<1>13. Reasons'
  BY <1>1, <1>4, ReasonsKept DEF Places, Resetting, reset
<1>14. HwOwned'
  BY <1>1, <1>4, <1>7 DEF Inv, HwOwned, npu, Kept
<1>15. WorkConserving'
  BY <1>1, <1>2 DEF WorkConserving
<1> QED BY <1>6, <1>8, <1>9, <1>10, <1>12, <1>13, <1>14, <1>15 DEF Inv

\* The job taken off the list is committed.
LEMMA CommitStep ==
  ASSUME Inv, NEW j \in Jobs, Commit(j)
  PROVE  Inv'
<1> USE ThreadsDef
<1>1. /\ pc[j] = "commit" /\ Goes(j, "wait") /\ "wait" \in Places
      /\ job' = [job EXCEPT ![takes[j]].lastTask = TRUE]
      /\ irq' = None /\ hw' \in {takes[j]} \cup ({hw} \ {None})
      /\ takes' = [takes EXCEPT ![j] = None]
      /\ UNCHANGED <<queue, reset, load>>
  BY DEF Commit, Starts, Places
<1>2. takes[j] = owner /\ owner \in Jobs
  BY <1>1 DEF Inv, OneCommits
<1>3. /\ pc' \in [Threads -> Places] /\ pc'[j] = "wait"
      /\ \A u \in Threads : u # j => pc'[u] = pc[u]
  BY <1>1, Moves DEF Inv
<1>4. /\ job' \in [Jobs -> JobType]
      /\ Fields(job'[owner], TRUE, job[owner].doneBy, job[owner].irqEntry, job[owner].ret)
      /\ \A k \in Jobs : k # owner => job'[k] = job[k]
  <2> DEFINE q == [job[owner] EXCEPT !.lastTask = TRUE]
  <2>1. Fields(q, TRUE, job[owner].doneBy, job[owner].irqEntry, job[owner].ret)
    BY <1>2, JobCommitted DEF Inv, TypeOK
  <2>2. job' = [job EXCEPT ![owner] = q]
    BY <1>1, <1>2
  <2>3. job \in [Jobs -> JobType]
    BY DEF Inv, TypeOK
  <2> HIDE DEF q
  <2> QED BY <1>2, <2>1, <2>2, <2>3 DEF Fields
<1>5. takes' \in [Threads -> Jobs \cup {None}]
  BY <1>1 DEF Inv, TypeOK
<1>6. hw' \in Jobs \cup {None} /\ irq' \in Jobs \cup {None, Bad}
  BY <1>1, <1>2 DEF Inv, TypeOK
<1>7. TypeOK'
  BY <1>1, <1>3, <1>4, <1>5, <1>6, TypeParts DEF Inv, TypeOK, queue
<1>8. GaveUp' = GaveUp /\ Normal' = Normal
  BY <1>1, <1>2, <1>4 DEF GaveUp, Normal, Fields, reset
<1>9. ListWaits'
  BY <1>1, <1>3, <1>4, Listed DEF Inv, ListWaits, Done, queue
<1>10. WaitedFor'
  BY <1>1, <1>3, <1>4 DEF Inv, WaitedFor, Underway, Fields, Done, queue
<1>11. OwnerWaits'
  BY <1>1, <1>2, <1>3, <1>4 DEF Inv, OwnerWaits, Fields, Done, queue, Resetting
<1>12. OneCommits'
  <2>1. \A u \in Threads : pc'[u] # "commit"
    BY <1>1, <1>3 DEF Inv, OneCommits
  <2> QED BY <2>1 DEF OneCommits
<1>13. Reasons'
  BY <1>1, <1>2, <1>3, <1>4, <1>8 DEF Inv, Reasons, Resetting, Fields, reset
<1>14. HwOwned'
  BY <1>1, <1>2, <1>4, <1>8 DEF Inv, HwOwned, queue, Fields
<1>15. WorkConserving'
  BY <1>1, <1>2 DEF WorkConserving, queue
<1> QED BY <1>7, <1>9, <1>10, <1>11, <1>12, <1>13, <1>14, <1>15 DEF Inv

-----------------------------------------------------------------------------
\* A time-out of rknpu_job_wait.
LEMMA TimeOutStep ==
  ASSUME Inv, NEW j \in Jobs, TimeOut(j)
  PROVE  Inv'
<1> USE ThreadsDef
<1> DEFINE to == IF Leaves(j) THEN "check" ELSE "wait"
           n == IF job[j].rounds < 3 THEN job[j].rounds + 1 ELSE job[j].rounds
           v == IF job[j].begun = "now" THEN "before" ELSE job[j].begun
<1>1. /\ pc[j] = "wait" /\ Goes(j, to) /\ to \in Places \ {"idle"}
      /\ to \in {"check", "wait"}
      /\ UNCHANGED <<takes, queue, npu, reset, load>>
  BY DEF TimeOut, Places
<1>2. job' \in [Jobs -> JobType] /\ \A k \in Jobs : Kept(k)
  <2> DEFINE r == job[j]
             q == [r EXCEPT !.rounds = n, !.begun = v, !.late = Leaves(j)]
  <2>1. r \in JobType
    BY DEF Inv, TypeOK
  <2>2. n \in 0..3 /\ v \in {"no", "now", "before"}
    <3>1. r.rounds \in 0..3 /\ r.begun \in {"no", "now", "before"}
      BY <2>1 DEF JobType
    <3> QED BY <3>1
  <2>3. Leaves(j) \in BOOLEAN
    BY SMTT(40) DEF Leaves
  <2>4. Fields(q, r.lastTask, r.doneBy, r.irqEntry, r.ret)
    <3> HIDE DEF n, v, r
    <3> QED BY <2>1, <2>2, <2>3, JobTimedOut
  <2>5. job' = [job EXCEPT ![j] = q]
    BY Zenon DEF TimeOut
  <2> HIDE DEF q
  <2>6. job \in [Jobs -> JobType]
    BY DEF Inv, TypeOK
  <2> QED BY <2>4, <2>5, <2>6 DEF Kept, Fields
<1> HIDE DEF to
<1>3. TypeOK'
  <2>1. pc' \in [Threads -> Places]
    BY <1>1, Moves DEF Inv
  <2> QED BY <1>1, <1>2, <2>1, TypeParts DEF Inv, TypeOK, queue, npu
<1>4. ListWaits' /\ WaitedFor' /\ OwnerWaits' /\ OneCommits'
  BY <1>1, <1>2, GoesOn DEF Resetting
<1>5. Reasons'
  BY <1>1, <1>2, ReasonsKept DEF Resetting, reset
<1>6. HwOwned'
  <2>1. Normal' = Normal
    BY <1>1, <1>2, NormalKept DEF reset
  <2> QED BY <1>1, <1>2, <2>1 DEF Inv, HwOwned, Kept, queue, npu
<1>7. WorkConserving'
  BY <1>1, <1>2, CoreBusy DEF reset
<1> QED BY <1>3, <1>4, <1>5, <1>6, <1>7 DEF Inv

\* The end of rknpu_job_wait: a job that is not done is given up.
LEMMA CheckStep ==
  ASSUME Inv, NEW j \in Jobs, Check(j)
  PROVE  Inv'
<1> USE ThreadsDef
<1> DEFINE v == Result(j)
           to == IF ~job[j].lastTask THEN "unqueue" ELSE IF v = "ok" THEN "returned" ELSE "abort"
<1>1. /\ pc[j] = "check" /\ Goes(j, to)
      /\ job' = [job EXCEPT ![j].ret = v, ![j].rounds = 0, ![j].late = FALSE]
      /\ UNCHANGED <<takes, queue, npu, reset, load>>
  BY DEF Check
<1>2. /\ v \in {"ok", "EINVAL", "ETIMEDOUT"}
      /\ v = "ok" => job[j].lastTask /\ Done(j)
  BY DEF Result
<1> HIDE DEF v
<1>3. /\ to \in Places \ {"idle"}
      /\ to \in {"unqueue", "returned", "abort"}
      /\ to = "unqueue" <=> ~job[j].lastTask
      /\ to = "returned" <=> v = "ok"
  BY <1>2 DEF Places
<1> HIDE DEF to
<1>4. /\ pc' \in [Threads -> Places] /\ pc'[j] = to
      /\ \A u \in Threads : u # j => pc'[u] = pc[u]
  BY <1>1, <1>3, Moves DEF Inv
<1>5. /\ job' \in [Jobs -> JobType]
      /\ Fields(job'[j], job[j].lastTask, job[j].doneBy, job[j].irqEntry, v)
      /\ \A k \in Jobs : k # j => job'[k] = job[k]
  <2> DEFINE r == job[j]
             q == [r EXCEPT !.ret = v, !.rounds = 0, !.late = FALSE]
  <2>1. job \in [Jobs -> JobType] /\ r \in JobType
    BY SMTT(40) DEF Inv, TypeOK
  <2>2. Fields(q, r.lastTask, r.doneBy, r.irqEntry, v)
    <3> HIDE DEF r
    <3> QED BY <1>2, <2>1, JobChecked
  <2>3. job' = [job EXCEPT ![j] = q]
    BY <1>1, Zenon
  <2> HIDE DEF q
  <2> QED BY <2>1, <2>2, <2>3 DEF Fields
<1>6. TypeOK'
  BY <1>1, <1>4, <1>5, TypeParts DEF Inv, TypeOK, queue, npu
<1>7. Normal' => Normal
  BY <1>1, <1>5 DEF Inv, Reasons, Normal, GaveUp, Fields, reset
<1>8. v # "ok" => ~Normal'
  BY <1>2, <1>5 DEF Normal, GaveUp, Fields
<1>9. ListWaits'
  <2>1. ASSUME NEW k \in Range(todo)
        PROVE  /\ pc'[k] \in {"next", "take", "commit", "wait", "check", "unqueue"}
               /\ ~job'[k].lastTask /\ job'[k].doneBy = None
    <3>1. k \in Jobs
      BY <2>1, Listed DEF Inv
    <3>2. /\ pc[k] \in {"next", "take", "commit", "wait", "check", "unqueue"}
          /\ ~job[k].lastTask /\ job[k].doneBy = None
      BY <2>1 DEF Inv, ListWaits, Done
    <3> QED BY <1>3, <1>4, <1>5, <3>1, <3>2 DEF Fields
  <2> QED BY <1>1, <2>1 DEF Inv, ListWaits, Done, queue
<1>10. WaitedFor'
  BY <1>1, <1>3, <1>4, <1>5 DEF Inv, WaitedFor, Underway, Done, queue
<1>11. OwnerWaits'
  BY <1>1, <1>2, <1>3, <1>4, <1>5 DEF Inv, TypeOK, OwnerWaits, Done, queue, Resetting, Fields
<1>12. OneCommits'
  BY <1>1, <1>3, <1>4, <1>5 DEF Inv, OneCommits, queue, Resetting, Fields
<1>13. Reasons'
  BY <1>1, <1>2, <1>3, <1>4, <1>5, <1>7 DEF Inv, Reasons, Resetting, Fields, reset
<1>14. HwOwned'
  BY <1>1, <1>5, <1>7 DEF Inv, HwOwned, queue, npu, Fields
<1>15. WorkConserving'
  <2>1. SUFFICES ASSUME todo # <<>>, owner = None, Normal'
                 PROVE  \E k \in Jobs : pc'[k] \in {"next", "take"}
    BY <1>1 DEF WorkConserving, Normal, queue
  <2>2. PICK k \in Jobs : pc[k] \in {"next", "take"}
    BY <1>7, <2>1 DEF Inv, WorkConserving, Normal
  <2> QED BY <1>1, <1>4, <2>2
<1> QED BY <1>6, <1>9, <1>10, <1>11, <1>12, <1>13, <1>14, <1>15 DEF Inv

\* A job that was not committed is taken off the list.
LEMMA UnqueueStep ==
  ASSUME Inv, NEW j \in Jobs, Unqueue(j)
  PROVE  Inv'
<1> USE ThreadsDef
<1>1. /\ pc[j] = "unqueue" /\ Goes(j, "abort") /\ "abort" \in Places \ {"idle"}
      /\ todo' = RemoveFirst(todo, j)
      /\ UNCHANGED <<job, takes, owner, npu, reset, load>>
      /\ \A k \in Jobs : Kept(k)
  BY DEF Unqueue, Places, Kept
<1>2. /\ pc' \in [Threads -> Places] /\ pc'[j] = "abort"
      /\ \A u \in Threads : u # j => pc'[u] = pc[u]
  BY <1>1, Moves DEF Inv
<1>3. /\ todo' \in Seq(Jobs)
      /\ Range(todo') = Range(todo) \ {j}
      /\ NoneTwice(todo')
  BY <1>1, ListRemove DEF Inv, TypeOK, ListWaits
<1>4. TypeOK'
  BY <1>1, <1>2, <1>3, TypeParts DEF Inv, TypeOK, npu
<1>5. ~Normal /\ ~Normal'
  <2>1. job[j].ret \in {"EINVAL", "ETIMEDOUT"}
    BY <1>1 DEF Inv, Reasons
  <2> QED BY <1>1, <2>1 DEF Normal, GaveUp
<1>6. ListWaits'
  BY <1>1, <1>2, <1>3, Listed DEF Inv, ListWaits, Done
<1>7. WaitedFor'
  BY <1>1, <1>2, <1>3 DEF Inv, WaitedFor, Underway, Done
<1>8. OwnerWaits'
  BY <1>1, <1>2 DEF Inv, TypeOK, OwnerWaits, Done, Resetting
<1>9. OneCommits'
  BY <1>1, <1>2 DEF Inv, OneCommits, Resetting
<1>10. Reasons'
  BY <1>1, ReasonsKept DEF Resetting, reset
<1>11. HwOwned' /\ WorkConserving'
  BY <1>5 DEF HwOwned, WorkConserving, Normal
<1> QED BY <1>4, <1>6, <1>7, <1>8, <1>9, <1>10, <1>11 DEF Inv

\* The core is taken from a job that was given up.
LEMMA ClearStep ==
  ASSUME Inv, NEW j \in Jobs, Clear(j)
  PROVE  Inv'
<1> USE ThreadsDef
<1> DEFINE to == IF job[j].ret = "ETIMEDOUT" THEN "reset" ELSE "returned"
<1>1. /\ pc[j] = "clear" /\ Goes(j, to) /\ to \in Places \ {"idle"}
      /\ to \in {"reset", "returned"} /\ (to = "reset" => job[j].ret = "ETIMEDOUT")
      /\ owner' = IF owner = j /\ ~job[j].irqEntry THEN None ELSE owner
      /\ UNCHANGED <<job, takes, todo, npu, reset, load>>
      /\ \A k \in Jobs : Kept(k)
  BY DEF Clear, Places, Kept
<1> HIDE DEF to
<1>2. /\ pc' \in [Threads -> Places] /\ pc'[j] = to
      /\ \A u \in Threads : u # j => pc'[u] = pc[u]
  BY <1>1, Moves DEF Inv
<1>3. owner' \in {owner, None} /\ (owner' # owner => owner = j)
  BY <1>1
<1>4. TypeOK'
  BY <1>1, <1>2, TypeParts DEF Inv, TypeOK, npu
<1>5. ~Normal /\ ~Normal'
  <2>1. job[j].ret \in {"EINVAL", "ETIMEDOUT"}
    BY <1>1 DEF Inv, Reasons
  <2> QED BY <1>1, <2>1 DEF Normal, GaveUp
<1>6. ListWaits'
  BY <1>1, <1>2, <1>3, Listed DEF Inv, ListWaits, Done
<1>7. WaitedFor'
  BY <1>1, <1>2, <1>3 DEF Inv, WaitedFor, Underway, Done
<1>8. OwnerWaits'
  BY <1>1, <1>2 DEF Inv, TypeOK, OwnerWaits, Done, Resetting
<1>9. OneCommits'
  BY <1>1, <1>2, <1>3 DEF Inv, OneCommits, Resetting
<1>10. Reasons'
  BY <1>1, ReasonsKept DEF Resetting, reset
<1>11. HwOwned' /\ WorkConserving'
  BY <1>5 DEF HwOwned, WorkConserving, Normal
<1> QED BY <1>4, <1>6, <1>7, <1>8, <1>9, <1>10, <1>11 DEF Inv

-----------------------------------------------------------------------------
\* A reset leaves the jobs and the queue alone.
LEMMA ResetSteps ==
  ASSUME Inv, NEW t \in Threads, NEW to \in Places, Goes(t, to),
         UNCHANGED <<job, takes, queue>>,
         resets' \in 0..MaxLoad, load' \in 0..MaxLoad, resets' <= load',
         (irq' = irq /\ hw' = hw) \/ (irq' = None /\ hw' = None),
         resetting' \in BOOLEAN, resetLock' \in Threads \cup {None},
         resets' = resets \/ (resets' # 0 /\ t = Outside),
         pc[t] \in Resetting \/ t = Outside,
         to \in Resetting => resets' # 0 \/ t # Outside,
         t = Outside => to \in Resetting \cup {"idle"},
         t # Outside => pc[t] \in Resetting /\ to \in Resetting \cup {"returned"},
         resetting' => ~Normal'
  PROVE  Inv'
<1> USE ThreadsDef
<1>1. /\ pc' \in [Threads -> Places] /\ pc'[t] = to
      /\ \A u \in Threads : u # t => pc'[u] = pc[u]
  BY Moves DEF Inv
<1>2. \A k \in Jobs : Kept(k)
  BY DEF Kept
<1>3. TypeOK'
  BY <1>1 DEF Inv, TypeOK, Places, queue
<1>4. ListWaits' /\ WaitedFor' /\ OwnerWaits' /\ OneCommits'
  BY <1>2, GoesOn DEF Inv, Reasons, Resetting
<1>5. Normal' => Normal
  BY DEF Normal, GaveUp
<1>6. Reasons'
  <2>1. pc'[Outside] \in Resetting \cup {"idle"} /\ (pc'[Outside] # "idle" => resets' # 0)
    BY <1>1 DEF Inv, Reasons, Resetting
  <2>2. ASSUME NEW k \in Jobs
        PROVE  /\ pc'[k] \in {"idle", "next", "take", "commit", "wait", "check"} =>
                    job'[k].ret = "none"
               /\ pc'[k] \in {"unqueue", "abort", "clear"} =>
                    job'[k].ret \in {"EINVAL", "ETIMEDOUT"}
               /\ pc'[k] \in Resetting => job'[k].ret = "ETIMEDOUT"
    BY <1>1 DEF Inv, Reasons, Resetting
  <2> QED BY <2>1, <2>2 DEF Reasons
<1>7. HwOwned'
  BY <1>5 DEF Inv, HwOwned, queue
<1>8. WorkConserving'
  <2>1. SUFFICES ASSUME todo # <<>>, owner = None, Normal'
                 PROVE  \E k \in Jobs : pc'[k] \in {"next", "take"}
    BY DEF WorkConserving, Normal, queue
  <2>2. PICK k \in Jobs : pc[k] \in {"next", "take"}
    BY <1>5, <2>1 DEF Inv, WorkConserving, Normal
  <2> QED BY <1>1, <2>2 DEF Resetting
<1> QED BY <1>3, <1>4, <1>6, <1>7, <1>8 DEF Inv

\* RKNPU_ACT_RESET.
LEMMA ActResetStep ==
  ASSUME Inv, ActReset
  PROVE  Inv'
<1>1. /\ Goes(Outside, "reset") /\ "reset" \in Places \cap Resetting
      /\ load' = load + 1 /\ resets' = resets + 1 /\ load < MaxLoad
      /\ UNCHANGED <<job, takes, queue, npu, resetting, resetLock>>
  BY DEF ActReset, Places, Resetting
<1>2. /\ UNCHANGED <<irq, hw>>
      /\ resets' \in 0..MaxLoad /\ load' \in 0..MaxLoad /\ resets' <= load' /\ resets' # 0
  BY <1>1, ThreadsDef DEF Inv, TypeOK, Reasons, npu
<1>3. resetting' \in BOOLEAN /\ resetLock' \in Threads \cup {None} /\ ~Normal'
  BY <1>1, <1>2 DEF Inv, TypeOK, Normal
<1> QED BY <1>1, <1>2, <1>3, ResetSteps, ThreadsDef DEF Resetting

\* rknpu_soft_reset, by a job's thread or by another.
LEMMA ResetStep ==
  ASSUME Inv, NEW t \in Threads, Reset(t)
  PROVE  Inv'
<1> USE ThreadsDef
<1>1. /\ pc[t] \in Resetting
      /\ UNCHANGED <<job, takes, queue, resets, load>>
      /\ (irq' = irq /\ hw' = hw) \/ (irq' = None /\ hw' = None)
  BY DEF Reset, ResetBusy, ResetBegin, ResetNpu, ResetFails, ResetEnd, Resetting, npu, reset
<1>2. ~Normal /\ ~Normal'
  <2>1. CASE t = Outside
    BY <1>1, <2>1 DEF Inv, Reasons, Resetting, Normal
  <2>2. CASE t \in Jobs
    BY <1>1, <2>2 DEF Inv, Reasons, Normal, GaveUp
  <2> QED BY <2>1, <2>2
<1>3. resetting' \in BOOLEAN /\ resetLock' \in Threads \cup {None}
  BY DEF Inv, TypeOK, Reset, ResetBusy, ResetBegin, ResetNpu, ResetFails, ResetEnd, npu, reset
<1>4. PICK to \in Places :
        /\ Goes(t, to)
        /\ to \in Resetting \/ to = AfterReset(t)
  BY DEF Reset, ResetBusy, ResetBegin, ResetNpu, ResetFails, ResetEnd, Places, Resetting, AfterReset
<1>5. /\ t = Outside => to \in Resetting \cup {"idle"} /\ resets # 0
      /\ t # Outside => to \in Resetting \cup {"returned"}
  BY <1>1, <1>4 DEF Inv, Reasons, Resetting, AfterReset
<1>6. /\ resets' = resets /\ resets' <= load'
      /\ resets' \in 0..MaxLoad /\ load' \in 0..MaxLoad
  BY <1>1 DEF Inv, TypeOK, Reasons
<1> QED BY <1>1, <1>2, <1>3, <1>4, <1>5, <1>6, ResetSteps

-----------------------------------------------------------------------------
\* The NPU comes to an end, or reports something else.
LEMMA HwStep ==
  ASSUME Inv, HwDone \/ HwBad
  PROVE  Inv'
<1> USE ThreadsDef
<1>1. /\ UNCHANGED <<pc, job, takes, queue, reset, load>>
      /\ \/ hw # None /\ irq' = hw /\ hw' = None
         \/ irq' = Bad /\ hw' \in {hw, None}
  BY DEF HwDone, HwBad
<1>2. Normal' = Normal
  BY <1>1 DEF Normal, GaveUp, reset
<1>3. TypeOK'
  BY <1>1 DEF Inv, TypeOK, queue, reset
<1>4. ListWaits' /\ WaitedFor' /\ OwnerWaits'
  BY <1>1 DEF Inv, ListWaits, WaitedFor, OwnerWaits, queue, Done, Underway
<1>5. OneCommits' /\ Reasons'
  BY <1>1, <1>2 DEF Inv, OneCommits, Reasons, queue, reset
<1>6. HwOwned'
  BY <1>1, <1>2 DEF Inv, HwOwned, queue
<1>7. WorkConserving'
  BY <1>1 DEF Inv, WorkConserving, GaveUp, queue, reset
<1> QED BY <1>3, <1>4, <1>5, <1>6, <1>7 DEF Inv

\* An interrupt that does not end a job of the core, or not all of it.
LEMMA IrqMarks ==
  ASSUME Inv, owner # None, IrqInvalid \/ IrqChunk
  PROVE  Inv'
<1> USE ThreadsDef
<1> DEFINE r == job[owner]
<1>1. /\ owner \in Jobs /\ r \in JobType /\ job \in [Jobs -> JobType]
      /\ UNCHANGED <<pc, takes, queue, reset, load>>
      /\ irq' = None /\ hw' \in {owner, hw}
  BY DEF Inv, TypeOK, IrqInvalid, IrqChunk, Starts
<1>2. PICK q : job' = [job EXCEPT ![owner] = q] /\ Fields(q, r.lastTask, r.doneBy, TRUE, r.ret)
  <2>1. CASE IrqInvalid
    <3> DEFINE q == [r EXCEPT !.irqEntry = TRUE]
    <3>1. Fields(q, r.lastTask, r.doneBy, TRUE, r.ret)
      <4> HIDE DEF r
      <4> QED BY <1>1, JobInterrupted
    <3>2. job' = [job EXCEPT ![owner] = q]
      BY <2>1 DEF IrqInvalid
    <3> QED BY <3>1, <3>2
  <2>2. CASE IrqChunk
    <3> DEFINE q == [r EXCEPT !.irqEntry = TRUE, !.chunks = r.chunks - 1]
    <3>1. r.chunks > 1
      BY <2>2 DEF IrqChunk
    <3>2. Fields(q, r.lastTask, r.doneBy, TRUE, r.ret)
      <4> HIDE DEF r
      <4> QED BY <1>1, <3>1, JobPartDone
    <3>3. job' = [job EXCEPT ![owner] = q]
      BY <2>2, Zenon DEF IrqChunk
    <3> QED BY <3>2, <3>3
  <2> QED BY <2>1, <2>2
<1>3. /\ job' \in [Jobs -> JobType]
      /\ Fields(job'[owner], r.lastTask, r.doneBy, TRUE, r.ret)
      /\ \A k \in Jobs : k # owner => job'[k] = job[k]
  <2> HIDE DEF r
  <2> QED BY <1>1, <1>2 DEF Fields
<1>4. \A k \in Jobs : /\ job'[k].lastTask = job[k].lastTask /\ job'[k].doneBy = job[k].doneBy
                      /\ job'[k].ret = job[k].ret
                      /\ job[k].irqEntry => job'[k].irqEntry
  BY <1>3 DEF Fields
<1> HIDE DEF r
<1>5. Normal' = Normal /\ GaveUp' = GaveUp
  BY <1>1, <1>4 DEF Normal, GaveUp, reset
<1>6. TypeOK'
  BY <1>1, <1>3 DEF Inv, TypeOK, queue, reset
<1>7. ListWaits'
  BY <1>1, <1>4, Listed DEF Inv, ListWaits, Done, queue
<1>8. WaitedFor' /\ OwnerWaits'
  BY <1>1, <1>3, <1>4 DEF Inv, WaitedFor, OwnerWaits, Underway, Done, queue, Fields
<1>9. OneCommits'
  BY <1>1, <1>4 DEF Inv, OneCommits, queue
<1>10. Reasons'
  BY <1>1, <1>4, <1>5 DEF Inv, Reasons, reset
<1>11. HwOwned'
  BY <1>1, <1>4, <1>5 DEF Inv, HwOwned, queue
<1>12. WorkConserving'
  BY <1>1, <1>5 DEF Inv, WorkConserving, queue, reset
<1> QED BY <1>6, <1>7, <1>8, <1>9, <1>10, <1>11, <1>12 DEF Inv

\* The rest of the handler, for a core that is free: the first job of the list
\* is committed, or the core stays free.
OthersDone(after) ==
  /\ job' \in [Jobs -> JobType]
  /\ \A k \in Jobs : /\ job'[k].doneBy = after[k].doneBy /\ job'[k].ret = after[k].ret
                     /\ job'[k].irqEntry = after[k].irqEntry
                     /\ k # owner' => job'[k].lastTask = after[k].lastTask
  /\ irq' = None
  /\ \/ /\ resetting \/ todo = <<>>
        /\ owner' = None /\ todo' = todo /\ hw' = hw
     \/ /\ owner' \in Range(todo) /\ owner' \in Jobs
        /\ todo' \in Seq(Jobs) /\ Range(todo') = Range(todo) \ {owner'} /\ NoneTwice(todo')
        /\ hw' \in {owner'} \cup ({hw} \ {None})

LEMMA OthersDo ==
  ASSUME TypeOK, NoneTwice(todo), NEW after \in [Jobs -> JobType], Others(after)
  PROVE  OthersDone(after)
<1> USE ThreadsDef
<1>1. CASE resetting \/ todo = <<>>
  <2>1. owner' = None /\ todo' = todo /\ job' = after /\ irq' = None /\ hw' = hw
    BY <1>1 DEF Others
  <2> QED BY <1>1, <2>1 DEF OthersDone
<1>2. CASE ~(resetting \/ todo = <<>>)
  <2> DEFINE b == Head(todo)
             r == after[b]
             q == [r EXCEPT !.begun = Begun(b), !.lastTask = TRUE]
  <2>1. /\ owner' = b /\ todo' = Tail(todo)
        /\ irq' = None /\ hw' \in {b} \cup ({hw} \ {None})
    BY <1>2 DEF Others, Starts
  <2>2. job' = [after EXCEPT ![b] = q]
    BY <1>2, Zenon DEF Others
  <2>3. /\ b \in Range(todo) /\ b \in Jobs
        /\ todo' \in Seq(Jobs) /\ Range(todo') = Range(todo) \ {b} /\ NoneTwice(todo')
    BY <1>2, <2>1, ListTail DEF TypeOK
  <2> HIDE DEF b
  <2>4. r \in JobType /\ Begun(b) \in {"no", "now", "before"}
    BY <2>3, SMTT(40) DEF Begun
  <2>5. Fields(q, TRUE, r.doneBy, r.irqEntry, r.ret)
    <3> HIDE DEF r
    <3> QED BY <2>4, JobBeginsCommitted
  <2> HIDE DEF q
  <2>6. /\ job' \in [Jobs -> JobType]
        /\ Fields(job'[b], TRUE, r.doneBy, r.irqEntry, r.ret)
        /\ \A k \in Jobs : k # b => job'[k] = after[k]
    BY <2>2, <2>3, <2>5 DEF Fields
  <2> QED BY <2>1, <2>3, <2>6 DEF OthersDone, Fields
<1> QED BY <1>1, <1>2

\* An interrupt that leaves the core free, as nothing had it or its job is done.
LEMMA IrqFrees ==
  ASSUME Inv, NEW after \in [Jobs -> JobType], Others(after),
         UNCHANGED <<pc, takes, reset, load>>,
         \A k \in Jobs : k # owner => after[k] = job[k],
         owner # None => /\ irq \in Jobs /\ job[owner].lastTask
                         /\ Fields(after[owner], TRUE, irq, TRUE, job[owner].ret)
  PROVE  Inv'
<1> USE ThreadsDef
<1>1. OthersDone(after)
  BY OthersDo DEF Inv, ListWaits
<1>2. \A u \in Threads : pc[u] # "commit"
  BY DEF Inv, OneCommits
<1>3. owner \in Jobs \cup {None}
  BY DEF Inv, TypeOK
<1>4. Normal' = Normal /\ GaveUp' = GaveUp
  <2>1. \A k \in Jobs : job'[k].ret = job[k].ret
    BY <1>1, <1>3 DEF OthersDone, Fields
  <2> QED BY <2>1 DEF Normal, GaveUp, reset
<1>5. TypeOK'
  <2>1. todo \in Seq(Jobs) /\ hw \in Jobs \cup {None}
    BY DEF Inv, TypeOK
  <2>2. /\ owner' \in Jobs \cup {None} /\ todo' \in Seq(Jobs)
        /\ hw' \in Jobs \cup {None} /\ irq' \in Jobs \cup {None, Bad}
    BY <1>1, <2>1 DEF OthersDone
  <2> QED BY <1>1, <2>2 DEF Inv, TypeOK, reset, OthersDone
<1>6. owner' # None =>
        /\ owner' \in Jobs /\ owner' # owner /\ owner' \in Range(todo)
        /\ pc[owner'] \in {"next", "take", "commit", "wait", "check", "unqueue"}
        /\ ~Done(owner') /\ after[owner'] = job[owner']
  BY <1>1 DEF OthersDone, Inv, ListWaits
<1>7. Range(todo') = Range(todo) \ {owner'} /\ NoneTwice(todo')
  BY <1>1, Listed DEF OthersDone, Inv, ListWaits
<1>8. ListWaits'
  <2>1. ASSUME NEW k \in Range(todo')
        PROVE  /\ pc[k] \in {"next", "take", "commit", "wait", "check", "unqueue"}
               /\ ~job'[k].lastTask /\ job'[k].doneBy = None
    <3>1. k \in Range(todo) /\ k \in Jobs /\ k # owner /\ k # owner'
      BY <1>7, <2>1, Listed DEF Inv, ListWaits
    <3>2. after[k] = job[k]
      BY <3>1
    <3> QED BY <1>1, <3>1, <3>2 DEF OthersDone, Inv, ListWaits, Done
  <2> QED BY <1>7, <2>1 DEF ListWaits, Done
<1>9. WaitedFor'
  <2>1. SUFFICES ASSUME NEW k \in Jobs, Underway(k), job'[k].doneBy = None
                 PROVE  k \in Range(todo') \/ owner' = k
    BY DEF WaitedFor, Underway, Done
  <2>2. k # owner /\ job[k].doneBy = None
    BY <1>1, <1>3, <2>1 DEF OthersDone, Fields
  <2> QED BY <1>7, <2>1, <2>2 DEF Inv, WaitedFor, Done
<1>10. OwnerWaits'
  BY <1>1, <1>6 DEF OwnerWaits, OthersDone, Done, Resetting
<1>11. OneCommits'
  BY <1>2 DEF OneCommits
<1>12. Reasons'
  <2>1. \A k \in Jobs : job'[k].ret = job[k].ret
    BY <1>1, <1>3 DEF OthersDone, Fields
  <2> QED BY <1>4, <2>1 DEF Inv, Reasons, reset
<1>13. HwOwned'
  <2>1. SUFFICES ASSUME Normal
                 PROVE  /\ hw' \in {None, owner'} /\ irq' = None
                        /\ \A k \in Jobs : job'[k].doneBy \in {None, k}
    BY <1>4 DEF HwOwned
  <2>2. hw = None /\ (owner # None => irq = owner)
    BY <2>1 DEF Inv, HwOwned
  <2>3. \A k \in Jobs : job'[k].doneBy \in {None, k}
    BY <1>1, <1>3, <2>1, <2>2 DEF OthersDone, Fields, Inv, HwOwned
  <2> QED BY <1>1, <2>2, <2>3 DEF OthersDone
<1>14. WorkConserving'
  BY <1>1, <1>4 DEF OthersDone, WorkConserving, Inv, Reasons, Normal
<1> QED BY <1>5, <1>8, <1>9, <1>10, <1>11, <1>12, <1>13, <1>14 DEF Inv

LEMMA IrqStep ==
  ASSUME Inv, IrqIdle \/ IrqInvalid \/ IrqChunk \/ IrqDone
  PROVE  Inv'
<1> USE ThreadsDef
<1>1. CASE IrqIdle
  <2>1. job \in [Jobs -> JobType] /\ owner = None /\ Others(job) /\ UNCHANGED <<pc, takes, reset, load>>
    BY <1>1 DEF Inv, TypeOK, IrqIdle
  <2> QED BY <2>1, IrqFrees
<1>2. CASE IrqInvalid \/ IrqChunk
  BY <1>2, IrqMarks DEF IrqInvalid, IrqChunk
<1>3. CASE IrqDone
  <2> DEFINE r == job[owner]
             q == [r EXCEPT !.irqEntry = TRUE, !.doneBy = irq]
             after == [job EXCEPT ![owner] = q]
  <2>1. /\ owner \in Jobs /\ irq \in Jobs /\ r.lastTask
        /\ UNCHANGED <<pc, takes, reset, load>>
    BY <1>3 DEF Inv, TypeOK, IrqDone, Valid
  <2>2. [job EXCEPT ![owner].irqEntry = TRUE, ![owner].doneBy = irq] = after
    BY Zenon
  <2>3. Others(after)
    BY <1>3, <2>2 DEF IrqDone
  <2>4. job \in [Jobs -> JobType] /\ r \in JobType
    BY <2>1 DEF Inv, TypeOK
  <2>5. Fields(q, r.lastTask, irq, TRUE, r.ret)
    <3> HIDE DEF r
    <3> QED BY <2>1, <2>4, JobDone
  <2>6. Fields(q, TRUE, irq, TRUE, r.ret)
    BY <2>1, <2>5 DEF Fields
  <2> HIDE DEF q
  <2>7. /\ after \in [Jobs -> JobType]
        /\ after[owner] = q
        /\ \A k \in Jobs : k # owner => after[k] = job[k]
    BY <2>1, <2>4, <2>6 DEF Fields
  <2> HIDE DEF after
  <2> QED BY <2>1, <2>3, <2>6, <2>7, IrqFrees
<1> QED BY <1>1, <1>2, <1>3

-----------------------------------------------------------------------------
LEMMA StepInv == Inv /\ [Next]_vars => Inv'
<1> SUFFICES ASSUME Inv, [Next]_vars
             PROVE  Inv'
  OBVIOUS
<1>1. ASSUME NEW j \in Jobs, Submit(j)
      PROVE  Inv'
  BY <1>1, SubmitStep
<1>2. ASSUME NEW j \in Jobs, Awake(j)
      PROVE  Inv'
  BY <1>2, NextCheckStep, NextNothingStep, NextTakeStep, CommitStep, WokenStep, TimeOutStep,
     CheckStep, UnqueueStep, SleptStep, ClearStep DEF Awake
<1>3. CASE ActReset
  BY <1>3, ActResetStep
<1>4. ASSUME NEW t \in Threads, Reset(t)
      PROVE  Inv'
  BY <1>4, ResetStep
<1>5. CASE HwDone \/ HwBad
  BY <1>5, HwStep
<1>6. CASE IrqIdle \/ IrqInvalid \/ IrqChunk \/ IrqDone
  BY <1>6, IrqStep
<1>7. CASE UNCHANGED vars
  <2>1. /\ UNCHANGED <<pc, job, takes, hw, irq, resetting, resetLock, resets, load>>
        /\ UNCHANGED <<owner, todo>>
    BY <1>7 DEF vars, queue, npu, reset
  <2>2. TypeOK' /\ ListWaits' /\ WaitedFor'
    BY <2>1 DEF Inv, TypeOK, ListWaits, WaitedFor, Done, Underway
  <2>3. OwnerWaits' /\ OneCommits' /\ Reasons'
    BY <2>1 DEF Inv, OwnerWaits, OneCommits, Reasons, Done, Normal, GaveUp
  <2>4. HwOwned' /\ WorkConserving'
    BY <2>1 DEF Inv, HwOwned, WorkConserving, Normal, GaveUp
  <2> QED BY <2>2, <2>3, <2>4 DEF Inv
<1> QED BY <1>1, <1>2, <1>3, <1>4, <1>5, <1>6, <1>7 DEF Next

LEMMA InvAlways == Spec => []Inv
<1>1. Init => Inv
  BY InitInv
<1>2. Inv /\ [Next]_vars => Inv'
  BY StepInv
<1> QED BY <1>1, <1>2, PTL DEF Spec

-----------------------------------------------------------------------------
\* The variables of the queue have their types: among them, an interrupt tells
\* of a job and the list holds jobs, whatever the NPU and the resets do.
THEOREM TypeCorrect == Spec => []TypeOK
<1>1. Inv => TypeOK
  BY DEF Inv
<1> QED BY <1>1, InvAlways, PTL

\* However many threads submit, give up and reset: between rknpu_job_schedule
\* and the end of rknpu_job_wait a job is on todo_list or subcore_data->job,
\* never on both, and never twice on the list.
THEOREM OnePlace == Spec => []WaitsInOnePlace
<1>1. Inv => WaitsInOnePlace
  BY DEF Inv, ListWaits, WaitedFor, WaitsInOnePlace, NoneTwice
<1> QED BY <1>1, InvAlways, PTL

\* rknpu_job_commit, which takes no lock, is never run by two threads at once,
\* and the job it writes the registers for is still there: rknpu_job_abort
\* sleeps before it takes the core and the ioctl frees the job.
THEOREM OneCommitter ==
  Spec => [](CommitsOwner /\ \A t, u \in Threads : pc[t] = "commit" /\ pc[u] = "commit" => t = u)
<1>1. Inv => CommitsOwner
  BY DEF Inv, OneCommits, CommitsOwner
<1>2. Inv => \A t, u \in Threads : pc[t] = "commit" /\ pc[u] = "commit" => t = u
  BY DEF Inv, OneCommits
<1> QED BY <1>1, <1>2, InvAlways, PTL

\* A submission that has returned leaves no job on todo_list, and has its job
\* at subcore_data->job only if an interrupt came that did not finish it.
THEOREM NothingLeftBut == Spec => []LeftBehind
<1>1. Inv => LeftBehind
  BY Listed DEF Inv, TypeOK, ListWaits, OwnerWaits, LeftBehind, Resetting
<1> QED BY <1>1, InvAlways, PTL

\* As long as no job is given up and nobody resets the NPU, a list that is not
\* empty is being served or about to be: no wake-up of the core is lost between
\* the interrupt handler and the threads.
THEOREM CoreAtWork == Spec => []WorkConserving
<1>1. Inv => WorkConserving
  BY DEF Inv
<1> QED BY <1>1, InvAlways, PTL

\* ... and a job marked RKNPU_JOB_DONE was marked for the end of its own tasks,
\* though the handler compares nothing but the status bits.
THEOREM OwnSuccess == Spec => []SuccessIsOwn
<1>1. Inv => SuccessIsOwn
  BY DEF Inv, HwOwned, SuccessIsOwn, Normal
<1> QED BY <1>1, InvAlways, PTL
=============================================================================
