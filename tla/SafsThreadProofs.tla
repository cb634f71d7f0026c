-------------------------- MODULE SafsThreadProofs --------------------------
(***************************************************************************)
(* Proofs about SafsThread.tla: the thread, for any set of threads that    *)
(* activate and stop it, in any order and any number of times, and then    *)
(* task_thread, for any number of adders and tasks.                        *)
(***************************************************************************)
EXTENDS SafsThread, FiniteSetTheorems, SequenceTheorems, TLAPS

(***************************************************************************)
(* The inductive invariant: NoLostWakeup needs that a thread inside        *)
(* pthread_cond_wait() is recorded as asleep, since an activation that     *)
(* read _is_sleeping false would not signal.                               *)
(***************************************************************************)
WakeInv ==
  /\ ThreadTypeOK
  /\ owner \in {"blocked", "woken"} => is_sleeping
  /\ NoLostWakeup

\* The object as construct_init() leaves it satisfies the invariant.
LEMMA InitWake == construct_init => WakeInv
BY Zenon DEF construct_init, WakeInv, ThreadTypeOK, OwnerPc, NoLostWakeup

\* A caller's signal reaches a sleeping thread, whoever else is signalling.
LEMMA SignalWake ==
  ASSUME WakeInv, NEW c \in Callers, activate_signal(c)
  PROVE  WakeInv'
<1>1. ThreadTypeOK'
  BY DEF WakeInv, ThreadTypeOK, activate_signal, cond_signal, OwnerPc
<1>2. owner' # "blocked"
  BY DEF WakeInv, ThreadTypeOK, activate_signal, cond_signal
<1>3. owner' \in {"blocked", "woken"} => is_sleeping'
  BY DEF WakeInv, activate_signal, cond_signal
<1> QED
  BY <1>1, <1>2, <1>3 DEF WakeInv, NoLostWakeup

\* activate() leaves a signal to come behind when the thread sleeps.
LEMMA ActivateWake ==
  ASSUME WakeInv, NEW c \in Callers, activate(c)
  PROVE  WakeInv'
<1>1. ThreadTypeOK'
  BY DEF WakeInv, ThreadTypeOK, activate
<1>2. owner' \in {"blocked", "woken"} => is_sleeping'
  BY DEF WakeInv, activate
<1>3. ASSUME owner' = "blocked"
      PROVE  is_running' /\ caller'[c] = "signal"
  <2>1. is_sleeping /\ is_running
    BY <1>3 DEF WakeInv, NoLostWakeup, activate
  <2> QED
    BY <2>1 DEF WakeInv, ThreadTypeOK, activate
<1> QED
  BY <1>1, <1>2, <1>3 DEF WakeInv, NoLostWakeup

\* Every other step of the thread or of a caller keeps the invariant.
LEMMA StepWake == WakeInv /\ [ThreadNext]_threadVars => WakeInv'
<1> SUFFICES ASSUME WakeInv, [ThreadNext]_threadVars
             PROVE  WakeInv'
  OBVIOUS
<1>1. CASE start
  BY <1>1 DEF start, WakeInv, ThreadTypeOK, OwnerPc, NoLostWakeup
<1>2. CASE thread_run
  BY <1>2 DEF thread_run, WakeInv, ThreadTypeOK, OwnerPc, NoLostWakeup
<1>3. CASE run_returns
  BY <1>3 DEF run_returns, WakeInv, ThreadTypeOK, OwnerPc, NoLostWakeup
<1>4. CASE wait
  BY Zenon, <1>4 DEF wait, sleep_or_return, WakeInv, ThreadTypeOK, OwnerPc,
              NoLostWakeup
<1>5. CASE wait_relock
  BY Zenon, <1>5 DEF wait_relock, sleep_or_return, WakeInv, ThreadTypeOK, OwnerPc,
              NoLostWakeup
<1>6. CASE wait_spurious
  BY <1>6 DEF wait_spurious, WakeInv, ThreadTypeOK, OwnerPc, NoLostWakeup
<1>7. ASSUME NEW c \in Callers, activate(c)
      PROVE  WakeInv'
  BY <1>7, ActivateWake
<1>8. ASSUME NEW c \in Callers, activate_signal(c)
      PROVE  WakeInv'
  BY <1>8, SignalWake
<1>9. ASSUME NEW c \in Callers, stop(c)
      PROVE  WakeInv'
  BY Zenon, <1>9 DEF stop, cond_signal, WakeInv, ThreadTypeOK, OwnerPc, NoLostWakeup
<1>10. CASE UNCHANGED threadVars
  BY <1>10 DEF threadVars, WakeInv, ThreadTypeOK, OwnerPc, NoLostWakeup
<1> QED
  BY <1>1, <1>2, <1>3, <1>4, <1>5, <1>6, <1>7, <1>8, <1>9, <1>10
  DEF ThreadNext

(***************************************************************************)
(* However many threads activate and stop it, and however its condition    *)
(* variable wakes up, the thread never sleeps on an activation nobody will *)
(* signal, nor when it has been stopped.                                   *)
(***************************************************************************)
THEOREM NoWakeupLost == ThreadSpec => []NoLostWakeup
<1>1. WakeInv => NoLostWakeup
  BY DEF WakeInv
<1> QED
  BY InitWake, StepWake, <1>1, PTL DEF ThreadSpec

-----------------------------------------------------------------------------
\* A step of the thread or of a caller is a step of the event or leaves it as
\* it is.
LEMMA StepIsEventStep ==
  ThreadTypeOK /\ [ThreadNext]_threadVars
    => [Event!EventNext]_(Event!eventVars)
<1> SUFFICES ASSUME ThreadTypeOK, [ThreadNext]_threadVars
             PROVE  [Event!EventNext]_(Event!eventVars)
  OBVIOUS
<1> USE DEF ThreadTypeOK, OwnerPc, Event!EventNext, Event!eventVars
<1>1. CASE start
  BY <1>1 DEF start
<1>2. CASE thread_run
  BY <1>2 DEF thread_run
<1>3. CASE run_returns
  BY <1>3 DEF run_returns, Event!CallWait
<1>4. CASE wait
  BY <1>4 DEF wait, sleep_or_return, Event!ReturnFromWait
<1>5. CASE wait_relock
  <2>1. CASE ~ is_activated /\ is_running
    <3>1. owner = "woken" /\ owner' = "blocked" /\ is_activated' = is_activated
          /\ is_running' = is_running
      BY <1>5, <2>1 DEF wait_relock, sleep_or_return
    <3> QED
      BY <3>1
  <2>2. CASE ~ (~ is_activated /\ is_running)
    <3>1. owner = "woken" /\ owner' = "loop" /\ is_activated' = FALSE
          /\ is_running' = is_running
      BY Zenon, <1>5, <2>2 DEF wait_relock, sleep_or_return
    <3> QED
      BY <2>2, <3>1 DEF Event!ReturnFromWait
  <2> QED
    BY <2>1, <2>2
<1>6. CASE wait_spurious
  BY <1>6 DEF wait_spurious
<1>7. ASSUME NEW c \in Callers, activate(c)
      PROVE  Event!Activate
  BY <1>7 DEF activate, Event!Activate
<1>8. ASSUME NEW c \in Callers, activate_signal(c)
      PROVE  UNCHANGED Event!eventVars
  BY <1>8 DEF activate_signal, cond_signal
<1>9. ASSUME NEW c \in Callers, stop(c)
      PROVE  Event!Stop
  BY <1>9 DEF stop, cond_signal, Event!Stop
<1>10. CASE UNCHANGED threadVars
  BY <1>10 DEF threadVars
<1> QED
  BY <1>1, <1>2, <1>3, <1>4, <1>5, <1>6, <1>7, <1>8, <1>9, <1>10
  DEF ThreadNext

(***************************************************************************)
(* activate(), wait() and stop() implement the safety part of the event:   *)
(* wait() returns only when the thread was activated or stopped, and       *)
(* consumes exactly one remembered activation.                             *)
(***************************************************************************)
THEOREM EventImplemented == ThreadSpec => ImplementsEventSafety
<1>1. construct_init => Event!EventInit
  BY DEF construct_init, Event!EventInit
<1>2. WakeInv => ThreadTypeOK
  BY DEF WakeInv
<1> QED
  BY InitWake, StepWake, StepIsEventStep, <1>1, <1>2, PTL
  DEF ThreadSpec, ImplementsEventSafety, Event!EventSafety
-----------------------------------------------------------------------------
(***************************************************************************)
(* task_thread.  The tasks not run yet, in the order run() takes them:     *)
(* those fetched, then those queued.                                       *)
(***************************************************************************)
Queue == local_tasks \o tasks

Distinct(s) == \A i, j \in 1 .. Len(s) : s[i] = s[j] => i = j

\* A task is added once: it is either still waiting or has run.
QueueExact ==
  /\ Distinct(Queue)
  /\ Range(Queue) \cup ran = Pushed
  /\ Range(Queue) \cap ran = {}
  /\ run_pc = "exec" <=> local_tasks # <<>>

\* The adders that have pushed a task and not counted it.
Uncounted == {a \in Adders : adder[a] # "idle"}

(***************************************************************************)
(* num_pending is behind by the tasks that are pushed and not counted, and *)
(* so may be negative, which a size_t cannot be; all_complete means that   *)
(* nothing waits, and what wait4complete() has seen has been pushed.       *)
(***************************************************************************)
TaskInv ==
  /\ TypeOK
  /\ QueueExact
  /\ num_pending = SizeT(Cardinality(Pushed \ ran) - Cardinality(Uncounted))
  /\ all_complete => Queue = <<>>
  /\ seen \subseteq Pushed
  /\ manager \in {"returned", "joining", "gone"} => seen \subseteq ran
-----------------------------------------------------------------------------
(***************************************************************************)
(* Arithmetic of size_t: adding to or taking from the wrapped value gives  *)
(* the wrapped result.                                                     *)
(***************************************************************************)
LEMMA ModUnique ==
  ASSUME NEW M \in Nat \ {0}, NEW q \in Int, NEW r \in 0 .. M - 1
  PROVE  (M * q + r) % M = r
OBVIOUS

\* Incrementing a wrapped value wraps the incremented one.
LEMMA ModNext ==
  ASSUME NEW M \in Nat \ {0}, NEW a \in Int
  PROVE  ((a % M) + 1) % M = (a + 1) % M
<1> DEFINE q == a \div M
           r == a % M
<1>1. q \in Int /\ r \in 0 .. M - 1 /\ a = M * q + r
  OBVIOUS
<1> HIDE DEF q, r
<1>2. CASE r + 1 < M
  <2>1. (M * q + (r + 1)) % M = r + 1
    BY <1>1, <1>2, ModUnique
  <2>2. (M * 0 + (r + 1)) % M = r + 1
    BY <1>1, <1>2, ModUnique
  <2>3. M * q + (r + 1) = a + 1 /\ M * 0 + (r + 1) = r + 1
    BY <1>1
  <2> QED  BY <2>1, <2>2, <2>3 DEF r
<1>3. CASE ~ (r + 1 < M)
  <2>1. (M * (q + 1) + 0) % M = 0
    BY <1>1, ModUnique
  <2>2. (M * 1 + 0) % M = 0
    BY <1>1, ModUnique
  <2>3. r + 1 = M
    BY <1>1, <1>3
  <2>4. M * (q + 1) + 0 = a + 1 /\ M * 1 + 0 = r + 1
    BY <1>1, <2>3
  <2> QED  BY <2>1, <2>2, <2>4 DEF r
<1> QED  BY <1>2, <1>3

\* Decrementing a wrapped value wraps the decremented one.
LEMMA ModPrev ==
  ASSUME NEW M \in Nat \ {0}, NEW a \in Int
  PROVE  ((a % M) - 1) % M = (a - 1) % M
<1> DEFINE b == a - 1
<1>1. b \in Int /\ b + 1 = a
  OBVIOUS
<1> DEFINE q == b \div M
           r == b % M
<1>2. q \in Int /\ r \in 0 .. M - 1 /\ b = M * q + r
  BY <1>1
<1> HIDE DEF q, r
<1>3. CASE r + 1 < M
  <2>1. (M * q + (r + 1)) % M = r + 1 /\ (M * 0 + r) % M = r
    BY <1>2, <1>3, ModUnique
  <2>2. M * q + (r + 1) = a /\ M * 0 + r = (r + 1) - 1
    BY <1>2
  <2> QED  BY <2>1, <2>2 DEF r
<1>4. CASE ~ (r + 1 < M)
  <2>1. r + 1 = M
    BY <1>2, <1>4
  <2>2. (M * (q + 1) + 0) % M = 0
    BY <1>2, ModUnique
  <2>3. M * (q + 1) + 0 = a
    BY <1>2, <2>1
  <2>4. a % M = 0
    BY <2>2, <2>3
  <2>5. (M * (0 - 1) + r) % M = r
    BY <1>2, ModUnique
  <2>6. M * (0 - 1) + r = 0 - 1
    BY <1>2, <2>1
  <2> QED  BY <2>4, <2>5, <2>6 DEF r
<1> QED  BY <1>3, <1>4

\* Incrementing and decrementing num_pending.
LEMMA SizeTStep ==
  ASSUME NEW n \in Int
  PROVE  /\ SizeT(SizeT(n) + 1) = SizeT(n + 1)
         /\ SizeT(SizeT(n) - 1) = SizeT(n - 1)
         /\ SizeT(n) \in 0 .. 2 ^ SizeTBits - 1
<1> DEFINE M == 2 ^ SizeTBits
<1>1. M \in Nat \ {0}
  BY TaskThreadAssumption
<1> HIDE DEF M
<1>2. n % M \in 0 .. M - 1
  BY <1>1
<1> QED  BY <1>1, <1>2, ModNext, ModPrev DEF SizeT, M

-----------------------------------------------------------------------------
(***************************************************************************)
(* The queue of waiting tasks.                                             *)
(***************************************************************************)
LEMMA TasksFinite ==
  ASSUME NEW S \in SUBSET Task
  PROVE  IsFiniteSet(S) /\ Cardinality(S) \in Nat
<1>1. IsFiniteSet(1 .. TasksEach)
  BY TaskThreadAssumption, FS_Interval
<1>2. IsFiniteSet(Task)
  BY <1>1, TaskThreadAssumption, FS_Product DEF Task
<1> QED  BY <1>2, FS_Subset, FS_CardinalityType

\* Only so many adders can be in the middle of add_task().
LEMMA UncountedFinite == IsFiniteSet(Uncounted) /\ Cardinality(Uncounted) \in Nat
  BY TaskThreadAssumption, FS_Subset, FS_CardinalityType DEF Uncounted

\* Taking the first of a sequence without repetitions.
LEMMA TakeFirst ==
  ASSUME NEW s \in Seq(Task), s # <<>>, Distinct(s)
  PROVE  /\ Distinct(Tail(s))
         /\ Range(Tail(s)) = Range(s) \ {Head(s)}
         /\ Head(s) \in Range(s)
<1>1. /\ Head(s) = s[1]
      /\ Tail(s) \in Seq(Task)
      /\ Len(Tail(s)) = Len(s) - 1
      /\ \A i \in 1 .. Len(Tail(s)) : Tail(s)[i] = s[i + 1]
  BY HeadTailProperties
<1>2. Len(s) \in Nat \ {0}
  BY EmptySeq
<1>3. /\ Range(s) = {s[i] : i \in 1 .. Len(s)}
      /\ Range(Tail(s)) = {Tail(s)[i] : i \in 1 .. Len(Tail(s))}
  BY ZenonT(60), <1>1, RangeEquality
<1>4. ASSUME NEW i \in 1 .. Len(Tail(s)), NEW j \in 1 .. Len(Tail(s)),
             Tail(s)[i] = Tail(s)[j]
      PROVE  i = j
  <2>1. i + 1 \in 1 .. Len(s) /\ j + 1 \in 1 .. Len(s) /\ s[i + 1] = s[j + 1]
    BY <1>1, <1>2, <1>4
  <2> QED  BY <1>1, <1>2, <2>1 DEF Distinct
<1>5. ASSUME NEW x \in Range(s), x # Head(s) PROVE x \in Range(Tail(s))
  <2>1. PICK i \in 1 .. Len(s) : x = s[i]
    BY <1>3
  <2>2. i - 1 \in 1 .. Len(Tail(s)) /\ Tail(s)[i - 1] = x
    BY <1>1, <1>2, <1>5, <2>1
  <2> QED  BY <1>3, <2>2
<1>6. ASSUME NEW x \in Range(Tail(s)) PROVE x \in Range(s) /\ x # Head(s)
  <2>1. PICK i \in 1 .. Len(Tail(s)) : x = Tail(s)[i]
    BY <1>3
  <2>2. i + 1 \in 1 .. Len(s) /\ 1 \in 1 .. Len(s) /\ x = s[i + 1] /\ i + 1 # 1
    BY <1>1, <1>2, <2>1
  <2> QED  BY <1>1, <1>3, <2>2 DEF Distinct
<1>7. Head(s) \in Range(s)
  BY <1>1, <1>2, <1>3
<1> QED  BY <1>4, <1>5, <1>6, <1>7 DEF Distinct

\* Appending what a sequence does not hold.
LEMMA AddLast ==
  ASSUME NEW s \in Seq(Task), Distinct(s), NEW x \in Task, x \notin Range(s)
  PROVE  /\ Distinct(Append(s, x))
         /\ Range(Append(s, x)) = Range(s) \cup {x}
<1>1. /\ Append(s, x) \in Seq(Task)
      /\ Len(Append(s, x)) = Len(s) + 1
      /\ \A i \in 1 .. Len(s) : Append(s, x)[i] = s[i]
      /\ Append(s, x)[Len(s) + 1] = x
  BY AppendProperties
<1>2. Len(s) \in Nat
  BY LenProperties
<1>3. Range(s) = {s[i] : i \in 1 .. Len(s)}
  BY RangeEquality
<1>4. ASSUME NEW i \in 1 .. Len(s) + 1, NEW j \in 1 .. Len(s) + 1,
             Append(s, x)[i] = Append(s, x)[j]
      PROVE  i = j
  <2>1. CASE i \in 1 .. Len(s) /\ j \in 1 .. Len(s)
    BY <1>1, <1>4, <2>1 DEF Distinct
  <2>2. CASE i \in 1 .. Len(s) /\ j = Len(s) + 1
    BY <1>1, <1>3, <1>4, <2>2
  <2>3. CASE i = Len(s) + 1 /\ j \in 1 .. Len(s)
    BY <1>1, <1>3, <1>4, <2>3
  <2> QED  BY <1>2, <2>1, <2>2, <2>3
<1>5. <<x>> \in Seq(Task) /\ Append(s, x) = s \o <<x>>
  BY AppendIsConcat
<1>6. Range(<<x>>) = {x}
  BY DEF Range
<1>7. Range(s \o <<x>>) = Range(s) \cup Range(<<x>>)
  BY ZenonT(60), <1>5, RangeConcatenation
<1> QED  BY <1>1, <1>4, <1>5, <1>6, <1>7 DEF Distinct

-----------------------------------------------------------------------------
(***************************************************************************)
(* What the steps do to the queue.                                         *)
(***************************************************************************)
\* Fetching a batch moves tasks within the queue.
LEMMA FetchKeepsQueue ==
  ASSUME TaskInv, run_fetch
  PROVE  /\ Queue' = Queue
         /\ tasks' \in Seq(Task) /\ local_tasks' \in Seq(Task)
         /\ local_tasks' # <<>>
<1> DEFINE n == IF Len(tasks) < TASK_BUF_SIZE THEN Len(tasks) ELSE TASK_BUF_SIZE
<1>1. tasks \in Seq(Task) /\ tasks # <<>> /\ local_tasks = <<>>
  BY DEF TaskInv, TypeOK, QueueExact, run_fetch
<1>2. Len(tasks) \in Nat \ {0}
  BY <1>1, EmptySeq
<1>3. n \in 1 .. Len(tasks)
  BY <1>2, TaskThreadAssumption
<1>4. local_tasks' = SubSeq(tasks, 1, n) /\ tasks' = SubSeq(tasks, n + 1, Len(tasks))
  BY DEF run_fetch
<1> HIDE DEF n
<1>5. SubSeq(tasks, 1, n) \o SubSeq(tasks, n + 1, Len(tasks))
        = SubSeq(tasks, 1, Len(tasks))
  BY <1>1, <1>2, <1>3, ConcatAdjacentSubSeq
<1>6. SubSeq(tasks, 1, Len(tasks)) = tasks /\ <<>> \o tasks = tasks
  BY <1>1, SubSeqFull, ConcatEmptySeq
<1>7. \A i \in 1 .. Len(tasks) : tasks[i] \in Task
  BY <1>1, ElementOfSeq
<1>8. SubSeq(tasks, 1, n) \in Seq(Task) /\ Len(SubSeq(tasks, 1, n)) = n
  <2>1. \A i \in 1 .. n : tasks[i] \in Task
    BY <1>2, <1>3, <1>7
  <2> QED  BY <1>3, <2>1, SubSeqProperties
<1>9. SubSeq(tasks, n + 1, Len(tasks)) \in Seq(Task)
  <2>1. \A i \in n + 1 .. Len(tasks) : tasks[i] \in Task
    BY <1>2, <1>3, <1>7
  <2> QED  BY <1>2, <1>3, <2>1, SubSeqProperties
<1>10. SubSeq(tasks, 1, n) # <<>>
  BY <1>3, <1>8, EmptySeq
<1> QED  BY Zenon, <1>1, <1>4, <1>5, <1>6, <1>8, <1>9, <1>10 DEF Queue

\* Running a fetched task takes the first off the queue.
LEMMA TaskTakesFirst ==
  ASSUME TaskInv, run_task
  PROVE  /\ Queue \in Seq(Task) /\ Queue # <<>>
         /\ Head(local_tasks) = Head(Queue)
         /\ Queue' = Tail(Queue)
         /\ local_tasks' \in Seq(Task)
         /\ run_pc' = "exec" <=> local_tasks' # <<>>
<1>1. /\ tasks \in Seq(Task) /\ local_tasks \in Seq(Task) /\ local_tasks # <<>>
      /\ tasks' = tasks /\ local_tasks' = Tail(local_tasks)
  BY DEF TaskInv, TypeOK, QueueExact, run_task
<1>2. Queue \in Seq(Task) /\ Queue # <<>>
  BY <1>1, ConcatProperties, ConcatEqualIffEmpty DEF Queue
<1>3. /\ Tail(local_tasks) \in Seq(Task)
      /\ Len(Tail(local_tasks)) = Len(local_tasks) - 1
      /\ Head(local_tasks) = local_tasks[1]
      /\ \A i \in 1 .. Len(Tail(local_tasks)) :
           Tail(local_tasks)[i] = local_tasks[i + 1]
  BY <1>1, HeadTailProperties
<1>4. Len(local_tasks) \in Nat \ {0} /\ Len(tasks) \in Nat
  BY <1>1, EmptySeq, LenProperties
<1>5. /\ Len(Queue) = Len(local_tasks) + Len(tasks)
      /\ \A i \in 1 .. Len(local_tasks) + Len(tasks) :
           Queue[i] = IF i <= Len(local_tasks) THEN local_tasks[i]
                      ELSE tasks[i - Len(local_tasks)]
  BY <1>1, ConcatProperties DEF Queue
<1>6. /\ Tail(Queue) \in Seq(Task)
      /\ Len(Tail(Queue)) = Len(Queue) - 1
      /\ Head(Queue) = Queue[1]
      /\ \A i \in 1 .. Len(Tail(Queue)) : Tail(Queue)[i] = Queue[i + 1]
  BY <1>2, HeadTailProperties
<1>7. Head(local_tasks) = Head(Queue)
  BY <1>3, <1>4, <1>5, <1>6
<1> DEFINE q == Tail(local_tasks) \o tasks
<1>8. /\ q \in Seq(Task)
      /\ Len(q) = Len(Tail(local_tasks)) + Len(tasks)
      /\ \A i \in 1 .. Len(Tail(local_tasks)) + Len(tasks) :
           q[i] = IF i <= Len(Tail(local_tasks)) THEN Tail(local_tasks)[i]
                  ELSE tasks[i - Len(Tail(local_tasks))]
  BY <1>1, <1>3, ConcatProperties
<1>9. Queue' = q
  BY <1>1 DEF Queue
<1> HIDE DEF q
<1>10. Len(q) = Len(Tail(Queue))
  BY <1>3, <1>4, <1>5, <1>6, <1>8
<1>11. ASSUME NEW i \in 1 .. Len(q) PROVE q[i] = Tail(Queue)[i]
  <2>1. Tail(Queue)[i] = Queue[i + 1] /\ i + 1 \in 1 .. Len(local_tasks) + Len(tasks)
    BY <1>4, <1>5, <1>6, <1>10
  <2>2. CASE i <= Len(Tail(local_tasks))
    BY <1>3, <1>4, <1>5, <1>8, <2>1, <2>2
  <2>3. CASE ~ (i <= Len(Tail(local_tasks)))
    BY <1>3, <1>4, <1>5, <1>8, <2>1, <2>3
  <2> QED  BY Zenon, <2>2, <2>3
<1>12. q = Tail(Queue)
  BY <1>6, <1>8, <1>10, <1>11, SeqEqual
<1>13. run_pc' = "exec" <=> local_tasks' # <<>>
  <2>1. run_pc' = IF Len(local_tasks) = 1 THEN "lock" ELSE "exec"
    BY DEF run_task
  <2>2. Tail(local_tasks) = <<>> <=> Len(Tail(local_tasks)) = 0
    BY Zenon, <1>3, EmptySeq
  <2> QED  BY <1>1, <1>3, <1>4, <2>1, <2>2
<1> QED  BY <1>1, <1>2, <1>3, <1>7, <1>9, <1>12, <1>13

\* A pushed task is new, and goes to the end of the queue.
LEMMA PushAdds ==
  ASSUME TaskInv, NEW a \in Adders, add_push(a)
  PROVE  LET t == <<a, added[a] + 1>>
         IN  /\ t \in Task /\ t \notin Pushed
             /\ Pushed' = Pushed \cup {t}
             /\ Queue \in Seq(Task) /\ Queue' = Append(Queue, t)
             /\ tasks' \in Seq(Task)
             /\ added' \in [Adders -> 0 .. TasksEach]
<1> DEFINE t == <<a, added[a] + 1>>
<1>1. /\ tasks \in Seq(Task) /\ local_tasks \in Seq(Task)
      /\ added \in [Adders -> 0 .. TasksEach]
      /\ added[a] < TasksEach
      /\ added' = [added EXCEPT ![a] = added[a] + 1]
      /\ tasks' = Append(tasks, <<a, added'[a]>>)
      /\ local_tasks' = local_tasks
  BY DEF TaskInv, TypeOK, add_push
<1>2. TasksEach \in Nat /\ added[a] \in 0 .. TasksEach /\ added[a] + 1 \in 1 .. TasksEach
  BY <1>1, TaskThreadAssumption
<1>3. t \in Task /\ t \notin Pushed
  BY <1>2 DEF Task, Pushed
<1>4. added'[a] = added[a] + 1 /\ added' \in [Adders -> 0 .. TasksEach]
  BY <1>1, <1>2
<1>5. Pushed' = Pushed \cup {t}
  <2>1. ASSUME NEW b \in Adders, NEW k \in 1 .. TasksEach
        PROVE  k <= added'[b] <=> (k <= added[b] \/ <<b, k>> = t)
    <3>1. added[b] \in 0 .. TasksEach
      BY <1>1
    <3>2. CASE b = a
      BY <1>2, <1>4, <3>2
    <3>3. CASE b # a
      BY <1>1, <3>3
    <3> QED  BY <3>2, <3>3
  <2>2. \A x \in Task : x[1] \in Adders /\ x[2] \in 1 .. TasksEach /\ x = <<x[1], x[2]>>
    BY DEF Task
  <2>3. \A x \in Task : x[2] <= added'[x[1]] <=> (x[2] <= added[x[1]] \/ x = t)
    BY <2>1, <2>2
  <2> QED  BY <1>3, <2>3 DEF Pushed
<1> HIDE DEF t
<1>6. tasks' = Append(tasks, t)
  BY <1>1, <1>4 DEF t
<1>7. Append(tasks, t) \in Seq(Task) /\ Append(tasks, t) = tasks \o <<t>>
      /\ <<t>> \in Seq(Task)
  BY <1>1, <1>3, AppendProperties, AppendIsConcat
<1>8. Queue \in Seq(Task)
  BY <1>1, ConcatProperties DEF Queue
<1>9. Queue' = local_tasks \o (tasks \o <<t>>)
  BY Zenon, <1>1, <1>6, <1>7 DEF Queue
<1>10. local_tasks \o (tasks \o <<t>>) = (local_tasks \o tasks) \o <<t>>
  BY <1>1, <1>7, ConcatAssociative
<1>11. Append(Queue, t) = Queue \o <<t>>
  BY <1>3, <1>8, AppendIsConcat
<1>12. Queue' = Append(Queue, t)
  BY <1>9, <1>10, <1>11 DEF Queue
<1> QED  BY <1>3, <1>4, <1>5, <1>6, <1>7, <1>8, <1>12 DEF t

-----------------------------------------------------------------------------
(***************************************************************************)
(* TaskInv is preserved, one lemma per step that moves a task.             *)
(***************************************************************************)
\* The tasks that are pushed and have not run.
Waiting == Pushed \ ran

\* The two sets num_pending is the difference of are finite.
LEMMA WaitingFinite ==
  /\ IsFiniteSet(Waiting) /\ Cardinality(Waiting) \in Nat
  /\ IsFiniteSet(Uncounted) /\ Cardinality(Uncounted) \in Nat
<1>1. Waiting \in SUBSET Task
  BY DEF Waiting, Pushed
<1> QED  BY <1>1, TasksFinite, UncountedFinite

\* add_task() pushes a task it has not counted.
LEMMA PushInv ==
  ASSUME TaskInv, ThreadTypeOK', NEW a \in Adders, add_push(a)
  PROVE  TaskInv'
<1> DEFINE t == <<a, added[a] + 1>>
<1>1. /\ t \in Task /\ t \notin Pushed
      /\ Pushed' = Pushed \cup {t}
      /\ Queue \in Seq(Task) /\ Queue' = Append(Queue, t)
      /\ tasks' \in Seq(Task)
      /\ added' \in [Adders -> 0 .. TasksEach]
  BY PushAdds
<1> HIDE DEF t
<1>2. /\ adder \in [Adders -> {"idle", "activate", "signal", "count"}]
      /\ adder[a] = "idle"
      /\ adder' = [adder EXCEPT ![a] = "activate"]
      /\ all_complete' = FALSE
      /\ UNCHANGED <<local_tasks, run_pc, num_pending, manager, seen, ran>>
  BY DEF TaskInv, TypeOK, add_push
<1>3. TypeOK'
  BY Zenon, <1>1, <1>2 DEF TaskInv, TypeOK
<1>4. t \notin Range(Queue) /\ t \notin ran
  BY <1>1 DEF TaskInv, QueueExact
<1>5. Distinct(Queue') /\ Range(Queue') = Range(Queue) \cup {t}
  BY <1>1, <1>4, AddLast DEF TaskInv, QueueExact
<1>6. QueueExact'
  <2>1. Range(Queue') \cup ran' = Pushed' /\ Range(Queue') \cap ran' = {}
    BY <1>1, <1>2, <1>4, <1>5 DEF TaskInv, QueueExact
  <2>2. run_pc' = "exec" <=> local_tasks' # <<>>
    BY <1>2 DEF TaskInv, QueueExact
  <2> QED  BY <1>5, <2>1, <2>2 DEF QueueExact
<1>7. Waiting' = Waiting \cup {t} /\ t \notin Waiting
  BY <1>1, <1>2, <1>4 DEF Waiting
<1>8. Uncounted' = Uncounted \cup {a} /\ a \notin Uncounted
  BY <1>2 DEF Uncounted
<1>9. /\ Cardinality(Waiting') = Cardinality(Waiting) + 1
      /\ Cardinality(Uncounted') = Cardinality(Uncounted) + 1
  BY Zenon, <1>7, <1>8, WaitingFinite, FS_AddElement
<1>10. Cardinality(Waiting') - Cardinality(Uncounted')
         = Cardinality(Waiting) - Cardinality(Uncounted)
  BY <1>9, WaitingFinite
<1>11. num_pending' = SizeT(Cardinality(Waiting') - Cardinality(Uncounted'))
  BY <1>2, <1>10 DEF TaskInv, Waiting
<1>12. /\ seen' \subseteq Pushed'
       /\ manager' \in {"returned", "joining", "gone"} => seen' \subseteq ran'
       /\ all_complete' => Queue' = <<>>
  BY <1>1, <1>2 DEF TaskInv
<1> QED  BY <1>3, <1>6, <1>11, <1>12 DEF TaskInv, Waiting

\* add_task() counts the task, which may have run already.
LEMMA CountInv ==
  ASSUME TaskInv, ThreadTypeOK', NEW a \in Adders, add_count(a)
  PROVE  TaskInv'
<1>1. /\ adder \in [Adders -> {"idle", "activate", "signal", "count"}]
      /\ adder[a] = "count"
      /\ adder' = [adder EXCEPT ![a] = "idle"]
      /\ num_pending' = SizeT(num_pending + 1)
      /\ UNCHANGED <<tasks, local_tasks, run_pc, all_complete, added, manager,
                     seen, ran>>
  BY DEF TaskInv, TypeOK, add_count
<1>2. /\ Queue' = Queue /\ Pushed' = Pushed /\ Waiting' = Waiting
      /\ QueueExact' = QueueExact
  BY <1>1 DEF Queue, Pushed, Waiting, QueueExact, Distinct
<1>3. Uncounted' = Uncounted \ {a} /\ a \in Uncounted
  BY <1>1 DEF Uncounted
<1>4. Cardinality(Uncounted') = Cardinality(Uncounted) - 1
  BY Zenon, <1>3, WaitingFinite, FS_RemoveElement
<1> DEFINE n == Cardinality(Waiting) - Cardinality(Uncounted)
<1>5. n \in Int /\ Cardinality(Waiting') - Cardinality(Uncounted') = n + 1
  BY <1>2, <1>4, WaitingFinite
<1>6. num_pending = SizeT(n)
  BY DEF TaskInv, Waiting
<1> HIDE DEF n
<1>7. num_pending' = SizeT(n + 1) /\ num_pending' \in 0 .. 2 ^ SizeTBits - 1
  BY <1>1, <1>5, <1>6, SizeTStep
<1>8. TypeOK'
  BY <1>1, <1>7 DEF TaskInv, TypeOK
<1> QED  BY <1>1, <1>2, <1>5, <1>7, <1>8 DEF TaskInv, Waiting

\* run() takes the first task off the queue, runs it and counts it.
LEMMA RunInv ==
  ASSUME TaskInv, ThreadTypeOK', run_task
  PROVE  TaskInv'
<1> DEFINE t == Head(Queue)
<1>1. /\ Queue \in Seq(Task) /\ Queue # <<>>
      /\ Head(local_tasks) = t
      /\ Queue' = Tail(Queue)
      /\ local_tasks' \in Seq(Task)
      /\ run_pc' = "exec" <=> local_tasks' # <<>>
  BY TaskTakesFirst
<1>2. /\ Distinct(Queue') /\ Range(Queue') = Range(Queue) \ {t}
      /\ t \in Range(Queue)
  BY <1>1, TakeFirst DEF TaskInv, QueueExact
<1> HIDE DEF t
<1>3. /\ ran' = ran \cup {t}
      /\ num_pending' = SizeT(num_pending - 1)
      /\ run_pc' \in {"lock", "exec"}
      /\ UNCHANGED <<tasks, all_complete, adder, added, manager, seen>>
  BY <1>1 DEF run_task
<1>4. Pushed' = Pushed /\ Uncounted' = Uncounted /\ Pushed \subseteq Task
  BY <1>3 DEF Pushed, Uncounted
<1>5. t \in Pushed /\ t \notin ran
  BY <1>2 DEF TaskInv, QueueExact
<1>6. QueueExact'
  BY <1>1, <1>2, <1>3, <1>4 DEF TaskInv, QueueExact
<1>7. Waiting' = Waiting \ {t} /\ t \in Waiting
  BY <1>3, <1>4, <1>5 DEF Waiting
<1>8. Cardinality(Waiting') = Cardinality(Waiting) - 1
  BY Zenon, <1>7, WaitingFinite, FS_RemoveElement
<1> DEFINE n == Cardinality(Waiting) - Cardinality(Uncounted)
<1>9. n \in Int /\ Cardinality(Waiting') - Cardinality(Uncounted') = n - 1
  BY <1>4, <1>8, WaitingFinite
<1>10. num_pending = SizeT(n)
  BY DEF TaskInv, Waiting
<1> HIDE DEF n
<1>11. num_pending' = SizeT(n - 1) /\ num_pending' \in 0 .. 2 ^ SizeTBits - 1
  <2>1. n - 1 \in Int
    BY <1>9
  <2> QED  BY <1>3, <1>9, <1>10, <2>1, SizeTStep
<1>12. ran' \subseteq Task
  BY <1>3, <1>4, <1>5 DEF TaskInv, TypeOK
<1>13. TypeOK'
  BY <1>1, <1>3, <1>11, <1>12 DEF TaskInv, TypeOK
<1>14. ~ all_complete'
  BY <1>1, <1>3 DEF TaskInv
<1>15. /\ seen' \subseteq Pushed'
       /\ manager' \in {"returned", "joining", "gone"} => seen' \subseteq ran'
  BY <1>3, <1>4 DEF TaskInv
<1> QED  BY <1>6, <1>9, <1>11, <1>13, <1>14, <1>15 DEF TaskInv, Waiting

\* The other steps of run(): a batch is fetched, the end is announced.
LEMMA RunLoopInv ==
  ASSUME TaskInv, ThreadTypeOK', run_fetch \/ run_complete \/ run_signal
  PROVE  TaskInv'
<1>1. UNCHANGED <<num_pending, adder, added, seen, ran>>
  BY DEF run_fetch, run_complete, run_signal
<1>2. Pushed' = Pushed /\ Uncounted' = Uncounted
  BY <1>1 DEF Pushed, Uncounted
<1>3. CASE run_fetch
  <2>1. /\ Queue' = Queue /\ tasks' \in Seq(Task) /\ local_tasks' \in Seq(Task)
        /\ local_tasks' # <<>>
    BY <1>3, FetchKeepsQueue
  <2>2. run_pc' = "exec" /\ UNCHANGED <<all_complete, manager>>
    BY <1>3 DEF run_fetch
  <2>3. QueueExact'
    BY <1>1, <1>2, <2>1, <2>2 DEF TaskInv, QueueExact, Distinct
  <2>4. TypeOK'
    BY <1>1, <2>1, <2>2 DEF TaskInv, TypeOK
  <2> QED  BY <1>1, <1>2, <2>1, <2>2, <2>3, <2>4 DEF TaskInv
<1>4. CASE run_complete \/ run_signal
  <2>1. /\ UNCHANGED <<tasks, local_tasks>>
        /\ run_pc # "exec" /\ run_pc' \in {"lock", "signal"}
    BY <1>4 DEF run_complete, run_signal
  <2>2. Queue' = Queue
    BY <2>1 DEF Queue
  <2>3. QueueExact'
    BY <1>1, <1>2, <2>1, <2>2 DEF TaskInv, QueueExact, Distinct
  <2>4. all_complete' \in BOOLEAN /\ (all_complete' => Queue' = <<>>)
    <3>1. CASE run_complete
      <4>1. tasks = <<>> /\ local_tasks = <<>> /\ all_complete' = TRUE
        BY <2>1, <3>1 DEF run_complete, TaskInv, QueueExact
      <4>2. <<>> \o <<>> = <<>>
        BY ConcatEmptySeq, EmptySeq
      <4> QED  BY <2>2, <4>1, <4>2 DEF Queue
    <3>2. CASE run_signal
      BY <2>2, <3>2 DEF run_signal, TaskInv, TypeOK
    <3> QED  BY <1>4, <3>1, <3>2
  <2>5. /\ manager' \in {"idle", "blocked", "woken", "returned", "joining", "gone"}
        /\ manager' \in {"returned", "joining", "gone"} => manager' = manager
    BY <1>4 DEF run_complete, run_signal, TaskInv, TypeOK
  <2>6. TypeOK'
    BY <1>1, <2>1, <2>4, <2>5 DEF TaskInv, TypeOK
  <2> QED  BY <1>1, <1>2, <2>3, <2>4, <2>5, <2>6 DEF TaskInv
<1> QED  BY <1>3, <1>4

\* The steps that leave the queue alone: those of the thread, of an adder
\* that activates it, and of the manager.
LEMMA OtherInv ==
  ASSUME TaskInv, ThreadTypeOK',
         UNCHANGED <<tasks, local_tasks, run_pc, num_pending, all_complete,
                     added, ran>>,
         adder' \in [Adders -> {"idle", "activate", "signal", "count"}],
         Uncounted' = Uncounted,
         manager' \in {"idle", "blocked", "woken", "returned", "joining", "gone"},
         seen' \subseteq Pushed,
         manager' \in {"returned", "joining", "gone"} => seen' \subseteq ran
  PROVE  TaskInv'
<1>1. Queue' = Queue /\ Pushed' = Pushed /\ Pushed \subseteq Task
  BY DEF Queue, Pushed
<1>2. QueueExact'
  BY <1>1 DEF TaskInv, QueueExact, Distinct
<1>3. TypeOK'
  BY <1>1 DEF TaskInv, TypeOK
<1> QED  BY <1>1, <1>2, <1>3 DEF TaskInv

\* When nothing waits, everything pushed has run.
LEMMA CompleteMeansRan ==
  ASSUME TaskInv, all_complete
  PROVE  Pushed \subseteq ran
<1>1. Queue = <<>>
  BY DEF TaskInv
<1>2. Range(<<>>) = {}
  BY DEF Range
<1> QED  BY <1>1, <1>2 DEF TaskInv, QueueExact

\* wait4complete() returns on all_complete only, and the destructor keeps
\* what its last call has seen.
LEMMA ManagerInv ==
  ASSUME TaskInv, ThreadTypeOK',
         \/ wait4complete \/ wait4complete_relock \/ wait4complete_spurious
         \/ destroy \/ join
  PROVE  TaskInv'
<1>1. UNCHANGED <<tasks, local_tasks, run_pc, num_pending, all_complete, adder,
                  added, ran>>
  BY DEF wait4complete, wait4complete_relock, wait4complete_spurious, destroy,
         join
<1>2. /\ adder' \in [Adders -> {"idle", "activate", "signal", "count"}]
      /\ Uncounted' = Uncounted
  BY <1>1 DEF TaskInv, TypeOK, Uncounted
<1>3. all_complete => Pushed \subseteq ran
  BY CompleteMeansRan
<1>4. /\ manager' \in {"idle", "blocked", "woken", "returned", "joining", "gone"}
      /\ seen' \subseteq Pushed
      /\ manager' \in {"returned", "joining", "gone"} => seen' \subseteq ran
  <2>1. CASE wait4complete
    BY <1>3, <2>1 DEF wait4complete
  <2>2. CASE wait4complete_relock
    BY <1>3, <2>2 DEF wait4complete_relock, TaskInv
  <2>3. CASE wait4complete_spurious
    BY <2>3 DEF wait4complete_spurious, TaskInv
  <2>4. CASE destroy
    BY <2>4 DEF destroy, TaskInv
  <2>5. CASE join
    BY <2>5 DEF join, TaskInv
  <2> QED  BY <2>1, <2>2, <2>3, <2>4, <2>5
<1> QED  BY <1>1, <1>2, <1>4, OtherInv

\* Activating the thread moves no task.
LEMMA ActivateInv ==
  ASSUME TaskInv, ThreadTypeOK', NEW a \in Adders,
         add_activate(a) \/ add_signal(a)
  PROVE  TaskInv'
<1>1. UNCHANGED <<tasks, local_tasks, run_pc, num_pending, all_complete, added,
                  manager, seen, ran>>
  BY DEF add_activate, add_signal
<1>2. /\ adder \in [Adders -> {"idle", "activate", "signal", "count"}]
      /\ adder[a] \in {"activate", "signal"}
  BY DEF add_activate, add_signal, TaskInv, TypeOK
<1>3. PICK pc \in {"signal", "count"} : adder' = [adder EXCEPT ![a] = pc]
  BY DEF add_activate, add_signal
<1>4. adder' \in [Adders -> {"idle", "activate", "signal", "count"}]
  BY <1>2, <1>3
<1>5. Uncounted' = Uncounted
  BY <1>2, <1>3 DEF Uncounted
<1>6. /\ manager' \in {"idle", "blocked", "woken", "returned", "joining", "gone"}
      /\ seen' \subseteq Pushed
      /\ manager' \in {"returned", "joining", "gone"} => seen' \subseteq ran
  BY <1>1 DEF TaskInv, TypeOK
<1> QED  BY <1>1, <1>4, <1>5, <1>6, OtherInv

\* A task thread takes only steps of a thread, and its own tasks change
\* nothing a thread knows of.
LEMMA TaskStepIsThreadStep == [Next]_vars => [ThreadNext]_threadVars
<1> SUFFICES ASSUME [Next]_vars PROVE [ThreadNext]_threadVars
  OBVIOUS
<1>1. Adders \subseteq Callers /\ Manager \in Callers
  BY TaskThreadAssumption
<1>2. CASE (ThreadStep \/ wait_spurious) /\ UNCHANGED taskVars
  BY <1>2 DEF ThreadStep, ThreadNext
<1>3. CASE RunStep
  BY <1>3 DEF RunStep, run_fetch, run_task, run_complete, run_signal, ThreadNext
<1>4. ASSUME NEW a \in Adders,
             add_push(a) \/ add_activate(a) \/ add_signal(a) \/ add_count(a)
      PROVE  [ThreadNext]_threadVars
  BY <1>1, <1>4 DEF add_push, add_activate, add_signal, add_count, ThreadNext
<1>5. CASE wait4complete \/ wait4complete_relock \/ wait4complete_spurious \/ join
  BY <1>5 DEF wait4complete, wait4complete_relock, wait4complete_spurious, join
<1>6. CASE destroy
  BY <1>1, <1>6 DEF destroy, ThreadNext
<1>7. CASE UNCHANGED vars
  BY <1>7 DEF vars
<1> QED  BY <1>2, <1>3, <1>4, <1>5, <1>6, <1>7 DEF Next

\* A new task thread has nothing to run and nothing counted.
LEMMA TaskInit == Init => TaskInv
<1> SUFFICES ASSUME Init PROVE TaskInv
  OBVIOUS
<1>1. /\ tasks = <<>> /\ local_tasks = <<>> /\ run_pc = "lock"
      /\ num_pending = 0 /\ all_complete = FALSE
      /\ adder = [a \in Adders |-> "idle"] /\ added = [a \in Adders |-> 0]
      /\ manager = "idle" /\ seen = {} /\ ran = {}
  BY DEF Init
<1>2. ThreadTypeOK
  BY InitWake DEF Init, WakeInv
<1>3. <<>> \in Seq(Task) /\ <<>> \o <<>> = <<>> /\ Len(<<>>) = 0
  BY EmptySeq, ConcatEmptySeq
<1>4. Queue = <<>>
  BY <1>1, <1>3 DEF Queue
<1>5. Pushed = {}
  BY <1>1, TaskThreadAssumption DEF Pushed, Task
<1>6. Range(<<>>) = {}
  BY DEF Range
<1>7. Distinct(<<>>)
  BY <1>3 DEF Distinct
<1>8. QueueExact
  BY <1>1, <1>4, <1>5, <1>6, <1>7 DEF QueueExact
<1>9. Uncounted = {} /\ Pushed \ ran = {}
  BY <1>1, <1>5 DEF Uncounted
<1>10. Cardinality(Pushed \ ran) - Cardinality(Uncounted) = 0
  BY <1>9, FS_EmptySet
<1>11. SizeT(0) = 0 /\ 0 \in 0 .. 2 ^ SizeTBits - 1
  BY TaskThreadAssumption DEF SizeT
<1>12. added \in [Adders -> 0 .. TasksEach]
  BY <1>1, TaskThreadAssumption
<1>13. TypeOK
  BY Zenon, <1>1, <1>2, <1>3, <1>11, <1>12 DEF TypeOK
<1> QED  BY <1>1, <1>4, <1>8, <1>10, <1>11, <1>13 DEF TaskInv

\* Every step keeps TaskInv; the thread's own invariant comes with it.
LEMMA TaskStep ==
  TaskInv /\ WakeInv /\ [Next]_vars => TaskInv' /\ WakeInv'
<1> SUFFICES ASSUME TaskInv, WakeInv, [Next]_vars
             PROVE  TaskInv' /\ WakeInv'
  OBVIOUS
<1>1. WakeInv'
  BY TaskStepIsThreadStep, StepWake
<1>2. ThreadTypeOK'
  BY <1>1 DEF WakeInv
<1>3. CASE UNCHANGED taskVars
  <2>1. /\ UNCHANGED <<tasks, local_tasks, run_pc, num_pending, all_complete,
                       added, ran>>
        /\ UNCHANGED <<adder, manager, seen>>
    BY <1>3 DEF taskVars
  <2>2. Uncounted' = Uncounted
    BY <2>1 DEF Uncounted
  <2> QED  BY <1>1, <1>2, <2>1, <2>2, OtherInv DEF TaskInv, TypeOK
<1>4. CASE RunStep
  BY <1>1, <1>2, <1>4, RunInv, RunLoopInv DEF RunStep
<1>5. ASSUME NEW a \in Adders,
             add_push(a) \/ add_activate(a) \/ add_signal(a) \/ add_count(a)
      PROVE  TaskInv'
  BY <1>2, <1>5, PushInv, ActivateInv, CountInv
<1>6. CASE \/ wait4complete \/ wait4complete_relock \/ wait4complete_spurious
           \/ destroy \/ join
  BY <1>1, <1>2, <1>6, ManagerInv
<1>7. CASE UNCHANGED vars
  BY <1>3, <1>7 DEF vars
<1> QED  BY <1>1, <1>3, <1>4, <1>5, <1>6, <1>7 DEF Next

\* TaskInv is inductive together with WakeInv.
LEMMA TaskAlways == Spec => [](TaskInv /\ WakeInv)
<1>1. Init => TaskInv /\ WakeInv
  BY TaskInit, InitWake DEF Init
<1> QED  BY <1>1, TaskStep, PTL DEF Spec

(***************************************************************************)
(* Whatever the number of adders and of tasks and the width of size_t,     *)
(* wait4complete() returns only when every task added before the call has  *)
(* run, and num_pending, which wraps below zero while a task has run that  *)
(* add_task() has not counted, is exact whenever no add_task() is under    *)
(* way.                                                                    *)
(***************************************************************************)
THEOREM WaitIsDone == Spec => []WaitMeansDone
<1>1. TaskInv => WaitMeansDone
  <2> SUFFICES ASSUME TaskInv PROVE WaitMeansDone
    OBVIOUS
  <2>1. ASSUME \A a \in Adders : adder[a] = "idle"
        PROVE  num_pending = SizeT(Cardinality(Pushed \ ran))
    <3>1. Uncounted = {}
      BY <2>1 DEF Uncounted
    <3>2. Cardinality(Uncounted) = 0 /\ Cardinality(Pushed \ ran) \in Nat
      BY <3>1, FS_EmptySet, WaitingFinite DEF Waiting
    <3>3. Cardinality(Pushed \ ran) - Cardinality(Uncounted)
            = Cardinality(Pushed \ ran)
      BY <3>2
    <3> QED  BY <3>3 DEF TaskInv
  <2> QED  BY <2>1 DEF TaskInv, WaitMeansDone
<1> QED  BY <1>1, TaskAlways, PTL

(***************************************************************************)
(* The task thread loses no activation: add_task() and ~thread() use       *)
(* activate() and stop() as any caller may.                                *)
(***************************************************************************)
THEOREM TaskWakeupKept == Spec => []NoLostWakeup
<1>1. WakeInv => NoLostWakeup
  BY DEF WakeInv
<1> QED  BY <1>1, TaskAlways, PTL

(***************************************************************************)
(* Seen through activate(), wait() and stop(), the task thread is a thread *)
(* that implements the event.                                              *)
(***************************************************************************)
THEOREM TaskEventImplemented == Spec => ImplementsEventSafety
<1>1. Init => Event!EventInit
  BY DEF Init, construct_init, Event!EventInit
<1>2. WakeInv /\ [Next]_vars => [Event!EventNext]_(Event!eventVars)
  BY TaskStepIsThreadStep, StepIsEventStep DEF WakeInv
<1> QED  BY <1>1, <1>2, TaskAlways, PTL
         DEF Spec, ImplementsEventSafety, Event!EventSafety
=============================================================================
