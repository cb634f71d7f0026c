----------------------------- MODULE SafsThread -----------------------------
(***************************************************************************)
(* The thread class of SAFS (SAFS/libsafs/thread.{h,cpp}): a thread that   *)
(* calls run(), sleeps in wait() until somebody activates it, and leaves   *)
(* its loop when it is stopped.  Every SAFS thread derives from it (the    *)
(* disk I/O threads, the AIO completion threads, the page flusher,         *)
(* task_thread).                                                           *)
(*                                                                         *)
(* A critical section of the thread's mutex is one step.  is_running() is  *)
(* read without the mutex, and activate() signals the condition after it   *)
(* has released it: both are steps of their own.                           *)
(***************************************************************************)
EXTENDS Integers, Sequences, FiniteSets

CONSTANT Callers            \* the threads that call activate() and stop()

VARIABLES
  owner,                    \* where the thread is in thread_run()
  caller,                   \* where each caller is in activate()
  is_activated,             \* thread::_is_activated
  is_sleeping,              \* thread::_is_sleeping
  is_running                \* thread::_is_running

threadVars == <<owner, caller, is_activated, is_sleeping, is_running>>

(***************************************************************************)
(* "new" is a thread object whose start() has not been called; in          *)
(* "blocked" the thread is inside pthread_cond_wait(); in "woken" it has   *)
(* left it and is about to take the mutex again.                           *)
(***************************************************************************)
OwnerPc == {"new", "loop", "run", "wait", "blocked", "woken", "exited"}

construct_init ==
  /\ owner = "new"
  /\ caller = [c \in Callers |-> "idle"]
  /\ is_activated = FALSE
  /\ is_sleeping = TRUE
  /\ is_running = TRUE

\* pthread_create() in start().
start ==
  /\ owner = "new"
  /\ owner' = "loop"
  /\ UNCHANGED <<caller, is_activated, is_sleeping, is_running>>

\* while (t->is_running()); cleanup() and exit() follow the loop.
thread_run ==
  /\ owner = "loop"
  /\ owner' = IF is_running THEN "run" ELSE "exited"
  /\ UNCHANGED <<caller, is_activated, is_sleeping, is_running>>

\* run() of the derived class returns and, the thread being a blocking one,
\* wait() is called.
run_returns ==
  /\ owner = "run"
  /\ owner' = "wait"
  /\ UNCHANGED <<caller, is_activated, is_sleeping, is_running>>

\* Mutant: wait() sleeps before it checks for an activation.
sleep_or_return_blind ==
  IF (owner = "wait" \/ ~ is_activated) /\ is_running
    THEN /\ is_sleeping' = TRUE
         /\ owner' = "blocked"
         /\ UNCHANGED is_activated
    ELSE /\ is_activated' = FALSE
         /\ owner' = "loop"
         /\ is_sleeping' = FALSE

\* Mutant: wait() leaves the activation set.
sleep_or_return_keep ==
  IF ~ is_activated /\ is_running
    THEN /\ is_sleeping' = TRUE
         /\ owner' = "blocked"
         /\ UNCHANGED is_activated
    ELSE /\ owner' = "loop"
         /\ is_sleeping' = FALSE
         /\ UNCHANGED is_activated

(***************************************************************************)
(* wait(): with the mutex held, either sleep or consume the activation.    *)
(***************************************************************************)
sleep_or_return ==
  IF ~ is_activated /\ is_running
    THEN /\ is_sleeping' = TRUE
         /\ owner' = "blocked"
         /\ UNCHANGED is_activated
    ELSE /\ is_activated' = FALSE
         /\ owner' = "loop"
         /\ is_sleeping' = IF owner = "woken" THEN FALSE ELSE is_sleeping

wait ==
  /\ owner = "wait"
  /\ sleep_or_return
  /\ UNCHANGED <<caller, is_running>>

wait_relock ==
  /\ owner = "woken"
  /\ sleep_or_return
  /\ UNCHANGED <<caller, is_running>>

\* pthread_cond_wait() may return without a signal.
wait_spurious ==
  /\ owner = "blocked"
  /\ owner' = "woken"
  /\ UNCHANGED <<caller, is_activated, is_sleeping, is_running>>

cond_signal == owner' = IF owner = "blocked" THEN "woken" ELSE owner

(***************************************************************************)
(* activate(): the flag is set and _is_sleeping read in the critical       *)
(* section; the signal, if the thread was asleep, comes after it.          *)
(***************************************************************************)
activate(c) ==
  /\ caller[c] = "idle"
  /\ is_activated' = TRUE
  /\ caller' = [caller EXCEPT ![c] = IF is_sleeping THEN "signal" ELSE "idle"]
  /\ UNCHANGED <<owner, is_sleeping, is_running>>

activate_signal(c) ==
  /\ caller[c] = "signal"
  /\ cond_signal
  /\ caller' = [caller EXCEPT ![c] = "idle"]
  /\ UNCHANGED <<is_activated, is_sleeping, is_running>>

\* stop() signals inside the critical section.
stop(c) ==
  /\ caller[c] = "idle"
  /\ is_running' = FALSE
  /\ cond_signal
  /\ UNCHANGED <<caller, is_activated, is_sleeping>>

ThreadNext ==
  \/ start \/ thread_run \/ run_returns
  \/ wait \/ wait_relock \/ wait_spurious
  \/ \E c \in Callers : activate(c) \/ activate_signal(c) \/ stop(c)

ThreadSpec == construct_init /\ [][ThreadNext]_threadVars

-----------------------------------------------------------------------------
ThreadTypeOK ==
  /\ owner \in OwnerPc
  /\ caller \in [Callers -> {"idle", "signal"}]
  /\ is_activated \in BOOLEAN
  /\ is_sleeping \in BOOLEAN
  /\ is_running \in BOOLEAN

(***************************************************************************)
(* No wake-up is lost between activate() and wait(): a thread that sleeps  *)
(* in pthread_cond_wait() although it has been activated is about to be    *)
(* signalled, and a stopped thread does not sleep there at all.            *)
(***************************************************************************)
NoLostWakeup ==
  owner = "blocked" =>
    /\ is_running
    /\ is_activated => \E c \in Callers : caller[c] = "signal"

\* The event the code that uses a thread reasons with.
Event == INSTANCE ActivationEvent WITH
           flag <- is_activated,
           stopped <- ~ is_running,
           waiting <- owner \in {"wait", "blocked", "woken"}

(***************************************************************************)
(* activate(), wait() and stop() implement the event, return of wait()     *)
(* included: with three flags, a signal outside the mutex and spurious     *)
(* wake-ups they behave like one remembered activation.                    *)
(***************************************************************************)
ImplementsEvent == Event!EventSpec

\* Its safety part.
ImplementsEventSafety == Event!EventSafety
-----------------------------------------------------------------------------
(***************************************************************************)
(* task_thread (SAFS/libsafs/thread.{h,cpp}): a SAFS thread that runs the  *)
(* tasks other threads give it.  The adders call add_task(); one more      *)
(* thread, the manager, calls wait4complete() and, when the adders have    *)
(* finished and a last wait4complete() has returned, destroys the object   *)
(* (~thread: stop() and join()).                                           *)
(***************************************************************************)

CONSTANTS
  Adders,                   \* the threads that add tasks
  Manager,                  \* the thread that waits and destroys
  TasksEach,                \* how many tasks an adder adds
  TASK_BUF_SIZE,            \* tasks fetched at a time by run()
  SizeTBits                 \* width of num_pending, a size_t

ASSUME TaskThreadAssumption ==
  /\ TasksEach \in Nat
  /\ TASK_BUF_SIZE \in Nat \ {0}
  /\ SizeTBits \in Nat \ {0}
  /\ 2 ^ SizeTBits \in Nat \ {0}     \* arithmetic, for the prover
  /\ IsFiniteSet(Adders)
  /\ Callers = Adders \cup {Manager}
  /\ Manager \notin Adders

VARIABLES
  tasks,                    \* task_thread::tasks
  local_tasks,              \* the tasks run() has fetched and not yet run
  run_pc,                   \* run() holds no lock: "lock", "exec", "signal"
  num_pending,              \* task_thread::num_pending, modulo 2^SizeTBits
  all_complete,             \* task_thread::all_complete
  adder,                    \* where an adder is in add_task()
  added,                    \* how many tasks an adder has pushed
  manager,                  \* where the manager is
  seen,                     \* the tasks pushed when wait4complete() began
  ran                       \* the tasks whose run() has returned

taskVars == <<tasks, local_tasks, run_pc, num_pending, all_complete, adder,
              added, manager, seen, ran>>

vars == <<threadVars, taskVars>>

Task == Adders \X (1 .. TasksEach)
Pushed == {t \in Task : t[2] <= added[t[1]]}

SizeT(n) == n % (2 ^ SizeTBits)

Init ==
  /\ construct_init
  /\ tasks = <<>>
  /\ local_tasks = <<>>
  /\ run_pc = "lock"
  /\ num_pending = 0
  /\ all_complete = FALSE
  /\ adder = [a \in Adders |-> "idle"]
  /\ added = [a \in Adders |-> 0]
  /\ manager = "idle"
  /\ seen = {}
  /\ ran = {}

\* Mutant: the new task does not reset all_complete.
add_push_noreset(a) ==
  /\ adder[a] = "idle" /\ added[a] < TasksEach
  /\ added' = [added EXCEPT ![a] = @ + 1]
  /\ tasks' = Append(tasks, <<a, added'[a]>>)
  /\ adder' = [adder EXCEPT ![a] = "activate"]
  /\ UNCHANGED <<threadVars, local_tasks, run_pc, num_pending, all_complete,
                 manager, seen, ran>>

(***************************************************************************)
(* add_task(): push under the task mutex, activate the thread, and only    *)
(* then count the task.                                                    *)
(***************************************************************************)
add_push(a) ==
  /\ adder[a] = "idle" /\ added[a] < TasksEach
  /\ all_complete' = FALSE
  /\ added' = [added EXCEPT ![a] = @ + 1]
  /\ tasks' = Append(tasks, <<a, added'[a]>>)
  /\ adder' = [adder EXCEPT ![a] = "activate"]
  /\ UNCHANGED <<threadVars, local_tasks, run_pc, num_pending, manager, seen,
                 ran>>

add_activate(a) ==
  /\ adder[a] = "activate"
  /\ activate(a)
  /\ adder' = [adder EXCEPT ![a] = IF is_sleeping THEN "signal" ELSE "count"]
  /\ UNCHANGED <<tasks, local_tasks, run_pc, num_pending, all_complete, added,
                 manager, seen, ran>>

add_signal(a) ==
  /\ adder[a] = "signal"
  /\ activate_signal(a)
  /\ adder' = [adder EXCEPT ![a] = "count"]
  /\ UNCHANGED <<tasks, local_tasks, run_pc, num_pending, all_complete, added,
                 manager, seen, ran>>

add_count(a) ==
  /\ adder[a] = "count"
  /\ num_pending' = SizeT(num_pending + 1)
  /\ adder' = [adder EXCEPT ![a] = "idle"]
  /\ UNCHANGED <<threadVars, tasks, local_tasks, run_pc, all_complete, added,
                 manager, seen, ran>>

(***************************************************************************)
(* run(): fetch under the task mutex until no task is left, running the    *)
(* fetched tasks without it.                                               *)
(***************************************************************************)
run_fetch ==
  /\ owner = "run" /\ run_pc = "lock"
  /\ tasks # <<>>
  /\ LET n == IF Len(tasks) < TASK_BUF_SIZE THEN Len(tasks) ELSE TASK_BUF_SIZE
     IN /\ local_tasks' = SubSeq(tasks, 1, n)
        /\ tasks' = SubSeq(tasks, n + 1, Len(tasks))
  /\ run_pc' = "exec"
  /\ UNCHANGED <<threadVars, num_pending, all_complete, adder, added, manager,
                 seen, ran>>

run_task ==
  /\ owner = "run" /\ run_pc = "exec"
  /\ ran' = ran \cup {Head(local_tasks)}
  /\ local_tasks' = Tail(local_tasks)
  /\ num_pending' = SizeT(num_pending - 1)
  /\ run_pc' = IF Len(local_tasks) = 1 THEN "lock" ELSE "exec"
  /\ UNCHANGED <<threadVars, tasks, all_complete, adder, added, manager, seen>>

run_complete ==
  /\ owner = "run" /\ run_pc = "lock"
  /\ tasks = <<>>
  /\ all_complete' = TRUE
  /\ run_pc' = "signal"
  /\ UNCHANGED <<threadVars, tasks, local_tasks, num_pending, adder, added,
                 manager, seen, ran>>

\* Mutant: the waiter is not signalled.
run_signal_silent ==
  /\ run_pc = "signal"
  /\ run_returns
  /\ run_pc' = "lock"
  /\ UNCHANGED <<tasks, local_tasks, num_pending, all_complete, adder, added,
                 manager, seen, ran>>

\* The signal comes after the mutex is released; run() returns.
run_signal ==
  /\ run_pc = "signal"
  /\ run_returns
  /\ run_pc' = "lock"
  /\ manager' = IF manager = "blocked" THEN "woken" ELSE manager
  /\ UNCHANGED <<tasks, local_tasks, num_pending, all_complete, adder, added,
                 seen, ran>>

(***************************************************************************)
(* wait4complete() and the destructor, by the manager.                     *)
(***************************************************************************)
wait4complete ==
  /\ manager \in {"idle", "returned"}
  /\ seen # Task
  /\ seen' = Pushed
  /\ manager' = IF all_complete THEN "returned" ELSE "blocked"
  /\ UNCHANGED <<threadVars, tasks, local_tasks, run_pc, num_pending,
                 all_complete, adder, added, ran>>

wait4complete_relock ==
  /\ manager = "woken"
  /\ manager' = IF all_complete THEN "returned" ELSE "blocked"
  /\ UNCHANGED <<threadVars, tasks, local_tasks, run_pc, num_pending,
                 all_complete, adder, added, seen, ran>>

wait4complete_spurious ==
  /\ manager = "blocked"
  /\ manager' = "woken"
  /\ UNCHANGED <<threadVars, tasks, local_tasks, run_pc, num_pending,
                 all_complete, adder, added, seen, ran>>

\* ~thread(): nobody uses the object any more.
destroy ==
  /\ manager = "returned" /\ seen = Task
  /\ \A a \in Adders : adder[a] = "idle"
  /\ stop(Manager)
  /\ manager' = "joining"
  /\ UNCHANGED <<tasks, local_tasks, run_pc, num_pending, all_complete, adder,
                 added, seen, ran>>

join ==
  /\ manager = "joining"
  /\ owner = "exited"
  /\ manager' = "gone"
  /\ UNCHANGED <<threadVars, tasks, local_tasks, run_pc, num_pending,
                 all_complete, adder, added, seen, ran>>

\* The steps of the thread itself, and those of run().
ThreadStep == start \/ thread_run \/ wait \/ wait_relock
RunStep == run_fetch \/ run_task \/ run_complete \/ run_signal

Next ==
  \/ (ThreadStep \/ wait_spurious) /\ UNCHANGED taskVars
  \/ RunStep
  \/ \E a \in Adders :
       add_push(a) \/ add_activate(a) \/ add_signal(a) \/ add_count(a)
  \/ wait4complete \/ wait4complete_relock \/ wait4complete_spurious
  \/ destroy \/ join

(***************************************************************************)
(* Fairness: the operating system runs every thread that is not blocked.   *)
(* Nothing is assumed of the program: no task has to be added, nobody has  *)
(* to wait or to destroy the thread, and no wake-up has to be spurious.    *)
(***************************************************************************)
Spec ==
  /\ Init /\ [][Next]_vars
  /\ WF_vars(ThreadStep /\ UNCHANGED taskVars)
  /\ WF_vars(RunStep)
  /\ \A a \in Adders : WF_vars(add_activate(a) \/ add_signal(a) \/ add_count(a))
  /\ WF_vars(wait4complete_relock \/ join)

-----------------------------------------------------------------------------
TypeOK ==
  /\ ThreadTypeOK
  /\ tasks \in Seq(Task) /\ local_tasks \in Seq(Task)
  /\ run_pc \in {"lock", "exec", "signal"}
  /\ num_pending \in 0 .. 2 ^ SizeTBits - 1
  /\ all_complete \in BOOLEAN
  /\ adder \in [Adders -> {"idle", "activate", "signal", "count"}]
  /\ added \in [Adders -> 0 .. TasksEach]
  /\ manager \in {"idle", "blocked", "woken", "returned", "joining", "gone"}
  /\ seen \subseteq Task /\ ran \subseteq Task

(***************************************************************************)
(* wait4complete() keeps its word: when it returns, every task added       *)
(* before the call has run, the ones run() had already taken off the       *)
(* queue included.  num_pending, on which it rests, is decremented by the  *)
(* thread and incremented by add_task() only after the task can already    *)
(* have run, so that it wraps below zero for a while; when no add_task()   *)
(* is under way it is exact.                                               *)
(***************************************************************************)
WaitMeansDone ==
  /\ TypeOK
  /\ manager \in {"returned", "joining", "gone"} => seen \subseteq ran
  /\ (\A a \in Adders : adder[a] = "idle") =>
       num_pending = SizeT(Cardinality(Pushed \ ran))

(***************************************************************************)
(* A waiting manager always returns: all_complete is set and the condition *)
(* signalled after the last task, whatever the adders did meanwhile.  And  *)
(* the destructor ends: a stopped thread leaves wait() and its loop.       *)
(***************************************************************************)
WaitReturns ==
  /\ manager = "blocked" ~> manager = "returned"
  /\ manager = "joining" ~> manager = "gone"
=============================================================================
