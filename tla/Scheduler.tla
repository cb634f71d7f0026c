----------------------------- MODULE Scheduler -----------------------------
(***************************************************************************)
(* The level-wise scheduler of one tree (structures/Scheduler.{hpp,cpp})   *)
(* together with the worker threads it owns.                               *)
(*                                                                         *)
(* One thread, the owner, constructs the Scheduler, hands it nodes with    *)
(* schedule() and destroys it.  When a level has all of its Fanout^level   *)
(* nodes, schedule() deals them to the workers' queues, wakes the workers  *)
(* and blocks until all of them are waiting again.                         *)
(*                                                                         *)
(* Scheduler::mutex does not appear: the owner is the only thread that     *)
(* ever locks it.  The workers change pending_threads and signal the       *)
(* owner's condition without it.                                           *)
(***************************************************************************)
EXTENDS Integers, Sequences, FiniteSets, Functions

(***************************************************************************)
(* The worker threads of one tree (structures/WorkerThread.{hpp,cpp}) and  *)
(* the task queue each of them owns (structures/TaskQueue.{hpp,cpp}).      *)
(*                                                                         *)
(* A worker sleeps in wait() until its Scheduler wakes it with a new       *)
(* state, runs what that state asks for and goes back to wait().  The      *)
(* module has one action per step of a worker that another thread can      *)
(* observe: an access to a variable read or written without the lock, and  *)
(* each critical section of state_lock or of the queue's mutex.            *)
(***************************************************************************)

CONSTANT NThread            \* Scheduler::threads.size()

ASSUME NThreadAssumption == NThread \in Nat \ {0}

VARIABLES
  wpc,                      \* where worker t is in callback(), run(), wait()
  in_run,                   \* callback() is inside run()
  state,                    \* WorkerThread::state
  task_queue,               \* BuildTaskQueue::tasks of worker t
  active_node,              \* WorkerThread::active_node, NoNode for NULL
  pending_threads,          \* *parent_pending_threads, an atomic counter
  parent_cond,              \* *parent_cond: has it a waiter, does it exist
  ran                       \* nodes whose prep() and run() have completed

workerVars == <<wpc, in_run, state, task_queue, active_node, pending_threads,
                parent_cond, ran>>

Threads == 0 .. NThread - 1

\* Nodes are numbered from 1 in the order schedule() receives them.
NoNode == 0

ThreadState == {"TEST", "BUILD", "QUERY", "WAIT", "EXIT"}

(***************************************************************************)
(* The control points of a worker.  "thrown" is an exception that leaves   *)
(* run() (it ends the process); "wild" is undefined behaviour: the front   *)
(* of an empty queue, a signal to a destroyed condition, or a thread whose *)
(* WorkerThread is deleted under it.                                       *)
(***************************************************************************)
WorkerPc == {"new", "loop", "exit?", "run", "request", "dequeue", "node",
             "wait", "read_ppt", "signal", "check", "asleep", "relock",
             "exited", "thrown", "wild"}

\* wait() holds state_lock from its entry until pthread_cond_wait or return.
HoldsStateLock(t) == wpc[t] \in {"read_ppt", "signal", "check"}

WorkerInit ==
  /\ wpc = [t \in Threads |-> "new"]
  /\ in_run = [t \in Threads |-> FALSE]
  /\ state = [t \in Threads |-> "WAIT"]
  /\ task_queue = [t \in Threads |-> <<>>]
  /\ active_node = [t \in Threads |-> NoNode]
  /\ pending_threads = NThread
  /\ parent_cond = "empty"
  /\ ran = {}

GoTo(t, pc) == wpc' = [wpc EXCEPT ![t] = pc]

-----------------------------------------------------------------------------
(***************************************************************************)
(* callback(): the thread's main loop.  Each of its tests of the state is  *)
(* a read made without state_lock.                                         *)
(***************************************************************************)
LoopCheck(t) ==
  /\ wpc[t] = "loop"
  /\ GoTo(t, IF state[t] = "WAIT" THEN "wait" ELSE "exit?")
  /\ UNCHANGED <<in_run, state, task_queue, active_node, pending_threads,
                 parent_cond, ran>>

\* Mutant: the loop no longer tests for EXIT.
ExitCheck_NoTest(t) ==
  /\ wpc[t] = "exit?"
  /\ GoTo(t, "run")
  /\ UNCHANGED <<in_run, state, task_queue, active_node, pending_threads,
                 parent_cond, ran>>

ExitCheck(t) ==
  /\ wpc[t] = "exit?"
  /\ GoTo(t, IF state[t] = "EXIT" THEN "exited" ELSE "run")
  /\ UNCHANGED <<in_run, state, task_queue, active_node, pending_threads,
                 parent_cond, ran>>

\* run(): BUILD drains the queue, TEST does nothing, the rest throws.
Run(t) ==
  /\ wpc[t] = "run"
  /\ GoTo(t, CASE state[t] = "BUILD" -> "request"
               [] state[t] = "TEST"  -> "wait"
               [] OTHER              -> "thrown")
  /\ in_run' = [in_run EXCEPT ![t] = TRUE]
  /\ UNCHANGED <<state, task_queue, active_node, pending_threads,
                 parent_cond, ran>>

\* request_task(): dequeue() tests tasks.empty() before it takes the mutex.
RequestTask(t) ==
  /\ wpc[t] = "request"
  /\ IF task_queue[t] = <<>>
       THEN /\ active_node' = [active_node EXCEPT ![t] = NoNode]
            /\ GoTo(t, "wait")
       ELSE /\ GoTo(t, "dequeue")
            /\ UNCHANGED active_node
  /\ UNCHANGED <<in_run, state, task_queue, pending_threads, parent_cond, ran>>

\* ... and then pops the front under the mutex without testing again.
Dequeue(t) ==
  /\ wpc[t] = "dequeue"
  /\ IF task_queue[t] = <<>>
       THEN /\ GoTo(t, "wild")
            /\ UNCHANGED <<active_node, task_queue>>
       ELSE /\ active_node' = [active_node EXCEPT ![t] = Head(task_queue[t])]
            /\ task_queue' = [task_queue EXCEPT ![t] = Tail(@)]
            /\ GoTo(t, "node")
  /\ UNCHANGED <<in_run, state, pending_threads, parent_cond, ran>>

\* active_node->prep() and active_node->run() complete.
RunNode(t) ==
  /\ wpc[t] = "node"
  /\ ran' = ran \cup {active_node[t]}
  /\ GoTo(t, "request")
  /\ UNCHANGED <<in_run, state, task_queue, active_node, pending_threads,
                 parent_cond>>

-----------------------------------------------------------------------------
\* Mutant: the counter goes down before the state is set.
WaitEnter_NoState(t) ==
  /\ wpc[t] = "wait"
  /\ pending_threads' = pending_threads - 1
  /\ GoTo(t, "read_ppt")
  /\ UNCHANGED <<in_run, state, task_queue, active_node, parent_cond, ran>>

(***************************************************************************)
(* wait().  The decrement and the test of the counter are two accesses,    *)
(* and the signal that follows is sent without the owner's mutex.          *)
(***************************************************************************)
WaitEnter(t) ==
  /\ wpc[t] = "wait"
  /\ state' = [state EXCEPT ![t] = "WAIT"]
  /\ pending_threads' = pending_threads - 1
  /\ GoTo(t, "read_ppt")
  /\ UNCHANGED <<in_run, task_queue, active_node, parent_cond, ran>>

WaitReadPending(t) ==
  /\ wpc[t] = "read_ppt"
  /\ GoTo(t, IF pending_threads = 0 THEN "signal" ELSE "check")
  /\ UNCHANGED <<in_run, state, task_queue, active_node, pending_threads,
                 parent_cond, ran>>

\* pthread_cond_signal(parent_cond): nothing happens if nobody is blocked.
WaitSignalParent(t) ==
  /\ wpc[t] = "signal"
  /\ IF parent_cond = "destroyed"
       THEN /\ GoTo(t, "wild")
            /\ UNCHANGED parent_cond
       ELSE /\ GoTo(t, "check")
            /\ parent_cond' = "empty"
  /\ UNCHANGED <<in_run, state, task_queue, active_node, pending_threads, ran>>

(***************************************************************************)
(* The while loop around pthread_cond_wait, which releases state_lock.     *)
(* wait() returns into run(), and so to the top of the loop, or into the   *)
(* loop itself, whose test of EXIT comes next.                             *)
(***************************************************************************)
WaitCheck(t) ==
  /\ wpc[t] = "check"
  /\ IF state[t] = "WAIT"
       THEN /\ GoTo(t, "asleep")
            /\ UNCHANGED in_run
       ELSE /\ GoTo(t, IF in_run[t] THEN "loop" ELSE "exit?")
            /\ in_run' = [in_run EXCEPT ![t] = FALSE]
  /\ UNCHANGED <<state, task_queue, active_node, pending_threads,
                 parent_cond, ran>>

\* pthread_cond_wait may return although nobody signalled.
SpuriousWakeup(t) ==
  /\ wpc[t] = "asleep"
  /\ GoTo(t, "relock")
  /\ UNCHANGED <<in_run, state, task_queue, active_node, pending_threads,
                 parent_cond, ran>>

\* pthread_cond_wait takes state_lock again before it returns.
Relock(t) ==
  /\ wpc[t] = "relock"
  /\ GoTo(t, "check")
  /\ UNCHANGED <<in_run, state, task_queue, active_node, pending_threads,
                 parent_cond, ran>>

-----------------------------------------------------------------------------
(***************************************************************************)
(* The calls the owner makes on worker t.                                  *)
(***************************************************************************)

\* init(): pthread_create starts callback().
ThreadInit(t) ==
  /\ wpc[t] = "new"
  /\ GoTo(t, "loop")
  /\ UNCHANGED <<in_run, state, task_queue, active_node, pending_threads,
                 parent_cond, ran>>

\* wake(), first part: the critical section of state_lock.
WakeSetState(t, s) ==
  /\ ~ HoldsStateLock(t)
  /\ state' = [state EXCEPT ![t] = s]
  /\ pending_threads' = pending_threads + 1
  /\ UNCHANGED <<wpc, in_run, task_queue, active_node, parent_cond, ran>>

\* Mutant: the worker is not signalled.
WakeSignal_None(t) == UNCHANGED workerVars

\* wake(), second part: pthread_cond_signal(&cond) after the lock is released.
WakeSignal(t) ==
  /\ wpc' = [wpc EXCEPT ![t] = IF @ = "asleep" THEN "relock" ELSE @]
  /\ UNCHANGED <<in_run, state, task_queue, active_node, pending_threads,
                 parent_cond, ran>>

\* Mutant: the loop over the runnables starts at 1.
Enqueue_SkipsFirst(t, runnables) ==
  /\ task_queue' = [task_queue EXCEPT ![t] = @ \o Tail(runnables)]
  /\ UNCHANGED <<wpc, in_run, state, active_node, pending_threads,
                 parent_cond, ran>>

\* BuildTaskQueue::enqueue(runnables, nnodes)
Enqueue(t, runnables) ==
  /\ task_queue' = [task_queue EXCEPT ![t] = @ \o runnables]
  /\ UNCHANGED <<wpc, in_run, state, active_node, pending_threads, parent_cond,
                 ran>>

\* ~WorkerThread(): frees the condition, the lock and the queue; no join.
ThreadDelete(t) ==
  /\ wpc' = [wpc EXCEPT ![t] = IF @ = "exited" THEN @ ELSE "wild"]
  /\ UNCHANGED <<in_run, state, task_queue, active_node, pending_threads,
                 parent_cond, ran>>

\* One step of the thread itself, spurious wakeups aside.
WorkerStep(t) ==
  \/ LoopCheck(t) \/ ExitCheck(t) \/ Run(t)
  \/ RequestTask(t) \/ Dequeue(t) \/ RunNode(t)
  \/ WaitEnter(t) \/ WaitReadPending(t) \/ WaitSignalParent(t)
  \/ WaitCheck(t) \/ Relock(t)

WorkerTypeOK ==
  /\ wpc \in [Threads -> WorkerPc]
  /\ in_run \in [Threads -> BOOLEAN]
  /\ state \in [Threads -> ThreadState]
  /\ task_queue \in [Threads -> Seq(Nat \ {NoNode})]
  /\ active_node \in [Threads -> Nat]
  /\ pending_threads \in Int
  /\ parent_cond \in {"empty", "waiter", "destroyed"}
  /\ ran \subseteq Nat \ {NoNode}

-----------------------------------------------------------------------------
(* Scheduler                                                                 *)

CONSTANTS
  Fanout,                   \* children per node
  MIN_TASKS_PT,             \* nodes handed to a thread at a time
  MaxNodes                  \* bound: nodes the owner schedules in all

ASSUME SchedulerAssumption ==
  /\ Fanout \in Nat \ {0}
  /\ MIN_TASKS_PT \in Nat \ {0}
  /\ MaxNodes \in Nat

VARIABLES
  spc,                      \* where the owner is
  current_level,            \* level being filled
  nodes,                    \* nodes[l + 1]: the nodes of level l
  tid,                      \* loop index over the threads
  task_index,               \* run_level(): nodes already enqueued
  wake_state,               \* argument of wake4run()
  scheduled                 \* number of nodes schedule() has received

ownerVars == <<spc, current_level, nodes, tid, task_index, wake_state,
               scheduled>>
vars == <<workerVars, ownerVars>>

OwnerPc == {"ctor", "w4check", "w4block", "w4asleep", "idle", "enqueue",
            "wake", "wakesig", "delete", "destroyed"}

Init ==
  /\ WorkerInit
  /\ spc = "ctor"
  /\ current_level = 0
  /\ nodes = <<>>
  /\ tid = 0
  /\ task_index = 0
  /\ wake_state = "WAIT"    \* wake4run() has not been called
  /\ scheduled = 0

\* cunsigned::inc() over threads.size()
NextTid(i) == IF i = NThread - 1 THEN 0 ELSE i + 1

-----------------------------------------------------------------------------
\* Scheduler::Scheduler: create the threads, then wait for them to start.
CreateThread ==
  /\ spc = "ctor"
  /\ ThreadInit(tid)
  /\ tid' = NextTid(tid)
  /\ spc' = IF tid = NThread - 1 THEN "w4check" ELSE "ctor"
  /\ UNCHANGED <<current_level, nodes, task_index, wake_state, scheduled>>

(***************************************************************************)
(* wait4completion(): the test of pending_threads and the blocking of the  *)
(* owner in pthread_cond_wait are two steps, since no worker takes the     *)
(* mutex the owner holds in between.                                       *)
(***************************************************************************)
\* Mutant: the wait ends one thread early.
Wait4Check_OneLeft ==
  /\ spc = "w4check"
  /\ spc' = IF pending_threads <= 1 THEN "idle" ELSE "w4block"
  /\ UNCHANGED <<workerVars, current_level, nodes, tid, task_index,
                 wake_state, scheduled>>

Wait4Check ==
  /\ spc = "w4check"
  /\ spc' = IF pending_threads = 0 THEN "idle" ELSE "w4block"
  /\ UNCHANGED <<workerVars, current_level, nodes, tid, task_index,
                 wake_state, scheduled>>

Wait4Block ==
  /\ spc = "w4block"
  /\ spc' = "w4asleep"
  /\ parent_cond' = "waiter"
  /\ UNCHANGED <<wpc, in_run, state, task_queue, active_node, pending_threads, ran,
                 current_level, nodes, tid, task_index, wake_state,
                 scheduled>>

Wait4Return ==
  /\ spc = "w4asleep"
  /\ parent_cond # "waiter"
  /\ spc' = "w4check"
  /\ UNCHANGED <<workerVars, current_level, nodes, tid, task_index,
                 wake_state, scheduled>>

OwnerSpuriousWakeup ==
  /\ spc = "w4asleep"
  /\ parent_cond = "waiter"
  /\ parent_cond' = "empty"
  /\ UNCHANGED <<wpc, in_run, state, task_queue, active_node, pending_threads, ran,
                 ownerVars>>

-----------------------------------------------------------------------------
\* Mutant: a level is run as soon as it has a node.
LevelIsFull_NotEmpty(ns, level) == ns[level + 1] # <<>>

LevelIsFull(ns, level) == Fanout ^ level = Len(ns[level + 1])

AddNode(ns, level, node) ==
  IF level + 1 > Len(ns) THEN Append(ns, <<node>>)
                         ELSE [ns EXCEPT ![level + 1] = Append(@, node)]

\* schedule(): file the node; a level that becomes full is run at once.
Schedule ==
  /\ spc = "idle"
  /\ scheduled < MaxNodes
  /\ scheduled' = scheduled + 1
  /\ nodes' = AddNode(nodes, current_level, scheduled + 1)
  /\ IF LevelIsFull(nodes', current_level)
       THEN /\ current_level' = current_level + 1
            /\ spc' = "enqueue"
       ELSE UNCHANGED <<current_level, spc>>
  /\ task_index' = 0
  /\ tid' = 0
  /\ UNCHANGED <<workerVars, wake_state>>

\* run_level(current_level - 1) works on this level's nodes.
level_nodes == nodes[current_level]

NTasks ==
  IF task_index + MIN_TASKS_PT < Len(level_nodes) + 1
    THEN MIN_TASKS_PT
    ELSE Len(level_nodes) - task_index

\* One turn of run_level()'s loop; wake4run(BUILD) follows the last one.
EnqueueBatch ==
  /\ spc = "enqueue"
  /\ Enqueue(tid, SubSeq(level_nodes, task_index + 1, task_index + NTasks))
  /\ task_index' = task_index + NTasks
  /\ IF task_index' = Len(level_nodes)
       THEN /\ spc' = "wake"
            /\ tid' = 0
            /\ wake_state' = "BUILD"
       ELSE /\ tid' = NextTid(tid)
            /\ UNCHANGED <<spc, wake_state>>
  /\ UNCHANGED <<current_level, nodes, scheduled>>

-----------------------------------------------------------------------------
\* wake4run(wake_state): wake() each thread in turn.
WakeThread ==
  /\ spc = "wake"
  /\ WakeSetState(tid, wake_state)
  /\ spc' = "wakesig"
  /\ UNCHANGED <<current_level, nodes, tid, task_index, wake_state,
                 scheduled>>

\* Mutant: run_level() does not wait for completion.
SignalThread_NoWait ==
  /\ spc = "wakesig"
  /\ WakeSignal(tid)
  /\ tid' = NextTid(tid)
  /\ spc' = CASE tid < NThread - 1     -> "wake"
              [] wake_state = "EXIT"   -> "delete"
              [] OTHER                 -> "idle"
  /\ UNCHANGED <<current_level, nodes, task_index, wake_state, scheduled>>

SignalThread ==
  /\ spc = "wakesig"
  /\ WakeSignal(tid)
  /\ tid' = NextTid(tid)
  /\ spc' = CASE tid < NThread - 1     -> "wake"
              [] wake_state = "EXIT"   -> "delete"
              [] OTHER                 -> "w4check"
  /\ UNCHANGED <<current_level, nodes, task_index, wake_state, scheduled>>

\* The public wake4run(TEST) followed by wait4completion().
RunTest ==
  /\ spc = "idle"
  /\ wake_state' = "TEST"
  /\ tid' = 0
  /\ spc' = "wake"
  /\ UNCHANGED <<workerVars, current_level, nodes, task_index, scheduled>>

\* ~Scheduler(): destroy mutex and cond, wake4run(EXIT), then delete every
\* WorkerThread without joining its thread.
Destroy ==
  /\ spc = "idle"
  /\ parent_cond' = "destroyed"
  /\ wake_state' = "EXIT"
  /\ tid' = 0
  /\ spc' = "wake"
  /\ UNCHANGED <<wpc, in_run, state, task_queue, active_node,
                 pending_threads, ran, current_level, nodes, task_index, scheduled>>

DeleteThread ==
  /\ spc = "delete"
  /\ ThreadDelete(tid)
  /\ tid' = NextTid(tid)
  /\ spc' = IF tid = NThread - 1 THEN "destroyed" ELSE "delete"
  /\ UNCHANGED <<current_level, nodes, task_index, wake_state, scheduled>>

-----------------------------------------------------------------------------
\* The steps that finish a call the owner has made.
OwnerStep ==
  \/ CreateThread
  \/ Wait4Check \/ Wait4Block \/ Wait4Return
  \/ EnqueueBatch
  \/ WakeThread \/ SignalThread
  \/ DeleteThread

\* The calls the owner may make next.
OwnerCall == Schedule \/ RunTest \/ Destroy

Next ==
  \/ OwnerStep
  \/ OwnerCall
  \/ OwnerSpuriousWakeup
  \/ \E t \in Threads : (WorkerStep(t) \/ SpuriousWakeup(t)) /\ UNCHANGED ownerVars

Spec == Init /\ [][Next]_vars

(***************************************************************************)
(* Every thread that can take a step eventually takes one: the operating   *)
(* system schedules all runnable threads.  The owner also gets a           *)
(* state_lock that is free again and again, which spurious wakeups of the  *)
(* worker may otherwise take from it for ever.  Nothing makes the owner    *)
(* call again, and nothing makes a spurious wakeup happen.                 *)
(***************************************************************************)
Fairness ==
  /\ WF_vars(OwnerStep)
  /\ SF_vars(WakeThread)
  /\ \A t \in Threads : WF_vars(WorkerStep(t) /\ UNCHANGED ownerVars)

FairSpec == Spec /\ Fairness

-----------------------------------------------------------------------------
SchedulerTypeOK ==
  /\ WorkerTypeOK
  /\ spc \in OwnerPc
  /\ current_level \in Nat
  /\ nodes \in Seq(Seq(Nat \ {NoNode}))
  /\ tid \in Threads
  /\ task_index \in Nat
  /\ wake_state \in ThreadState
  /\ scheduled \in 0 .. MaxNodes

\* ~Scheduler() has begun.
Destroying == parent_cond = "destroyed"

\* Worker t has announced in wait() that it has nothing left to do.
Waiting(t) ==
  /\ wpc[t] \in {"read_ppt", "signal", "check", "asleep", "relock"}
  /\ state[t] = "WAIT"

(***************************************************************************)
(* pending_threads counts the threads that have not announced themselves   *)
(* in wait(), although it is set by the constructor, decremented by every  *)
(* worker and incremented by the owner.  In particular dec_ppt() never     *)
(* takes the unsigned counter below zero.                                  *)
(***************************************************************************)
PendingExact ==
  ~ Destroying =>
    pending_threads = Cardinality({t \in Threads : ~ Waiting(t)})

(***************************************************************************)
(* The barrier of run_level() and of the constructor: when the owner is    *)
(* back from wait4completion(), every worker is in wait().                 *)
(***************************************************************************)
BarrierHolds ==
  spc \in {"idle", "enqueue"} => \A t \in Threads : Waiting(t)

(***************************************************************************)
(* The accesses made without a lock never race: no worker is between the   *)
(* empty() and the pop() of dequeue() while the owner enqueues, and the    *)
(* worker whose state wake() overwrites is inside wait(), not at one of    *)
(* the unlocked reads of callback() and run().                             *)
(***************************************************************************)
NoDataRace ==
  ~ Destroying =>
    /\ spc = "enqueue" =>
         \A t \in Threads : wpc[t] \notin {"request", "dequeue"}
    /\ spc = "wake" =>
         wpc[tid] \notin {"loop", "exit?", "run"}

(***************************************************************************)
(* Until the Scheduler is destroyed no worker pops an empty queue or       *)
(* signals a dead condition, and none ever finds a state in run() for      *)
(* which run() throws.                                                     *)
(***************************************************************************)
NoFault ==
  \A t \in Threads :
    /\ wpc[t] # "thrown"
    /\ ~ Destroying => wpc[t] # "wild"

\* The nodes of levels 0 .. l-1.
NodesBelow(l) == UNION {Range(nodes[i]) : i \in 1 .. l}

(***************************************************************************)
(* When schedule() returns, exactly the nodes of the full levels have been *)
(* run and nothing is left behind in a queue.                              *)
(***************************************************************************)
LevelsComplete ==
  spc = "idle" =>
    /\ ran = NodesBelow(current_level)
    /\ \A t \in Threads : task_queue[t] = <<>>

-----------------------------------------------------------------------------
\* The Scheduler implements LevelBarrier.
LevelRunning == spc = "enqueue" \/ (spc # "idle" /\ wake_state = "BUILD")

Level == IF LevelRunning THEN current_level - 1 ELSE current_level

Phase ==
  IF Destroying THEN "closed" ELSE IF LevelRunning THEN "running" ELSE "filling"

Current == IF Level < Len(nodes) THEN Range(nodes[Level + 1]) ELSE {}

Barrier == INSTANCE LevelBarrier WITH
  phase <- Phase, level <- Level, current <- Current, done <- ran,
  Node <- 1 .. MaxNodes

(***************************************************************************)
(* The threads, queues, wakeups and counters together run a tree level by  *)
(* level, as LevelBarrier describes.                                       *)
(***************************************************************************)
ImplementsBarrier == Barrier!Spec

-----------------------------------------------------------------------------
(***************************************************************************)
(* Every node of a level that became full is eventually run, whatever the  *)
(* owner's own wait does.                                                  *)
(***************************************************************************)
FullLevelRuns ==
  \A n \in 1 .. MaxNodes :
    (n \in NodesBelow(current_level)) ~> (n \in ran)

(***************************************************************************)
(* wait4completion() returns.  The comments in the code rely on it:        *)
(* "Used to wake up scheduler", "Wake up parent thread", "Wait for threads *)
(* to init".                                                               *)
(***************************************************************************)
Wait4CompletionReturns == (spc = "w4check") ~> (spc = "idle")

(***************************************************************************)
(* Deleting a WorkerThread joins its thread, as the unit test says: a      *)
(* deleted worker has left callback().                                     *)
(***************************************************************************)
DeleteJoins == spc = "destroyed" => \A t \in Threads : wpc[t] = "exited"
=============================================================================
