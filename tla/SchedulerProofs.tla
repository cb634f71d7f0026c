-------------------------- MODULE SchedulerProofs --------------------------
(***************************************************************************)
(* Proofs about Scheduler.tla, for any number of threads, any fanout, any  *)
(* batch size and any number of nodes.                                     *)
(***************************************************************************)
EXTENDS Scheduler, FiniteSetTheorems, SequenceTheorems, TLAPS

\* Time for the steps of this module, which has many facts in view
USE SMTT(30)

-----------------------------------------------------------------------------
(***************************************************************************)
(* What the type invariant rests on: a worker runs only what it dequeued;  *)
(* the lists of the levels are those of the levels up to current_level;    *)
(* and run_level() works on a level that exists and never enqueues past    *)
(* its end.                                                                *)
(***************************************************************************)
ActiveIsNode == \A t \in Threads : wpc[t] = "node" => active_node[t] # NoNode

LevelShape ==
  /\ Len(nodes) \in {current_level, current_level + 1}
  /\ spc = "enqueue" =>
       /\ current_level \in 1 .. Len(nodes)
       /\ task_index \in 0 .. Len(nodes[current_level])

TypeInv == SchedulerTypeOK /\ ActiveIsNode /\ LevelShape

(***************************************************************************)
(* The protocol between the owner and the workers.                         *)
(***************************************************************************)
WaitPc == {"read_ppt", "signal", "check", "asleep", "relock"}

\* Where a worker can be in each state.
PcState ==
  \A t \in Threads :
    /\ state[t] # "QUERY"
    /\ wpc[t] = "exit?" => state[t] # "WAIT"
    /\ wpc[t] = "run" => state[t] \in {"BUILD", "TEST"}
    /\ wpc[t] = "dequeue" => task_queue[t] # <<>>

\* A worker in wait() that has not been woken; once ~Scheduler() has destroyed
\* the condition the worker may have faulted there.
Unwoken(t) ==
  /\ wpc[t] \in WaitPc \/ (Destroying /\ wpc[t] = "wild")
  /\ state[t] = "WAIT"

\* wake4run() meets the workers it has not woken yet in wait().
WakeOrder ==
  /\ spc = "wake" => \A t \in Threads : t >= tid => Unwoken(t)
  /\ spc = "wakesig" => \A t \in Threads : t > tid => Unwoken(t)

\* Once ~Scheduler() has begun the owner only wakes and deletes.
DestroyPhase ==
  /\ Destroying <=> wake_state = "EXIT"
  /\ Destroying => spc \in {"wake", "wakesig", "delete", "destroyed"}
  /\ spc \in {"delete", "destroyed"} => Destroying
  /\ spc \in {"wake", "wakesig"} => wake_state \in {"BUILD", "TEST", "EXIT"}

ProtocolInv ==
  /\ PendingExact
  /\ BarrierHolds
  /\ NoFault
  /\ PcState
  /\ WakeOrder
  /\ DestroyPhase

Inv == TypeInv /\ ProtocolInv

-----------------------------------------------------------------------------
NodeId == Nat \ {NoNode}

\* schedule() files a node in the list of the current level, which exists then.
LEMMA AddNodeType ==
  ASSUME NEW ns \in Seq(Seq(NodeId)), NEW l \in Nat, NEW n \in NodeId,
         Len(ns) \in {l, l + 1}
  PROVE  /\ AddNode(ns, l, n) \in Seq(Seq(NodeId))
         /\ Len(AddNode(ns, l, n)) = l + 1
<1>1. CASE Len(ns) = l
  <2>1. <<n>> \in Seq(NodeId)
    OBVIOUS
  <2>2. AddNode(ns, l, n) = Append(ns, <<n>>)
    BY <1>1 DEF AddNode
  <2> QED  BY <1>1, <2>1, <2>2, AppendProperties
<1>2. CASE Len(ns) = l + 1
  <2>1. /\ l + 1 \in 1 .. Len(ns)
        /\ ns[l + 1] \in Seq(NodeId)
    BY <1>2, ElementOfSeq
  <2>2. Append(ns[l + 1], n) \in Seq(NodeId)
    BY <2>1, AppendProperties
  <2>3. AddNode(ns, l, n) = [ns EXCEPT ![l + 1] = Append(ns[l + 1], n)]
    BY <1>2 DEF AddNode
  <2> QED  BY <1>2, <2>1, <2>2, <2>3, ExceptSeq
<1> QED  BY <1>1, <1>2

\* run_level() hands out at most MIN_TASKS_PT nodes and never more than are left.
LEMMA NTasksRange ==
  ASSUME TypeInv, spc = "enqueue"
  PROVE  /\ NTasks \in 0 .. MIN_TASKS_PT
         /\ task_index + NTasks \in 0 .. Len(level_nodes)
         /\ level_nodes \in Seq(NodeId)
         /\ SubSeq(level_nodes, task_index + 1, task_index + NTasks)
              \in Seq(NodeId)
<1>1. level_nodes \in Seq(NodeId)
  BY ElementOfSeq DEF TypeInv, LevelShape, SchedulerTypeOK, level_nodes, NodeId
<1>2. /\ Len(level_nodes) \in Nat
      /\ task_index \in 0 .. Len(level_nodes)
  BY <1>1, LenProperties DEF TypeInv, LevelShape, level_nodes
<1>3. /\ NTasks \in 0 .. MIN_TASKS_PT
      /\ task_index + NTasks \in 0 .. Len(level_nodes)
  BY <1>2, SchedulerAssumption DEF NTasks
<1>4. \A i \in task_index + 1 .. task_index + NTasks : level_nodes[i] \in NodeId
  BY <1>1, <1>2, <1>3, ElementOfSeq
<1> QED  BY <1>1, <1>2, <1>3, <1>4, SubSeqProperties

-----------------------------------------------------------------------------
\* A worker's own step keeps the types, and touches none of the owner's state.
LEMMA WorkerStepType ==
  ASSUME WorkerTypeOK, ActiveIsNode, NEW t \in Threads,
         WorkerStep(t) \/ SpuriousWakeup(t)
  PROVE  WorkerTypeOK' /\ ActiveIsNode'
<1> USE DEF WorkerTypeOK, ActiveIsNode, WorkerPc, ThreadState, GoTo
<1>1. CASE LoopCheck(t)         BY <1>1 DEF LoopCheck
<1>2. CASE ExitCheck(t)         BY <1>2 DEF ExitCheck
<1>3. CASE Run(t)               BY <1>3 DEF Run
<1>4. CASE RequestTask(t)
  <2>1. NoNode \in Nat
    BY DEF NoNode
  <2>2. CASE task_queue[t] = <<>>
    BY Zenon, <1>4, <2>1, <2>2 DEF RequestTask
  <2>3. CASE task_queue[t] # <<>>
    BY Zenon, <1>4, <2>3 DEF RequestTask
  <2> QED  BY <2>2, <2>3
<1>5. CASE Dequeue(t)
  <2>1. CASE task_queue[t] = <<>>
    BY Zenon, <1>5, <2>1 DEF Dequeue
  <2>2. CASE task_queue[t] # <<>>
    <3>1. /\ Head(task_queue[t]) \in Nat \ {NoNode}
          /\ Tail(task_queue[t]) \in Seq(Nat \ {NoNode})
      BY <2>2, HeadTailProperties
    <3> QED  BY Zenon, <1>5, <2>2, <3>1 DEF Dequeue
  <2> QED  BY <2>1, <2>2
<1>6. CASE RunNode(t)
  <2>1. active_node[t] \in Nat \ {NoNode}
    BY <1>6 DEF RunNode
  <2> QED  BY Zenon, <1>6, <2>1 DEF RunNode
<1>7. CASE WaitEnter(t)         BY <1>7 DEF WaitEnter
<1>8. CASE WaitReadPending(t)   BY <1>8 DEF WaitReadPending
<1>9. CASE WaitSignalParent(t)  BY Zenon, <1>9 DEF WaitSignalParent
<1>10. CASE WaitCheck(t)        BY Zenon, <1>10 DEF WaitCheck
<1>11. CASE Relock(t)           BY <1>11 DEF Relock
<1>12. CASE SpuriousWakeup(t)   BY <1>12 DEF SpuriousWakeup
<1> QED
  BY Zenon, <1>1, <1>2, <1>3, <1>4, <1>5, <1>6, <1>7, <1>8, <1>9, <1>10, <1>11, <1>12
  DEF WorkerStep

\* Every step of the system keeps the type invariant.
LEMMA TypeStep ==
  ASSUME TypeInv, [Next]_vars
  PROVE  TypeInv'
<1> USE DEF TypeInv, SchedulerTypeOK, LevelShape
<1>t. /\ 0 \in Threads
      /\ tid \in Threads /\ NextTid(tid) \in Threads
  BY NThreadAssumption DEF Threads, NextTid
<1>1. CASE CreateThread
  <2>1. WorkerTypeOK' /\ ActiveIsNode'
    BY <1>1, <1>t DEF CreateThread, ThreadInit, GoTo, WorkerTypeOK,
      ActiveIsNode, WorkerPc
  <2> QED  BY <1>1, <1>t, <2>1 DEF CreateThread, OwnerPc
<1>2. CASE Wait4Check \/ Wait4Block \/ Wait4Return \/ OwnerSpuriousWakeup
  BY Zenon, <1>2 DEF Wait4Check, Wait4Block, Wait4Return, OwnerSpuriousWakeup,
    workerVars, ownerVars, WorkerTypeOK, ActiveIsNode, OwnerPc
<1>3. CASE Schedule
  <2>1. /\ scheduled + 1 \in NodeId
        /\ scheduled' \in 0 .. MaxNodes
    BY <1>3, SchedulerAssumption DEF Schedule, NodeId, NoNode
  <2>2. /\ nodes' \in Seq(Seq(NodeId))
        /\ Len(nodes') = current_level + 1
    BY <1>3, <2>1, AddNodeType DEF Schedule, NodeId
  <2>3. spc' \in {"idle", "enqueue"}
    BY <1>3 DEF Schedule
  <2>4. /\ current_level' \in Nat
        /\ current_level' \in {current_level, current_level + 1}
        /\ spc' = "enqueue" => current_level' = current_level + 1
    BY <1>3 DEF Schedule
  <2>5. spc' = "enqueue" => nodes'[current_level'] \in Seq(NodeId)
    BY <2>2, <2>4, ElementOfSeq
  <2>6. spc' = "enqueue" => task_index' \in 0 .. Len(nodes'[current_level'])
    BY <1>3, <2>5, LenProperties DEF Schedule
  <2>7. WorkerTypeOK' /\ ActiveIsNode'
    BY <1>3 DEF Schedule, workerVars, WorkerTypeOK, ActiveIsNode
  <2>8. LevelShape'
    <3>1. current_level \in Nat
      OBVIOUS
    <3>2. Len(nodes') \in {current_level', current_level' + 1}
      BY Zenon, <3>1, <2>2, <2>4
    <3>3. spc' = "enqueue" => current_level' \in 1 .. Len(nodes')
      BY <3>1, <2>2, <2>4
    <3> QED  BY <3>2, <3>3, <2>6
  <2>9. /\ spc' \in OwnerPc
        /\ tid' \in Threads /\ task_index' \in Nat
        /\ wake_state' \in ThreadState
    BY <1>3, <1>t, <2>3 DEF Schedule, OwnerPc
  <2> QED  BY Zenon, <2>1, <2>2, <2>4, <2>7, <2>8, <2>9 DEF NodeId
<1>4. CASE EnqueueBatch
  <2> DEFINE batch == SubSeq(level_nodes, task_index + 1, task_index + NTasks)
  <2>1. /\ spc = "enqueue"
        /\ task_index + NTasks \in 0 .. Len(level_nodes)
        /\ level_nodes \in Seq(NodeId)
        /\ batch \in Seq(NodeId)
    BY <1>4, NTasksRange DEF EnqueueBatch
  <2>2. task_queue' = [task_queue EXCEPT ![tid] = @ \o batch]
    BY <1>4 DEF EnqueueBatch, Enqueue
  <2>3. task_queue[tid] \o batch \in Seq(NodeId)
    BY <2>1, <1>t, ConcatProperties DEF WorkerTypeOK, NodeId
  <2>4. WorkerTypeOK' /\ ActiveIsNode'
    BY Zenon, <1>4, <2>2, <2>3 DEF EnqueueBatch, Enqueue, WorkerTypeOK, ActiveIsNode,
      NodeId
  <2>5. /\ task_index' \in Nat
        /\ task_index' \in 0 .. Len(level_nodes)
        /\ UNCHANGED <<current_level, nodes, scheduled>>
    BY <1>4, <2>1, LenProperties DEF EnqueueBatch
  <2>6. spc' \in OwnerPc /\ tid' \in Threads /\ wake_state' \in ThreadState
    BY <1>4, <1>t DEF EnqueueBatch, OwnerPc, ThreadState
  <2>7. LevelShape'
    BY <2>1, <2>5 DEF level_nodes
  <2> QED  BY <2>4, <2>5, <2>6, <2>7
<1>5. CASE WakeThread
  <2>1. WorkerTypeOK' /\ ActiveIsNode'
    BY <1>5 DEF WakeThread, WakeSetState, WorkerTypeOK, ActiveIsNode
  <2> QED  BY <1>5, <2>1 DEF WakeThread, OwnerPc
<1>6. CASE SignalThread
  <2>1. WorkerTypeOK' /\ ActiveIsNode'
    BY <1>6 DEF SignalThread, WakeSignal, WorkerTypeOK, ActiveIsNode, WorkerPc
  <2> QED  BY <1>6, <1>t, <2>1 DEF SignalThread, OwnerPc
<1>7. CASE RunTest
  BY <1>7, <1>t DEF RunTest, workerVars, WorkerTypeOK, ActiveIsNode, OwnerPc,
    ThreadState
<1>8. CASE Destroy
  BY <1>8, <1>t DEF Destroy, WorkerTypeOK, ActiveIsNode, OwnerPc, ThreadState
<1>9. CASE DeleteThread
  <2>1. WorkerTypeOK' /\ ActiveIsNode'
    BY <1>9 DEF DeleteThread, ThreadDelete, WorkerTypeOK, ActiveIsNode,
      WorkerPc
  <2> QED  BY <1>9, <1>t, <2>1 DEF DeleteThread, OwnerPc
<1>10. CASE \E t \in Threads :
              (WorkerStep(t) \/ SpuriousWakeup(t)) /\ UNCHANGED ownerVars
  BY <1>10, WorkerStepType DEF ownerVars
<1>11. CASE UNCHANGED vars
  BY <1>11 DEF vars, workerVars, ownerVars, WorkerTypeOK, ActiveIsNode
<1> QED
  BY <1>1, <1>2, <1>3, <1>4, <1>5, <1>6, <1>7, <1>8, <1>9, <1>10, <1>11
  DEF Next, OwnerStep, OwnerCall

\* The constructor starts in a well-typed state.
LEMMA TypeInit == Init => TypeInv
<1> SUFFICES ASSUME Init PROVE TypeInv
  OBVIOUS
<1>1. WorkerTypeOK /\ ActiveIsNode
  BY NThreadAssumption DEF Init, WorkerInit, WorkerTypeOK, ActiveIsNode,
    WorkerPc, ThreadState, NoNode
<1>2. /\ 0 \in Threads
      /\ nodes \in Seq(Seq(Nat \ {NoNode}))
      /\ Len(nodes) = 0
  BY NThreadAssumption DEF Init, Threads
<1> QED
  BY <1>1, <1>2, SchedulerAssumption
  DEF Init, TypeInv, SchedulerTypeOK, LevelShape, OwnerPc, ThreadState

(***************************************************************************)
(* Type correctness of the Scheduler and its workers: the loop indices of  *)
(* the owner stay within the threads, the levels within the lists made for *)
(* them, and no queue ever holds the null node that ends a worker's loop.  *)
(***************************************************************************)
THEOREM TypeCorrect == Spec => []SchedulerTypeOK
<1>1. TypeInv /\ [Next]_vars => TypeInv'
  BY TypeStep
<1>2. TypeInv => SchedulerTypeOK
  BY DEF TypeInv
<1> QED  BY TypeInit, <1>1, <1>2, PTL DEF Spec

-----------------------------------------------------------------------------
\* The threads pending_threads should count.
PendingSet == {t \in Threads : ~ Waiting(t)}

\* The set the counter counts is finite.
LEMMA PendingFinite ==
  /\ IsFiniteSet(PendingSet)
  /\ Cardinality(PendingSet) \in Nat
<1>1. IsFiniteSet(Threads)
  BY NThreadAssumption, FS_Interval DEF Threads
<1> QED  BY <1>1, FS_Subset, FS_CardinalityType DEF PendingSet

\* dec_ppt() in wait() matches the one worker that stops being pending.
LEMMA PendingRemove ==
  ASSUME NEW t \in Threads, ~ Waiting(t), Waiting(t)',
         \A u \in Threads \ {t} : Waiting(u)' <=> Waiting(u)
  PROVE  Cardinality(PendingSet') = Cardinality(PendingSet) - 1
<1>1. PendingSet' = PendingSet \ {t} /\ t \in PendingSet
  BY DEF PendingSet
<1> QED  BY <1>1, PendingFinite, FS_RemoveElement

\* inc_ppt() in wake() matches the one worker that becomes pending.
LEMMA PendingAdd ==
  ASSUME NEW t \in Threads, Waiting(t), ~ Waiting(t)',
         \A u \in Threads \ {t} : Waiting(u)' <=> Waiting(u)
  PROVE  Cardinality(PendingSet') = Cardinality(PendingSet) + 1
<1>1. PendingSet' = PendingSet \cup {t} /\ t \notin PendingSet
  BY DEF PendingSet
<1> QED  BY <1>1, PendingFinite, FS_AddElement

(***************************************************************************)
(* A worker's step other than wait()'s entry changes neither who is        *)
(* waiting nor the counter.                                                *)
(***************************************************************************)
LEMMA WorkerKeepsWaiting ==
  ASSUME TypeInv, ProtocolInv, ~ Destroying, NEW t \in Threads,
         WorkerStep(t) \/ SpuriousWakeup(t), ~ WaitEnter(t)
  PROVE  /\ \A u \in Threads : Waiting(u)' <=> Waiting(u)
         /\ pending_threads' = pending_threads
<1> USE DEF TypeInv, SchedulerTypeOK, WorkerTypeOK, GoTo, Waiting, Destroying
<1>1. CASE LoopCheck(t)         BY <1>1 DEF LoopCheck
<1>2. CASE ExitCheck(t)         BY <1>2 DEF ExitCheck
<1>3. CASE Run(t)               BY <1>3 DEF Run
<1>4. CASE RequestTask(t)       BY <1>4 DEF RequestTask
<1>5. CASE Dequeue(t)           BY <1>5 DEF Dequeue
<1>6. CASE RunNode(t)           BY <1>6 DEF RunNode
<1>8. CASE WaitReadPending(t)   BY <1>8 DEF WaitReadPending
<1>9. CASE WaitSignalParent(t)  BY <1>9 DEF WaitSignalParent
<1>10. CASE WaitCheck(t)        BY <1>10 DEF WaitCheck
<1>11. CASE Relock(t)           BY <1>11 DEF Relock
<1>12. CASE SpuriousWakeup(t)   BY <1>12 DEF SpuriousWakeup
<1> QED
  BY <1>1, <1>2, <1>3, <1>4, <1>5, <1>6, <1>8, <1>9, <1>10, <1>11, <1>12
  DEF WorkerStep

\* A worker's step keeps the relation between its place and its state.
LEMMA WorkerKeepsPcState ==
  ASSUME TypeInv, ProtocolInv, NEW t \in Threads,
         WorkerStep(t) \/ SpuriousWakeup(t)
  PROVE  PcState'
<1> USE DEF TypeInv, SchedulerTypeOK, WorkerTypeOK, GoTo, ProtocolInv, PcState,
        ThreadState
<1>1. CASE LoopCheck(t)         BY <1>1 DEF LoopCheck
<1>2. CASE ExitCheck(t)         BY <1>2 DEF ExitCheck
<1>3. CASE Run(t)               BY <1>3 DEF Run
<1>4. CASE RequestTask(t)       BY <1>4 DEF RequestTask
<1>5. CASE Dequeue(t)           BY <1>5 DEF Dequeue
<1>6. CASE RunNode(t)           BY <1>6 DEF RunNode
<1>7. CASE WaitEnter(t)         BY <1>7 DEF WaitEnter
<1>8. CASE WaitReadPending(t)   BY <1>8 DEF WaitReadPending
<1>9. CASE WaitSignalParent(t)  BY <1>9 DEF WaitSignalParent
<1>10. CASE WaitCheck(t)        BY <1>10 DEF WaitCheck
<1>11. CASE Relock(t)           BY <1>11 DEF Relock
<1>12. CASE SpuriousWakeup(t)   BY <1>12 DEF SpuriousWakeup
<1> QED
  BY <1>1, <1>2, <1>3, <1>4, <1>5, <1>6, <1>7, <1>8, <1>9, <1>10, <1>11, <1>12
  DEF WorkerStep

(***************************************************************************)
(* A worker reaches "wild" only by signalling the destroyed condition, and *)
(* "thrown" not at all; a worker in wait() with state WAIT stays there.    *)
(***************************************************************************)
LEMMA WorkerStays ==
  ASSUME TypeInv, ProtocolInv, NEW t \in Threads,
         WorkerStep(t) \/ SpuriousWakeup(t)
  PROVE  /\ NoFault'
         /\ Destroying' <=> Destroying
         /\ \A u \in Threads : Unwoken(u) => Unwoken(u)'
<1> USE DEF TypeInv, SchedulerTypeOK, WorkerTypeOK, GoTo, ProtocolInv, PcState,
        NoFault, Destroying, WaitPc, Unwoken
<1>1. CASE LoopCheck(t)         BY <1>1 DEF LoopCheck
<1>2. CASE ExitCheck(t)         BY <1>2 DEF ExitCheck
<1>3. CASE Run(t)               BY <1>3 DEF Run
<1>4. CASE RequestTask(t)       BY <1>4 DEF RequestTask
<1>5. CASE Dequeue(t)           BY <1>5 DEF Dequeue
<1>6. CASE RunNode(t)           BY <1>6 DEF RunNode
<1>7. CASE WaitEnter(t)         BY <1>7 DEF WaitEnter
<1>8. CASE WaitReadPending(t)   BY <1>8 DEF WaitReadPending
<1>9. CASE WaitSignalParent(t)  BY <1>9 DEF WaitSignalParent
<1>10. CASE WaitCheck(t)        BY <1>10 DEF WaitCheck
<1>11. CASE Relock(t)           BY <1>11 DEF Relock
<1>12. CASE SpuriousWakeup(t)   BY <1>12 DEF SpuriousWakeup
<1> QED
  BY <1>1, <1>2, <1>3, <1>4, <1>5, <1>6, <1>7, <1>8, <1>9, <1>10, <1>11, <1>12
  DEF WorkerStep

\* A step of a worker keeps the protocol's invariant.
LEMMA WorkerProtocol ==
  ASSUME Inv, TypeInv', NEW t \in Threads,
         WorkerStep(t) \/ SpuriousWakeup(t), UNCHANGED ownerVars
  PROVE  ProtocolInv'
<1>1. TypeInv /\ ProtocolInv
  BY DEF Inv
<1>2. /\ PcState' /\ NoFault'
      /\ Destroying' <=> Destroying
      /\ \A u \in Threads : Unwoken(u) => Unwoken(u)'
  BY <1>1, WorkerKeepsPcState, WorkerStays
<1>3. UNCHANGED <<spc, tid, wake_state>>
  BY DEF ownerVars
<1>4. CASE WaitEnter(t)
  <2>1. /\ ~ Waiting(t) /\ Waiting(t)'
        /\ \A u \in Threads \ {t} : Waiting(u)' <=> Waiting(u)
        /\ pending_threads' = pending_threads - 1
    BY <1>1, <1>4 DEF WaitEnter, Waiting, GoTo, TypeInv, SchedulerTypeOK,
      WorkerTypeOK
  <2>2. Cardinality(PendingSet') = Cardinality(PendingSet) - 1
    BY <2>1, PendingRemove
  <2>3. PendingExact'
    BY <1>1, <1>2, <2>1, <2>2 DEF ProtocolInv, PendingExact, PendingSet
  <2>4. BarrierHolds'
    BY <1>1, <1>3, <2>1 DEF ProtocolInv, BarrierHolds
  <2> QED
    BY <1>1, <1>2, <1>3, <2>3, <2>4 DEF ProtocolInv, WakeOrder, DestroyPhase
<1>5. CASE ~ WaitEnter(t)
  <2>1. ~ Destroying => /\ \A u \in Threads : Waiting(u)' <=> Waiting(u)
                        /\ pending_threads' = pending_threads
    BY <1>1, <1>5, WorkerKeepsWaiting
  <2>2. PendingExact'
    <3> SUFFICES ASSUME ~ Destroying' PROVE PendingSet' = PendingSet
      BY <1>1, <1>2, <2>1 DEF ProtocolInv, PendingExact, PendingSet
    <3> QED  BY <1>2, <2>1 DEF PendingSet
  <2>3. spc \in {"idle", "enqueue"} => ~ Destroying
    BY <1>1 DEF ProtocolInv, DestroyPhase
  <2>4. BarrierHolds'
    BY <1>1, <1>3, <2>1, <2>3 DEF ProtocolInv, BarrierHolds
  <2> QED
    BY <1>1, <1>2, <1>3, <2>2, <2>4 DEF ProtocolInv, WakeOrder, DestroyPhase
<1> QED  BY <1>4, <1>5

\* Steps of the owner that change neither the workers nor the counter.
LEMMA WorkersUntouched ==
  ASSUME UNCHANGED <<wpc, state, task_queue, pending_threads>>,
         Destroying' <=> Destroying, ProtocolInv
  PROVE  /\ PendingExact' /\ NoFault' /\ PcState'
         /\ \A t \in Threads : /\ Waiting(t)' <=> Waiting(t)
                               /\ Unwoken(t)' <=> Unwoken(t)
<1>1. \A t \in Threads : /\ Waiting(t)' <=> Waiting(t)
                         /\ Unwoken(t)' <=> Unwoken(t)
  BY DEF Waiting, Unwoken
<1>2. PendingSet' = PendingSet
  BY <1>1 DEF PendingSet
<1> QED
  BY Zenon, <1>1, <1>2 DEF ProtocolInv, PendingExact, NoFault, PcState, PendingSet

\* wake(), first half: the one worker woken is waiting, and is counted again.
LEMMA WakeProtocol ==
  ASSUME Inv, WakeThread
  PROVE  ProtocolInv'
<1>1. /\ spc = "wake" /\ spc' = "wakesig"
      /\ state' = [state EXCEPT ![tid] = wake_state]
      /\ pending_threads' = pending_threads + 1
      /\ UNCHANGED <<wpc, task_queue, parent_cond, tid, wake_state>>
      /\ wake_state \in {"BUILD", "TEST", "EXIT"}
      /\ Unwoken(tid)
      /\ tid \in Threads
      /\ state \in [Threads -> ThreadState]
      /\ \A t \in Threads : t \in Int
  BY DEF Inv, WakeThread, WakeSetState, ProtocolInv, DestroyPhase, WakeOrder,
    TypeInv, SchedulerTypeOK, WorkerTypeOK, Threads
<1>2. Destroying' <=> Destroying
  BY <1>1 DEF Destroying
<1>3. PendingExact'
  <2> SUFFICES ASSUME ~ Destroying
               PROVE  pending_threads' = Cardinality(PendingSet')
    BY <1>2 DEF PendingExact, PendingSet
  <2>1. /\ Waiting(tid) /\ ~ Waiting(tid)'
        /\ \A u \in Threads \ {tid} : Waiting(u)' <=> Waiting(u)
    BY <1>1 DEF Waiting, Unwoken, WaitPc
  <2>2. Cardinality(PendingSet') = Cardinality(PendingSet) + 1
    BY <1>1, <2>1, PendingAdd
  <2> QED  BY <1>1, <2>2 DEF Inv, ProtocolInv, PendingExact, PendingSet
<1>4. PcState'
  BY <1>1 DEF Inv, ProtocolInv, PcState, Unwoken, WaitPc
<1>5. NoFault'
  BY <1>1, <1>2 DEF Inv, ProtocolInv, NoFault
<1>6. WakeOrder'
  BY <1>1 DEF Inv, ProtocolInv, WakeOrder, Unwoken, Destroying
<1>7. BarrierHolds' /\ DestroyPhase'
  BY <1>1, <1>2 DEF Inv, ProtocolInv, BarrierHolds, DestroyPhase
<1> QED  BY <1>3, <1>4, <1>5, <1>6, <1>7 DEF ProtocolInv

\* wake(), second half: the signal moves a sleeping worker within wait().
LEMMA SignalProtocol ==
  ASSUME Inv, SignalThread
  PROVE  ProtocolInv'
<1>1. /\ spc = "wakesig"
      /\ wpc' = [wpc EXCEPT ![tid] = IF @ = "asleep" THEN "relock" ELSE @]
      /\ UNCHANGED <<state, task_queue, pending_threads, parent_cond,
                     wake_state>>
      /\ tid' = NextTid(tid)
      /\ spc' = CASE tid < NThread - 1     -> "wake"
                  [] wake_state = "EXIT"   -> "delete"
                  [] OTHER                 -> "w4check"
      /\ tid \in Threads
      /\ wpc \in [Threads -> WorkerPc]
  BY DEF Inv, SignalThread, WakeSignal, TypeInv, SchedulerTypeOK, WorkerTypeOK
<1>2. Destroying' <=> Destroying
  BY <1>1 DEF Destroying
<1>3. \A t \in Threads : /\ Waiting(t)' <=> Waiting(t)
                         /\ Unwoken(t) => Unwoken(t)'
  BY <1>1, <1>2 DEF Waiting, Unwoken, WaitPc
<1>4. PendingExact'
  <2>1. PendingSet' = PendingSet
    BY <1>3 DEF PendingSet
  <2> QED  BY <1>1, <1>2, <2>1 DEF Inv, ProtocolInv, PendingExact, PendingSet
<1>5. PcState' /\ NoFault'
  BY <1>1, <1>2 DEF Inv, ProtocolInv, PcState, NoFault
<1>6. WakeOrder'
  <2>1. spc' # "wakesig"
    BY <1>1
  <2>2. spc' = "wake" => tid' = tid + 1
    BY <1>1, NThreadAssumption DEF NextTid, Threads
  <2> QED
    BY <1>1, <1>3, <2>1, <2>2 DEF Inv, ProtocolInv, WakeOrder, Threads
<1>7. BarrierHolds'
  BY <1>1 DEF BarrierHolds
<1>8. DestroyPhase'
  BY <1>1, <1>2 DEF Inv, ProtocolInv, DestroyPhase
<1> QED  BY <1>4, <1>5, <1>6, <1>7, <1>8 DEF ProtocolInv

(***************************************************************************)
(* wait4completion() sees zero only when no thread is pending, and then    *)
(* every worker is in wait().                                              *)
(***************************************************************************)
LEMMA ZeroMeansAllWait ==
  ASSUME Inv, ~ Destroying, pending_threads = 0
  PROVE  \A t \in Threads : Waiting(t)
<1>1. Cardinality(PendingSet) = 0
  BY DEF Inv, ProtocolInv, PendingExact, PendingSet
<1>2. PendingSet = {}
  BY <1>1, PendingFinite, FS_EmptySet
<1> QED  BY <1>2 DEF PendingSet

\* Every step of the system keeps the protocol's invariant.
LEMMA ProtocolStep ==
  ASSUME Inv, [Next]_vars
  PROVE  ProtocolInv'
<1>0. TypeInv /\ TypeInv' /\ ProtocolInv
  BY TypeStep DEF Inv
<1>i. spc \in {"idle", "enqueue"} =>
        /\ ~ Destroying
        /\ wake_state # "EXIT"
        /\ \A t \in Threads : Waiting(t) /\ Unwoken(t)
  BY <1>0 DEF ProtocolInv, BarrierHolds, DestroyPhase, Waiting, Unwoken, WaitPc
<1>1. CASE CreateThread
  <2>1. /\ spc = "ctor" /\ spc' \in {"ctor", "w4check"}
        /\ wpc[tid] = "new"
        /\ wpc' = [wpc EXCEPT ![tid] = "loop"]
        /\ UNCHANGED <<state, task_queue, pending_threads, parent_cond,
                       wake_state>>
        /\ wpc \in [Threads -> WorkerPc]
    BY <1>0, <1>1 DEF CreateThread, ThreadInit, GoTo, TypeInv,
      SchedulerTypeOK, WorkerTypeOK
  <2>2. Destroying' <=> Destroying
    BY <2>1 DEF Destroying
  <2>3. \A t \in Threads : Waiting(t)' <=> Waiting(t)
    BY <2>1 DEF Waiting
  <2>4. PendingExact'
    <3>1. PendingSet' = PendingSet
      BY <2>3 DEF PendingSet
    <3> QED  BY <1>0, <2>1, <2>2, <3>1 DEF ProtocolInv, PendingExact, PendingSet
  <2> QED
    BY <1>0, <2>1, <2>2, <2>4 DEF ProtocolInv, BarrierHolds, NoFault, PcState,
      WakeOrder, DestroyPhase
<1>2. CASE Wait4Check
  <2>1. /\ spc = "w4check" /\ ~ Destroying /\ ~ Destroying'
        /\ spc' = IF pending_threads = 0 THEN "idle" ELSE "w4block"
        /\ UNCHANGED <<wpc, state, task_queue, pending_threads, wake_state>>
    BY <1>0, <1>2 DEF Wait4Check, workerVars, ProtocolInv, DestroyPhase,
      Destroying
  <2>2. pending_threads = 0 => \A t \in Threads : Waiting(t)
    BY <2>1, ZeroMeansAllWait
  <2> QED
    BY <1>0, <2>1, <2>2, WorkersUntouched
    DEF ProtocolInv, BarrierHolds, WakeOrder, DestroyPhase
<1>3. CASE Wait4Block \/ Wait4Return \/ OwnerSpuriousWakeup
  <2>1. /\ spc \in {"w4block", "w4asleep"}
        /\ spc' \in {"w4asleep", "w4check"}
        /\ UNCHANGED <<wpc, state, task_queue, pending_threads, wake_state>>
    BY <1>3 DEF Wait4Block, Wait4Return, OwnerSpuriousWakeup, workerVars,
      ownerVars
  <2>2. ~ Destroying
    BY <1>0, <2>1 DEF ProtocolInv, DestroyPhase
  <2>3. ~ Destroying'
    BY <1>3, <2>2 DEF Wait4Block, Wait4Return, OwnerSpuriousWakeup,
      workerVars, Destroying
  <2> QED
    BY <1>0, <2>1, <2>2, <2>3, WorkersUntouched
    DEF ProtocolInv, BarrierHolds, WakeOrder, DestroyPhase
<1>4. CASE Schedule \/ RunTest
  <2>1. /\ spc = "idle" /\ spc' \in {"idle", "enqueue", "wake"}
        /\ UNCHANGED <<wpc, state, task_queue, pending_threads, parent_cond>>
        /\ wake_state' \in {wake_state, "TEST"}
        /\ spc' = "wake" => wake_state' = "TEST"
    BY <1>4 DEF Schedule, RunTest, workerVars
  <2>2. ~ Destroying'
    BY <1>i, <2>1 DEF Destroying
  <2> QED
    BY <1>0, <1>i, <2>1, <2>2, WorkersUntouched
    DEF ProtocolInv, BarrierHolds, WakeOrder, DestroyPhase
<1>5. CASE EnqueueBatch
  <2>1. /\ spc = "enqueue" /\ spc' \in {"enqueue", "wake"}
        /\ UNCHANGED <<wpc, state, pending_threads, parent_cond>>
        /\ wake_state' \in {wake_state, "BUILD"}
        /\ spc' = "wake" => wake_state' = "BUILD"
    BY <1>5 DEF EnqueueBatch, Enqueue
  <2>2. /\ ~ Destroying /\ ~ Destroying'
        /\ \A t \in Threads : /\ Waiting(t) /\ Waiting(t)'
                              /\ Unwoken(t) /\ Unwoken(t)'
    BY <1>i, <2>1 DEF Destroying, Waiting, Unwoken
  <2>3. PcState'
    BY <1>0, <2>1, <2>2 DEF ProtocolInv, PcState, Waiting
  <2>4. PendingExact'
    <3>1. PendingSet' = PendingSet
      BY <2>2 DEF PendingSet
    <3> QED  BY <1>0, <2>1, <2>2, <3>1 DEF ProtocolInv, PendingExact, PendingSet
  <2> QED
    BY <1>0, <1>i, <2>1, <2>2, <2>3, <2>4
    DEF ProtocolInv, BarrierHolds, NoFault, WakeOrder, DestroyPhase
<1>6. CASE WakeThread
  BY <1>6, WakeProtocol
<1>7. CASE SignalThread
  BY <1>7, SignalProtocol
<1>8. CASE Destroy
  <2>1. /\ spc = "idle" /\ spc' = "wake"
        /\ UNCHANGED <<wpc, state, task_queue, pending_threads>>
        /\ wake_state' = "EXIT" /\ Destroying'
    BY <1>8 DEF Destroy, Destroying
  <2>2. \A t \in Threads : Unwoken(t)'
    BY <1>i, <2>1 DEF Unwoken
  <2> QED
    BY <1>0, <2>1, <2>2 DEF ProtocolInv, PendingExact, BarrierHolds, NoFault,
      PcState, WakeOrder, DestroyPhase
<1>9. CASE DeleteThread
  <2>1. /\ spc = "delete" /\ spc' \in {"delete", "destroyed"}
        /\ wpc' = [wpc EXCEPT ![tid] = IF @ = "exited" THEN @ ELSE "wild"]
        /\ UNCHANGED <<state, task_queue, wake_state, parent_cond>>
        /\ wpc \in [Threads -> WorkerPc]
    BY <1>0, <1>9 DEF DeleteThread, ThreadDelete, TypeInv, SchedulerTypeOK,
      WorkerTypeOK
  <2>2. Destroying /\ Destroying'
    BY <1>0, <2>1 DEF ProtocolInv, DestroyPhase, Destroying
  <2> QED
    BY <1>0, <2>1, <2>2 DEF ProtocolInv, PendingExact, BarrierHolds, NoFault,
      PcState, WakeOrder, DestroyPhase
<1>10. CASE \E t \in Threads :
              (WorkerStep(t) \/ SpuriousWakeup(t)) /\ UNCHANGED ownerVars
  BY <1>0, <1>10, WorkerProtocol
<1>11. CASE UNCHANGED vars
  <2>1. /\ UNCHANGED <<wpc, state, task_queue, pending_threads>>
        /\ UNCHANGED <<spc, tid, wake_state>>
        /\ Destroying' <=> Destroying
    BY <1>11 DEF vars, workerVars, ownerVars, Destroying
  <2> QED
    BY <1>0, <2>1, WorkersUntouched
    DEF ProtocolInv, BarrierHolds, WakeOrder, DestroyPhase
<1> QED
  BY <1>1, <1>2, <1>3, <1>4, <1>5, <1>6, <1>7, <1>8, <1>9, <1>10, <1>11
  DEF Next, OwnerStep, OwnerCall

\* The constructor's first state satisfies the protocol's invariant.
LEMMA ProtocolInit == Init => ProtocolInv
<1> SUFFICES ASSUME Init PROVE ProtocolInv
  OBVIOUS
<1>1. /\ \A t \in Threads : wpc[t] = "new" /\ state[t] = "WAIT"
      /\ pending_threads = NThread /\ parent_cond = "empty"
      /\ spc = "ctor" /\ wake_state = "WAIT"
  BY DEF Init, WorkerInit
<1>2. PendingSet = 0 .. NThread - 1
  BY <1>1 DEF PendingSet, Waiting, Threads
<1>3. Cardinality(PendingSet) = NThread
  BY <1>2, NThreadAssumption, FS_Interval
<1>4. PendingExact
  BY <1>1, <1>3 DEF PendingExact, PendingSet
<1> QED
  BY <1>1, <1>4 DEF ProtocolInv, BarrierHolds, NoFault, PcState, WakeOrder,
    DestroyPhase, Destroying

\* Inv is inductive.
LEMMA InvAlways == Spec => []Inv
<1>1. Init => Inv
  BY TypeInit, ProtocolInit DEF Inv
<1>2. Inv /\ [Next]_vars => Inv'
  BY TypeStep, ProtocolStep DEF Inv
<1> QED  BY <1>1, <1>2, PTL DEF Spec

(***************************************************************************)
(* The counter that the owner, the constructor and all workers update      *)
(* counts exactly the threads that are not in wait(), so the decrement     *)
(* never wraps around.                                                     *)
(***************************************************************************)
THEOREM PendingCorrect == Spec => []PendingExact
<1>1. Inv => PendingExact
  BY DEF Inv, ProtocolInv
<1> QED  BY <1>1, InvAlways, PTL

(***************************************************************************)
(* wait4completion() is a barrier: when it has returned, every worker is   *)
(* in wait() until the owner wakes it.                                     *)
(***************************************************************************)
THEOREM BarrierCorrect == Spec => []BarrierHolds
<1>1. Inv => BarrierHolds
  BY DEF Inv, ProtocolInv
<1> QED  BY <1>1, InvAlways, PTL

(***************************************************************************)
(* The reads of the queue and of the state that dequeue(), callback() and  *)
(* run() make without a lock never coincide with the owner's writes.       *)
(***************************************************************************)
THEOREM RaceFree == Spec => []NoDataRace
<1>1. Inv => NoDataRace
  <2> SUFFICES ASSUME Inv, ~ Destroying PROVE NoDataRace
    BY DEF NoDataRace
  <2>1. ASSUME spc = "enqueue", NEW t \in Threads
        PROVE  wpc[t] \notin {"request", "dequeue"}
    BY <2>1 DEF Inv, ProtocolInv, BarrierHolds, Waiting
  <2>2. ASSUME spc = "wake"
        PROVE  wpc[tid] \notin {"loop", "exit?", "run"}
    <3>1. tid \in Threads /\ tid >= tid
      BY NThreadAssumption DEF Inv, TypeInv, SchedulerTypeOK, Threads
    <3> QED  BY <2>2, <3>1 DEF Inv, ProtocolInv, WakeOrder, Unwoken, WaitPc
  <2> QED  BY <2>1, <2>2 DEF NoDataRace
<1> QED  BY <1>1, InvAlways, PTL

(***************************************************************************)
(* run() never meets a state it throws on, dequeue() never pops an empty   *)
(* queue, and wait() never signals a destroyed condition before            *)
(* ~Scheduler() begins.                                                    *)
(***************************************************************************)
THEOREM FaultFree == Spec => []NoFault
<1>1. Inv => NoFault
  BY DEF Inv, ProtocolInv
<1> QED  BY <1>1, InvAlways, PTL

-----------------------------------------------------------------------------
(***************************************************************************)
(* Where the nodes of a level are while it is run.                         *)
(***************************************************************************)

\* The nodes worker t still has to run: those queued and the one it is at.
HeldBy(t) ==
  Range(task_queue[t]) \cup (IF wpc[t] = "node" THEN {active_node[t]} ELSE {})

Held == UNION {HeldBy(t) : t \in Threads}

\* The nodes run_level() has not dealt yet.
Undealt ==
  IF spc = "enqueue"
    THEN {level_nodes[i] : i \in task_index + 1 .. Len(level_nodes)}
    ELSE {}

\* A worker is at its queue only in state BUILD, and that only while a level
\* is run: between the first wake() and the end of wait4completion().
BuildPhase ==
  /\ spc = "ctor" => wake_state = "WAIT"
  /\ \A t \in Threads :
       /\ wpc[t] \in {"request", "dequeue", "node"} => state[t] = "BUILD"
       /\ state[t] = "BUILD" =>
            /\ wake_state = "BUILD"
            /\ spc \in {"wake", "wakesig", "w4check", "w4block", "w4asleep"}

\* Worker t has been woken for the level that is run.
Woken(t) ==
  \/ spc \in {"w4check", "w4block", "w4asleep"}
  \/ spc = "wake" /\ t < tid
  \/ spc = "wakesig" /\ t <= tid

\* A worker enters wait() with an empty queue; so one that was woken and is
\* waiting again has run all it was given.
QueueDrained ==
  \A t \in Threads :
    /\ wpc[t] \in {"new", "wait"} => task_queue[t] = <<>>
    /\ wpc[t] = "loop" /\ state[t] = "WAIT" => task_queue[t] = <<>>
    /\ state[t] = "TEST" => task_queue[t] = <<>>
    /\ Woken(t) /\ Waiting(t) => task_queue[t] = <<>>

\* The lists of the levels hold different nodes, all of them scheduled.
ListsExact ==
  \A i \in 1 .. Len(nodes) :
    /\ Range(nodes[i]) \subseteq 1 .. scheduled
    /\ Cardinality(Range(nodes[i])) = Len(nodes[i])

\* No node of a level that was filled is lost, and only those of the last
\* one are still on their way.
WorkConserved ==
  /\ ran \cup Held \cup Undealt = NodesBelow(current_level)
  /\ ~ LevelRunning => Held = {}
  /\ LevelRunning =>
       /\ Len(nodes) = current_level /\ current_level >= 1
       /\ Held \cup Undealt \subseteq Range(nodes[current_level])

WorkInv == BuildPhase /\ QueueDrained /\ ListsExact /\ WorkConserved

\* Taking the head off a queue takes it, and only it, out of its range.
LEMMA RangeHeadTail ==
  ASSUME NEW s \in Seq(NodeId), s # <<>>
  PROVE  Range(s) = {Head(s)} \cup Range(Tail(s))
<1>1. /\ Head(s) = s[1]
      /\ Tail(s) \in Seq(NodeId)
      /\ Len(Tail(s)) = Len(s) - 1
      /\ \A i \in 1 .. Len(Tail(s)) : Tail(s)[i] = s[i + 1]
  BY HeadTailProperties
<1>2. Len(s) \in Nat \ {0}
  BY EmptySeq
<1>3. /\ Range(s) = {s[i] : i \in 1 .. Len(s)}
      /\ Range(Tail(s)) = {Tail(s)[i] : i \in 1 .. Len(Tail(s))}
  BY ZenonT(60), <1>1, RangeEquality
<1>4. ASSUME NEW x \in Range(s) PROVE x \in {Head(s)} \cup Range(Tail(s))
  <2>1. PICK i \in 1 .. Len(s) : x = s[i]
    BY <1>3
  <2>2. CASE i = 1
    BY <1>1, <2>1, <2>2
  <2>3. CASE i # 1
    <3>1. i - 1 \in 1 .. Len(Tail(s)) /\ Tail(s)[i - 1] = x
      BY <1>1, <1>2, <2>1, <2>3
    <3> QED  BY Zenon, <1>3, <3>1
  <2> QED  BY <2>2, <2>3
<1>5. ASSUME NEW x \in Range(Tail(s)) PROVE x \in Range(s)
  <2>1. PICK i \in 1 .. Len(Tail(s)) : x = Tail(s)[i]
    BY <1>3
  <2>2. i + 1 \in 1 .. Len(s) /\ x = s[i + 1]
    BY <1>1, <1>2, <2>1
  <2> QED  BY <1>3, <2>2
<1>6. Head(s) \in Range(s)
  BY <1>1, <1>2, <1>3
<1> QED  BY <1>4, <1>5, <1>6

\* Filing a node in a list adds it, and only it, to the list's range.
LEMMA RangeAppend ==
  ASSUME NEW s \in Seq(NodeId), NEW x \in NodeId
  PROVE  Range(Append(s, x)) = Range(s) \cup {x}
<1>1. <<x>> \in Seq(NodeId) /\ Append(s, x) = s \o <<x>>
  BY AppendIsConcat
<1>2. Range(<<x>>) = {x}
  BY DEF Range
<1>3. Range(s \o <<x>>) = Range(s) \cup Range(<<x>>)
  BY ZenonT(60), <1>1, RangeConcatenation
<1> QED  BY <1>1, <1>2, <1>3

\* An empty queue holds nothing.
LEMMA RangeEmpty == Range(<<>>) = {}
  BY DEF Range

\* A queue dealt a batch holds what it held and the batch; what is left to
\* deal and the batch together were left before.
LEMMA BatchRange ==
  ASSUME TypeInv, spc = "enqueue"
  PROVE  LET batch == SubSeq(level_nodes, task_index + 1, task_index + NTasks)
         IN  {level_nodes[i] : i \in task_index + 1 .. Len(level_nodes)}
               = Range(batch) \cup
                 {level_nodes[i] :
                    i \in task_index + NTasks + 1 .. Len(level_nodes)}
<1> DEFINE batch == SubSeq(level_nodes, task_index + 1, task_index + NTasks)
<1>1. /\ NTasks \in 0 .. MIN_TASKS_PT
      /\ task_index + NTasks \in 0 .. Len(level_nodes)
      /\ level_nodes \in Seq(NodeId)
      /\ batch \in Seq(NodeId)
  BY NTasksRange
<1>2. /\ task_index \in Nat /\ NTasks \in Nat /\ Len(level_nodes) \in Nat
  BY <1>1, LenProperties, SchedulerAssumption DEF TypeInv, SchedulerTypeOK
<1>3. \A i \in task_index + 1 .. task_index + NTasks : level_nodes[i] \in NodeId
  BY <1>1, <1>2, ElementOfSeq
<1>4. /\ Len(batch) = NTasks
      /\ \A i \in 1 .. NTasks : batch[i] = level_nodes[task_index + i]
  <2>1. /\ Len(batch) = IF task_index + 1 <= task_index + NTasks
                          THEN (task_index + NTasks) - (task_index + 1) + 1 ELSE 0
        /\ \A i \in 1 .. (task_index + NTasks) - (task_index + 1) + 1 :
             batch[i] = level_nodes[(task_index + 1) + i - 1]
    BY <1>2, <1>3, SubSeqProperties
  <2>2. (task_index + NTasks) - (task_index + 1) + 1 = NTasks
    BY <1>2
  <2>3. \A i \in 1 .. NTasks : (task_index + 1) + i - 1 = task_index + i
    BY <1>2
  <2>4. Len(batch) = NTasks
    BY <1>2, <2>1
  <2>5. \A i \in 1 .. NTasks : batch[i] = level_nodes[task_index + i]
    <3> SUFFICES ASSUME NEW i \in 1 .. NTasks
                 PROVE  batch[i] = level_nodes[task_index + i]
      BY Zenon
    <3>1. batch[i] = level_nodes[(task_index + 1) + i - 1]
      BY Zenon, <2>1, <2>2
    <3> QED  BY Zenon, <3>1, <2>3
  <2> QED  BY Zenon, <2>4, <2>5
<1>5. Range(batch) = {batch[i] : i \in 1 .. NTasks}
  BY Zenon, <1>1, <1>4, RangeEquality
<1> DEFINE rest(k) == {level_nodes[i] : i \in k + 1 .. Len(level_nodes)}
<1>6. ASSUME NEW x \in rest(task_index)
      PROVE  x \in Range(batch) \cup rest(task_index + NTasks)
  <2>1. PICK i \in task_index + 1 .. Len(level_nodes) : x = level_nodes[i]
    OBVIOUS
  <2>2. CASE i <= task_index + NTasks
    <3>1. i - task_index \in 1 .. NTasks /\ task_index + (i - task_index) = i
      BY <1>2, <2>1, <2>2
    <3>2. batch[i - task_index] = x
      BY Zenon, <1>4, <2>1, <3>1
    <3> QED  BY Zenon, <1>5, <3>1, <3>2
  <2>3. CASE ~ (i <= task_index + NTasks)
    <3>1. i \in (task_index + NTasks) + 1 .. Len(level_nodes)
      BY <1>2, <2>1, <2>3
    <3> QED  BY <2>1, <3>1
  <2> QED  BY <2>2, <2>3
<1>7. ASSUME NEW x \in Range(batch) PROVE x \in rest(task_index)
  <2>1. PICK i \in 1 .. NTasks : x = batch[i]
    BY Zenon, <1>5
  <2>2. task_index + i \in task_index + 1 .. Len(level_nodes)
    BY <1>1, <1>2, <2>1
  <2> QED  BY Zenon, <1>4, <2>1, <2>2
<1>8. ASSUME NEW x \in rest(task_index + NTasks) PROVE x \in rest(task_index)
  <2>1. PICK i \in (task_index + NTasks) + 1 .. Len(level_nodes) :
          x = level_nodes[i]
    OBVIOUS
  <2>2. i \in task_index + 1 .. Len(level_nodes)
    BY <1>2, <2>1
  <2> QED  BY <2>1, <2>2
<1> QED  BY <1>6, <1>7, <1>8

-----------------------------------------------------------------------------
(***************************************************************************)
(* A worker's step moves nodes only from its queue to its active_node and  *)
(* from there to the ones that have run.                                   *)
(***************************************************************************)
LEMMA WorkerMovesWork ==
  ASSUME Inv, NEW t \in Threads, WorkerStep(t) \/ SpuriousWakeup(t)
  PROVE  /\ \A u \in Threads : u # t => HeldBy(u)' = HeldBy(u)
         /\ ran' \cup HeldBy(t)' = ran \cup HeldBy(t)
         /\ HeldBy(t)' \subseteq HeldBy(t)
         /\ ran \subseteq ran'
<1>0. /\ wpc \in [Threads -> WorkerPc]
      /\ task_queue \in [Threads -> Seq(NodeId)]
      /\ active_node \in [Threads -> Nat]
  BY DEF Inv, TypeInv, SchedulerTypeOK, WorkerTypeOK, NodeId
<1>1. CASE /\ UNCHANGED <<task_queue, active_node, ran>>
           /\ wpc[t] # "node" /\ wpc'[t] # "node"
           /\ \A u \in Threads : u # t => wpc'[u] = wpc[u]
  BY <1>0, <1>1 DEF HeldBy
<1>2. CASE RequestTask(t)
  BY <1>0, <1>2 DEF HeldBy, RequestTask, GoTo
<1>3. CASE Dequeue(t)
  <2>1. /\ wpc[t] = "dequeue" /\ task_queue[t] # <<>>
    BY <1>3 DEF Dequeue, Inv, ProtocolInv, PcState
  <2>2. /\ active_node' = [active_node EXCEPT ![t] = Head(task_queue[t])]
        /\ task_queue' = [task_queue EXCEPT ![t] = Tail(task_queue[t])]
        /\ wpc' = [wpc EXCEPT ![t] = "node"]
        /\ ran' = ran
    BY <1>3, <2>1 DEF Dequeue, GoTo
  <2>3. Range(task_queue[t]) = {Head(task_queue[t])} \cup Range(Tail(task_queue[t]))
    BY <1>0, <2>1, RangeHeadTail
  <2>4. HeldBy(t)' = HeldBy(t)
    BY <1>0, <2>1, <2>2, <2>3 DEF HeldBy
  <2> QED  BY <1>0, <2>2, <2>4 DEF HeldBy
<1>4. CASE RunNode(t)
  BY <1>0, <1>4 DEF RunNode, GoTo, HeldBy
<1>5. CASE LoopCheck(t)         BY <1>0, <1>1, <1>5 DEF LoopCheck, GoTo
<1>6. CASE ExitCheck(t)         BY <1>0, <1>1, <1>6 DEF ExitCheck, GoTo
<1>7. CASE Run(t)               BY <1>0, <1>1, <1>7 DEF Run, GoTo
<1>8. CASE WaitEnter(t)         BY <1>0, <1>1, <1>8 DEF WaitEnter, GoTo
<1>9. CASE WaitReadPending(t)   BY <1>0, <1>1, <1>9 DEF WaitReadPending, GoTo
<1>10. CASE WaitSignalParent(t) BY <1>0, <1>1, <1>10 DEF WaitSignalParent, GoTo
<1>11. CASE WaitCheck(t)        BY <1>0, <1>1, <1>11 DEF WaitCheck, GoTo
<1>12. CASE Relock(t)           BY <1>0, <1>1, <1>12 DEF Relock, GoTo
<1>13. CASE SpuriousWakeup(t)   BY <1>0, <1>1, <1>13 DEF SpuriousWakeup, GoTo
<1> QED
  BY <1>2, <1>3, <1>4, <1>5, <1>6, <1>7, <1>8, <1>9, <1>10, <1>11, <1>12, <1>13
  DEF WorkerStep

\* Nobody holds a node exactly when every queue is empty and no node is run.
LEMMA HeldNothing ==
  ASSUME Inv
  PROVE  Held = {} <=> \A t \in Threads : /\ task_queue[t] = <<>>
                                          /\ wpc[t] # "node"
<1>0. task_queue \in [Threads -> Seq(NodeId)]
  BY DEF Inv, TypeInv, SchedulerTypeOK, WorkerTypeOK, NodeId
<1>1. ASSUME NEW t \in Threads
      PROVE  HeldBy(t) = {} <=> task_queue[t] = <<>> /\ wpc[t] # "node"
  <2>1. CASE task_queue[t] = <<>>
    BY <2>1, RangeEmpty DEF HeldBy
  <2>2. CASE task_queue[t] # <<>>
    <3>1. Head(task_queue[t]) \in Range(task_queue[t])
      BY <1>0, <2>2, RangeHeadTail
    <3> QED  BY <2>2, <3>1 DEF HeldBy
  <2> QED  BY <2>1, <2>2
<1>2. Held = {} <=> \A t \in Threads : HeldBy(t) = {}
  BY DEF Held
<1> QED  BY <1>1, <1>2

\* What a worker's step leaves of the work of its level.
LEMMA WorkerConserves ==
  ASSUME Inv, WorkConserved, NEW t \in Threads,
         WorkerStep(t) \/ SpuriousWakeup(t), UNCHANGED ownerVars
  PROVE  WorkConserved'
<1>1. /\ \A u \in Threads : u # t => HeldBy(u)' = HeldBy(u)
      /\ ran' \cup HeldBy(t)' = ran \cup HeldBy(t)
      /\ HeldBy(t)' \subseteq HeldBy(t)
      /\ ran \subseteq ran'
  BY WorkerMovesWork
<1>2. Held' \subseteq Held
  BY <1>1 DEF Held
<1>3. ran' \cup Held' = ran \cup Held
  <2>1. ASSUME NEW x \in ran \cup Held PROVE x \in ran' \cup Held'
    <3>1. CASE x \in ran
      BY <1>1, <3>1
    <3>2. CASE x \in Held
      <4>1. PICK u \in Threads : x \in HeldBy(u)
        BY <3>2 DEF Held
      <4>2. x \in ran' \cup HeldBy(u)'
        BY <1>1, <4>1
      <4> QED  BY <4>2 DEF Held
    <3> QED  BY <3>1, <3>2
  <2>2. ASSUME NEW x \in ran' \cup Held' PROVE x \in ran \cup Held
    <3>1. CASE x \in ran'
      <4>1. x \in ran \cup HeldBy(t)
        BY <1>1, <3>1
      <4> QED  BY <4>1 DEF Held
    <3>2. CASE x \in Held'
      BY <1>2, <3>2
    <3> QED  BY <2>2, <3>1, <3>2
  <2> QED  BY <2>1, <2>2
<1>4. UNCHANGED <<spc, current_level, nodes, task_index, wake_state>>
  BY DEF ownerVars
<1>5. /\ Undealt' = Undealt
      /\ LevelRunning' <=> LevelRunning
      /\ NodesBelow(current_level)' = NodesBelow(current_level)
  BY <1>4 DEF Undealt, level_nodes, LevelRunning, NodesBelow
<1> QED  BY <1>2, <1>3, <1>4, <1>5 DEF WorkConserved

\* A worker's step keeps what its place says of its state and its queue.
LEMMA WorkerDrains ==
  ASSUME Inv, BuildPhase, QueueDrained, NEW t \in Threads,
         WorkerStep(t) \/ SpuriousWakeup(t), UNCHANGED ownerVars
  PROVE  BuildPhase' /\ QueueDrained'
<1>0. /\ wpc \in [Threads -> WorkerPc]
      /\ state \in [Threads -> ThreadState]
      /\ task_queue \in [Threads -> Seq(NodeId)]
      /\ PcState
  BY DEF Inv, ProtocolInv, TypeInv, SchedulerTypeOK, WorkerTypeOK, NodeId
<1>o. UNCHANGED <<spc, tid, wake_state>>
  BY DEF ownerVars
<1>w. \A u \in Threads : Woken(u)' <=> Woken(u)
  BY <1>o DEF Woken
<1> USE <1>0, <1>o, <1>w DEF BuildPhase, QueueDrained, Waiting, GoTo
<1>1. CASE LoopCheck(t)         BY <1>1 DEF LoopCheck
<1>2. CASE ExitCheck(t)         BY <1>2 DEF ExitCheck
<1>3. CASE Run(t)               BY <1>3 DEF Run
<1>4. CASE RequestTask(t)       BY <1>4 DEF RequestTask
<1>5. CASE Dequeue(t)
  <2>1. /\ wpc[t] = "dequeue" /\ state[t] = "BUILD" /\ state' = state
        /\ wpc' \in {[wpc EXCEPT ![t] = "node"], [wpc EXCEPT ![t] = "wild"]}
        /\ \A u \in Threads : u # t => task_queue'[u] = task_queue[u]
    BY <1>5 DEF Dequeue
  <2> QED  BY <2>1
<1>6. CASE RunNode(t)           BY <1>6 DEF RunNode
<1>7. CASE WaitEnter(t)         BY <1>7 DEF WaitEnter
<1>8. CASE WaitReadPending(t)   BY <1>8 DEF WaitReadPending
<1>9. CASE WaitSignalParent(t)  BY <1>9 DEF WaitSignalParent
<1>10. CASE WaitCheck(t)        BY <1>10 DEF WaitCheck
<1>11. CASE Relock(t)           BY <1>11 DEF Relock
<1>12. CASE SpuriousWakeup(t)   BY <1>12 DEF SpuriousWakeup
<1> QED
  BY ZenonT(60), <1>1, <1>2, <1>3, <1>4, <1>5, <1>6, <1>7, <1>8, <1>9, <1>10, <1>11, <1>12
  DEF WorkerStep

\* schedule() leaves the lists of the other levels alone.
LEMMA AddNodeContents ==
  ASSUME NEW ns \in Seq(Seq(NodeId)), NEW l \in Nat, NEW n \in NodeId,
         Len(ns) \in {l, l + 1}
  PROVE  /\ \A i \in 1 .. l : AddNode(ns, l, n)[i] = ns[i]
         /\ AddNode(ns, l, n)[l + 1] = IF Len(ns) = l
                                         THEN <<n>> ELSE Append(ns[l + 1], n)
<1>1. CASE Len(ns) = l
  <2>1. <<n>> \in Seq(NodeId)
    OBVIOUS
  <2>2. AddNode(ns, l, n) = Append(ns, <<n>>)
    BY <1>1 DEF AddNode
  <2> QED  BY <1>1, <2>1, <2>2, AppendProperties
<1>2. CASE Len(ns) = l + 1
  <2>1. /\ l + 1 \in 1 .. Len(ns)
        /\ ns[l + 1] \in Seq(NodeId)
    BY <1>2, ElementOfSeq
  <2>2. Append(ns[l + 1], n) \in Seq(NodeId)
    BY <2>1, AppendProperties
  <2>3. AddNode(ns, l, n) = [ns EXCEPT ![l + 1] = Append(ns[l + 1], n)]
    BY <1>2 DEF AddNode
  <2>4. \A j \in 1 .. l + 1 : AddNode(ns, l, n)[j]
                                = IF j = l + 1 THEN Append(ns[l + 1], n) ELSE ns[j]
    BY <1>2, <2>1, <2>2, <2>3, ExceptSeq
  <2> QED  BY <1>2, <2>4
<1> QED  BY <1>1, <1>2

\* The nodes of the level schedule() fills.
Filling == IF current_level < Len(nodes) THEN Range(nodes[current_level + 1]) ELSE {}

\* What schedule() does to the lists of the levels.
LEMMA ScheduleLists ==
  ASSUME Inv, ListsExact, Schedule
  PROVE  /\ ListsExact'
         /\ Len(nodes') = current_level + 1
         /\ nodes'[current_level + 1] \in Seq(NodeId)
         /\ \A i \in 1 .. current_level : nodes'[i] = nodes[i]
         /\ Range(nodes'[current_level + 1]) = Filling \cup {scheduled + 1}
         /\ Filling \subseteq 1 .. scheduled
         /\ Cardinality(Range(nodes'[current_level + 1]))
              = Len(nodes'[current_level + 1])
<1> DEFINE l == current_level
           n == scheduled + 1
<1>0. /\ nodes \in Seq(Seq(NodeId)) /\ l \in Nat /\ n \in NodeId
      /\ Len(nodes) \in {l, l + 1} /\ scheduled \in Nat
      /\ nodes' = AddNode(nodes, l, n) /\ scheduled' = n
  BY SchedulerAssumption DEF Inv, TypeInv, SchedulerTypeOK, LevelShape, Schedule,
    NodeId, NoNode
<1>1. /\ nodes' \in Seq(Seq(NodeId)) /\ Len(nodes') = l + 1
  BY <1>0, AddNodeType
<1>2. /\ \A i \in 1 .. l : nodes'[i] = nodes[i]
      /\ nodes'[l + 1] = IF Len(nodes) = l THEN <<n>> ELSE Append(nodes[l + 1], n)
  BY <1>0, AddNodeContents
<1>3. nodes'[l + 1] \in Seq(NodeId)
  BY <1>0, <1>1, ElementOfSeq
<1>4. Filling \subseteq 1 .. scheduled
  BY <1>0 DEF Filling, ListsExact
<1>5. Range(nodes'[l + 1]) = Filling \cup {n}
  <2>1. CASE Len(nodes) = l
    <3>1. Range(<<n>>) = {n}
      BY DEF Range
    <3>2. nodes'[l + 1] = <<n>>
      BY <1>2, <2>1
    <3>3. Filling = {}
      BY <1>0, <2>1 DEF Filling
    <3> QED  BY <3>1, <3>2, <3>3
  <2>2. CASE Len(nodes) = l + 1
    <3>1. nodes[l + 1] \in Seq(NodeId)
      BY <1>0, <2>2, ElementOfSeq
    <3>2. Range(Append(nodes[l + 1], n)) = Range(nodes[l + 1]) \cup {n}
      BY <1>0, <3>1, RangeAppend
    <3> QED  BY <1>0, <1>2, <2>2, <3>2 DEF Filling
  <2> QED  BY <1>0, <2>1, <2>2
<1>6. Cardinality(Range(nodes'[l + 1])) = Len(nodes'[l + 1])
  <2>1. IsFiniteSet(Filling)
    <3>1. IsFiniteSet(1 .. scheduled)
      BY <1>0, FS_Interval
    <3> QED  BY Zenon, <1>4, <3>1, FS_Subset
  <2>2. n \notin Filling
    BY <1>0, <1>4
  <2>3. Cardinality(Filling \cup {n}) = Cardinality(Filling) + 1
    BY <2>1, <2>2, FS_AddElement
  <2>4. CASE Len(nodes) = l
    <3>1. Filling = {}
      BY <1>0, <2>4 DEF Filling
    <3>2. Cardinality(Filling) = 0
      BY <3>1, FS_EmptySet
    <3>3. nodes'[l + 1] = <<n>>
      BY <1>2, <2>4
    <3> QED  BY <1>5, <2>3, <3>2, <3>3
  <2>5. CASE Len(nodes) = l + 1
    <3>1. nodes[l + 1] \in Seq(NodeId) /\ l + 1 \in 1 .. Len(nodes)
      BY <1>0, <2>5, ElementOfSeq
    <3>2. Len(nodes'[l + 1]) = Len(nodes[l + 1]) + 1
      <4>1. Len(nodes) # l
        BY <1>0, <2>5
      <4>2. nodes'[l + 1] = Append(nodes[l + 1], n)
        BY <1>2, <4>1
      <4> QED  BY <1>0, <3>1, <4>2, AppendProperties
    <3>3. Cardinality(Filling) = Len(nodes[l + 1])
      BY <1>0, <2>5, <3>1 DEF Filling, ListsExact
    <3> QED  BY <1>5, <2>3, <3>2, <3>3
  <2> QED  BY <1>0, <2>4, <2>5
<1>7. ListsExact'
  <2> SUFFICES ASSUME NEW i \in 1 .. Len(nodes')
               PROVE  /\ Range(nodes'[i]) \subseteq 1 .. scheduled'
                      /\ Cardinality(Range(nodes'[i])) = Len(nodes'[i])
    BY DEF ListsExact
  <2>1. CASE i = l + 1
    <3>1. Filling \cup {n} \subseteq 1 .. scheduled'
      BY <1>0, <1>4
    <3> QED  BY Zenon, <1>5, <1>6, <2>1, <3>1
  <2>2. CASE i # l + 1
    <3>1. i \in 1 .. l /\ i \in 1 .. Len(nodes)
      BY <1>0, <1>1, <2>2
    <3>2. /\ Range(nodes[i]) \subseteq 1 .. scheduled
          /\ Cardinality(Range(nodes[i])) = Len(nodes[i])
      BY <3>1 DEF ListsExact
    <3>3. 1 .. scheduled \subseteq 1 .. scheduled'
      BY <1>0
    <3> QED  BY <1>2, <3>1, <3>2, <3>3
  <2> QED  BY <2>1, <2>2
<1> QED  BY <1>1, <1>2, <1>3, <1>4, <1>5, <1>6, <1>7

\* Steps of the owner that leave the queues and the nodes being run alone.
LEMMA HeldUntouched ==
  ASSUME UNCHANGED <<task_queue, active_node>>,
         \A t \in Threads : wpc'[t] = "node" <=> wpc[t] = "node"
  PROVE  Held' = Held
<1>1. \A t \in Threads : HeldBy(t)' = HeldBy(t)
  BY DEF HeldBy
<1> QED  BY <1>1 DEF Held

\* When wait4completion() returns, all that was dealt has been run.
LEMMA AllDrained ==
  ASSUME Inv, WorkInv, spc = "w4check", pending_threads = 0
  PROVE  Held = {}
<1>1. ~ Destroying
  BY DEF Inv, ProtocolInv, DestroyPhase
<1>2. \A t \in Threads : Waiting(t)
  BY <1>1, ZeroMeansAllWait
<1>3. \A t \in Threads : task_queue[t] = <<>> /\ wpc[t] # "node"
  BY <1>2 DEF WorkInv, QueueDrained, Woken, Waiting
<1> QED  BY <1>3, HeldNothing

\* schedule(): a level that becomes full is all there is to deal.
LEMMA ScheduleWork ==
  ASSUME Inv, WorkInv, Schedule
  PROVE  WorkInv'
<1>1. /\ spc = "idle" /\ spc' \in {"idle", "enqueue"}
      /\ UNCHANGED <<wpc, state, task_queue, active_node, ran, wake_state>>
      /\ task_index' = 0
      /\ \A t \in Threads : Waiting(t)
      /\ current_level \in Nat
  BY DEF Schedule, workerVars, Inv, ProtocolInv, BarrierHolds, TypeInv,
    SchedulerTypeOK
<1>2. /\ ListsExact'
      /\ Len(nodes') = current_level + 1
      /\ nodes'[current_level + 1] \in Seq(NodeId)
      /\ \A i \in 1 .. current_level : nodes'[i] = nodes[i]
  BY ScheduleLists DEF WorkInv
<1>3. BuildPhase'
  BY <1>1 DEF WorkInv, BuildPhase, Waiting
<1>4. QueueDrained'
  BY <1>1 DEF QueueDrained, Woken, Waiting
<1>5. /\ Held = {} /\ Held' = {}
      /\ ran = NodesBelow(current_level)
  <2>1. ~ LevelRunning /\ Undealt = {}
    BY <1>1 DEF LevelRunning, Undealt
  <2>2. Held = {} /\ ran \cup Held \cup Undealt = NodesBelow(current_level)
    BY <2>1 DEF WorkInv, WorkConserved
  <2>3. Held' = Held
    BY <1>1, HeldUntouched
  <2> QED  BY <2>1, <2>2, <2>3
<1>6. NodesBelow(current_level)
        = UNION {Range(nodes'[i]) : i \in 1 .. current_level}
  BY <1>2 DEF NodesBelow
<1>7. WorkConserved'
  <2>1. CASE spc' = "idle"
    <3>1. current_level' = current_level
      BY <2>1 DEF Schedule
    <3>2. Undealt' = {} /\ ~ LevelRunning'
      BY <2>1 DEF Undealt, LevelRunning
    <3>3. NodesBelow(current_level)' = NodesBelow(current_level)
      BY <1>6, <3>1 DEF NodesBelow
    <3> QED  BY <1>1, <1>5, <3>2, <3>3 DEF WorkConserved
  <2>2. CASE spc' = "enqueue"
    <3>1. current_level' = current_level + 1
      BY <1>1, <2>2 DEF Schedule
    <3>2. Undealt' = Range(nodes'[current_level'])
      <4>1. Undealt' = {nodes'[current_level'][i] :
                          i \in 0 + 1 .. Len(nodes'[current_level'])}
        BY <1>1, <2>2 DEF Undealt, level_nodes
      <4>2. 0 + 1 = 1
        OBVIOUS
      <4>3. Range(nodes'[current_level'])
              = {nodes'[current_level'][i] : i \in 1 .. Len(nodes'[current_level'])}
        BY <1>2, <3>1, RangeEquality
      <4> QED  BY <4>1, <4>2, <4>3
    <3>3. NodesBelow(current_level)'
            = NodesBelow(current_level) \cup Range(nodes'[current_level'])
      <4>1. NodesBelow(current_level)'
              = UNION {Range(nodes'[i]) : i \in 1 .. current_level + 1}
        BY <3>1 DEF NodesBelow
      <4>2. 1 .. current_level + 1 = (1 .. current_level) \cup {current_level + 1}
        BY <1>1
      <4> QED  BY <1>6, <3>1, <4>1, <4>2
    <3>4. LevelRunning'
      BY <2>2 DEF LevelRunning
    <3>5. Len(nodes') = current_level' /\ current_level' >= 1
      BY <1>1, <1>2, <3>1
    <3> QED  BY <1>1, <1>5, <3>2, <3>3, <3>4, <3>5 DEF WorkConserved
  <2> QED  BY <1>1, <2>1, <2>2
<1> QED  BY <1>2, <1>3, <1>4, <1>7 DEF WorkInv

\* run_level() deals a batch: nodes move from the undealt ones to a queue.
LEMMA EnqueueWork ==
  ASSUME Inv, WorkInv, EnqueueBatch
  PROVE  WorkInv'
<1> DEFINE batch == SubSeq(level_nodes, task_index + 1, task_index + NTasks)
<1>1. /\ spc = "enqueue" /\ spc' \in {"enqueue", "wake"}
      /\ UNCHANGED <<wpc, state, active_node, ran, nodes, current_level, scheduled>>
      /\ task_queue' = [task_queue EXCEPT ![tid] = @ \o batch]
      /\ task_index' = task_index + NTasks
      /\ spc' = "wake" =>
           task_index' = Len(level_nodes) /\ wake_state' = "BUILD" /\ tid' = 0
      /\ \A t \in Threads : Waiting(t)
  BY DEF EnqueueBatch, Enqueue, Inv, ProtocolInv, BarrierHolds
<1>2. /\ tid \in Threads
      /\ task_queue \in [Threads -> Seq(NodeId)]
      /\ batch \in Seq(NodeId)
      /\ task_index + NTasks \in 0 .. Len(level_nodes)
      /\ TypeInv
  BY Zenon, <1>1, NTasksRange
  DEF Inv, TypeInv, SchedulerTypeOK, WorkerTypeOK, NodeId
<1> HIDE DEF batch
<1>3. BuildPhase'
  BY <1>1 DEF WorkInv, BuildPhase, Waiting
<1>4. QueueDrained'
  <2>1. \A t \in Threads : ~ Woken(t)'
    <3>1. \A t \in Threads : t \in Nat
      BY DEF Threads
    <3> QED  BY <1>1, <3>1 DEF Woken
  <2> QED  BY <1>1, <2>1 DEF QueueDrained, Waiting
<1>5. ListsExact'
  BY <1>1 DEF WorkInv, ListsExact
<1>6. Held' = Held \cup Range(batch)
  <2>0. PICK k \in Threads : k = tid
    BY <1>2
  <2>1. Range(task_queue[k] \o batch) = Range(task_queue[k]) \cup Range(batch)
    <3>1. task_queue[k] \in Seq(NodeId)
      BY <1>2
    <3> QED  BY <1>2, <3>1, RangeConcatenation
  <2>2. HeldBy(k)' = HeldBy(k) \cup Range(batch)
    BY <1>1, <1>2, <2>0, <2>1 DEF HeldBy
  <2>3. \A t \in Threads : t # k => HeldBy(t)' = HeldBy(t)
    BY <1>1, <1>2, <2>0 DEF HeldBy
  <2> QED  BY <2>2, <2>3 DEF Held
<1>7. Undealt = Range(batch) \cup Undealt'
  <2> DEFINE rest == {level_nodes[i] :
                        i \in task_index + NTasks + 1 .. Len(level_nodes)}
  <2>1. Undealt = Range(batch) \cup rest
    BY Zenon, <1>1, <1>2, BatchRange DEF Undealt, batch
  <2>2. CASE spc' = "enqueue"
    BY Zenon, <1>1, <2>1, <2>2 DEF Undealt, level_nodes
  <2>3. CASE spc' = "wake"
    <3>1. task_index + NTasks = Len(level_nodes) /\ Len(level_nodes) \in Int
      BY <1>1, <1>2, <2>3
    <3>2. rest = {}
      BY <3>1
    <3>3. Undealt' = {}
      BY <2>3 DEF Undealt
    <3> QED  BY Zenon, <2>1, <3>2, <3>3
  <2> QED  BY <1>1, <2>2, <2>3
<1>8. LevelRunning /\ LevelRunning'
  BY <1>1 DEF LevelRunning
<1>9. NodesBelow(current_level)' = NodesBelow(current_level)
  BY <1>1 DEF NodesBelow
<1>10. WorkConserved'
  BY <1>1, <1>6, <1>7, <1>8, <1>9 DEF WorkInv, WorkConserved
<1> QED  BY <1>3, <1>4, <1>5, <1>10 DEF WorkInv

(***************************************************************************)
(* The other steps of the owner: they deal and collect no node.            *)
(***************************************************************************)
LEMMA OwnerKeepsWork ==
  ASSUME Inv, WorkInv,
         UNCHANGED <<task_queue, active_node, ran, nodes, current_level, scheduled>>,
         \A t \in Threads : wpc'[t] = "node" <=> wpc[t] = "node",
         spc # "enqueue", spc' # "enqueue",
         \/ LevelRunning' <=> LevelRunning
         \/ ~ LevelRunning' /\ Held = {}
  PROVE  ListsExact' /\ WorkConserved'
<1>1. Held' = Held
  BY HeldUntouched
<1>2. Undealt = {} /\ Undealt' = {}
  BY DEF Undealt
<1>3. NodesBelow(current_level)' = NodesBelow(current_level)
  BY DEF NodesBelow
<1>4. ListsExact'
  BY DEF WorkInv, ListsExact
<1>5. WorkConserved'
  BY <1>1, <1>2, <1>3 DEF WorkInv, WorkConserved
<1> QED  BY <1>4, <1>5

\* Every step of the system keeps the invariant of the work.
LEMMA WorkStep ==
  ASSUME Inv, WorkInv, [Next]_vars
  PROVE  WorkInv'
<1>0. /\ BuildPhase /\ QueueDrained /\ ListsExact /\ WorkConserved
      /\ wpc \in [Threads -> WorkerPc]
      /\ state \in [Threads -> ThreadState]
      /\ tid \in Threads
      /\ \A t \in Threads : t \in Int /\ 0 <= t /\ t <= NThread - 1
      /\ NThread \in Nat
  BY NThreadAssumption
  DEF WorkInv, Inv, TypeInv, SchedulerTypeOK, WorkerTypeOK, Threads
<1>e. ASSUME ~ LevelRunning
      PROVE  /\ Held = {}
             /\ \A t \in Threads : task_queue[t] = <<>> /\ wpc[t] # "node"
  BY <1>0, <1>e, HeldNothing DEF WorkConserved
<1>1. CASE CreateThread
  <2>1. /\ spc = "ctor" /\ spc' \in {"ctor", "w4check"}
        /\ wpc[tid] = "new" /\ wpc' = [wpc EXCEPT ![tid] = "loop"]
        /\ UNCHANGED <<state, task_queue, active_node, ran, nodes, current_level,
                       scheduled, wake_state>>
        /\ wake_state = "WAIT"
    BY <1>0, <1>1 DEF CreateThread, ThreadInit, GoTo, BuildPhase
  <2>2. ~ LevelRunning /\ ~ LevelRunning'
    BY <2>1 DEF LevelRunning
  <2>3. ListsExact' /\ WorkConserved'
    <3>1. \A t \in Threads : wpc'[t] = "node" <=> wpc[t] = "node"
      BY <1>0, <2>1
    <3> QED  BY <2>1, <2>2, <3>1, OwnerKeepsWork
  <2>4. QueueDrained'
    BY <1>e, <2>1, <2>2 DEF QueueDrained
  <2>5. BuildPhase'
    BY <1>0, <2>1 DEF BuildPhase
  <2> QED  BY <2>3, <2>4, <2>5 DEF WorkInv
<1>2. CASE Wait4Check
  <2>1. /\ spc = "w4check"
        /\ spc' = IF pending_threads = 0 THEN "idle" ELSE "w4block"
        /\ UNCHANGED <<wpc, state, task_queue, active_node, ran, nodes,
                       current_level, scheduled, wake_state, tid>>
    BY <1>2 DEF Wait4Check, workerVars
  <2>2. CASE pending_threads = 0
    <3>1. Held = {}
      BY <2>1, <2>2, AllDrained
    <3>2. \A t \in Threads : Waiting(t)
      BY <2>1, <2>2, ZeroMeansAllWait DEF Inv, ProtocolInv, DestroyPhase
    <3>3. spc' = "idle" /\ ~ LevelRunning'
      BY <2>1, <2>2 DEF LevelRunning
    <3>4. ListsExact' /\ WorkConserved'
      BY <2>1, <3>1, <3>3, OwnerKeepsWork
    <3>5. QueueDrained'
      BY <1>0, <2>1, <3>3 DEF QueueDrained, Woken, Waiting
    <3>6. BuildPhase'
      BY <1>0, <2>1, <3>2, <3>3 DEF BuildPhase, Waiting
    <3> QED  BY <3>4, <3>5, <3>6 DEF WorkInv
  <2>3. CASE pending_threads # 0
    <3>1. spc' = "w4block" /\ (LevelRunning' <=> LevelRunning)
      BY <2>1, <2>3 DEF LevelRunning
    <3>2. ListsExact' /\ WorkConserved'
      BY <2>1, <3>1, OwnerKeepsWork
    <3>3. BuildPhase' /\ QueueDrained'
      BY <1>0, <2>1, <3>1 DEF BuildPhase, QueueDrained, Woken, Waiting
    <3> QED  BY <3>2, <3>3 DEF WorkInv
  <2> QED  BY <2>2, <2>3
<1>3. CASE Wait4Block \/ Wait4Return \/ OwnerSpuriousWakeup
  <2>1. /\ spc \in {"w4block", "w4asleep"} /\ spc' \in {"w4asleep", "w4check"}
        /\ UNCHANGED <<wpc, state, task_queue, active_node, ran, nodes,
                       current_level, scheduled, wake_state, tid>>
    BY <1>3 DEF Wait4Block, Wait4Return, OwnerSpuriousWakeup, workerVars,
      ownerVars
  <2>2. LevelRunning' <=> LevelRunning
    BY <2>1 DEF LevelRunning
  <2>3. ListsExact' /\ WorkConserved'
    BY <2>1, <2>2, OwnerKeepsWork
  <2>4. BuildPhase' /\ QueueDrained'
    BY <1>0, <2>1 DEF BuildPhase, QueueDrained, Woken, Waiting
  <2> QED  BY <2>3, <2>4 DEF WorkInv
<1>4. CASE Schedule
  BY <1>4, ScheduleWork
<1>5. CASE EnqueueBatch
  BY <1>5, EnqueueWork
<1>6. CASE WakeThread
  <2>1. /\ spc = "wake" /\ spc' = "wakesig"
        /\ state' = [state EXCEPT ![tid] = wake_state]
        /\ UNCHANGED <<wpc, task_queue, active_node, ran, nodes, current_level,
                       scheduled, wake_state, tid>>
        /\ wake_state \in {"BUILD", "TEST", "EXIT"}
        /\ Unwoken(tid)
    BY <1>0, <1>6 DEF WakeThread, WakeSetState, Inv, ProtocolInv, DestroyPhase,
      WakeOrder
  <2>2. LevelRunning' <=> LevelRunning
    BY <2>1 DEF LevelRunning
  <2>3. ListsExact' /\ WorkConserved'
    BY <2>1, <2>2, OwnerKeepsWork
  <2>4. BuildPhase'
    BY <1>0, <2>1 DEF BuildPhase, Unwoken, WaitPc
  <2>5. wake_state = "TEST" => task_queue[tid] = <<>>
    BY <1>0, <1>e, <2>1 DEF LevelRunning
  <2>6. \A t \in Threads : Woken(t)' => Woken(t) \/ t = tid
    BY <1>0, <2>1 DEF Woken
  <2>7. \A t \in Threads : Waiting(t)' => Waiting(t) /\ t # tid
    BY <1>0, <2>1 DEF Waiting
  <2>8. QueueDrained'
    BY <1>0, <2>1, <2>5, <2>6, <2>7 DEF QueueDrained, Unwoken, WaitPc
  <2> QED  BY <2>3, <2>4, <2>8 DEF WorkInv
<1>7. CASE SignalThread
  <2>1. /\ spc = "wakesig"
        /\ spc' = CASE tid < NThread - 1     -> "wake"
                    [] wake_state = "EXIT"   -> "delete"
                    [] OTHER                 -> "w4check"
        /\ wpc' = [wpc EXCEPT ![tid] = IF @ = "asleep" THEN "relock" ELSE @]
        /\ UNCHANGED <<state, task_queue, active_node, ran, nodes, current_level,
                       scheduled, wake_state>>
        /\ tid' = NextTid(tid)
    BY <1>7 DEF SignalThread, WakeSignal
  <2>2. LevelRunning' <=> LevelRunning
    BY <2>1 DEF LevelRunning
  <2>3. ListsExact' /\ WorkConserved'
    <3>1. \A t \in Threads : wpc'[t] = "node" <=> wpc[t] = "node"
      BY <1>0, <2>1
    <3> QED  BY <2>1, <2>2, <3>1, OwnerKeepsWork
  <2>4. BuildPhase'
    BY <1>0, <2>1 DEF BuildPhase
  <2>5. \A t \in Threads : Woken(t)' => Woken(t)
    BY <1>0, <2>1 DEF Woken, NextTid
  <2>6. \A t \in Threads : Waiting(t)' => Waiting(t)
    BY <1>0, <2>1 DEF Waiting
  <2>7. QueueDrained'
    BY <1>0, <2>1, <2>5, <2>6 DEF QueueDrained
  <2> QED  BY <2>3, <2>4, <2>7 DEF WorkInv
<1>8. CASE RunTest \/ Destroy
  <2>1. /\ spc = "idle" /\ spc' = "wake" /\ tid' = 0
        /\ wake_state' \in {"TEST", "EXIT"}
        /\ UNCHANGED <<wpc, state, task_queue, active_node, ran, nodes,
                       current_level, scheduled>>
        /\ \A t \in Threads : Waiting(t)
    BY <1>8 DEF RunTest, Destroy, workerVars, Inv, ProtocolInv, BarrierHolds
  <2>2. ~ LevelRunning' /\ ~ LevelRunning
    BY <2>1 DEF LevelRunning
  <2>3. ListsExact' /\ WorkConserved'
    BY <2>1, <2>2, OwnerKeepsWork
  <2>4. BuildPhase'
    BY <1>0, <2>1 DEF BuildPhase, Waiting
  <2>5. QueueDrained'
    BY <1>e, <2>1, <2>2 DEF QueueDrained
  <2> QED  BY <2>3, <2>4, <2>5 DEF WorkInv
<1>9. CASE DeleteThread
  <2>1. /\ spc = "delete" /\ spc' \in {"delete", "destroyed"}
        /\ wpc' = [wpc EXCEPT ![tid] = IF @ = "exited" THEN @ ELSE "wild"]
        /\ UNCHANGED <<state, task_queue, active_node, ran, nodes, current_level,
                       scheduled, wake_state>>
        /\ wake_state = "EXIT"
    BY <1>9 DEF DeleteThread, ThreadDelete, Inv, ProtocolInv, DestroyPhase
  <2>2. ~ LevelRunning' /\ ~ LevelRunning
    BY <2>1 DEF LevelRunning
  <2>3. ListsExact' /\ WorkConserved'
    <3>1. \A t \in Threads : wpc'[t] = "node" <=> wpc[t] = "node"
      BY <1>0, <1>e, <2>1, <2>2
    <3> QED  BY <2>1, <2>2, <3>1, OwnerKeepsWork
  <2>4. BuildPhase'
    BY <1>0, <2>1 DEF BuildPhase
  <2>5. QueueDrained'
    BY <1>e, <2>1, <2>2 DEF QueueDrained
  <2> QED  BY <2>3, <2>4, <2>5 DEF WorkInv
<1>10. CASE \E t \in Threads :
              (WorkerStep(t) \/ SpuriousWakeup(t)) /\ UNCHANGED ownerVars
  <2>1. PICK t \in Threads :
          (WorkerStep(t) \/ SpuriousWakeup(t)) /\ UNCHANGED ownerVars
    BY <1>10
  <2>2. BuildPhase' /\ QueueDrained' /\ WorkConserved'
    BY <1>0, <2>1, WorkerDrains, WorkerConserves
  <2>3. ListsExact'
    BY <1>0, <2>1 DEF ListsExact, ownerVars
  <2> QED  BY <2>2, <2>3 DEF WorkInv
<1>11. CASE UNCHANGED vars
  <2>1. /\ UNCHANGED <<wpc, state, task_queue, active_node, ran>>
        /\ UNCHANGED <<spc, tid, wake_state, nodes, current_level, scheduled,
                       task_index>>
    BY <1>11 DEF vars, workerVars, ownerVars
  <2>2. Held' = Held
    BY <2>1, HeldUntouched
  <2>3. /\ Undealt' = Undealt /\ (LevelRunning' <=> LevelRunning)
        /\ NodesBelow(current_level)' = NodesBelow(current_level)
    BY <2>1 DEF Undealt, level_nodes, LevelRunning, NodesBelow
  <2>4. WorkConserved'
    BY <1>0, <2>1, <2>2, <2>3 DEF WorkConserved
  <2>5. BuildPhase' /\ QueueDrained' /\ ListsExact'
    BY <1>0, <2>1 DEF BuildPhase, QueueDrained, ListsExact, Woken, Waiting
  <2> QED  BY <2>4, <2>5 DEF WorkInv
<1> QED
  BY <1>1, <1>2, <1>3, <1>4, <1>5, <1>6, <1>7, <1>8, <1>9, <1>10, <1>11
  DEF Next, OwnerStep, OwnerCall

\* At first there is no node anywhere.
LEMMA WorkInit == Init => WorkInv
<1> SUFFICES ASSUME Init PROVE WorkInv
  OBVIOUS
<1>1. /\ \A t \in Threads : /\ wpc[t] = "new" /\ state[t] = "WAIT"
                            /\ task_queue[t] = <<>>
      /\ ran = {} /\ spc = "ctor" /\ wake_state = "WAIT"
      /\ current_level = 0 /\ nodes = <<>>
  BY DEF Init, WorkerInit
<1>2. Held = {}
  BY <1>1, RangeEmpty DEF Held, HeldBy
<1>3. /\ Undealt = {} /\ ~ LevelRunning
      /\ NodesBelow(current_level) = {}
  BY <1>1 DEF Undealt, LevelRunning, NodesBelow
<1>4. BuildPhase /\ QueueDrained
  BY <1>1 DEF BuildPhase, QueueDrained
<1>5. ListsExact
  BY <1>1 DEF ListsExact
<1> QED  BY <1>1, <1>2, <1>3, <1>4, <1>5 DEF WorkInv, WorkConserved

\* WorkInv is inductive together with Inv.
LEMMA WorkAlways == Spec => [](Inv /\ WorkInv)
<1>1. Init => Inv /\ WorkInv
  BY TypeInit, ProtocolInit, WorkInit DEF Inv
<1>2. Inv /\ WorkInv /\ [Next]_vars => (Inv /\ WorkInv)'
  BY TypeStep, ProtocolStep, WorkStep DEF Inv
<1> QED  BY <1>1, <1>2, PTL DEF Spec

(***************************************************************************)
(* When schedule() has returned, exactly the nodes of the full levels have *)
(* been run, by whichever workers, and no queue holds a node back.         *)
(***************************************************************************)
THEOREM LevelsCorrect == Spec => []LevelsComplete
<1>1. Inv /\ WorkInv => LevelsComplete
  <2> SUFFICES ASSUME Inv, WorkInv, spc = "idle"
               PROVE  /\ ran = NodesBelow(current_level)
                      /\ \A t \in Threads : task_queue[t] = <<>>
    BY DEF LevelsComplete
  <2>1. ~ LevelRunning /\ Undealt = {}
    BY DEF LevelRunning, Undealt
  <2>2. Held = {}
    BY <2>1 DEF WorkInv, WorkConserved
  <2>3. \A t \in Threads : task_queue[t] = <<>>
    BY <2>2, HeldNothing
  <2> QED  BY <2>1, <2>2, <2>3 DEF WorkInv, WorkConserved
<1> QED  BY <1>1, WorkAlways, PTL

-----------------------------------------------------------------------------
(***************************************************************************)
(* The refinement of LevelBarrier.  Most steps change nothing it shows.    *)
(***************************************************************************)
LEMMA BarrierStutters ==
  ASSUME UNCHANGED <<ran, nodes, current_level>>,
         LevelRunning' <=> LevelRunning, Destroying' <=> Destroying
  PROVE  UNCHANGED Barrier!vars
<1>1. Level' = Level
  BY DEF Level
<1>2. Current' = Current
  BY <1>1 DEF Current
<1>3. Phase' = Phase
  BY DEF Phase
<1> QED  BY <1>1, <1>2, <1>3 DEF Barrier!vars

\* schedule() adds a node to the open level and may so fill it.
LEMMA ScheduleAdds ==
  ASSUME Inv, WorkInv, Schedule
  PROVE  Barrier!Add(scheduled + 1) /\ scheduled + 1 \in 1 .. MaxNodes
<1> DEFINE l == current_level
           n == scheduled + 1
<1>1. /\ spc = "idle" /\ ran' = ran /\ parent_cond' = parent_cond
      /\ wake_state' = wake_state
      /\ IF LevelIsFull(nodes', l)
           THEN current_level' = l + 1 /\ spc' = "enqueue"
           ELSE current_level' = l /\ spc' = "idle"
      /\ l \in Nat /\ scheduled \in Nat /\ n \in 1 .. MaxNodes
  BY SchedulerAssumption DEF Schedule, workerVars, Inv, TypeInv, SchedulerTypeOK
<1>2. /\ Len(nodes') = l + 1
      /\ Range(nodes'[l + 1]) = Filling \cup {n}
      /\ Filling \subseteq 1 .. scheduled
      /\ Cardinality(Range(nodes'[l + 1])) = Len(nodes'[l + 1])
  BY ScheduleLists DEF WorkInv
<1>3. /\ ~ Destroying /\ ~ Destroying'
      /\ ~ LevelRunning
      /\ LevelRunning' <=> LevelIsFull(nodes', l)
  BY <1>1 DEF Inv, ProtocolInv, DestroyPhase, Destroying, LevelRunning
<1>4. Level = l /\ Current = Filling /\ Phase = "filling"
  BY <1>1, <1>3 DEF Level, Current, Filling, Phase
<1>5. Level' = l
  BY <1>1, <1>3 DEF Level
<1>6. Current' = Filling \cup {n}
  BY <1>1, <1>2, <1>5 DEF Current
<1>7. Phase' = IF Cardinality(Current') = Fanout ^ l THEN "running" ELSE "filling"
  BY <1>2, <1>3, <1>6 DEF Phase, LevelIsFull
<1>8. n \notin Current \cup ran
  <2>1. /\ ran \subseteq NodesBelow(l)
        /\ Len(nodes) \in {l, l + 1}
    BY DEF WorkInv, WorkConserved, Inv, TypeInv, LevelShape
  <2>2. NodesBelow(l) \subseteq 1 .. scheduled
    <3>1. \A i \in 1 .. l : i \in 1 .. Len(nodes)
      BY <1>1, <2>1
    <3> QED  BY <3>1 DEF NodesBelow, WorkInv, ListsExact
  <2> QED  BY <1>1, <1>2, <1>4, <2>1, <2>2
<1>9. /\ Current' = Current \cup {n}
      /\ Phase' = IF Cardinality(Current') = Fanout ^ Level
                    THEN "running" ELSE "filling"
      /\ Level' = Level
  BY <1>4, <1>5, <1>6, <1>7
<1>10. Barrier!Cardinality(Current') = Cardinality(Current')
  BY DEF Barrier!Cardinality, Cardinality
<1> QED  BY <1>1, <1>4, <1>8, <1>9, <1>10 DEF Barrier!Add

\* A worker that finishes a node runs a node of the level.
LEMMA RunNodeRuns ==
  ASSUME Inv, WorkInv, NEW t \in Threads, RunNode(t), UNCHANGED ownerVars
  PROVE  \/ \E n \in Current : Barrier!RunNode(n)
         \/ UNCHANGED Barrier!vars
<1>1. /\ wpc[t] = "node" /\ ran' = ran \cup {active_node[t]}
      /\ parent_cond' = parent_cond
      /\ UNCHANGED <<spc, current_level, nodes, wake_state>>
  BY DEF RunNode, ownerVars
<1>2. wake_state = "BUILD" /\ spc \notin {"idle", "enqueue"}
  BY <1>1 DEF WorkInv, BuildPhase
<1>3. /\ LevelRunning /\ LevelRunning' /\ ~ Destroying /\ ~ Destroying'
  BY <1>1, <1>2 DEF LevelRunning, Inv, ProtocolInv, DestroyPhase, Destroying
<1>4. /\ Level = current_level - 1 /\ current_level \in Nat
      /\ Len(nodes) = current_level
      /\ Held \subseteq Range(nodes[current_level])
  BY <1>3 DEF Level, WorkInv, WorkConserved, Inv, TypeInv, SchedulerTypeOK
<1>5. Current = Range(nodes[current_level])
  BY <1>4 DEF Current
<1>6. active_node[t] \in Current
  BY <1>1, <1>4, <1>5 DEF Held, HeldBy
<1>7. Phase = "running" /\ Phase' = Phase /\ Level' = Level
  BY <1>1, <1>3 DEF Phase, Level
<1>8. Current' = Current
  BY <1>1, <1>7 DEF Current
<1>9. CASE active_node[t] \in ran
  BY <1>1, <1>7, <1>8, <1>9 DEF Barrier!vars
<1>10. CASE active_node[t] \notin ran
  BY <1>1, <1>6, <1>7, <1>8, <1>10 DEF Barrier!RunNode
<1> QED  BY <1>9, <1>10

\* wait4completion() returns from a level that has been run.
LEMMA WaitCompletes ==
  ASSUME Inv, WorkInv, Wait4Check
  PROVE  Barrier!NextLevel \/ UNCHANGED Barrier!vars
<1>1. /\ spc = "w4check"
      /\ spc' = IF pending_threads = 0 THEN "idle" ELSE "w4block"
      /\ UNCHANGED <<ran, nodes, current_level, wake_state, parent_cond>>
  BY DEF Wait4Check, workerVars
<1>2. ~ Destroying /\ ~ Destroying'
  BY <1>1 DEF Inv, ProtocolInv, DestroyPhase, Destroying
<1>3. CASE pending_threads # 0 \/ wake_state # "BUILD"
  <2>1. LevelRunning' <=> LevelRunning
    BY <1>1, <1>3 DEF LevelRunning
  <2> QED  BY <1>1, <1>2, <2>1, BarrierStutters
<1>4. CASE pending_threads = 0 /\ wake_state = "BUILD"
  <2>1. LevelRunning /\ ~ LevelRunning'
    BY <1>1, <1>4 DEF LevelRunning
  <2>2. /\ Len(nodes) = current_level /\ current_level \in Nat \ {0}
        /\ Held = {} /\ Undealt = {}
        /\ ran = NodesBelow(current_level)
    <3>1. Held = {}
      BY <1>1, <1>4, AllDrained
    <3>2. Undealt = {}
      BY <1>1 DEF Undealt
    <3> QED
      BY <2>1, <3>1, <3>2 DEF WorkInv, WorkConserved, Inv, TypeInv,
        SchedulerTypeOK
  <2>3. /\ Level = current_level - 1 /\ Level' = current_level
        /\ Phase = "running" /\ Phase' = "filling"
    BY <1>1, <1>2, <2>1 DEF Level, Phase
  <2>4. Current = Range(nodes[current_level]) /\ Current' = {}
    BY <1>1, <2>2, <2>3 DEF Current
  <2>5. Current \subseteq ran
    BY <2>2, <2>4 DEF NodesBelow
  <2> QED  BY <1>1, <2>2, <2>3, <2>4, <2>5 DEF Barrier!NextLevel
<1> QED  BY <1>3, <1>4

\* Every step of the Scheduler and its workers is a step of LevelBarrier or
\* changes nothing of it.
LEMMA BarrierStep ==
  ASSUME Inv, WorkInv, [Next]_vars
  PROVE  [Barrier!Next]_Barrier!vars
<1>1. CASE Schedule
  BY <1>1, ScheduleAdds DEF Barrier!Next
<1>2. CASE Wait4Check
  BY <1>2, WaitCompletes DEF Barrier!Next
<1>3. CASE Destroy
  <2>1. /\ spc = "idle" /\ spc' = "wake" /\ wake_state' = "EXIT"
        /\ UNCHANGED <<ran, nodes, current_level>>
        /\ ~ Destroying /\ Destroying'
    BY <1>3 DEF Destroy, Destroying, Inv, ProtocolInv, DestroyPhase
  <2>2. ~ LevelRunning /\ ~ LevelRunning'
    BY <2>1 DEF LevelRunning
  <2>3. Level' = Level /\ Phase = "filling" /\ Phase' = "closed"
    BY <2>1, <2>2 DEF Level, Phase
  <2>4. Current' = Current
    BY <2>1, <2>3 DEF Current
  <2> QED  BY <2>1, <2>3, <2>4 DEF Barrier!Next, Barrier!Close
<1>4. CASE \E t \in Threads :
             (WorkerStep(t) \/ SpuriousWakeup(t)) /\ UNCHANGED ownerVars
  <2>1. PICK t \in Threads :
          (WorkerStep(t) \/ SpuriousWakeup(t)) /\ UNCHANGED ownerVars
    BY <1>4
  <2>2. CASE RunNode(t)
    BY <2>1, <2>2, RunNodeRuns DEF Barrier!Next
  <2>3. CASE ~ RunNode(t)
    <3>1. ran' = ran
      BY <2>1, <2>3 DEF WorkerStep, LoopCheck, ExitCheck, Run, RequestTask,
        Dequeue, WaitEnter, WaitReadPending, WaitSignalParent, WaitCheck,
        Relock, SpuriousWakeup
    <3>2. Destroying' <=> Destroying
      BY <2>1, WorkerStays DEF Inv
    <3>3. LevelRunning' <=> LevelRunning
      BY <2>1 DEF LevelRunning, ownerVars
    <3> QED  BY <2>1, <3>1, <3>2, <3>3, BarrierStutters DEF ownerVars
  <2> QED  BY <2>2, <2>3
<1>5. CASE CreateThread \/ Wait4Block \/ Wait4Return \/ OwnerSpuriousWakeup
           \/ EnqueueBatch \/ WakeThread \/ SignalThread \/ RunTest
           \/ DeleteThread
  <2> USE DEF workerVars, ownerVars, ThreadInit, GoTo, Enqueue, WakeSetState,
          WakeSignal, ThreadDelete
  <2>1. UNCHANGED <<ran, nodes, current_level>>
    BY <1>5 DEF CreateThread, Wait4Block, Wait4Return, OwnerSpuriousWakeup,
      EnqueueBatch, WakeThread, SignalThread, RunTest, DeleteThread
  <2>2. Destroying' <=> Destroying
    <3>1. spc \in {"w4block", "w4asleep"} => ~ Destroying
      BY DEF Inv, ProtocolInv, DestroyPhase
    <3> QED
      BY <1>5, <3>1 DEF CreateThread, Wait4Block, Wait4Return,
        OwnerSpuriousWakeup, EnqueueBatch, WakeThread, SignalThread, RunTest,
        DeleteThread, Destroying
  <2>3. LevelRunning' <=> LevelRunning
    BY <1>5 DEF CreateThread, Wait4Block, Wait4Return, OwnerSpuriousWakeup,
      EnqueueBatch, WakeThread, SignalThread, RunTest, DeleteThread, LevelRunning
  <2> QED  BY <2>1, <2>2, <2>3, BarrierStutters
<1>6. CASE UNCHANGED vars
  <2>1. /\ UNCHANGED <<ran, nodes, current_level>>
        /\ LevelRunning' <=> LevelRunning
        /\ Destroying' <=> Destroying
    BY <1>6 DEF vars, workerVars, ownerVars, LevelRunning, Destroying
  <2> QED  BY <2>1, BarrierStutters
<1> QED
  BY <1>1, <1>2, <1>3, <1>4, <1>5, <1>6 DEF Next, OwnerStep, OwnerCall

(***************************************************************************)
(* The threads, queues, wakeups and the counter together implement         *)
(* LevelBarrier: levels are filled one after the other, every node of a    *)
(* full level is run, and the next level opens only when all have been.    *)
(***************************************************************************)
THEOREM BarrierImplemented == Spec => ImplementsBarrier
<1>1. Init => Barrier!Init
  <2> SUFFICES ASSUME Init PROVE Barrier!Init
    OBVIOUS
  <2>1. /\ parent_cond = "empty" /\ ran = {} /\ spc = "ctor"
        /\ wake_state = "WAIT" /\ current_level = 0 /\ nodes = <<>>
    BY DEF Init, WorkerInit
  <2>2. ~ LevelRunning /\ ~ Destroying
    BY <2>1 DEF LevelRunning, Destroying
  <2>3. Level = 0 /\ Phase = "filling"
    BY <2>1, <2>2 DEF Level, Phase
  <2>4. Current = {}
    BY <2>1, <2>3 DEF Current
  <2> QED  BY <2>1, <2>3, <2>4 DEF Barrier!Init
<1>2. Inv /\ WorkInv /\ [Next]_vars => [Barrier!Next]_Barrier!vars
  BY BarrierStep
<1> QED  BY <1>1, <1>2, WorkAlways, PTL DEF Spec, ImplementsBarrier, Barrier!Spec
=============================================================================
