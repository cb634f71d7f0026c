------------------------------- MODULE KdTree -------------------------------
(***************************************************************************)
(* BinaryTreeProgram::build() with the nodes of the k-d tree example       *)
(* (BinaryTreeProgram.hpp, structures/NodeView.cpp, examples/kdtree.cpp).  *)
(*                                                                         *)
(* The Scheduler appears here as LevelBarrier describes it and             *)
(* Scheduler.tla implements it: schedule() files a node and, when the      *)
(* level is full, has run every node of the level when it returns.         *)
(*                                                                         *)
(* A node's sort is an arbitrary sequence sorted by value, since std::sort *)
(* promises nothing about samples with equal values.                       *)
(***************************************************************************)
EXTENDS Integers, Sequences, FiniteSets, Functions

CONSTANTS
  Matrices,                 \* data sets: sequences of rows of equal length
  MaxDepths                 \* values of Params::max_depth

VARIABLES
  data,                     \* the matrix read by ioer
  max_depth,
  heap,                     \* all nodes ever created; a node is an index
  nodes,                    \* Scheduler::nodes, by level
  current_level,            \* Scheduler::current_level
  running,                  \* nodes of the level the workers have to run
  pending,                  \* nodes the second loop of build() has to schedule
  bpc                       \* where build() is

buildVars == <<data, max_depth, heap, nodes, current_level, running, pending,
               bpc>>

\* A node sorts its samples with IndexVector::sort().
IV == INSTANCE IndexVector WITH
  Index <- {}, Vals <- {}, MaxLen <- 0, iv <- heap, found <- FALSE

Null == 0
Root == 1

NSamples == Len(data)
NFeatures == Len(data[1])

\* The comparator of a node that has not run; the values of data are naturals.
Undefined == -1

NewNode(depth, split_dim, ids) ==
  [depth |-> depth, split_dim |-> split_dim, ids |-> ids,
   left |-> Null, right |-> Null, comparator |-> Undefined]

\* The root holds no samples: prep() gives it all of them.  Its dimension is drawn
\* by RandomSplit, whose range ends one past the last feature: main() then ends in the
\* exception of cunsigned's constructor, and no tree is built.
Init ==
  /\ data \in Matrices
  /\ max_depth \in MaxDepths
  /\ \E d \in 0 .. NFeatures - 1 : heap = <<NewNode(0, d, <<>>)>>
  /\ nodes = <<>>
  /\ current_level = 0
  /\ running = <<>>
  /\ pending = <<Root>>
  /\ bpc = "schedule"

-----------------------------------------------------------------------------
Val(s, dim) == data[s][dim + 1]

\* sort_data_index(): the orders in which the sort by one column may leave ids.
Sorted(ids, dim) == IV!SortOrders([s \in Range(ids) |-> Val(s, dim)])

\* NodeView::prep(): an empty index is filled with all samples.
PrepIds(n) ==
  IF heap[n].ids = <<>> THEN [i \in 1 .. NSamples |-> i] ELSE heap[n].ids

\* prep() and kdnode::run(): the comparator is the value in the middle.
RunWith(n, order) ==
  [heap[n] EXCEPT !.ids = order,
                  !.comparator = Val(order[Len(order) \div 2 + 1],
                                     heap[n].split_dim)]

AddNode(ns, level, node) ==
  IF level + 1 > Len(ns) THEN Append(ns, <<node>>)
                         ELSE [ns EXCEPT ![level + 1] = Append(@, node)]

LevelIsFull(ns, level) == 2 ^ level = Len(ns[level + 1])

AfterRun == IF pending = <<>> THEN "spawn" ELSE "schedule"

\* scheduler->schedule() of the next node.
Schedule ==
  /\ bpc = "schedule"
  /\ nodes' = AddNode(nodes, current_level, Head(pending))
  /\ pending' = Tail(pending)
  /\ IF LevelIsFull(nodes', current_level)
       THEN /\ running' = nodes'[current_level + 1]
            /\ current_level' = current_level + 1
            /\ bpc' = "run"
       ELSE /\ bpc' = AfterRun'
            /\ UNCHANGED <<running, current_level>>
  /\ UNCHANGED <<data, max_depth, heap>>

\* The workers run the nodes of the level.  A node's prep() and run() touch
\* only that node, so one order stands for all.
RunNode ==
  /\ bpc = "run"
  /\ LET n == Head(running)
     IN  \E order \in Sorted(PrepIds(n), heap[n].split_dim) :
           heap' = [heap EXCEPT ![n] = RunWith(n, order)]
  /\ running' = Tail(running)
  /\ bpc' = IF Tail(running) = <<>> THEN AfterRun ELSE "run"
  /\ UNCHANGED <<data, max_depth, nodes, current_level, pending>>

-----------------------------------------------------------------------------

\* build()'s test for the end of a branch.
Spawns(n) == heap[n].depth < max_depth /\ Len(heap[n].ids) > 1

\* kdnode::spawn(): the first size/2 samples go left, the others right.
Mid(n) == Len(heap[n].ids) \div 2

NextSplit(n) ==
  IF heap[n].split_dim + 1 = NFeatures THEN 0 ELSE heap[n].split_dim + 1

\* Mutant of LeftChild: the sample in the middle goes left as well.
LeftChild_Overlap(n) ==
  NewNode(heap[n].depth + 1, NextSplit(n), SubSeq(heap[n].ids, 1, Mid(n) + 1))

LeftChild(n) ==
  NewNode(heap[n].depth + 1, NextSplit(n), SubSeq(heap[n].ids, 1, Mid(n)))

RightChild(n) ==
  NewNode(heap[n].depth + 1, NextSplit(n),
          SubSeq(heap[n].ids, Mid(n) + 1, Len(heap[n].ids)))

\* The nodes of the processed level, in order.
procd_level == current_level - 1
procd_nodes == nodes[procd_level + 1]

Parents == SelectSeq(procd_nodes, Spawns)

\* New children take the next free places: those of the i-th parent are
\* Len(heap) + 2i - 1 and Len(heap) + 2i.
Spawned ==
  [n \in 1 .. Len(heap) + 2 * Len(Parents) |->
     IF n > Len(heap)
       THEN LET p == Parents[(n - Len(heap) + 1) \div 2]
            IN  IF (n - Len(heap)) % 2 = 1 THEN LeftChild(p) ELSE RightChild(p)
       ELSE IF \E i \in DOMAIN Parents : Parents[i] = n
              THEN LET i == CHOOSE i \in DOMAIN Parents : Parents[i] = n
                   IN  [heap[n] EXCEPT !.left = Len(heap) + 2 * i - 1,
                                       !.right = Len(heap) + 2 * i]
              ELSE heap[n]]

\* Mutant of Spawn: one_spawned is not reset.
Spawn_NoReset ==
  /\ bpc = "spawn"
  /\ heap' = Spawned
  /\ IF procd_level = max_depth \/ (Parents = <<>> /\ procd_level = 0)
       THEN /\ bpc' = "built"
            /\ UNCHANGED pending
       ELSE /\ bpc' = IF Parents = <<>> THEN "spawn" ELSE "schedule"
            /\ pending' = [i \in 1 .. 2 * Len(Parents) |-> Len(heap) + i]
  /\ UNCHANGED <<data, max_depth, nodes, current_level, running>>

(***************************************************************************)
(* One turn of build()'s loop.  The parallel loop is one step: its         *)
(* iterations touch different nodes, and all that one_spawned can become   *)
(* is TRUE.  The nodes scheduled next are the children the nodes of the    *)
(* level have now.                                                         *)
(***************************************************************************)
Spawn ==
  /\ bpc = "spawn"
  /\ heap' = Spawned
  /\ IF procd_level = max_depth \/ Parents = <<>>
       THEN /\ bpc' = "built"
            /\ UNCHANGED pending
       ELSE /\ bpc' = "schedule"
            /\ pending' = [i \in 1 .. 2 * Len(Parents) |-> Len(heap) + i]
  /\ UNCHANGED <<data, max_depth, nodes, current_level, running>>

BuildNext == Schedule \/ RunNode \/ Spawn

BuildSpec == Init /\ [][BuildNext]_buildVars /\ WF_buildVars(BuildNext)

-----------------------------------------------------------------------------
\* The nodes of the subtree below n, n included.
SubTree ==
  LET f[n \in DOMAIN heap] ==
        IF heap[n].left = Null
          THEN {n}
          ELSE {n} \cup f[heap[n].left] \cup f[heap[n].right]
  IN  f

Tree == SubTree[Root]
IsLeaf(n) == heap[n].left = Null /\ heap[n].right = Null
LeavesBelow(n) == {l \in SubTree[n] : IsLeaf(l)}
SamplesBelow(n) == UNION {Range(heap[l].ids) : l \in LeavesBelow(n)}

KdTypeOK ==
  /\ bpc \in {"schedule", "run", "spawn", "built"}
  /\ current_level \in Nat
  /\ Len(nodes) \in {current_level, current_level + 1}
  /\ bpc = "spawn" => procd_level <= max_depth       \* build() asserts this
  /\ \A n \in DOMAIN heap :
       /\ heap[n].depth \in 0 .. max_depth
       /\ heap[n].split_dim \in 0 .. NFeatures - 1
       /\ heap[n].left \in {Null} \cup DOMAIN heap
       /\ heap[n].right \in {Null} \cup DOMAIN heap

(***************************************************************************)
(* From the moment the root has run, every sample is in exactly one leaf   *)
(* of the tree, once, although build() spawns the children of a node again *)
(* each time it comes back to a level that did not fill the next one.      *)
(***************************************************************************)
LeavesPartition ==
  /\ KdTypeOK
  /\ heap[Root].ids # <<>> =>
    /\ SamplesBelow(Root) = 1 .. NSamples
    /\ \A l \in LeavesBelow(Root) : Cardinality(Range(heap[l].ids)) = Len(heap[l].ids)
    /\ \A l, m \in LeavesBelow(Root) :
         l # m => Range(heap[l].ids) \cap Range(heap[m].ids) = {}

(***************************************************************************)
(* Every inner node of the tree has been run, and its comparator separates *)
(* the samples below it: none on the left is larger, none on the right is  *)
(* smaller.  A query that compares with <= or > finds its half.            *)
(***************************************************************************)
SplitOrder ==
  \A n \in Tree : ~ IsLeaf(n) =>
    /\ heap[n].comparator # Undefined
    /\ \A s \in SamplesBelow(heap[n].left) :
         Val(s, heap[n].split_dim) <= heap[n].comparator
    /\ \A s \in SamplesBelow(heap[n].right) :
         Val(s, heap[n].split_dim) >= heap[n].comparator

(***************************************************************************)
(* build() stops exactly where its comment says: a leaf of the finished    *)
(* tree is at the maximal depth or has one sample.                         *)
(***************************************************************************)
LeavesTerminal ==
  bpc = "built" =>
    \A l \in LeavesBelow(Root) :
      heap[l].depth = max_depth \/ Len(heap[l].ids) = 1

(***************************************************************************)
(* build() ends, although a level whose nodes do not all spawn never fills *)
(* the next level by one pass over it.                                     *)
(***************************************************************************)

(***************************************************************************)
(* "Have all the nodes in this level been placed in the queue"             *)
(* (level_is_full): a level that has been run held all the nodes the tree  *)
(* has at that level.                                                      *)
(***************************************************************************)
FullLevelHasAll ==
  bpc = "spawn" =>
    {n \in Tree : heap[n].depth = procd_level} \subseteq Range(procd_nodes)
=============================================================================
