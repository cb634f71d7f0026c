------------------------------- MODULE KdQuery ------------------------------
(***************************************************************************)
(* kdTreeProgram::find_neighbors() on a tree that build() has made: the    *)
(* descent to the leaf of the query, and the walk back up over a stack of  *)
(* nodes and a set of completed ones.  The NNVector of the query appears   *)
(* as NearestList describes it and NNVector.tla implements it.             *)
(***************************************************************************)
EXTENDS KdTree, SequencesExt, FiniteSetsExt

CONSTANTS
  Queries,                  \* query samples: rows of data
  Ks,                       \* values of k
  MaxQueries                \* bound on the queries of one tree

VARIABLES
  qsample, k,               \* the query
  result,                   \* its NNVector
  visited, completed, node, \* the locals and the member of find_neighbors()
  todo,                     \* samples of the leaf still to be evaluated
  asked,                    \* number of queries so far
  qpc

queryVars == <<qsample, k, result, visited, completed, node, todo, asked, qpc>>
kdVars == <<buildVars, queryVars>>

NNs == INSTANCE NearestList WITH list <- result, Item <- {}, K <- 0

NoSample == <<>>

KdInit ==
  /\ Init
  /\ qsample = NoSample
  /\ k = 0
  /\ result = <<>>
  /\ visited = <<>>
  /\ completed = {}
  /\ node = Null
  /\ todo = <<>>
  /\ asked = 0
  /\ qpc = "idle"

Build == BuildNext /\ UNCHANGED queryVars

-----------------------------------------------------------------------------
\* The square of distance::euclidean(), which orders the samples as it does.
Distance(s) ==
  FoldFunction(+, 0, [d \in 1 .. NFeatures |-> (qsample[d] - data[s][d]) ^ 2])

\* A new ProximityQuery and ComputeEngine::query().
Query ==
  /\ bpc = "built"
  /\ qpc = "idle"
  /\ asked < MaxQueries
  /\ asked' = asked + 1
  /\ qsample' \in {q \in Queries : Len(q) = NFeatures}
  /\ k' \in Ks
  /\ result' = <<>>
  /\ visited' = <<>>
  /\ completed' = {}
  /\ node' = Root
  /\ todo' = <<>>
  /\ qpc' = "descend"
  /\ UNCHANGED buildVars

(***************************************************************************)
(* A turn of the first loop.  The comparator of a node that has never run  *)
(* has an arbitrary value.                                                 *)
(***************************************************************************)
Descend ==
  /\ qpc = "descend"
  /\ visited' = Append(visited, node)
  /\ \E goes_right \in BOOLEAN :
       /\ heap[node].comparator # Undefined =>
            goes_right = (qsample[heap[node].split_dim + 1] > heap[node].comparator)
       /\ node' = IF goes_right THEN heap[node].right ELSE heap[node].left
  /\ qpc' = IF node' = Null THEN "visit" ELSE "descend"
  /\ UNCHANGED <<buildVars, qsample, k, result, completed, todo, asked>>

\* The children of n that are pushed, left before right.
Pushed(n) ==
  SelectSeq(<<heap[n].left, heap[n].right>>, LAMBDA c : c \notin completed)

\* A turn of the second loop; the samples of a leaf are evaluated in order.
Visit ==
  /\ qpc = "visit"
  /\ todo = <<>>
  /\ visited # <<>>
  /\ LET n == Last(visited)
     IN  /\ IF IsLeaf(n)
              THEN /\ todo' = heap[n].ids
                   /\ visited' = Front(visited)
              ELSE /\ visited' = Front(visited) \o Pushed(n)
                   /\ UNCHANGED todo
         /\ completed' = completed \cup {n}
  /\ UNCHANGED <<buildVars, qsample, k, result, node, asked, qpc>>

Eval ==
  /\ todo # <<>>
  /\ LET s == Head(todo)
     IN  result' = NNs!Keep(result, [index |-> s, val |-> Distance(s)], k)
  /\ todo' = Tail(todo)
  /\ UNCHANGED <<buildVars, qsample, k, visited, completed, node, asked, qpc>>

Return ==
  /\ qpc = "visit"
  /\ visited = <<>> /\ todo = <<>>
  /\ qpc' = "idle"
  /\ UNCHANGED <<buildVars, qsample, k, result, visited, completed, node, todo,
                 asked>>

KdNext == Build \/ Query \/ Descend \/ Visit \/ Eval \/ Return

KdSpec ==
  KdInit /\ [][KdNext]_kdVars /\ WF_kdVars(Descend \/ Visit \/ Eval \/ Return)

-----------------------------------------------------------------------------
Answered == qpc = "idle" /\ asked > 0

Vals(l) == [j \in DOMAIN l |-> l[j].val]

KdQueryTypeOK ==
  /\ qpc \in {"idle", "descend", "visit"}
  /\ Range(visited) \cup completed \cup {node} \subseteq DOMAIN heap \cup {Null}
  /\ Len(result) <= k
  /\ asked \in 0 .. MaxQueries

(***************************************************************************)
(* find_neighbors() returns the k nearest samples, all of them if there    *)
(* are fewer, sorted, with their distances: the walk misses no leaf and    *)
(* evaluates none twice, for a query on a comparator, one with ties and    *)
(* one after another on the same tree.                                     *)
(***************************************************************************)
QueryExact ==
  Answered =>
    /\ Len(result) = Min({k, NSamples})
    /\ IsSorted(Vals(result), <=)
    /\ IsInjective([j \in DOMAIN result |-> result[j].index])
    /\ \A j \in DOMAIN result : result[j].val = Distance(result[j].index)
    /\ \A s \in 1 .. NSamples :
         (\A j \in DOMAIN result : result[j].index # s) =>
           \A j \in DOMAIN result : result[j].val <= Distance(s)

(***************************************************************************)
(* The stack holds no node twice and none that is completed, and every     *)
(* leaf is completed or below a node on the stack: the two pushes of a     *)
(* node whose one child lies on the first path, and is completed, are      *)
(* right.                                                                  *)
(***************************************************************************)
StackCovers ==
  /\ KdQueryTypeOK
  /\ qpc = "visit" =>
    /\ IsInjective(visited)
    /\ Range(visited) \cap completed = {}
    /\ \A l \in LeavesBelow(Root) :
         l \in completed \/ \E n \in Range(visited) : l \in SubTree[n]

=============================================================================
