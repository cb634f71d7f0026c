---------------------------- MODULE LevelBarrier ----------------------------
(***************************************************************************)
(* What a Scheduler promises the program that builds a tree: the tree is   *)
(* built level by level.  Nodes are added to the open level until it has   *)
(* Fanout^level of them; then every node of the level is run once, in any  *)
(* order; the next level opens only when all of them have been run.        *)
(***************************************************************************)
EXTENDS Integers, FiniteSets

CONSTANTS Fanout, Node

VARIABLES
  phase,                    \* the level is being filled, is run, or no more
  level,
  current,                  \* the nodes of the level
  done                      \* all nodes run so far

vars == <<phase, level, current, done>>

Init ==
  /\ phase = "filling"
  /\ level = 0
  /\ current = {}
  /\ done = {}

Add(n) ==
  /\ phase = "filling"
  /\ n \notin current \cup done
  /\ current' = current \cup {n}
  /\ phase' = IF Cardinality(current') = Fanout ^ level
                THEN "running" ELSE "filling"
  /\ UNCHANGED <<level, done>>

RunNode(n) ==
  /\ phase = "running"
  /\ n \in current \ done
  /\ done' = done \cup {n}
  /\ UNCHANGED <<phase, level, current>>

\* The barrier: nothing is left to run.
NextLevel ==
  /\ phase = "running"
  /\ current \subseteq done
  /\ phase' = "filling"
  /\ level' = level + 1
  /\ current' = {}
  /\ UNCHANGED done

Close ==
  /\ phase = "filling"
  /\ phase' = "closed"
  /\ UNCHANGED <<level, current, done>>

Next ==
  \/ \E n \in Node : Add(n)
  \/ \E n \in current : RunNode(n)
  \/ NextLevel
  \/ Close

Spec == Init /\ [][Next]_vars
=============================================================================
