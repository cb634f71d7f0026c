----------------------------- MODULE BinaryTree -----------------------------
(***************************************************************************)
(* structures/BinaryTree.cpp: set_root(), insert(), insert_at(), find(),   *)
(* get_nnodes() and the destructor, with the comparisons of NodeView.      *)
(* insert() keeps the comparators in order; insert_at() puts a node where  *)
(* the caller says and throws when a node is there.                        *)
(***************************************************************************)
EXTENDS Integers, FiniteSets

CONSTANTS
  Comparators,              \* values of a node's comparator
  MaxNodes                  \* bound on the number of nodes

VARIABLES
  left, right, parent,      \* links, by address
  comparator,
  root,
  n,                        \* nodes handed to the tree so far
  live,                     \* nodes allocated and not deleted
  placed,                   \* insert_at() has put a node out of order
  pc

btVars == <<left, right, parent, comparator, root, n, live, placed, pc>>

NULL == 0
Node == 1 .. MaxNodes
Link == Node \cup {NULL}

BTInit ==
  /\ left = [a \in Node |-> NULL] /\ right = left /\ parent = left
  /\ comparator = left
  /\ root = NULL
  /\ n = 0
  /\ live = {}
  /\ placed = FALSE
  /\ pc = "up"

\* The loop of insert(): the last node on the way down for comparator c.
Parent(c) ==
  LET down[a \in Node] ==
        LET next == IF c < comparator[a] THEN left[a] ELSE right[a]
        IN  IF next = NULL THEN a ELSE down[next]
  IN  IF root = NULL THEN NULL ELSE down[root]

\* A new node with comparator c below p, on the side pos.
Attach(c, p, pos) ==
  LET a == n + 1
  IN  /\ n' = a
      /\ live' = live \cup {a}
      /\ comparator' = [comparator EXCEPT ![a] = c]
      /\ parent' = [parent EXCEPT ![a] = p]
      /\ left' = IF p # NULL /\ pos = "LEFT" THEN [left EXCEPT ![p] = a] ELSE left
      /\ right' = IF p # NULL /\ pos = "RIGHT" THEN [right EXCEPT ![p] = a] ELSE right

\* insert(), which set_root() calls.
insert(c) ==
  LET p == Parent(c)
  IN  /\ pc = "up" /\ n < MaxNodes
      /\ Attach(c, p, IF p # NULL /\ c < comparator[p] THEN "LEFT" ELSE "RIGHT")
      /\ root' = IF p = NULL THEN n + 1 ELSE root
      /\ UNCHANGED <<placed, pc>>

\* The test of insert_at() on the child it is to set.
Populated(node, pos) ==
  \/ pos = "LEFT" /\ left[node] # NULL
  \/ pos = "RIGHT" /\ right[node] # NULL

\* insert_at() below a node of the tree; where the child is populated it throws
\* and nothing changes.  A NULL node is dereferenced by the test, before the
\* branch that is there for it.
insert_at(c, node, pos) ==
  /\ pc = "up" /\ n < MaxNodes
  /\ ~ Populated(node, pos)
  /\ Attach(c, node, pos)
  /\ placed' = TRUE
  /\ UNCHANGED <<root, pc>>

\* What delete_node() and get_nnodes() walk over from a.
Below(a) ==
  LET below[b \in Link] ==
        IF b = NULL THEN {} ELSE {b} \cup below[left[b]] \cup below[right[b]]
  IN  below[a]

\* get_nnodes(root).
get_nnodes == Cardinality(Below(root))

\* find(): NULL where it throws.
find(c) ==
  LET from[a \in Link] ==
        IF a = NULL THEN NULL
        ELSE IF comparator[a] > c THEN from[left[a]]
        ELSE IF comparator[a] < c THEN from[right[a]]
        ELSE a
  IN  from[root]

\* ~BinaryTree().
destroy ==
  /\ pc = "up"
  /\ live' = live \ Below(root)
  /\ pc' = "destroyed"
  /\ UNCHANGED <<left, right, parent, comparator, root, n, placed>>

BTNext ==
  \/ \E c \in Comparators : insert(c)
  \/ \E c \in Comparators, a \in 1 .. n, pos \in {"LEFT", "RIGHT"} : insert_at(c, a, pos)
  \/ destroy

BTSpec == BTInit /\ [][BTNext]_btVars
-----------------------------------------------------------------------------
\* find() returns a node with the comparator asked for exactly if there is one.
FindsAll ==
  \A c \in Comparators :
    IF \E a \in 1 .. n : comparator[a] = c
      THEN find(c) # NULL /\ comparator[find(c)] = c
      ELSE find(c) = NULL

(***************************************************************************)
(* Whatever mix of insert() and insert_at() built it, the tree keeps every *)
(* node it was given: none is overwritten, parents and children agree, the *)
(* count is right and the destructor deletes every node.  As long as only  *)
(* insert() was used, find() finds every comparator, duplicates included.  *)
(***************************************************************************)
TreeWhole ==
  /\ Below(root) = 1 .. n /\ get_nnodes = n
  /\ \A a \in 1 .. n : \A c \in {left[a], right[a]} \ {NULL} : parent[c] = a
  /\ pc = "destroyed" => live = {}
  /\ ~ placed => FindsAll
=============================================================================
