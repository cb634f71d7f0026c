------------------------------- MODULE RBTree -------------------------------
(***************************************************************************)
(* structures/RBTree.cpp: insert() with the balancing loop, find(), and    *)
(* the destructor; at the end, _delete().                                  *)
(*                                                                         *)
(* A node is an address; the fields are functions of the address, and the  *)
(* next node inserted is the next address.                                 *)
(***************************************************************************)
EXTENDS Integers, Sequences, FiniteSets

CONSTANTS
  Comparators,              \* values of a node's comparator
  MaxNodes                  \* bound on the number of nodes

VARIABLES
  left, right, parent,      \* links, by address
  color,                    \* 0 = B, 1 = R
  comparator,
  root,
  n,                        \* nodes inserted so far
  live,                     \* nodes allocated and not deleted
  new_node,                 \* the local variable of balance()
  pc

links == <<left, right, parent, root>>
rbVars == <<left, right, parent, color, comparator, root, n, live, new_node, pc>>

NULL == 0
Node == 1 .. MaxNodes
NullLinks == [a \in Node |-> NULL]

RBInit ==
  /\ left = NullLinks /\ right = NullLinks /\ parent = NullLinks
  /\ color = [a \in Node |-> 0]
  /\ comparator = [a \in Node |-> 0]
  /\ root = NULL
  /\ n = 0
  /\ live = {}
  /\ new_node = NULL
  /\ pc = "idle"

-----------------------------------------------------------------------------
\* The loop of insert(): the last node on the way down for comparator c.
Parent(c) ==
  LET down[a \in Node] ==
        LET next == IF c < comparator[a] THEN left[a] ELSE right[a]
        IN  IF next = NULL THEN a ELSE down[next]
  IN  IF root = NULL THEN NULL ELSE down[root]

\* insert() up to balance()'s loop; balance() repeats what insert() has linked.
Insert(c) ==
  LET p == Parent(c)
      a == n + 1
  IN  /\ pc = "idle"
      /\ n < MaxNodes
      /\ n' = a
      /\ live' = live \cup {a}
      /\ comparator' = [comparator EXCEPT ![a] = c]
      /\ color' = [color EXCEPT ![a] = IF p = NULL THEN 0 ELSE 1]
      /\ parent' = [parent EXCEPT ![a] = p]
      /\ root' = IF p = NULL THEN a ELSE root
      /\ left' = IF p # NULL /\ c < comparator[p]
                   THEN [left EXCEPT ![p] = a] ELSE left
      /\ right' = IF p # NULL /\ c >= comparator[p]
                    THEN [right EXCEPT ![p] = a] ELSE right
      /\ new_node' = a
      /\ pc' = "balance"

-----------------------------------------------------------------------------
\* The links as one value, so that one rotation can follow another.
Links == [left |-> left, right |-> right, parent |-> parent, root |-> root]

\* y takes the place of x below x's parent, in the links t.
TakePlace(t, x, y) ==
  LET p == t.parent[x]
  IN  IF p = NULL THEN [t EXCEPT !.root = y]
      ELSE IF x = t.left[p] THEN [t EXCEPT !.left[p] = y]
      ELSE [t EXCEPT !.right[p] = y]

SetParent(t, a, p) == IF a = NULL THEN t ELSE [t EXCEPT !.parent[a] = p]

rotate_left(t, x) ==
  LET y == t.right[x]
      t1 == SetParent([t EXCEPT !.right[x] = t.left[y]], t.left[y], x)
      t2 == TakePlace([t1 EXCEPT !.parent[y] = t.parent[x], !.left[y] = x], x, y)
  IN  SetParent(t2, x, y)

rotate_right(t, y) ==
  LET x == t.left[y]
      t1 == SetParent([t EXCEPT !.left[y] = t.right[x]], t.right[x], y)
      t2 == TakePlace([t1 EXCEPT !.parent[x] = t.parent[y], !.right[x] = y], y, x)
  IN  SetParent(t2, y, x)

Up(a) == parent[a]
Grand(a) == parent[parent[a]]
IsLeftSide(a) == Up(a) = left[Grand(a)]
Uncle(a) == IF IsLeftSide(a) THEN right[Grand(a)] ELSE left[Grand(a)]
RedParent == parent[new_node] # NULL /\ color[parent[new_node]] = 1
RedUncle == Uncle(new_node) # NULL /\ color[Uncle(new_node)] = 1

Recolor ==
  /\ pc = "balance"
  /\ RedParent /\ RedUncle
  /\ color' = [color EXCEPT ![Up(new_node)] = 0, ![Uncle(new_node)] = 0,
                            ![Grand(new_node)] = 1]
  /\ new_node' = Grand(new_node)
  /\ UNCHANGED <<links, comparator, n, live, pc>>

\* The two rotations of the other branch: t1 after the inner, t2 after the outer.
Rotate ==
  /\ pc = "balance"
  /\ RedParent /\ ~ RedUncle
  /\ LET side == IsLeftSide(new_node)
         p == Up(new_node)
         inner == new_node = (IF side THEN right[p] ELSE left[p])
         a == IF inner THEN p ELSE new_node
     IN  /\ \E t1 \in {IF ~ inner THEN Links
                       ELSE IF side THEN rotate_left(Links, p)
                       ELSE rotate_right(Links, p)} :
            \E top \in {t1.parent[t1.parent[a]]} :
            \E t2 \in {IF side THEN rotate_right(t1, top) ELSE rotate_left(t1, top)} :
              /\ left' = t2.left /\ right' = t2.right
              /\ parent' = t2.parent /\ root' = t2.root
              /\ color' = [color EXCEPT ![t1.parent[a]] = 0, ![top] = 1]
         /\ new_node' = a
  /\ UNCHANGED <<comparator, n, live, pc>>

BalanceEnd ==
  /\ pc = "balance"
  /\ ~ RedParent
  /\ color' = [color EXCEPT ![root] = 0]
  /\ new_node' = NULL
  /\ pc' = "idle"
  /\ UNCHANGED <<links, comparator, n, live>>

-----------------------------------------------------------------------------
\* The nodes below a, a included: what delete_node() and get_nnodes() walk over.
Below(a) ==
  LET below[b \in Node \cup {NULL}] ==
        IF b = NULL THEN {} ELSE {b} \cup below[left[b]] \cup below[right[b]]
  IN  below[a]

\* ~RBTree().
Destroy ==
  /\ pc = "idle"
  /\ live' = live \ Below(root)
  /\ pc' = "destroyed"
  /\ UNCHANGED <<links, color, comparator, n, new_node>>

\* find(): the node it returns for comparator c, NULL where it throws.
find(c) ==
  LET from[a \in Node \cup {NULL}] ==
        IF a = NULL THEN NULL
        ELSE IF comparator[a] > c THEN from[left[a]]
        ELSE IF comparator[a] < c THEN from[right[a]]
        ELSE a
  IN  from[root]

RBNext ==
  \/ \E c \in Comparators : Insert(c)
  \/ Recolor \/ Rotate \/ BalanceEnd
  \/ Destroy

RBSpec ==
  RBInit /\ [][RBNext]_rbVars /\ WF_rbVars(Recolor \/ Rotate \/ BalanceEnd)
-----------------------------------------------------------------------------
Tree == Below(root)
Link == Node \cup {NULL}

RBTypeOK ==
  /\ left \in [Node -> Link] /\ right \in [Node -> Link]
  /\ parent \in [Node -> Link]
  /\ color \in [Node -> {0, 1}]
  /\ root \in Link /\ new_node \in Link
  /\ n \in 0 .. MaxNodes
  /\ pc \in {"idle", "balance", "destroyed"}

(***************************************************************************)
(* No rotation loses a node or leaves a parent link behind: the tree holds *)
(* every node inserted, the parent links are those of the children, and    *)
(* the destructor deletes every node.                                      *)
(***************************************************************************)
LinksAgree ==
  /\ RBTypeOK
  /\ Tree = 1 .. n
  /\ live = IF pc = "destroyed" THEN {} ELSE 1 .. n
  /\ root # NULL => parent[root] = NULL
  /\ \A a \in Tree : \A c \in {left[a], right[a]} \ {NULL} : parent[c] = a

\* In-order order, equal comparators on either side of each other.
Ordered ==
  \A a \in Tree :
    /\ \A b \in Below(left[a]) : comparator[b] <= comparator[a]
    /\ \A b \in Below(right[a]) : comparator[b] >= comparator[a]

BlackHeight ==
  LET h[a \in Link] ==
        IF a = NULL THEN {0}
        ELSE {x + 1 - color[a] : x \in h[left[a]] \cup h[right[a]]}
  IN  h[root]

RedRed == {a \in Tree : parent[a] # NULL /\ color[a] = 1 /\ color[parent[a]] = 1}

(***************************************************************************)
(* The red-black rules when insert() has returned, and inside balance():   *)
(* all paths have the same number of black nodes, and a red node below a   *)
(* red one is the node balance() is looking at and no other.               *)
(***************************************************************************)
RedBlack ==
  /\ Cardinality(BlackHeight) = 1
  /\ RedRed \subseteq {new_node}
  /\ pc # "balance" /\ root # NULL => color[root] = 0

(***************************************************************************)
(* find() returns a node with the comparator asked for, or throws if there *)
(* is none, although rotations move equal comparators to the left.         *)
(***************************************************************************)
FindRight ==
  \A c \in Comparators :
    IF \E a \in 1 .. n : comparator[a] = c
      THEN find(c) # NULL /\ comparator[find(c)] = c
      ELSE find(c) = NULL

-----------------------------------------------------------------------------
(***************************************************************************)
(* RBTree::_delete(), transplant() and minimum() on the trees insert()     *)
(* builds.                                                                 *)
(*                                                                         *)
(* The code dereferences pointers that can be NULL, in the first test of   *)
(* the loop and on the way to the sibling's children; `fault' is the       *)
(* state such a call ends in.  A deletion that returns may leave a parent  *)
(* link to the deleted node, so the model deletes one node, as the last    *)
(* operation on the tree.                                                  *)
(***************************************************************************)

VARIABLES
  deleted,              \* the node deleted, or NULL
  old                   \* the local variable of _delete()

delVars == <<left, right, parent, color, comparator, root, n, live, new_node, pc,
             deleted, old>>

DelInit == RBInit /\ deleted = NULL /\ old = NULL

\* transplant(dest, src) in the links t.
transplant(t, dest, src) == SetParent(TakePlace(t, dest, src), src, t.parent[dest])

minimum(t, a) ==
  LET down[b \in Node] == IF t.left[b] = NULL THEN b ELSE down[t.left[b]]
  IN  down[a]

\* The branch for two children: m = minimum(node->right) takes node's place.
SpliceMin(t, node, m) ==
  LET t1 == IF t.parent[m] = node
              THEN [t EXCEPT !.parent[t.right[m]] = node]
              ELSE LET u == transplant(t, m, t.right[m])
                   IN  [u EXCEPT !.right[m] = u.right[node],
                                 !.parent[u.right[node]] = m]
      t2 == transplant(t1, node, m)
  IN  [t2 EXCEPT !.left[m] = t2.left[node], !.parent[t2.left[node]] = m]

SetLinks(t) ==
  /\ left' = t.left /\ right' = t.right
  /\ parent' = t.parent /\ root' = t.root

\* _delete() up to its loop.  `original' is 0 unless node has two children.
Delete(c) ==
  LET node == find(c)
      m == minimum(Links, right[node])
      two == left[node] # NULL /\ right[node] # NULL
      only == IF left[node] = NULL THEN right[node] ELSE left[node]
  IN  /\ pc = "idle"
      /\ deleted = NULL
      /\ node # NULL
      /\ deleted' = node
      /\ live' = live \ {node}
      /\ IF two /\ parent[m] = node /\ right[m] = NULL
           THEN pc' = "fault" /\ UNCHANGED <<links, color, old>>     \* sub->parent
           ELSE /\ SetLinks(IF two THEN SpliceMin(Links, node, m)
                            ELSE transplant(Links, node, only))
                /\ color' = IF two THEN [color EXCEPT ![m] = color[node]] ELSE color
                /\ old' = IF two THEN m ELSE NULL
                /\ pc' = IF two /\ color[m] = 1 THEN "idle" ELSE "fixup"
      /\ UNCHANGED <<comparator, n, new_node>>

-----------------------------------------------------------------------------
Fault ==
  /\ pc' = "fault"
  /\ UNCHANGED <<links, color, comparator, n, live, new_node, deleted, old>>

Done ==
  /\ pc' = "idle"
  /\ UNCHANGED <<links, color, comparator, n, live, new_node, deleted, old>>

\* The sibling of old on the links t.
Sibling(t, side) == IF side THEN t.right[t.parent[old]] ELSE t.left[t.parent[old]]

\* A red sibling is rotated above old's parent.
Lift(t, side) == IF side THEN rotate_left(t, parent[old]) ELSE rotate_right(t, parent[old])

\* The else branch of the loop, which ends it: t and col are the links and the
\* colors so far, s the sibling; the children that are looked at are present.
Straighten(t, col, s, side) ==
  LET inner == (IF side THEN col[t.left[s]] ELSE col[t.right[s]]) # 0
      near == IF side THEN t.left[s] ELSE t.right[s]
      t1 == IF ~ inner THEN t
            ELSE IF side THEN rotate_right(t, s) ELSE rotate_left(t, s)
      c1 == IF ~ inner THEN col ELSE [col EXCEPT ![s] = 1, ![near] = 0]
      s1 == IF inner THEN Sibling(t1, side) ELSE s
      far == IF side THEN t1.left[s1] ELSE t1.right[s1]
      up == t1.parent[old]
  IN  IF far = NULL \/ s1 = NULL
        THEN Fault
        ELSE /\ SetLinks(IF side THEN rotate_left(t1, up) ELSE rotate_right(t1, up))
             /\ color' = [[c1 EXCEPT ![s1] = c1[up]] EXCEPT ![up] = 0, ![far] = 0]
             /\ pc' = "idle"
             /\ UNCHANGED <<comparator, n, live, new_node, deleted, old>>

\* One iteration of the loop of _delete().
Fixup ==
  /\ pc = "fixup"
  /\ IF old = root THEN Done
     ELSE IF old = NULL THEN Fault
     ELSE IF color[old] = 1 THEN Done
     ELSE LET side == old = left[parent[old]]
              s0 == Sibling(Links, side)
              lift == s0 # NULL /\ color[s0] = 1
              t == IF lift THEN Lift(Links, side) ELSE Links
              col == IF lift THEN [color EXCEPT ![s0] = 0, ![parent[old]] = 1]
                     ELSE color
              s == IF lift THEN Sibling(t, side) ELSE s0
          IN  IF \/ s = NULL \/ t.left[s] = NULL
                 \/ t.right[s] = NULL /\ (col[t.left[s]] = 0 \/ ~ side)
                THEN Fault
                ELSE IF col[t.left[s]] = 0 /\ col[t.right[s]] = 1
                THEN /\ color' = [col EXCEPT ![s] = 1]
                     /\ SetLinks(t)
                     /\ old' = t.parent[old]
                     /\ UNCHANGED <<comparator, n, live, new_node, pc, deleted>>
                ELSE Straighten(t, col, s, side)

DelNext ==
  \/ /\ deleted = NULL
     /\ (\E c \in Comparators : Insert(c)) \/ Recolor \/ Rotate \/ BalanceEnd
     /\ UNCHANGED <<deleted, old>>
  \/ \E c \in Comparators : Delete(c)
  \/ Fixup

DelSpec == DelInit /\ [][DelNext]_delVars /\ WF_delVars(Fixup)
-----------------------------------------------------------------------------
(***************************************************************************)
(* Where _delete() returns, it has removed its node and nothing else: the  *)
(* tree below the root holds every other node once, in order, and find()   *)
(* still finds every comparator that is left.  (The red-black rules are    *)
(* not kept, and most calls do not return: see `fault'.)                   *)
(***************************************************************************)
DeletesOne ==
  pc = "idle" /\ deleted # NULL =>
    /\ Tree = 1 .. n \ {deleted}
    /\ Tree = live
    /\ Ordered
    /\ \A a \in Tree : find(comparator[a]) # NULL

=============================================================================
