------------------------------ MODULE NNVector ------------------------------
(***************************************************************************)
(* common/NNVector.hpp: the k nearest samples in a doubly linked list with *)
(* a sentinel, and a one-entry cache of the last position read.            *)
(*                                                                         *)
(* A node is an address; the sentinel is address 0.  A freed address may   *)
(* be handed out again, so a dangling cache entry is observable.           *)
(***************************************************************************)
EXTENDS Integers, Sequences, FiniteSets, FiniteSetsExt, Functions

CONSTANTS
  Index,                    \* sample ids
  Vals,                     \* distances
  K                         \* how many neighbours are kept

KAssumption == K \in Nat

VARIABLES
  prev, next, data,         \* the fields of the nodes, by address
  live,                     \* addresses allocated and not freed
  _size,
  cache,                    \* [first |-> position, second |-> node]
  pc,                       \* "idle", in find(), or "destroyed"
  key, curr                 \* argument and local variable of find()

vars == <<prev, next, data, live, _size, cache, pc, key, curr>>

sentinel == 0
NULL == -1
Addr == 0 .. K + 1
Item == [index : Index, val : Vals]

\* numeric_limits<data_t>::max() is larger than every distance.
Infinity == Max(Vals) + 1
SentinelData == [index |-> 0, val |-> Infinity]
NoItem == [index |-> 0, val |-> -1]

NNInit ==
  /\ prev = [a \in Addr |-> IF a = sentinel THEN sentinel ELSE NULL]
  /\ next = [a \in Addr |-> IF a = sentinel THEN sentinel ELSE NULL]
  /\ data = [a \in Addr |-> IF a = sentinel THEN SentinelData ELSE NoItem]
  /\ live = {sentinel}
  /\ _size = 0
  /\ cache = [first |-> 0, second |-> NULL]
  /\ pc = "idle"
  /\ key = NoItem
  /\ curr = NULL

-----------------------------------------------------------------------------
\* The whole list as one value, so that eval() can follow one update by another.
Links == [prev |-> prev, next |-> next, data |-> data, live |-> live,
          size |-> _size, cache |-> cache]

SetLinks(l) ==
  /\ prev' = l.prev
  /\ next' = l.next
  /\ data' = l.data
  /\ live' = l.live
  /\ _size' = l.size
  /\ cache' = l.cache

\* new Node(iv) and the four assignments that link it in before node c; with
\* the sentinel as c these are the ones of push_back() and of the empty list.
InsertBefore(l, iv, c) ==
  LET new == Min(Addr \ l.live)
      p == l.prev[c]
  IN  [l EXCEPT !.live = @ \cup {new},
                !.data[new] = iv,
                !.prev = [@ EXCEPT ![new] = p, ![c] = new],
                !.next = [@ EXCEPT ![p] = new, ![new] = c],
                !.size = @ + 1]

\* Mutant of invalidate_cache: the cache keeps its node.
invalidate_cache_Not(l) == l

invalidate_cache(l) == [l EXCEPT !.cache.second = NULL]

PopBack(l) ==
  LET del == l.prev[sentinel]
  IN  IF l.size = 0 \/ del = sentinel
        THEN l
        ELSE invalidate_cache(
               [l EXCEPT !.next = [@ EXCEPT ![l.prev[del]] = sentinel],
                         !.prev = [@ EXCEPT ![sentinel] = l.prev[del]],
                         !.live = @ \ {del},
                         !.size = @ - 1])

\* Mutant of Farther: a sample goes before those at the same distance.
Farther_OrEqual(l, val) ==
  LET from[a \in Addr] ==
        IF a = sentinel \/ val <= l.data[a].val THEN a ELSE from[l.next[a]]
  IN  from[l.next[sentinel]]

\* The loop of eval(): the first node farther away than val, or the sentinel.
Farther(l, val) ==
  LET from[a \in Addr] ==
        IF a = sentinel \/ val < l.data[a].val THEN a ELSE from[l.next[a]]
  IN  from[l.next[sentinel]]

Evaluated(l, iv) ==
  LET at == Farther(l, iv.val)
      inserted == IF l.size = 0 \/ at # sentinel \/ l.size < K
                    THEN InsertBefore(l, iv, at)
                    ELSE l
  IN  invalidate_cache(IF inserted.size > K THEN PopBack(inserted) ELSE inserted)

Eval(iv) ==
  /\ pc = "idle"
  /\ SetLinks(Evaluated(Links, iv))
  /\ UNCHANGED <<pc, key, curr>>

\* pop_back() is public as well.
pop_back ==
  /\ pc = "idle"
  /\ SetLinks(PopBack(Links))
  /\ UNCHANGED <<pc, key, curr>>

\* The node n steps after a.
Step(a, n) ==
  LET f[i \in 0 .. n] == IF i = 0 THEN a ELSE next[f[i - 1]]
  IN  f[n]

\* operator[]: the node at index, found from the cache where that is possible.
Lookup(index) ==
  IF cache.second # NULL /\ index >= cache.first
    THEN Step(cache.second, index - cache.first)
    ELSE Step(sentinel, index + 1)

Subscript(index) ==
  /\ pc = "idle"
  /\ index + 1 <= _size
  /\ cache' = [first |-> index, second |-> Lookup(index)]
  /\ UNCHANGED <<prev, next, data, live, _size, pc, key, curr>>

-----------------------------------------------------------------------------
FindBegin(iv) ==
  /\ pc = "idle"
  /\ pc' = "find"
  /\ key' = iv
  /\ curr' = next[sentinel]
  /\ UNCHANGED <<prev, next, data, live, _size, cache>>

\* A turn of find()'s loop.  An IndexVal equals another of the same value.
FindStep ==
  /\ pc = "find"
  /\ IF curr = sentinel \/ data[curr].val = key.val
       THEN pc' = "idle" /\ key' = NoItem /\ curr' = NULL
       ELSE UNCHANGED <<pc, key, curr>>
  /\ UNCHANGED <<prev, next, data, live, _size, cache>>

\* The nodes from a to the end of the list, in order.
From(a) ==
  LET rest[b \in Addr] == IF b = sentinel THEN <<>> ELSE <<b>> \o rest[next[b]]
  IN  rest[a]

\* ~NNVector() follows next from node to node and frees them, then the sentinel.
Destroy ==
  /\ pc = "idle"
  /\ live' = live \ (Range(From(next[sentinel])) \cup {sentinel})
  /\ pc' = "destroyed"
  /\ UNCHANGED <<prev, next, data, _size, cache, key, curr>>

NNNext ==
  \/ \E iv \in Item : Eval(iv)
  \/ pop_back
  \/ \E i \in 0 .. K - 1 : Subscript(i)
  \/ \E iv \in Item : FindBegin(iv)
  \/ FindStep
  \/ Destroy

NNSpec == NNInit /\ [][NNNext]_vars /\ WF_vars(FindStep)
-----------------------------------------------------------------------------
NNTypeOK ==
  /\ prev \in [Addr -> Addr \cup {NULL}]
  /\ next \in [Addr -> Addr \cup {NULL}]
  /\ data \in [Addr -> Item \cup {SentinelData, NoItem}]
  /\ live \subseteq Addr
  /\ _size \in 0 .. K
  /\ cache \in [first : Nat, second : Addr \cup {NULL}]
  /\ pc \in {"idle", "find", "destroyed"}
  /\ key \in Item \cup {NoItem}
  /\ curr \in Addr \cup {NULL}

Nodes == From(next[sentinel])
List == IF pc = "destroyed" THEN <<>> ELSE [i \in DOMAIN Nodes |-> data[Nodes[i]]]

(***************************************************************************)
(* The two directions of the list agree, _size counts its nodes, and the   *)
(* nodes of the list are the only ones allocated: eval() and pop_back()    *)
(* leak nothing and leave no pointer to a freed node in the list, and the  *)
(* destructor frees them all.                                              *)
(***************************************************************************)
LinksConsistent ==
  /\ NNTypeOK
  /\ pc = "destroyed" => live = {}
  /\ pc # "destroyed" =>
    /\ \A a \in live : next[prev[a]] = a /\ prev[next[a]] = a
    /\ Len(Nodes) = _size
    /\ live = Range(Nodes) \cup {sentinel}

(***************************************************************************)
(* operator[] returns the element at the index whatever was read before    *)
(* and wherever eval() and pop_back() have inserted and freed nodes since: *)
(* the cached node is never a freed or a shifted one.                      *)
(***************************************************************************)
SubscriptCorrect ==
  pc # "destroyed" =>
    \A i \in 0 .. _size - 1 : data[Lookup(i)] = List[i + 1]

Nearest == INSTANCE NearestList WITH list <- List

(***************************************************************************)
(* The linked list keeps the k nearest of the samples given to eval(),     *)
(* sorted, ties in the order of arrival.                                   *)
(***************************************************************************)
ImplementsNearest == Nearest!NearestSpec
=============================================================================
