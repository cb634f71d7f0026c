----------------------------- MODULE IndexVector ----------------------------
(***************************************************************************)
(* IndexVector (common/types.hpp): a vector of (index, val) pairs with a   *)
(* flag that says whether it is sorted, and find() by binary search.       *)
(***************************************************************************)
EXTENDS Integers, Sequences, SequencesExt

CONSTANTS
  Index,                    \* sample ids
  Vals,                     \* values
  MaxLen                    \* bound on the number of elements

VARIABLES
  iv,                       \* [elems |-> the pairs, sorted |-> the flag]
  found                     \* what find() returned last

ivVars == <<iv, found>>

Item == [index : Index, val : Vals]
Empty == [elems |-> <<>>, sorted |-> FALSE]
Values(v) == [i \in DOMAIN v.elems |-> v.elems[i].val]

(***************************************************************************)
(* std::sort and std::binary_search as the code uses them.  A sort leaves  *)
(* elements with equal keys in any order.                                  *)
(***************************************************************************)
\* The sequences that list the domain of key by increasing key.
SortOrders(key) ==
  LET Least(T) == {s \in T : \A u \in T : key[s] <= key[u]}
      orders[T \in SUBSET DOMAIN key] ==
        IF T = {} THEN {<<>>}
        ELSE UNION {{<<s>> \o o : o \in orders[T \ {s}]} : s \in Least(T)}
  IN  orders[DOMAIN key]

(***************************************************************************)
(* std::binary_search: lower_bound by halving, then one comparison.  On    *)
(* keys that are not sorted it still answers, from the keys it looks at.   *)
(***************************************************************************)
BinarySearch(keys, x) ==
  LET lower[first \in 1 .. Len(keys) + 1, len \in 0 .. Len(keys)] ==
        LET half == len \div 2
        IN  IF len = 0 THEN first
            ELSE IF keys[first + half] < x
              THEN lower[first + half + 1, len - half - 1]
              ELSE lower[first, half]
      at == lower[1, Len(keys)]
  IN  at <= Len(keys) /\ keys[at] <= x

append(v, item) == [v EXCEPT !.elems = Append(@, item)]

insert(v, item, offset) == [v EXCEPT !.elems = InsertAt(@, offset + 1, item)]

\* The code only ever trims a vector to fewer elements.
trim(v, nelem) == [v EXCEPT !.elems = SubSeq(@, 1, nelem)]

set_indexes(v, items) == [v EXCEPT !.elems = items]

sort(v) ==
  {[elems |-> [i \in DOMAIN o |-> v.elems[o[i]]], sorted |-> TRUE] :
     o \in SortOrders(Values(v))}

\* find() sorts first unless the flag says that it has been done.
Searched(v) == IF v.sorted THEN {v} ELSE sort(v)

Finds(v, val) == BinarySearch(Values(v), val)

(***************************************************************************)
(* resize(nelem) adds elements while i < nelem - size(), but size() grows  *)
(* with every turn: it adds half of those missing, rounded up.             *)
(***************************************************************************)
resize(v, nelem) ==
  LET missing == nelem - Len(v.elems)
      zero == [index |-> 0, val |-> 0]
  IN  [v EXCEPT !.elems = @ \o [i \in 1 .. (missing + 1) \div 2 |-> zero]]

-----------------------------------------------------------------------------
IVInit ==
  /\ iv = Empty
  /\ found = FALSE

AppendItem(item) ==
  /\ Len(iv.elems) < MaxLen
  /\ iv' = append(iv, item)
  /\ UNCHANGED found

InsertItem(item, offset) ==
  /\ Len(iv.elems) < MaxLen
  /\ iv' = insert(iv, item, offset)
  /\ UNCHANGED found

Trim(nelem) ==
  /\ iv' = trim(iv, nelem)
  /\ UNCHANGED found

SetIndexes(items) ==
  /\ iv' = set_indexes(iv, items)
  /\ UNCHANGED found

Resize(nelem) ==
  /\ nelem >= Len(iv.elems)
  /\ iv' = resize(iv, nelem)
  /\ UNCHANGED found

Sort ==
  /\ iv' \in sort(iv)
  /\ UNCHANGED found

Find(val) ==
  /\ iv' \in Searched(iv)
  /\ found' = Finds(iv', val)

\* set_sorted() takes the caller's word, which is taken to be true.
SetSorted(flag) ==
  /\ flag => IsSorted(Values(iv), <=)
  /\ iv' = [iv EXCEPT !.sorted = flag]
  /\ UNCHANGED found

IVNext ==
  \/ \E item \in Item : AppendItem(item)
  \/ \E item \in Item, o \in 0 .. Len(iv.elems) : InsertItem(item, o)
  \/ \E n \in 0 .. Len(iv.elems) : Trim(n)
  \/ \E n \in 0 .. 1 : \E items \in [1 .. n -> Item] : SetIndexes(items)
  \/ \E n \in 0 .. MaxLen : Resize(n)
  \/ Sort
  \/ \E val \in Vals : Find(val)
  \/ \E flag \in BOOLEAN : SetSorted(flag)

IVSpec == IVInit /\ [][IVNext]_ivVars
-----------------------------------------------------------------------------
\* The vector holds a pair with this value.
Holds(v, val) == \E i \in DOMAIN v.elems : v.elems[i].val = val

(***************************************************************************)
(* "This test the difference.  Order shouldn't matter" (Metric, of the     *)
(* elements it looks up with find()): find() says whether a value is in    *)
(* the vector, however the vector came about.                              *)
(***************************************************************************)
FindCorrect ==
  [][\A val \in Vals : Find(val) => (found' <=> Holds(iv, val))]_ivVars
=============================================================================
