---------------------------- MODULE NearestList -----------------------------
(***************************************************************************)
(* What an NNVector promises: the k nearest of the samples evaluated so    *)
(* far, sorted by distance, the earlier of two equally distant samples     *)
(* first.                                                                  *)
(***************************************************************************)
EXTENDS Integers, Sequences

CONSTANTS
  Item,                     \* IndexVal: records with an index and a val
  K                         \* how many neighbours are kept

VARIABLE list


InsertSorted(l, iv) ==
  LET p == CHOOSE n \in 0 .. Len(l) :
             /\ \A i \in 1 .. n : l[i].val <= iv.val
             /\ n < Len(l) => iv.val < l[n + 1].val
  IN  [i \in 1 .. Len(l) + 1 |->
         IF i <= p THEN l[i] ELSE IF i = p + 1 THEN iv ELSE l[i - 1]]

Keep(l, iv, k) ==
  LET all == InsertSorted(l, iv)
  IN  IF Len(all) > k THEN SubSeq(all, 1, k) ELSE all

NearestInit == list = <<>>

Evaluate(iv) == list' = Keep(list, iv, K)

DropLast ==
  /\ list # <<>>
  /\ list' = SubSeq(list, 1, Len(list) - 1)

Clear == list' = <<>>

NearestNext == (\E iv \in Item : Evaluate(iv)) \/ DropLast \/ Clear

NearestSpec == NearestInit /\ [][NearestNext]_list
=============================================================================
