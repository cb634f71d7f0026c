----------------------------- MODULE BruteForce -----------------------------
(***************************************************************************)
(* BruteForcekNN::getNN() (validate/BruteForcekNN.hpp), the reference that *)
(* the trees are validated against, and Metric::get_raw_accuracy()         *)
(* (common/Metric.hpp), which compares its result with an approximate one. *)
(* Both work on IndexVectors.                                              *)
(*                                                                         *)
(* All that getNN() sees of a data set and a query are the distances.      *)
(***************************************************************************)
EXTENDS Integers, Sequences, FiniteSets, FiniteSetsExt, Functions

CONSTANTS
  Vals,                     \* distances
  MaxSamples,               \* bound on nsamples
  Ks                        \* values of k

VARIABLES
  dist,                     \* the distance of the query to every sample
  k,
  i,                        \* the loop variable
  NN,                       \* the IndexVector being filled
  approx,                   \* the other argument of get_raw_accuracy()
  matches,                  \* its bitmap
  pc

bfVars == <<dist, k, i, NN, approx, matches, pc>>

Samples == 0 .. MaxSamples - 1
None == [elems |-> <<>>, sorted |-> FALSE]

IV == INSTANCE IndexVector
        WITH Index <- Samples, MaxLen <- MaxSamples, iv <- NN, found <- FALSE

nsamples == Cardinality(DOMAIN dist)

Init ==
  /\ \E n \in 0 .. MaxSamples : dist \in [0 .. n - 1 -> Vals]
  /\ k \in Ks
  /\ i = 0
  /\ NN = None
  /\ approx = None
  /\ matches = <<>>
  /\ pc = "scan"

Sample(s) == [index |-> s, val |-> dist[s]]

\* The positions whose element is farther away; the last one found is the least.
Replaceable(v, val) == {j \in 0 .. k - 1 : val < v.elems[j + 1].val}

\* Mutant of Inserted: the loop stops at the first position it finds.
Inserted_First(v, s) ==
  IF Replaceable(v, dist[s]) = {}
    THEN v
    ELSE IV!insert(v, Sample(s), Max(Replaceable(v, dist[s])))

Inserted(v, s) ==
  IF Replaceable(v, dist[s]) = {}
    THEN v
    ELSE IV!insert(v, Sample(s), Min(Replaceable(v, dist[s])))

\* A turn of getNN()'s loop.  The vector is sorted once, when it holds k.
Scan ==
  /\ pc = "scan"
  /\ i < nsamples
  /\ IF i < k
       THEN NN' = IV!append(NN, Sample(i))
       ELSE \E v \in (IF i = k THEN IV!sort(NN) ELSE {NN}) : NN' = Inserted(v, i)
  /\ i' = i + 1
  /\ UNCHANGED <<dist, k, approx, matches, pc>>

Return ==
  /\ pc = "scan"
  /\ i = nsamples
  /\ NN' = IF Len(NN.elems) > k THEN IV!trim(NN, k) ELSE NN
  /\ pc' = "done"
  /\ UNCHANGED <<dist, k, i, approx, matches>>

-----------------------------------------------------------------------------
\* get_raw_accuracy(approx, NN) for a vector of the same size.
CallMetric ==
  /\ pc = "done"
  /\ pc' = "metric"
  /\ \E items \in [DOMAIN NN.elems -> [index : {0}, val : Vals]] :
       approx' = [elems |-> items, sorted |-> FALSE]
  /\ matches' = <<>>
  /\ UNCHANGED <<dist, k, i, NN>>

Match ==
  /\ pc = "metric"
  /\ Len(matches) < Len(approx.elems)
  /\ approx' \in IV!Searched(approx)
  /\ LET exact == NN.elems[Len(matches) + 1]
     IN  matches' = Append(matches, IV!Finds(approx', exact.val))
  /\ UNCHANGED <<dist, k, i, NN, pc>>

BFNext == Scan \/ Return \/ CallMetric \/ Match

BFSpec == Init /\ [][BFNext]_bfVars /\ WF_bfVars(Scan \/ Return)

-----------------------------------------------------------------------------
Ascending(v) == \A a, b \in DOMAIN v.elems : a < b => v.elems[a].val <= v.elems[b].val

\* The samples and distances in v are right, and each sample is there once.
Genuine(v) ==
  /\ \A a \in DOMAIN v.elems : v.elems[a] = Sample(v.elems[a].index)
  /\ \A a, b \in DOMAIN v.elems : v.elems[a].index = v.elems[b].index => a = b

\* No sample of S left out of es is nearer than one in it.
Nearest(es, S) ==
  \A s \in S :
    (\A a \in DOMAIN es : es[a].index # s) => \A a \in DOMAIN es : es[a].val <= dist[s]

BFTypeOK ==
  /\ i \in 0 .. nsamples
  /\ Len(NN.elems) <= nsamples
  /\ NN.sorted \in BOOLEAN
  /\ matches \in Seq(BOOLEAN)
  /\ pc \in {"scan", "done", "metric"}

\* getNN() returns min(k, nsamples) samples, no other of which is nearer.
ResultExact ==
  /\ BFTypeOK
  /\ pc = "done" =>
    /\ Len(NN.elems) = Min({k, nsamples})
    /\ Genuine(NN)
    /\ Nearest(NN.elems, DOMAIN dist)

(***************************************************************************)
(* The flag of the vector stays true in getNN(), which goes on inserting   *)
(* after the only sort(): a later find() may search it by halves.          *)
(***************************************************************************)
FlagTrue == NN.sorted => Ascending(NN)

(***************************************************************************)
(* get_raw_accuracy() counts the elements of exact whose distance occurs   *)
(* in approx, in whatever order the two are, although the first find()     *)
(* reorders approx under the loop.                                         *)
(***************************************************************************)
MatchesRight ==
  pc = "metric" =>
    \A a \in DOMAIN matches :
      matches[a] <=> \E b \in DOMAIN approx.elems :
                       approx.elems[b].val = NN.elems[a].val
=============================================================================
