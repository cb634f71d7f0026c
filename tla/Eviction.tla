------------------------------ MODULE Eviction ------------------------------
(***************************************************************************)
(* The eviction policies of a hash cell (associative_cache.cpp): LRU, LFU, *)
(* FIFO, clock and gclock, the flush scores and the prediction of the      *)
(* pages that are evicted next, driven by the searches of one cell.        *)
(*                                                                         *)
(* A cell is a function from 0..N-1 to pages.  The policies that wait for  *)
(* a reference to go away (LRU, LFU, FIFO) are enabled only when it is     *)
(* gone.  clock_head is kept modulo N, hits wrap at MaxHits (0xff).        *)
(***************************************************************************)
EXTENDS Integers, Sequences, FiniteSets, SequencesExt, FiniteSetsExt

CONSTANTS N,                 \* pages of the cell
          Policies,          \* the policies to run
          MaxHits,           \* 0xff in the code
          MAX_NUM_WRITEBACK,
          MaxSearches        \* bound on the searches of a behaviour

EvictionAssumption ==
  N \in Nat \ {0} /\ MaxHits \in Nat \ {0} /\ MAX_NUM_WRITEBACK \in Nat

VARIABLES policy, cell, head, pos_vec, idx, null, searches

vars == <<policy, cell, head, pos_vec, idx, null, searches>>

Slots == 0 .. N - 1
EmptyPage == [valid |-> FALSE, hits |-> 0, ref |-> 0, dirty |-> FALSE]

Init == /\ policy \in Policies
        /\ cell = [i \in Slots |-> EmptyPage]
        /\ head = 0 /\ pos_vec = <<>> /\ idx = 0
        /\ null = FALSE /\ searches = 0

-----------------------------------------------------------------------------
(* The policies                                                              *)

Without(s, x) == SelectSeq(s, LAMBDA y : y # x)

\* LRU: the page whose turn it is, and the order after it is taken
LRU_victim == IF Len(pos_vec) < N THEN Len(pos_vec) ELSE pos_vec[1]
LRU_access(i) == Append(Without(pos_vec, i), i)

\* LFU: the first unreferenced page without hits, else one with the fewest
LFU_victim(free) == CHOOSE i \in free :
                      \A j \in free : \/ cell[i].hits < cell[j].hits
                                      \/ cell[i].hits = cell[j].hits /\ i <= j

\* FIFO: the circular buffer moves on past referenced pages
RECURSIVE FIFO_next(_)
FIFO_next(i) == IF cell[i % N].ref = 0 THEN i % N ELSE FIFO_next((i % N) + 1)

\* One turn of the clock hands.  s: hand position, counts, and the page found
Sweep0 == [h |-> head, nref |-> 0, ndirty |-> 0, avoid |-> TRUE, cell |-> cell,
           found |-> -1, null |-> FALSE]

\* Having met N referenced or dirty pages, a policy stops avoiding dirty ones
Recount(s) == IF s.ndirty + s.nref >= N
                THEN [s EXCEPT !.ndirty = 0, !.nref = 0, !.avoid = FALSE]
                ELSE s

\* What the hand does at a page: clock takes all hits, gclock one.  When every page
\* is referenced gclock has moved its hand before it gives up, clock has not.
Turn(s0, all) ==
  LET s == Recount(s0)
      p == s.cell[s.h]
      on == (s.h + 1) % N
  IN IF p.ref > 0
       THEN IF s.nref + 1 >= N THEN [s EXCEPT !.null = TRUE, !.h = IF all THEN @ ELSE on]
            ELSE [s EXCEPT !.nref = @ + 1, !.h = on]
     ELSE IF s.avoid /\ p.dirty THEN [s EXCEPT !.ndirty = @ + 1, !.h = on]
     ELSE IF p.hits = 0 THEN [s EXCEPT !.found = s.h, !.h = on]
     ELSE [s EXCEPT !.cell[s.h].hits = IF all THEN 0 ELSE p.hits - 1, !.h = on]

RECURSIVE Sweep(_, _)
Sweep(s, all) == IF s.found >= 0 \/ s.null THEN s
                     ELSE Sweep(Turn(s, all), all)

\* A sweep whose hand takes every hit of a page at once
GclockTakesAll == Sweep(Sweep0, TRUE)

gclock_evict == Sweep(Sweep0, FALSE)

\* The clock does not move past the page it returns
clock_evict ==
  LET s == Sweep(Sweep0, TRUE)
  IN IF s.found >= 0 THEN [s EXCEPT !.h = s.found] ELSE s

-----------------------------------------------------------------------------
(* Flush scores and prediction                                               *)

\* assign_flush_scores: hits first, then the distance from the hand, ranked
assign_flush_scores ==
  LET raw(i) == cell[i].hits * N + ((i - head + N) % N)
      valid == {i \in Slots : cell[i].valid}
  IN [i \in valid |-> Cardinality({j \in valid : raw(j) < raw(i)})]

\* One page of predict_evicted_pages: k pages seen, hits left, pages predicted
PredictAt(k, want, s) ==
  LET i == (k + head) % N
  IN IF s.done \/ s.hits[i] < 0 THEN s
     ELSE IF s.hits[i] > 0 THEN [s EXCEPT !.hits[i] = @ - 1]
     ELSE LET most == s.most + 1
              ps == IF cell[i].dirty THEN s.pages \cup {i} ELSE s.pages
          IN [s EXCEPT !.hits[i] = -1, !.pages = ps, !.most = most,
                       !.done = Cardinality(ps) = want \/ most >= MAX_NUM_WRITEBACK]

\* The loop ends after MAX_NUM_WRITEBACK likely pages, so only a cell that has
\* as many is asked.  Here it looks for pages with the dirty flag.
RECURSIVE Predict(_, _, _)
Predict(k, want, s) == IF s.done THEN s.pages
                       ELSE Predict((k + 1) % N, want, PredictAt(k, want, s))

predict_evicted_pages(want) ==
  Predict(0, want, [hits |-> [i \in Slots |-> cell[i].hits], pages |-> {},
                    most |-> 0, done |-> FALSE])

-----------------------------------------------------------------------------
(* Searches of the cell                                                      *)

\* The hit is counted when the page is handed out; at the limit all are halved
CountHit(c, i) ==
  LET d == IF c[i].hits = MaxHits THEN [j \in Slots |-> [c[j] EXCEPT !.hits = @ \div 2]]
           ELSE c
  IN [d EXCEPT ![i].hits = @ + 1, ![i].ref = @ + 1, ![i].valid = TRUE]

\* A search that finds page i
SearchHit(i) ==
  /\ searches < MaxSearches /\ cell[i].valid /\ cell[i].ref = 0
  /\ cell' = CountHit(cell, i)
  /\ pos_vec' = IF policy = "LRU" THEN LRU_access(i) ELSE pos_vec
  /\ searches' = searches + 1 /\ null' = FALSE
  /\ UNCHANGED <<policy, head, idx>>

\* The evicted page gets a new identity and is clean
Taken(c, i) == cell' = CountHit([c EXCEPT ![i].dirty = FALSE], i)

Free == {i \in Slots : cell[i].ref = 0}

\* A search that misses
SearchMiss ==
  /\ searches < MaxSearches
  /\ \/ /\ policy = "LRU" /\ cell[LRU_victim].ref = 0
        /\ Taken(cell, LRU_victim) /\ pos_vec' = LRU_access(LRU_victim)
        /\ null' = FALSE /\ UNCHANGED <<head, idx>>
     \/ /\ policy = "LFU" /\ Free # {}
        /\ LET i == LFU_victim(Free) IN Taken([cell EXCEPT ![i].hits = 0], i)
        /\ null' = FALSE /\ UNCHANGED <<head, pos_vec, idx>>
     \/ /\ policy = "FIFO" /\ Free # {}
        /\ Taken(cell, FIFO_next(idx)) /\ idx' = FIFO_next(idx) + 1
        /\ null' = FALSE /\ UNCHANGED <<head, pos_vec>>
     \/ /\ policy \in {"clock", "gclock"}
        /\ LET s == IF policy = "clock" THEN clock_evict ELSE gclock_evict
           IN /\ head' = s.h /\ null' = s.null
              /\ IF s.null THEN cell' = s.cell ELSE Taken(s.cell, s.found)
        /\ UNCHANGED <<pos_vec, idx>>
  /\ searches' = searches + 1
  /\ UNCHANGED policy

\* The user of page i is done with it, having written it or not
Done(i) == /\ cell[i].ref > 0
           /\ \E w \in BOOLEAN :
                cell' = [cell EXCEPT ![i].ref = @ - 1, ![i].dirty = @ \/ w]
           /\ null' = FALSE
           /\ UNCHANGED <<policy, head, pos_vec, idx, searches>>

\* Page i was written back
Cleaned(i) == /\ cell[i].dirty
              /\ cell' = [cell EXCEPT ![i].dirty = FALSE]
              /\ null' = FALSE
              /\ UNCHANGED <<policy, head, pos_vec, idx, searches>>

Next == \/ SearchMiss
        \/ \E i \in Slots : SearchHit(i) \/ Done(i) \/ Cleaned(i)

Spec == Init /\ [][Next]_vars

-----------------------------------------------------------------------------
(* Properties.                                                               *)

Idle == \A i \in Slots : cell[i].valid /\ cell[i].ref = 0

\* The flush score is the order of eviction: in a cell of unreferenced clean
\* pages gclock evicts the page with score 0.
EvictsLowestScore ==
  policy = "gclock" /\ Idle /\ (\A i \in Slots : ~cell[i].dirty) =>
    assign_flush_scores[gclock_evict.found] = 0

\* predict_evicted_pages and assign_flush_scores agree, although one simulates
\* the hand and the other sorts: the dirty pages predicted are the dirty ones
\* among the MAX_NUM_WRITEBACK lowest scores.  The flusher relies on it when it
\* drops requests whose score has risen.
PredictionIsScore ==
  policy = "gclock" /\ Idle /\ MAX_NUM_WRITEBACK <= N =>
    predict_evicted_pages(N + 1) =
      {i \in Slots : cell[i].dirty /\ assign_flush_scores[i] < MAX_NUM_WRITEBACK}

\* No policy hands out a page that is in use: a miss leaves the references of
\* every referenced page alone.
LeavesUsed ==
  \A i \in Slots : cell[i].ref > 0 /\ searches' # searches => cell'[i].ref = cell[i].ref

=============================================================================
