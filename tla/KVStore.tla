------------------------------- MODULE KVStore -------------------------------
(***************************************************************************)
(* The key-value store over a file (SAFS/libsafs/simple_KV_store.h): user  *)
(* tasks on runs of entries are collected, sorted, and served by as few    *)
(* reads of whole pages as the free I/O slots allow.                       *)
(*                                                                         *)
(* The I/O below it (CompIO, GlobalCachedIO) runs the task set of a        *)
(* request once when the data is there.                                    *)
(***************************************************************************)
EXTENDS Integers, Sequences, SequencesExt, FiniteSets, FiniteSetsExt

CONSTANTS
  PerPage,                   \* entries of a page: PAGE_SIZE / sizeof(ValueType)
  Tasks,                     \* the tasks a user may have: records [idx, n]
  MaxPending,                \* get_max_num_pending_ios
  MaxAsks                    \* bound on the number of tasks

KVAssumption == PerPage \in Nat \ {0} /\ MaxPending \in Nat \ {0} /\ MaxAsks \in Nat

VARIABLES
  task_buf,                  \* waiting tasks
  num_pending_tasks,
  ios,                       \* requests on the way: [first, last, tasks, added]
  asked, served,             \* tasks given to async_request; those run
  bad                        \* failed assertions

kvVars == <<task_buf, num_pending_tasks, ios, asked, served, bad>>

Init ==
  /\ task_buf = <<>> /\ num_pending_tasks = 0 /\ ios = {} /\ asked = <<>> /\ served = <<>>
  /\ bad = {}

\* The user's merge: a task that goes on where the other ends
Merges(a, b) == b.idx = a.idx + a.n
merge(a, b) == [idx |-> a.idx, n |-> a.n + b.n]

\* async_request
async_request(t) ==
  /\ Len(asked) < MaxAsks /\ asked' = Append(asked, t)
  /\ IF task_buf # <<>> /\ Merges(Last(task_buf), t)
       THEN /\ task_buf' = Front(task_buf) \o <<merge(Last(task_buf), t)>>
            /\ UNCHANGED num_pending_tasks
       ELSE /\ task_buf' = Append(task_buf, t)
            /\ num_pending_tasks' = num_pending_tasks + 1
  /\ UNCHANGED <<ios, served, bad>>

\* sort_tasks: a buffer that is sorted, one way or the other, is left alone
sort_tasks(buf) ==
  LET Strict(R(_, _)) == \A i \in 1..Len(buf) - 1 : R(buf[i], buf[i + 1])
  IN IF Len(buf) < 2 \/ Strict(LAMBDA a, b : a.idx > b.idx) \/ Strict(LAMBDA a, b : a.idx < b.idx)
       THEN buf ELSE SortSeq(buf, LAMBDA a, b : a.idx < b.idx)

\* The pages of a task, the last one excluded
FirstPage(t) == t.idx \div PerPage
EndPage(t) == (t.idx + t.n + PerPage - 1) \div PerPage

\* KV_compute::add_task
add_task(c, t) ==
  LET merged == c.tasks # <<>> /\ Merges(Last(c.tasks), t)
  IN [c EXCEPT !.added = @ + 1,
               !.tasks = IF merged THEN Front(@) \o <<merge(Last(@), t)>> ELSE Append(@, t)]
NewReq(t) ==
  add_task([first |-> FirstPage(t), last |-> EndPage(t), tasks |-> <<>>, added |-> 0], t)

\* A request takes another task: its range grows to the pages of the task
Grows(c, t) ==
  [add_task(c, t) EXCEPT !.first = Min({@, FirstPage(t)}), !.last = Max({@, EndPage(t)})]
Near(c, t) ==
  \/ FirstPage(t) >= c.first /\ FirstPage(t) <= c.last
  \/ EndPage(t) >= c.first /\ EndPage(t) <= c.last

get_remaining_io_slots == MaxPending - Cardinality(ios)

\* The loop of flush_requests: the last request of reqs is the one being made
Pack(buf) ==
  LET step(s, t) ==
        IF s.reqs # <<>> /\ Len(s.reqs) - 1 >= get_remaining_io_slots - 1
          THEN [s EXCEPT !.rest = Append(@, t)]
        ELSE IF s.reqs # <<>> /\ Near(Last(s.reqs), t)
          THEN [s EXCEPT !.reqs = Front(@) \o <<Grows(Last(@), t)>>]
        ELSE [s EXCEPT !.reqs = Append(@, NewReq(t))]
  IN FoldLeft(step, [reqs |-> <<>>, rest |-> <<>>], buf)

\* flush_requests.  (Two requests that are equal are told apart by their number.)
flush_requests ==
  /\ task_buf # <<>> /\ Cardinality(ios) < MaxPending
  /\ LET p == Pack(sort_tasks(task_buf))
         fresh(k) == Cardinality(ios) * 100 + Len(served) * 10 + k
     IN /\ task_buf' = p.rest
        /\ ios' = ios \cup {[req |-> p.reqs[k], id |-> fresh(k)] : k \in DOMAIN p.reqs}
  /\ UNCHANGED <<num_pending_tasks, asked, served, bad>>

\* KV_compute::run and complete_tasks
Run(io) ==
  /\ io \in ios /\ ios' = ios \ {io}
  /\ served' = served \o io.req.tasks
  /\ num_pending_tasks' = num_pending_tasks - io.req.added
  /\ bad' = bad
       \cup {"range" : t \in {x \in ToSet(io.req.tasks) :
              ~(x.idx >= io.req.first * PerPage /\ x.idx + x.n <= io.req.last * PerPage)}}
       \cup (IF num_pending_tasks < io.req.added THEN {"num_pending_tasks"} ELSE {})
  /\ UNCHANGED <<task_buf, asked>>

Next == (\E t \in Tasks : async_request(t)) \/ flush_requests \/ (\E io \in ios : Run(io))
KVSpec == Init /\ [][Next]_kvVars

-----------------------------------------------------------------------------
\* How many times entry e is in the tasks of a sequence
Times(ts, e) == Cardinality({i \in DOMAIN ts : ts[i].idx <= e /\ e < ts[i].idx + ts[i].n})

\* Every entry a user asked for is served by exactly as many tasks as asked for it:
\* waiting, on the way or run, through merging twice, sorting and packing; and a
\* task set runs only on data that covers all its entries.
EntriesServed ==
  /\ "range" \notin bad
  /\ \A e \in UNION {t.idx..t.idx + t.n - 1 : t \in Tasks} :
       Times(asked, e) = Times(task_buf, e) + Times(served, e)
                           + MapThenSumSet(LAMBDA io : Times(io.req.tasks, e), ios)

\* num_pending_tasks counts the tasks that wait and those on the way, merged ones
\* once, and never goes below 0; no more requests are on the way than the I/O
\* takes.
SlotsKept ==
  /\ "num_pending_tasks" \notin bad
  /\ Cardinality(ios) <= MaxPending
  /\ num_pending_tasks = Len(task_buf) + MapThenSumSet(LAMBDA io : io.req.added, ios)
=============================================================================
