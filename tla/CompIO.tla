------------------------------- MODULE CompIO -------------------------------
(***************************************************************************)
(* I/O requests that carry a user task (SAFS/libsafs): the scheduler of    *)
(* the tasks that have more requests to make (comp_io_scheduler.{h,cpp}),  *)
(* the I/O that reads from the disks for them (direct_comp_access.cpp)     *)
(* with its limit on the memory of pending requests, and the I/O on data   *)
(* in memory (in_mem_io.cpp), which runs them at once.                     *)
(*                                                                         *)
(* A task runs when one of its requests is done.  Gen[c][k] is how many    *)
(* requests its k-th run adds; it has completed when it has no request to  *)
(* make and none on the way.                                               *)
(***************************************************************************)
EXTENDS Integers, Sequences, FiniteSets, FiniteSetsExt, SequencesExt

CONSTANTS
  Computes, Gen,
  ReqOff, ReqSize,           \* the bytes that every request of a task reads
  BlockSize,                 \* MIN_BLOCK_SIZE
  MaxMem,                    \* MAX_PEND_COMP_SIZE
  BufCap, QueueCap,          \* capacities of req_buf and incomplete_computes
  Scenarios                  \* [kind, calls]: kind of I/O and the user's calls

CompAssumption ==
  BlockSize \in Nat \ {0} /\ MaxMem \in Nat /\ BufCap \in Nat \ {0} /\ QueueCap \in Nat \ {0}

VARIABLES
  kind, calls,               \* "direct" or "mem"; the calls still to make
  comp,                      \* the tasks
  queue, start, curr_it,     \* incomplete_computes, its start and the iterator
  some_done,                 \* has_completed of the scheduler
  req_buf, under,            \* waiting requests; requests given to the disks, per task
  alloc_mem, issued, completed,
  pc, bad                    \* where the call is; assertions that failed

compVars == <<kind, calls, comp, queue, start, curr_it, some_done, req_buf, under,
              alloc_mem, issued, completed, pc, bad>>
schedVars == <<queue, start, curr_it, some_done>>

\* owed: requests of the task that have been queued without a reference
NewTask == [refs |-> 0, in_queue |-> FALSE, todo |-> 0, asked |-> 0, runs |-> 0,
            freed |-> FALSE, owed |-> 0]

Init ==
  /\ \E s \in Scenarios : kind = s.kind /\ calls = s.calls
  /\ comp = [c \in Computes |-> NewTask]
  /\ queue = <<>> /\ start = 0 /\ curr_it = 0 /\ some_done = FALSE
  /\ req_buf = <<>> /\ under = [c \in Computes |-> 0]
  /\ alloc_mem = 0 /\ issued = 0 /\ completed = 0 /\ pc = [at |-> "idle"] /\ bad = {}

-----------------------------------------------------------------------------
(* The user task and the scheduler                                           *)

\* The value of an expression, worked out once
The(S) == CHOOSE x \in S : TRUE

has_requests(t) == t.todo > 0
has_completed(t) == t.todo = 0 /\ t.runs = t.asked

\* run: the task sees its data and may have more requests
RunTask(t, c) ==
  [t EXCEPT !.runs = @ + 1,
            !.todo = @ + IF t.runs + 1 \in DOMAIN Gen[c] THEN Gen[c][t.runs + 1] ELSE 0]

\* post_comp_process with the reference of the request dropped first
PostDropsFirst(cm, q, c) ==
  LET t == cm[c]
      dead == t.refs = 1
      enters == (has_requests(t) \/ ~has_completed(t)) /\ ~t.in_queue /\ ~dead
  IN [comp |-> [cm EXCEPT ![c].refs = @ - 1 + (IF enters THEN 1 ELSE 0),
                          ![c].in_queue = @ \/ enters, ![c].freed = dead],
      queue |-> IF enters THEN Append(q, c) ELSE q, bad |-> FALSE]

\* post_comp_process: a task that is not through enters the queue, once; the
\* reference of the request is dropped, and with the last one the task
post_comp_process(cm, q, c) ==
  LET t == cm[c]
      enters == (has_requests(t) \/ ~has_completed(t)) /\ ~t.in_queue
      refs == t.refs - 1 + (IF enters THEN 1 ELSE 0)
  IN [comp |-> [cm EXCEPT ![c].refs = refs, ![c].in_queue = @ \/ enters,
                          ![c].freed = (refs = 0)],
      queue |-> IF enters THEN Append(q, c) ELSE q,
      bad |-> (refs = 0 /\ (t.in_queue \/ enters)) \/ (enters /\ Len(q) >= QueueCap)]

\* A request is done: the task runs, then the scheduler looks at it
RunAndPost(cm, c) ==
  The({post_comp_process(x, queue, c) : x \in {[cm EXCEPT ![c] = RunTask(@, c)]}})

\* fetch_requests: each request holds a reference
Fetched(cm, c, n) == [cm EXCEPT ![c].todo = @ - n, ![c].asked = @ + n, ![c].refs = @ + n]

\* default_comp_io_scheduler::get_requests, from the iterator on and, when that
\* was not the beginning, once more from there; stops when it has enough
Visit(from) ==
  IF from = Len(queue) THEN [k \in 1..Len(queue) |-> k]
  ELSE [k \in 1..Len(queue) - from |-> from + k]
         \o (IF from = 0 THEN <<>> ELSE [k \in 1..Len(queue) |-> k])
get_requests(buf, max) ==
  LET step(s, i) ==
        LET c == queue[i]
            n == Min({s.comp[c].todo, max - s.num, BufCap - Len(s.buf)})
            cm == Fetched(s.comp, c, n)
            full == Len(s.buf) + n >= BufCap \/ s.num + n = max
        IN IF s.stop THEN s
           ELSE [comp |-> cm, buf |-> s.buf \o [k \in 1..n |-> c], num |-> s.num + n,
                 done |-> s.done \/ has_completed(cm[c]), stop |-> full,
                 it |-> IF full THEN start + i - 1 ELSE start + Len(queue),
                 bad |-> s.bad \/ (full /\ n = 0) \/ (~full /\ has_requests(cm[c]))]
      none == [comp |-> comp, buf |-> buf, num |-> 0, done |-> some_done, stop |-> FALSE,
               it |-> curr_it, bad |-> FALSE]
  IN IF Len(buf) >= BufCap \/ max = 0 THEN none
     ELSE FoldLeft(LAMBDA s, i : The({step(x, i) : x \in {s}}), none, Visit(curr_it - start))

\* delete_compute: a task leaves the queue, which drops the queue's reference
delete_compute(t) ==
  [t EXCEPT !.refs = @ - 1, !.in_queue = FALSE, !.freed = (t.refs = 1)]

\* comp_io_scheduler::gc_computes: once around the queue, completed tasks leave it
Collect(cm) ==
  [comp |-> [c \in Computes |-> IF c \in ToSet(queue) /\ has_completed(cm[c])
                                  THEN delete_compute(cm[c]) ELSE cm[c]],
   queue |-> SelectSeq(queue, LAMBDA c : ~has_completed(cm[c])),
   start |-> start + Len(queue), gone |-> TRUE]

\* default_comp_io_scheduler::gc_computes: only when some task has completed
gc_computes(cm, done) ==
  IF done THEN Collect(cm)
  ELSE [comp |-> cm, queue |-> queue, start |-> start, gone |-> FALSE]

-----------------------------------------------------------------------------
(* direct_comp_io                                                            *)

\* conv_comp_to_basic: whole blocks are read
DiskSize(c) ==
  LET end == ReqOff[c] + ReqSize[c]
  IN ((end + BlockSize - 1) \div BlockSize) * BlockSize - (ReqOff[c] \div BlockSize) * BlockSize

\* How many requests of a sequence are converted before the memory is used up
Room(mem, reqs) ==
  LET step(s, c) == IF s.mem > MaxMem THEN s
                    ELSE [n |-> s.n + 1, mem |-> s.mem + DiskSize(c)]
  IN FoldLeft(LAMBDA s, c : The({step(x, c) : x \in {s}}), [n |-> 0, mem |-> mem], reqs)
Count(reqs, c) == Len(SelectSeq(reqs, LAMBDA x : x = c))
Given(u, reqs) == [c \in Computes |-> u[c] + Count(reqs, c)]

\* access: the requests that fit are converted and given to the disks, the others
\* wait, as far as req_buf has room.  The loop takes a reference for a request
\* before it finds that the memory is used up, and none for those behind it.
Access ==
  LET reqs == calls[1][2]
      took(n) == SubSeq(reqs, 1, Min({n + 1, Len(reqs)}))
      rest(n) == SubSeq(reqs, n + 1, Len(reqs))
  IN /\ kind = "direct" /\ pc.at = "idle" /\ calls # <<>> /\ calls[1][1] = "access"
     /\ issued' = issued + Len(reqs)
     /\ \E room \in {Room(alloc_mem, reqs)} :
          /\ comp' = [c \in Computes |->
                        [comp[c] EXCEPT !.refs = @ + Count(took(room.n), c),
                                        !.asked = @ + Count(reqs, c),
                                        !.owed = @ + Count(reqs, c) - Count(took(room.n), c)]]
          /\ under' = Given(under, SubSeq(reqs, 1, room.n))
          /\ alloc_mem' = room.mem
          /\ req_buf' = req_buf \o SubSeq(rest(room.n), 1,
                                          Min({Len(rest(room.n)), BufCap - Len(req_buf)}))
     /\ pc' = [at |-> "access"]
     /\ UNCHANGED <<kind, calls, schedVars, completed, bad>>

\* complete_req, a callback of the underlying I/O: within its access and its
\* wait4complete
complete_req(c) ==
  /\ kind = "direct" /\ pc.at \in {"access", "wait"} /\ under[c] > 0
  /\ under' = [under EXCEPT ![c] = @ - 1]
  /\ completed' = completed + 1 /\ alloc_mem' = alloc_mem - DiskSize(c)
  /\ \E post \in {RunAndPost(comp, c)} :
       /\ comp' = post.comp /\ queue' = post.queue
       /\ bad' = IF post.bad THEN bad \cup {"post_comp_process"} ELSE bad
  /\ pc' = IF pc.at = "wait" THEN [pc EXCEPT !.n = @ - 1] ELSE pc
  /\ UNCHANGED <<kind, calls, start, curr_it, some_done, req_buf, issued>>

AccessEnd ==
  /\ pc.at = "access" /\ pc' = [at |-> "idle"] /\ calls' = Tail(calls)
  /\ UNCHANGED <<kind, comp, schedVars, req_buf, under, alloc_mem, issued, completed, bad>>

\* process_buf_reqs
ProcessBuf(s) ==
  The({[s EXCEPT !.under = Given(@, SubSeq(s.buf, 1, room.n)), !.mem = room.mem,
                 !.buf = SubSeq(@, room.n + 1, Len(@))] : room \in {Room(s.mem, s.buf)}})

\* process_incomplete_computes: new requests of the tasks, unless the memory is
\* used up
ProcessIncomplete(s) ==
  LET after(new, gc) ==
        [s EXCEPT !.buf = new.buf, !.num = new.num, !.comp = gc.comp,
                  !.queue = gc.queue, !.start = gc.start,
                  !.it = IF gc.gone THEN gc.start + Len(gc.queue) ELSE new.it,
                  !.done = new.done /\ ~gc.gone, !.bad = new.bad]
  IN IF s.mem >= MaxMem THEN s
     ELSE The({ProcessBuf(x) : x \in {after(new, gc_computes(new.comp, new.done)) :
                                        new \in {get_requests(s.buf, BufCap)}}})

\* flush_requests.  (What completes within the accesses it makes is as if it
\* completed after it.)
flush_requests ==
  LET s0 == [buf |-> req_buf, under |-> under, mem |-> alloc_mem, num |-> 0, comp |-> comp,
             queue |-> queue, start |-> start, it |-> curr_it, done |-> some_done, bad |-> FALSE]
  IN \E s \in {IF Len(s1.buf) < BufCap THEN ProcessIncomplete(s1) ELSE s1 :
                 s1 \in {ProcessBuf(s0)}} :
       /\ req_buf' = s.buf /\ under' = s.under /\ alloc_mem' = s.mem /\ comp' = s.comp
       /\ queue' = s.queue /\ start' = s.start /\ curr_it' = s.it /\ some_done' = s.done
       /\ issued' = issued + s.num
       /\ bad' = IF s.bad THEN bad \cup {"get_requests"} ELSE bad

num_pending_ios == issued - completed

\* wait4complete: flush, wait for so many or until the disks have none, flush
WaitStart(n) ==
  /\ flush_requests /\ pc' = [at |-> "wait", n |-> n]
  /\ UNCHANGED <<kind, completed>>
wait4complete ==
  /\ kind = "direct" /\ pc.at = "idle" /\ calls # <<>> /\ calls[1][1] = "wait"
  /\ WaitStart(calls[1][2]) /\ UNCHANGED calls
WaitEnd ==
  /\ pc.at = "wait" /\ (pc.n <= 0 \/ \A c \in Computes : under[c] = 0)
  /\ flush_requests /\ pc' = [at |-> "idle"]
  /\ calls' = IF calls[1][1] = "wait" THEN Tail(calls) ELSE calls
  /\ UNCHANGED <<kind, completed>>

\* cleanup waits again as long as there are requests or tasks that may have some
cleanup ==
  /\ kind = "direct" /\ pc.at = "idle" /\ calls # <<>> /\ calls[1][1] = "cleanup"
  /\ IF num_pending_ios > 0 \/ queue # <<>>
       THEN WaitStart(num_pending_ios) /\ UNCHANGED calls
       ELSE /\ calls' = Tail(calls)
            /\ UNCHANGED <<kind, comp, schedVars, req_buf, under, alloc_mem, issued, completed, pc, bad>>

-----------------------------------------------------------------------------
(* in_mem_io: every request is run at once                                   *)

\* access: the next request of the call
MemAccess ==
  LET reqs == calls[1][2]
  IN /\ kind = "mem" /\ pc.at = "idle" /\ calls # <<>> /\ calls[1][1] = "access" /\ reqs # <<>>
     /\ \E post \in {RunAndPost([comp EXCEPT ![Head(reqs)].refs = @ + 1,
                                             ![Head(reqs)].asked = @ + 1], Head(reqs))} :
          /\ comp' = post.comp /\ queue' = post.queue
          /\ bad' = IF post.bad THEN bad \cup {"post_comp_process"} ELSE bad
     /\ calls' = [calls EXCEPT ![1][2] = Tail(reqs)]
     /\ UNCHANGED <<kind, start, curr_it, some_done, req_buf, under, alloc_mem, issued, completed, pc>>

\* process_computes: a buffer of requests of the tasks, ...
MemFetch ==
  /\ kind = "mem" /\ pc.at = "idle" /\ calls # <<>> /\ calls[1] = <<"access", <<>>>> /\ req_buf = <<>>
  /\ \E s \in {get_requests(req_buf, BufCap)} :
       /\ comp' = s.comp /\ req_buf' = s.buf /\ curr_it' = s.it /\ some_done' = s.done
       /\ bad' = IF s.bad THEN bad \cup {"get_requests"} ELSE bad
       /\ pc' = IF s.buf = <<>> THEN [at |-> "gc"] ELSE [at |-> "run"]
  /\ UNCHANGED <<kind, calls, queue, start, under, alloc_mem, issued, completed>>

\* ... run one after the other
MemNext ==
  /\ pc.at = "run"
  /\ \E post \in {RunAndPost(comp, Head(req_buf))} :
          /\ comp' = post.comp /\ queue' = post.queue
          /\ bad' = IF post.bad THEN bad \cup {"post_comp_process"} ELSE bad
  /\ req_buf' = Tail(req_buf)
  /\ pc' = IF Len(req_buf) = 1 THEN [at |-> "idle"] ELSE pc
  /\ UNCHANGED <<kind, calls, start, curr_it, some_done, under, alloc_mem, issued, completed>>

\* At the end of access the completed tasks are collected
MemEnd ==
  /\ pc.at = "gc" /\ pc' = [at |-> "idle"] /\ calls' = Tail(calls)
  /\ \E gc \in {gc_computes(comp, some_done)} :
       /\ comp' = gc.comp /\ queue' = gc.queue /\ start' = gc.start
       /\ curr_it' = IF gc.gone THEN gc.start + Len(gc.queue) ELSE curr_it
       /\ some_done' = (some_done /\ ~gc.gone)
  /\ UNCHANGED <<kind, req_buf, under, alloc_mem, issued, completed, bad>>

-----------------------------------------------------------------------------
\* A failed assertion ends the process
Next ==
  /\ bad = {}
  /\ \/ Access \/ AccessEnd \/ (\E c \in Computes : complete_req(c))
     \/ wait4complete \/ WaitEnd \/ cleanup
     \/ MemAccess \/ MemFetch \/ MemNext \/ MemEnd

CompSpec == Init /\ [][Next]_compVars

-----------------------------------------------------------------------------
(* Properties                                                                *)

\* A task has a reference for each of its requests, waiting or given to the
\* disks, and one for its place in the queue, where it is once, but for the requests
\* that one access queued behind the first that did not fit: those have none
\* (direct_comp_access.cpp:294-303).  A task without such a request is freed when its
\* last reference goes and nothing refers to a freed task; for a task with one the
\* assertion of post_comp_process can fail, and for no other.
RefsExact ==
  /\ \A c \in Computes :
       /\ comp[c].refs + comp[c].owed = under[c] + Count(req_buf, c) + Count(queue, c)
       /\ Count(queue, c) = IF comp[c].in_queue THEN 1 ELSE 0
       /\ comp[c].freed /\ comp[c].owed = 0 => comp[c].refs = 0 /\ has_completed(comp[c])
  /\ bad # {} => bad = {"post_comp_process"} /\ \E c \in Computes : comp[c].owed > 0

\* The memory of the requests given to the disks is counted exactly and exceeds
\* the limit by less than one request; the pending requests are those that wait
\* and those given to the disks.
MemoryBounded ==
  kind = "direct" =>
    /\ alloc_mem = MapThenSumSet(LAMBDA c : under[c] * DiskSize(c), Computes)
    /\ alloc_mem <= MaxMem + Max({DiskSize(c) : c \in Computes})
    /\ num_pending_ios = Len(req_buf) + MapThenSumSet(LAMBDA c : under[c], Computes)

\* The calls return, and when the last one has (cleanup, or access to memory),
\* every task that was given a request has had all its runs and is freed: none is
\* left in the queue for a request nobody fetches, and none is leaked, but for the
\* tasks whose request was queued without a reference.  Only the assertion that such
\* a task makes fail keeps the calls from returning.
TasksDone ==
  \/ bad = {"post_comp_process"} /\ \E c \in Computes : comp[c].freed /\ comp[c].owed > 0
  \/ /\ calls = <<>> /\ queue = <<>>
     /\ \A c \in Computes : comp[c].asked > 0 => /\ has_completed(comp[c])
                                                 /\ comp[c].freed <=> comp[c].owed = 0

=============================================================================
