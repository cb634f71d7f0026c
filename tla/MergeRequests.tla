---------------------------- MODULE MergeRequests ---------------------------
(***************************************************************************)
(* How a global_cached_io with merge_reqs sends its reads to the disks     *)
(* (SAFS/libsafs/global_cached_private.{h,cpp}): send2underlying keeps     *)
(* them in underlying_requests, and flush_requests joins those that follow *)
(* each other within a RAID block before it sends them.  GlobalCachedIO    *)
(* models the same object without merge_reqs, and with writes.             *)
(*                                                                         *)
(* Grain.  A call of the application thread up to the point where it may   *)
(* sleep is a step; a request is done at the disks, put into               *)
(* completed_disk_queue, and then the thread is activated.  Offsets and    *)
(* sizes are in pages.  A request of the user is the pages it still lacks. *)
(***************************************************************************)
EXTENDS Integers, Sequences, FiniteSets, SequencesExt

CONSTANTS
  Pages,            \* 0 .. n
  BlockSize,        \* pages of a RAID block
  Programs,         \* sequences of <<"read", off, n>>, <<"compute", off, n>>,
                    \* <<"flush">> and <<"wait", num_to_complete>>
  Exts,             \* io_req_extensions
  MaxEvict,         \* bound: evictions
  NULL

VARIABLES page,     \* "absent", "pending" (I/O pending) or "ready"
          under,    \* underlying_requests
          flight,   \* requests at the underlying I/O
          doneq,    \* completed_disk_queue
          num,      \* num_to_underlying, num_from_underlying, num_underlying_pages
          lacks,    \* request of the user -> its pages that are pending
          tasks,    \* requests that user tasks will issue
          notifying, activated,
          calls, pc, evicted

vars == <<page, under, flight, doneq, num, lacks, tasks, notifying, activated, calls, pc,
          evicted>>

Running == [at |-> "run", prev |-> 0, want |-> 0]

Init ==
  /\ page = [p \in Pages |-> "absent"]
  /\ under = <<>> /\ flight = {} /\ doneq = <<>> /\ lacks = <<>> /\ tasks = <<>>
  /\ num = [to |-> 0, from |-> 0, pages |-> 0]
  /\ notifying = 0 /\ activated = FALSE
  /\ calls \in Programs /\ pc = Running /\ evicted = 0

-----------------------------------------------------------------------------
(* read and send2underlying, on a record s of the variables that they change *)

State == [page |-> page, under |-> under, flight |-> flight, num |-> num, lacks |-> lacks]

Used(s) == {s.under[i].ext : i \in DOMAIN s.under} \cup {r.ext : r \in s.flight}
           \cup {doneq[i].ext : i \in DOMAIN doneq}

\* send2underlying with merge_reqs; the extension was allocated with the request
send2underlying(s, bufs) ==
  IF bufs = <<>> THEN s
  ELSE [s EXCEPT !.under = Append(@, [off |-> Head(bufs), bufs |-> bufs, priv |-> Last(bufs),
                                      ext |-> CHOOSE e \in Exts : e \notin Used(s)])]

\* read: pages that are absent are collected, one that is pending or ready breaks
\* the request; __read is read of one page
Collect(a, p) ==
  IF a.s.page[p] = "absent"
    THEN [s |-> [a.s EXCEPT !.page[p] = "pending"], bufs |-> Append(a.bufs, p)]
    ELSE [s |-> send2underlying(a.s, a.bufs), bufs |-> <<>>]

read(s, off, n) ==
  LET pages == [i \in 1 .. n |-> off + i - 1]
  IN CHOOSE r \in {send2underlying(a.s, a.bufs) :
                     a \in {FoldLeft(Collect, [s |-> s, bufs |-> <<>>], pages)}} : TRUE

\* process_user_req of n pages: one read for each RAID block.  What the request lacks
\* then is pending.
process_user_req(s, off, n) ==
  LET first == off \div BlockSize
      from(b) == IF b * BlockSize < off THEN off ELSE b * BlockSize
      to(b) == IF (b + 1) * BlockSize > off + n THEN off + n ELSE (b + 1) * BlockSize
      bs == [i \in 1 .. (off + n - 1) \div BlockSize - first + 1 |-> first + i - 1]
      lacking(t) == [t EXCEPT !.lacks = Append(@, {p \in off .. off + n - 1 :
                                                     t.page[p] = "pending"})]
      reads == FoldLeft(LAMBDA u, b : read(u, from(b), to(b) - from(b)), s, bs)
  IN CHOOSE r \in {lacking(t) : t \in {reads}} : TRUE

-----------------------------------------------------------------------------
(* flush_requests                                                            *)

cross_RAID_block_bound(off, size) == (off % BlockSize) + size > BlockSize

\* merge_req: the pages join, those it has already must be the same, and priv goes
merge_req(merged, req) ==
  [merged EXCEPT !.bufs = @ \o SelectSeq(req.bufs,
                              LAMBDA p : ~(merged.off <= p /\ p < merged.off + Len(merged.bufs))),
                 !.priv = NULL]

\* One turn of the loop: req is being built, sent are the requests before it
Flush1(a, u) ==
  IF \/ u.off # a.req.off + Len(a.req.bufs)
     \/ cross_RAID_block_bound(a.req.off, Len(a.req.bufs) + Len(u.bufs))
    THEN [sent |-> Append(a.sent, a.req), req |-> u]
    ELSE [a EXCEPT !.req = merge_req(@, u)]

NumPages(rs) == FoldLeft(LAMBDA n, r : n + Len(r.bufs), 0, rs)

flush_requests(s) ==
  IF s.under = <<>> THEN s
  ELSE LET a == FoldLeft(Flush1, [sent |-> <<>>, req |-> Head(s.under)], Tail(s.under))
           sent == Append(a.sent, a.req)
       IN [s EXCEPT !.under = <<>>,
                    !.flight = @ \cup Range(sent),
                    !.num.to = @ + Len(sent),
                    !.num.pages = @ + NumPages(sent)]

-----------------------------------------------------------------------------
(* process_all_requests                                                      *)

\* process_disk_completed_requests: the pages are ready, and the requests of the user
\* that waited for them go on; a request of one page finds it through priv
Completes(r) == IF Len(r.bufs) > 1 THEN Range(r.bufs) ELSE {r.priv}

process_disk_completed_requests(s) ==
  LET ps == UNION {Completes(doneq[i]) : i \in DOMAIN doneq}
  IN [s EXCEPT !.page = [p \in Pages |-> IF p \in ps THEN "ready" ELSE @[p]],
               !.num.from = @ + Len(doneq),
               !.num.pages = @ - NumPages(doneq),
               !.lacks = [r \in DOMAIN @ |-> @[r] \ ps]]

\* process_all_requests: completed requests first, then what the user tasks issue
process_all_requests(s) ==
  LET issued == FoldLeft(LAMBDA t, q : process_user_req(t, q[1], q[2]),
                         process_disk_completed_requests(s), tasks)
  IN CHOOSE r \in {flush_requests(t) : t \in {issued}} : TRUE

NumCompleted(s) == Cardinality({r \in DOMAIN s.lacks : s.lacks[r] = {}})
num_pending_ios(s) == Len(s.lacks) - NumCompleted(s)

Becomes(s) ==
  /\ page' = s.page /\ under' = s.under /\ flight' = s.flight
  /\ num' = s.num /\ lacks' = s.lacks

-----------------------------------------------------------------------------
(* The application thread                                                    *)

Calls(call) == pc.at = "run" /\ calls # <<>> /\ Head(calls)[1] = call

access ==
  /\ Calls("read")
  /\ Becomes(process_user_req(State, Head(calls)[2], Head(calls)[3]))
  /\ calls' = Tail(calls)
  /\ UNCHANGED <<doneq, tasks, notifying, activated, pc, evicted>>

\* A user task that will issue a request when the scheduler asks it
add_compute ==
  /\ Calls("compute")
  /\ tasks' = Append(tasks, <<Head(calls)[2], Head(calls)[3]>>)
  /\ calls' = Tail(calls)
  /\ UNCHANGED <<page, under, flight, doneq, num, lacks, notifying, activated, pc, evicted>>

flush ==
  /\ Calls("flush")
  /\ Becomes(flush_requests(State))
  /\ calls' = Tail(calls)
  /\ UNCHANGED <<doneq, tasks, notifying, activated, pc, evicted>>

\* After process_all_requests: enough are complete, or once more round the loop
Loop(s, prev, want) ==
  pc' = IF NumCompleted(s) - prev >= want THEN Running
        ELSE [at |-> "wait", prev |-> prev, want |-> want]

Process(s0, prev, want) ==
  \E s \in {process_all_requests(s0)} :
    /\ Becomes(s)
    /\ doneq' = <<>> /\ tasks' = <<>>
    /\ Loop(s, prev, want)

wait4complete ==
  /\ Calls("wait")
  /\ \E s \in {flush_requests(State)} :
       LET pending == num_pending_ios(s)
           want == Head(calls)[2]
       IN Process(s, NumCompleted(s), IF pending < want THEN pending ELSE want)
  /\ calls' = Tail(calls)
  /\ UNCHANGED <<notifying, activated, evicted>>

\* The thread sleeps only while there are requests at the underlying I/O
wait4complete_loop ==
  /\ pc.at = "wait"
  /\ num.to - num.from > 0 => activated
  /\ activated' = (activated /\ num.to - num.from = 0)
  /\ Process(State, pc.prev, pc.want)
  /\ UNCHANGED <<notifying, calls, evicted>>

-----------------------------------------------------------------------------
(* The disks, and other threads that evict pages                             *)

notify_completion ==
  \E r \in flight :
    /\ flight' = flight \ {r} /\ doneq' = Append(doneq, r)
    /\ notifying' = notifying + 1
    /\ UNCHANGED <<page, under, num, lacks, tasks, activated, calls, pc, evicted>>

notify_activate ==
  /\ notifying > 0 /\ notifying' = notifying - 1
  /\ activated' = TRUE
  /\ UNCHANGED <<page, under, flight, doneq, num, lacks, tasks, calls, pc, evicted>>

Evict(p) ==
  /\ page[p] = "ready" /\ evicted < MaxEvict
  /\ page' = [page EXCEPT ![p] = "absent"] /\ evicted' = evicted + 1
  /\ UNCHANGED <<under, flight, doneq, num, lacks, tasks, notifying, activated, calls, pc>>

User == access \/ add_compute \/ flush \/ wait4complete \/ wait4complete_loop
Disks == notify_completion \/ notify_activate

Next == User \/ Disks \/ \E p \in Pages : Evict(p)

Spec == Init /\ [][Next]_vars /\ WF_vars(User) /\ WF_vars(Disks)

-----------------------------------------------------------------------------
(* Properties                                                                *)

Sent == flight \cup Range(doneq)

\* Every page with I/O pending is in exactly one request, whether that waits to be
\* merged, is at the disks or done; a request holds pages that follow each other from
\* its offset, has an extension of its own, and names its page when it has only one.
PagesOnce ==
  LET rs == Range(under) \cup Sent
  IN /\ Cardinality(Range(under)) = Len(under)
     /\ \A p \in Pages : Cardinality({r \in rs : p \in Range(r.bufs)})
                         = IF page[p] = "pending" THEN 1 ELSE 0
     /\ \A r \in rs :
          /\ \A i \in DOMAIN r.bufs : r.bufs[i] = r.off + i - 1
          /\ Len(r.bufs) = 1 => r.priv = r.off
          /\ \A q \in rs : q.ext = r.ext => q = r

\* No request at the disks goes over the end of a RAID block, whatever was merged, so
\* that the remote_io has none to split.
MergedInBlock ==
  \A r \in Sent : r.off \div BlockSize = (r.off + Len(r.bufs) - 1) \div BlockSize

\* num_to_underlying, num_from_underlying and num_underlying_pages count what is at
\* the disks or done, although requests are counted when they are merged.
UnderlyingExact ==
  /\ num.to - num.from = Cardinality(Sent)
  /\ num.pages = NumPages(SetToSeq(Sent))

\* The thread does not sleep on requests that it has not sent: what it waits for in
\* wait4complete is at the disks or about to be notified.
SleepsOnSent ==
  pc.at = "wait" /\ num.to - num.from > 0 /\ ~activated => flight # {} \/ notifying > 0

\* Every wait4complete returns.
WaitsDone == calls = <<>> /\ pc.at = "run"
=============================================================================
