--------------------------- MODULE GlobalCachedIO ---------------------------
(***************************************************************************)
(* The cached I/O of SAFS (SAFS/libsafs/global_cached_private.{h,cpp}):    *)
(* several global_cached_io instances, one per application thread, share   *)
(* one set of the page cache.  The module models how a user request is     *)
(* broken into pages, how a page is found or evicted, how requests queue   *)
(* on a page whose I/O is pending or whose old dirty data is being written *)
(* back, how completions are handed from one instance to another, and how  *)
(* an instance drains itself in cleanup().                                 *)
(*                                                                         *)
(* Grain.  A step of a thread is one critical section: the cell lock of    *)
(* hash_cell::search, the lock of one page, or one operation on a queue.   *)
(* Reading a page's OLD_DIRTY flag without the lock right after search is  *)
(* part of the search step: the flag can only be cleared in between, and   *)
(* the code tests it again under the page lock.                            *)
(*                                                                         *)
(* Data.  The contents of a page are the set of writes they reflect: a     *)
(* write of the whole page replaces the set, a write of a part of it adds  *)
(* itself.  A page of the file starts as {<<"file", page>>}.               *)
(*                                                                         *)
(* Parameters as in sys_parameters' constructor: merge_reqs,               *)
(* cache_large_write and use_flusher are off, so flush_requests,           *)
(* merge_pages2req and mark_dirty_pages return at once.                    *)
(***************************************************************************)
EXTENDS Integers, Sequences, FiniteSets, SequencesExt, FiniteSetsExt

CONSTANTS
  Clients,      \* the global_cached_io instances, one per application thread
  Frames,       \* the pages (page structures with memory) of the page set
  FilePages,    \* the pages of the file, 0..n
  Scripts,      \* the sequences of arrays of requests each client may issue
  BlockPages,   \* get_block_size(): pages of a RAID block
  MaxPending,   \* get_max_num_pending_ios()
  MaxUnderlying,\* pages in requests to the underlying I/O (1000)
  None          \* no page, no request, no frame

\* A synchronous request is the only one of its array
CachedAssumption ==
  /\ BlockPages \in Nat \ {0} /\ MaxPending \in Nat \ {0} /\ MaxUnderlying \in Nat \ {0}
  /\ \A s \in Scripts, c \in Clients : \A i \in DOMAIN s[c] :
       Len(s[c][i]) > 1 => \A j \in DOMAIN s[c][i] : ~s[c][i][j].sync

VARIABLES
  frame,    \* page flags, reference count, queued requests and contents; was
            \* is the page whose dirty data an evicted frame still holds
  disk,     \* contents of the file
  current,  \* contents the writes applied so far have given each page (history)
  raced,    \* pages read from the file while their dirty data was still in an
            \* evicted frame (history)
  misread,  \* pages whose frame another page of the file was read into (history)
  under,    \* requests the underlying I/O has not completed
  done,     \* original_io_request::status_arr: completed pages of a live request
  held,     \* status_arr[i].pg: frames a user-compute request keeps referenced
  cl,       \* state of each global_cached_io and of the thread that runs it
  failed    \* assertions of the code that failed: the process has aborted

vars == <<frame, disk, current, raced, misread, under, done, held, cl, failed>>

-----------------------------------------------------------------------------
(* Requests: [io, n, op, lo, hi, part, sync] covers the pages lo..hi; with   *)
(* part, only a part of page hi.  op is READ, WRITE (basic requests) or      *)
(* COMPUTE (a read whose pages are handed to a user_compute).                *)

Pages(r) == r.lo .. r.hi

within_1page(r) == r.lo = r.hi

Covers(r, p) == ~(r.part /\ p = r.hi)

\* get_size() and get_overlap_size() in half pages
get_size(r) == 2 * Cardinality(Pages(r)) - (IF r.part THEN 1 ELSE 0)
get_overlap_size(r, p) == IF Covers(r, p) THEN 2 ELSE 1

\* has_overlap of a request for page p with the range of r, as written
has_overlap(p, r) ==
  LET begin == 2 * p
      off == 2 * r.lo
      end == off + get_size(r)
  IN \/ off >= begin /\ off < begin + 2
     \/ end >= begin /\ end < begin + 2
     \/ off <= begin /\ end >= begin + 2

WriteTo(r, p, data) == (IF Covers(r, p) THEN {} ELSE data) \cup {<<r.io, r.n>>}

EmptyPage == [id |-> None, ready |-> FALSE, pend |-> FALSE, dirty |-> FALSE,
              old |-> FALSE, was |-> None, ref |-> 0, reqs |-> <<>>,
              data |-> {}]

Init ==
  /\ frame = [f \in Frames |-> EmptyPage]
  /\ disk = [p \in FilePages |-> {<<"file", p>>}]
  /\ current = disk
  /\ raced = {} /\ misread = {}
  /\ under = {}
  /\ done = <<>>
  /\ held = {}
  /\ failed = {}
  /\ \E s \in Scripts :
       cl = [c \in Clients |->
              [script |-> s[c], pc |-> "app", ret |-> "app", goal |-> "app",
               req |-> None, next |-> 0, orig |-> FALSE, arg |-> None,
               batch |-> <<>>, behind |-> FALSE,
               pg |-> None, then |-> "search",
               run |-> <<>>, buf |-> <<>>, ready |-> 0, bytes |-> 0,
               cached |-> <<>>, userq |-> <<>>, pendq |-> <<>>,
               doneq |-> <<>>, diskq |-> <<>>, got |-> <<>>, active |-> FALSE,
               issued |-> 0, processed |-> 0, completed |-> 0,
               to |-> 0, from |-> 0, npages |-> 0, want |-> 0]]


-----------------------------------------------------------------------------
\* assert(cond) with the given name, in a build without NDEBUG
Check(name, cond) == failed' = IF cond THEN failed ELSE failed \cup {<<name>>}

Goto(c, s) == cl' = [cl EXCEPT ![c] = s]

\* partial_request::is_empty of processing_req
Idle(s) == s.req = None \/ s.next > s.req.hi

\* partial_request::init
StartReq(s, r) == [s EXCEPT !.req = r, !.next = r.lo, !.orig = FALSE,
                            !.ready = 0, !.bytes = 0, !.pc = "search"]

(* What a thread does between two steps on shared state touches only its own *)
(* queues and counters, so a step runs on to the next point where the thread *)
(* needs a page, a shared queue or a wake-up: these operators give that      *)
(* point.                                                                    *)

num_pending_ios(s) == s.issued - s.completed

\* Mutant: sleep whatever the underlying I/O has to do
AlwaysSleep(s) ==
  IF s.completed >= s.want THEN [s EXCEPT !.pc = "app", !.goal = "app"]
  ELSE [s EXCEPT !.pc = "sleep"]

\* The loop of wait4complete sleeps only while the underlying I/O has requests
\* of this instance
wait4complete(s) ==
  IF s.completed >= s.want THEN [s EXCEPT !.pc = "app", !.goal = "app"]
  ELSE IF s.to - s.from > 0 THEN [s EXCEPT !.pc = "sleep"]
  ELSE [s EXCEPT !.pc = "disk"]

\* The end of the loop of process_all_requests
Again(s) ==
  CASE s.cached # <<>> -> [s EXCEPT !.pc = "cached"]
    [] s.cached = <<>> /\ s.doneq # <<>> -> [s EXCEPT !.pc = "complete"]
    [] OTHER -> IF s.goal = "wait4complete" THEN wait4complete(s)
                ELSE [s EXCEPT !.pc = "wait4req"]

\* process_user_reqs(user_requests) after it continued the unfinished request
process_user_reqs(s) ==
  LET r == Head(s.userq)
      t == [s EXCEPT !.userq = Tail(@), !.processed = @ + 1]
  IN IF /\ Idle(s) /\ s.userq # <<>>
        /\ s.processed - s.completed < MaxPending /\ s.npages < MaxUnderlying
       THEN IF r.sync THEN [t EXCEPT !.pc = "abort async"]
            ELSE [StartReq(t, r) EXCEPT !.ret = "more"]
     ELSE Again(s)

\* process_user_reqs is called for the requests of user computes, which issue
\* none in this model, and for those of the user: each call first continues
\* the request that could not be finished
Continue(s, ret, otherwise) ==
  IF Idle(s) THEN otherwise ELSE [s EXCEPT !.pc = "search", !.ret = ret]

AtUsers(s) == Continue(s, "more", process_user_reqs(s))
AtComps(s) == Continue(s, "users", AtUsers(s))

AtComplete(s) ==
  IF s.doneq # <<>> THEN [s EXCEPT !.pc = "complete"] ELSE AtComps(s)

AtCached(s) ==
  CASE s.cached # <<>> -> [s EXCEPT !.pc = "cached"]
    [] s.cached = <<>> /\ s.goal = "app" -> [s EXCEPT !.pc = "app"]
    [] OTHER -> AtComplete(s)

\* num_pages_ready counts the ready pages found, num_bytes_completed the bytes
\* of the calls that return a size
Served(s) == \/ s.ready = Cardinality(Pages(s.req))
             \/ s.bytes = get_size(s.req)

\* The loop of access over its array
NextOfArray(s) ==
  IF s.batch = <<>> THEN [s EXCEPT !.pc = "app"]
  ELSE LET r == Head(s.batch)
       IN [StartReq(s, r) EXCEPT !.batch = Tail(@), !.ret = "access",
                                 !.processed = IF r.sync THEN @ ELSE @ + 1]

\* The rest of the array queues behind a request that is not finished.  behind: one
\* of them is synchronous, and its call returns IO_OK.
QueueRest(s) ==
  [s EXCEPT !.userq = @ \o s.batch, !.batch = <<>>, !.pc = "app", !.goal = "app",
            !.behind = @ \/ \E i \in DOMAIN s.batch : s.batch[i].sync]

\* access and the synchronous access after process_user_req
FromAccess(s) ==
  CASE ~s.req.sync -> IF Idle(s) THEN NextOfArray(s) ELSE QueueRest(s)
    [] s.req.sync /\ Served(s) -> AtCached([s EXCEPT !.goal = "app"])
    [] OTHER -> [s EXCEPT !.pc = IF s.orig THEN "check" ELSE "abort orig",
                          !.goal = "wait4req", !.arg = s.req]

\* access after the earlier request: the array is processed, or it queues; a
\* synchronous access then processes the requests served in the cache
Resume(s) ==
  IF Idle(s) THEN NextOfArray(s)
  ELSE LET t == QueueRest(s)
       IN IF Head(s.batch).sync /\ s.cached # <<>> THEN [t EXCEPT !.pc = "cached"] ELSE t

\* process_user_req returns
Return(s) ==
  CASE s.ret = "access" -> FromAccess(s)
    [] s.ret = "resume" -> Resume(s)
    [] s.ret = "users" -> AtUsers(s)
    [] s.ret = "more" -> process_user_reqs(s)

\* Label "end" of process_user_req: the pages collected so far are read
AtEnd(s) == IF s.run = <<>> THEN Return(s)
            ELSE [s EXCEPT !.pc = "read", !.then = "return"]

\* The head of the while loop of process_user_req
Loop(s) == IF Idle(s) THEN AtEnd(s) ELSE [s EXCEPT !.pc = "search"]

\* The page s.pg is given to __write, or added to the pages that one read will
\* cover; read is called at the end of a RAID block.
Use(s) ==
  IF s.req.op = "WRITE" THEN [s EXCEPT !.pc = "write"]
  ELSE LET t == [s EXCEPT !.run = Append(@, s.pg)]
       IN IF s.next % BlockPages = 0
            THEN [t EXCEPT !.pc = "read", !.then = "search"]
            ELSE Loop(t)

\* send2underlying and the accounting of write_dirty_page
Send(s, n) == [s EXCEPT !.to = @ + 1, !.npages = @ + n]

Request(c, op, loc, pages) ==
  [io |-> c, op |-> op, loc |-> loc, pages |-> pages]

\* finalize_partial_request with complete_range: page p of r is done.  A
\* finished synchronous request wakes its thread, which is the thread itself.
Finalize(s, r, p) ==
  IF done[r] \cup {p} # Pages(r) THEN s
  ELSE IF r.sync THEN [s EXCEPT !.active = TRUE]
  ELSE [s EXCEPT !.doneq = Append(@, r)]

\* Mutant: a write does not mark the page dirty
CompletedClean(fr, r) ==
  CASE r.op = "WRITE" -> [fr EXCEPT !.data = WriteTo(r, fr.id, @), !.ref = @ - 1]
    [] r.op = "READ" -> [fr EXCEPT !.ref = @ - 1]
    [] r.op = "COMPUTE" -> fr

\* Mutant: a user-compute request takes no reference of its own
CompletedNoRef(fr, r) ==
  IF r.op = "WRITE" THEN [fr EXCEPT !.data = WriteTo(r, fr.id, @),
                                    !.dirty = TRUE, !.ref = @ - 1]
  ELSE [fr EXCEPT !.ref = @ - 1]

\* original_io_request::complete_req, then dec_ref: a user-compute request
\* takes a reference of its own before the caller drops the page's
Completed(fr, r) ==
  CASE r.op = "WRITE" -> [fr EXCEPT !.data = WriteTo(r, fr.id, @),
                                    !.dirty = TRUE, !.ref = @ - 1]
    [] r.op = "READ" -> [fr EXCEPT !.ref = @ - 1]
    [] r.op = "COMPUTE" -> fr

\* What completing page id of r in frame f does to the shared state
CompleteIn(f, fr, r) ==
  /\ frame' = [frame EXCEPT ![f] = Completed(fr, r)]
  /\ current' = IF r.op = "WRITE"
                  THEN [current EXCEPT ![fr.id] = WriteTo(r, fr.id, @)]
                  ELSE current
  /\ done' = [done EXCEPT ![r] = @ \cup {fr.id}]
  /\ held' = IF r.op = "COMPUTE" THEN held \cup {<<r, f>>} ELSE held

-----------------------------------------------------------------------------
(* access: an array of requests of the application.                          *)

access(c) ==
  LET s == cl[c]
      array == Head(s.script)
      t == [s EXCEPT !.script = Tail(@), !.batch = array,
                     !.issued = @ + Len(SelectSeq(array, LAMBDA r : ~r.sync))]
  IN /\ s.pc = "app" /\ s.script # <<>>
     /\ Goto(c, IF Idle(s) THEN NextOfArray(t)
                ELSE [t EXCEPT !.pc = "search", !.ret = "resume"])
     /\ UNCHANGED <<frame, disk, current, raced, misread, under, done, held, failed>>

\* page_cache::search under the cell lock, and the unlocked tests that follow.
\* A page not in the set takes over an unreferenced frame.
SearchHit(c, f) ==
  LET s == cl[c]
      fr == frame[f]
      t == [s EXCEPT !.next = @ + 1, !.pg = f,
                     !.ready = IF fr.ready THEN @ + 1 ELSE @]
      new == IF s.orig THEN done ELSE (s.req :> {}) @@ done
      o == [t EXCEPT !.orig = TRUE]
  IN /\ frame' = [frame EXCEPT ![f].ref = @ + 1]
     /\ IF within_1page(s.req) /\ fr.ready
          THEN /\ Goto(c, Return([t EXCEPT
                                    !.cached = Append(@, <<s.req, f>>)]))
               /\ UNCHANGED done
          ELSE /\ done' = new
               /\ Goto(c, IF ~fr.old THEN Use(o)
                          ELSE IF s.run = <<>> THEN [o EXCEPT !.pc = "queue"]
                          ELSE [o EXCEPT !.pc = "read", !.then = "queue"])
     /\ UNCHANGED failed

SearchEvict(c, f) ==
  LET s == cl[c]
      fr == frame[f]
      o == [s EXCEPT !.next = @ + 1, !.pg = f, !.orig = TRUE]
  IN /\ fr.ref = 0
     /\ frame' = [frame EXCEPT ![f] =
                    [@ EXCEPT !.id = s.next, !.ready = FALSE, !.dirty = FALSE,
                              !.old = fr.dirty, !.ref = 1,
                              !.was = IF fr.dirty THEN fr.id ELSE None]]
     /\ done' = IF s.orig THEN done ELSE (s.req :> {}) @@ done
     /\ Goto(c, IF ~fr.dirty THEN Use(o)
                ELSE IF s.run = <<>> THEN [o EXCEPT !.pc = "evict"]
                ELSE [o EXCEPT !.pc = "read", !.then = "evict"])
     /\ Check("evict", ~fr.pend /\ ~fr.old /\ fr.reqs = <<>>)

\* The set has no page to give: process_user_req stops for now.  The GClock
\* policy may count one referenced page several times, so it may also give up
\* while an unreferenced page exists, but never when no page is referenced.
SearchFull(c) ==
  /\ \E f \in Frames : frame[f].ref > 0
  /\ Goto(c, AtEnd(cl[c]))
  /\ UNCHANGED <<frame, done, failed>>

Hits(p) == {f \in Frames : frame[f].id = p}

search(c) ==
  /\ cl[c].pc = "search"
  /\ LET hits == Hits(cl[c].next)
     IN \/ \E f \in hits : SearchHit(c, f)
        \/ hits = {} /\ \E f \in Frames : SearchEvict(c, f)
        \/ hits = {} /\ SearchFull(c)
  /\ UNCHANGED <<disk, current, raced, misread, under, held>>

-----------------------------------------------------------------------------
(* Pages whose frame holds old dirty data.                                   *)

\* write_dirty_page: the evicting thread writes the old data back, with a
\* reference of its own; its request waits on the page
write_dirty_page(c) ==
  LET s == cl[c]
      fr == frame[s.pg]
  IN /\ s.pc = "evict"
     /\ IF has_overlap(fr.was, s.req)
          THEN failed' = failed \cup {<<"overlap", s.req, fr.was>>}
          ELSE Check("write_dirty_page", ~fr.pend /\ fr.ref > 0)
     /\ frame' = [frame EXCEPT ![s.pg] =
                    [@ EXCEPT !.pend = TRUE, !.ref = @ + 1,
                              !.reqs = <<s.req>> \o @]]
     /\ under' = under \cup {Request(c, "WRITE", fr.was, <<s.pg>>)}
     /\ Goto(c, Loop(Send(s, 1)))
     /\ UNCHANGED <<disk, current, raced, misread, done, held>>

\* Mutant: the page is used without waiting for its old data to be written
QueueNothing(c) ==
  /\ cl[c].pc = "queue"
  /\ Goto(c, Use(cl[c]))
  /\ UNCHANGED <<frame, disk, current, raced, misread, under, done, held, failed>>

\* Another thread evicted the page: the request waits on it, unless the old
\* data has been written meanwhile
QueueOnPage(c) ==
  LET s == cl[c]
  IN /\ s.pc = "queue"
     /\ IF frame[s.pg].old
          THEN /\ frame' = [frame EXCEPT ![s.pg].reqs = <<s.req>> \o @]
               /\ Goto(c, Loop(s))
          ELSE Goto(c, Use(s)) /\ UNCHANGED frame
     /\ UNCHANGED <<disk, current, raced, misread, under, done, held, failed>>

-----------------------------------------------------------------------------
(* Using a page for a request                                                *)

\* Where __write returns to: the loop of process_user_req, or the one of
\* handle_pending_requests, which does not use the bytes written
Written(c, s) == IF s.pc = "write" THEN Loop(s) ELSE [s EXCEPT !.bytes = cl[c].bytes]

\* __write
Write(c, s, r, f) ==
  LET fr == frame[f]
      queued == [fr EXCEPT !.reqs = <<r>> \o @]
      Done(n) == Written(c, [Finalize(s, r, fr.id) EXCEPT !.bytes = @ + n])
  IN \/ /\ fr.ready
        /\ CompleteIn(f, fr, r)
        /\ Goto(c, Done(get_size(r)))
        /\ UNCHANGED under
        /\ Check("write", ~fr.old /\ fr.id \notin done[r])
     \/ /\ ~fr.ready /\ ~fr.pend /\ Covers(r, fr.id)
        /\ CompleteIn(f, [fr EXCEPT !.ready = TRUE], r)
        /\ Goto(c, Done(2))
        /\ UNCHANGED under
        /\ Check("write", ~fr.old /\ ~fr.dirty /\ fr.id \notin done[r])
     \/ /\ ~fr.ready /\ ~fr.pend /\ ~Covers(r, fr.id)
        /\ frame' = [frame EXCEPT ![f] = [queued EXCEPT !.pend = TRUE]]
        /\ under' = under \cup {Request(c, "READ", r.lo, <<f>>)}
        /\ Goto(c, Written(c, Send(s, 1)))
        /\ UNCHANGED <<current, done, held>>
        /\ Check("write", ~fr.old /\ ~fr.dirty /\ fr.reqs = <<>>)
     \/ /\ ~fr.ready /\ fr.pend
        /\ frame' = [frame EXCEPT ![f] = queued]
        /\ Goto(c, Written(c, s))
        /\ UNCHANGED <<under, current, done, held>>
        /\ Check("write", ~fr.old)

\* __read
Read1(c, s, r, f) ==
  LET fr == frame[f]
      queued == [fr EXCEPT !.reqs = <<r>> \o @]
  IN \/ /\ fr.ready
        /\ CompleteIn(f, fr, r)
        /\ Goto(c, Finalize(s, r, fr.id))
        /\ UNCHANGED under
        /\ Check("read", fr.id \notin done[r])
     \/ /\ ~fr.ready /\ ~fr.pend
        /\ frame' = [frame EXCEPT ![f] = [queued EXCEPT !.pend = TRUE]]
        /\ under' = under \cup {Request(c, "READ", fr.id, <<f>>)}
        /\ Goto(c, Send(s, 1))
        /\ UNCHANGED <<current, done, held>>
        /\ Check("read", fr.reqs = <<>> /\ ~fr.dirty)
     \/ /\ ~fr.ready /\ fr.pend
        /\ frame' = [frame EXCEPT ![f] = queued]
        /\ Goto(c, s)
        /\ UNCHANGED <<under, current, done, held>>
        /\ Check("read", r.op # "WRITE")

write(c) ==
  LET s == cl[c]
  IN /\ s.pc = "write"
     /\ Write(c, s, s.req, s.pg)
     /\ UNCHANGED <<disk, raced, misread>>

\* One page of read(): pages neither ready nor pending are collected in one
\* request, which any other page closes
After(s) == CASE s.run # <<>> -> s
              [] s.run = <<>> /\ s.then = "search" -> Loop(s)
              [] s.run = <<>> /\ s.then = "return" -> Return(s)
              [] OTHER -> [s EXCEPT !.pc = s.then]

SendBuf(c, s) ==
  IF s.buf = <<>> THEN {}
  ELSE {Request(c, "READ", frame[s.buf[1]].id, s.buf)}

Closed(s) == IF s.buf = <<>> THEN s ELSE [Send(s, Len(s.buf)) EXCEPT !.buf = <<>>]

read(c) ==
  LET s == cl[c]
      f == Head(s.run)
      fr == frame[f]
      t == [s EXCEPT !.run = Tail(@)]
      b == [t EXCEPT !.buf = Append(@, f)]
      last == t.run = <<>>
      queued == [fr EXCEPT !.reqs = <<s.req>> \o @]
      count == IF s.then = "search" THEN get_overlap_size(s.req, fr.id) ELSE 0
  IN /\ s.pc = "read"
     /\ \/ /\ ~fr.ready /\ ~fr.pend
           /\ frame' = [frame EXCEPT ![f] = [queued EXCEPT !.pend = TRUE]]
           /\ under' = IF last THEN under \cup SendBuf(c, b) ELSE under
           /\ Goto(c, After(IF last THEN Closed(b) ELSE b))
           /\ UNCHANGED <<current, done, held>>
           /\ Check("read", fr.reqs = <<>> /\ ~fr.dirty)
        \/ /\ ~fr.ready /\ fr.pend
           /\ frame' = [frame EXCEPT ![f] = queued]
           /\ under' = under \cup SendBuf(c, t)
           /\ Goto(c, After(Closed(t)))
           /\ UNCHANGED <<current, done, held, failed>>
        \/ /\ fr.ready
           /\ CompleteIn(f, fr, s.req)
           /\ under' = under \cup SendBuf(c, t)
           /\ Goto(c, After([Finalize(Closed(t), s.req, fr.id) EXCEPT
                               !.bytes = @ + count]))
           /\ Check("read", fr.id \notin done[s.req])
     /\ UNCHANGED <<disk, raced, misread>>

-----------------------------------------------------------------------------
(* process_all_requests, phase by phase.                                     *)

\* queue_requests: the requests that waited on the pages go to the instances
\* that issued them, which are activated
Pairs(got) ==
  UNION {{<<got[i][1], r>> : r \in ToSet(got[i][2])} : i \in DOMAIN got}

queue_requests(clients, got) ==
  [d \in Clients |->
     LET mine == {x \in Pairs(got) : x[2].io = d}
     IN IF mine = {} THEN clients[d]
        ELSE [clients[d] EXCEPT !.pendq = @ \o SetToSeq(mine),
                                !.active = TRUE]]

\* process_disk_completed_requests and multibuf_completion, page by page
DiskCompleted(c) ==
  LET s == cl[c]
      u == Head(s.diskq)
      f == u.pages[Len(s.got) + 1]
      fr == frame[f]
      got == Append(s.got, <<f, fr.reqs>>)
      last == Len(got) = Len(u.pages)
      t == [s EXCEPT !.diskq = Tail(@), !.from = @ + 1,
                     !.npages = @ - Len(u.pages), !.got = <<>>]
  IN /\ s.pc = "disk" /\ s.diskq # <<>>
     /\ frame' = [frame EXCEPT ![f] =
                    IF u.op = "READ"
                      THEN [@ EXCEPT !.ready = TRUE, !.pend = FALSE,
                                     !.reqs = <<>>]
                      ELSE [@ EXCEPT !.old = FALSE, !.pend = FALSE,
                                     !.reqs = <<>>, !.ref = @ - 1]]
     /\ Check("completion", u.op = "WRITE" => fr.old /\ ~fr.ready)
     /\ cl' = IF last THEN queue_requests([cl EXCEPT ![c] = t], got)
              ELSE [cl EXCEPT ![c].got = got]
     /\ UNCHANGED <<disk, current, raced, misread, under, done, held>>

DiskDrained(c) ==
  /\ cl[c].pc = "disk" /\ cl[c].diskq = <<>>
  /\ Goto(c, [cl[c] EXCEPT !.pc = "pend"])
  /\ UNCHANGED <<frame, disk, current, raced, misread, under, done, held, failed>>

\* handle_pending_requests
handle_pending_requests(c) ==
  LET s == cl[c]
      f == Head(s.pendq)[1]
      r == Head(s.pendq)[2]
      t == [s EXCEPT !.pendq = Tail(@)]
  IN /\ s.pc = "pend" /\ s.pendq # <<>>
     /\ IF r.op = "WRITE" THEN Write(c, t, r, f) ELSE Read1(c, t, r, f)
     /\ UNCHANGED <<disk, raced, misread>>

PendingDrained(c) ==
  /\ cl[c].pc = "pend" /\ cl[c].pendq = <<>>
  /\ Goto(c, AtCached(cl[c]))
  /\ UNCHANGED <<frame, disk, current, raced, misread, under, done, held, failed>>

\* process_cached_reqs with complete_cached_req: a user-compute request runs
\* on the page and releases it with its byte array
process_cached_reqs(c) ==
  LET s == cl[c]
      r == Head(s.cached)[1]
      f == Head(s.cached)[2]
      fr == frame[f]
  IN /\ s.pc = "cached"
     /\ frame' = [frame EXCEPT ![f] =
                    IF r.op = "COMPUTE" THEN [@ EXCEPT !.ref = @ - 1]
                    ELSE Completed(fr, r)]
     /\ current' = IF r.op # "WRITE" THEN current
                   ELSE [current EXCEPT ![fr.id] = WriteTo(r, fr.id, @)]
     /\ Goto(c, AtCached([s EXCEPT !.cached = Tail(@),
                             !.completed = IF r.sync THEN @ ELSE @ + 1]))
     /\ UNCHANGED <<disk, raced, misread, under, done, held, failed>>

\* The byte array of a finished user-compute request drops the references the
\* request took on its pages
Released(reqs, f) == Cardinality({r \in reqs : <<r, f>> \in held})

\* process_completed_requests: the computes run, the pages they hold are
\* released, the requests are freed
process_completed_requests(c) ==
  LET s == cl[c]
      reqs == ToSet(s.doneq)
  IN /\ s.pc = "complete"
     /\ frame' = [f \in Frames |->
                    [frame[f] EXCEPT !.ref = @ - Released(reqs, f)]]
     /\ held' = {h \in held : h[1] \notin reqs}
     /\ done' = Restrict(done, DOMAIN done \ reqs)
     /\ Goto(c, AtComps([s EXCEPT !.doneq = <<>>,
                                  !.completed = @ + Len(s.doneq)]))
     /\ UNCHANGED <<disk, current, raced, misread, under, failed>>

-----------------------------------------------------------------------------
(* Waiting.  active is the activation flag of the thread.                    *)

\* The test of wait4req's loop; a complete request is freed
Complete(r) == done[r] = Pages(r)

wait4req(c) ==
  LET s == cl[c]
  IN /\ s.pc \in {"check", "wait4req"}
     /\ IF Complete(s.arg)
          THEN /\ done' = Restrict(done, DOMAIN done \ {s.arg})
               /\ Goto(c, [s EXCEPT !.pc = "app", !.goal = "app"])
          ELSE /\ Goto(c, [s EXCEPT !.pc = IF s.pc = "check" THEN "disk"
                                           ELSE "sleep"])
               /\ UNCHANGED done
     /\ UNCHANGED <<frame, disk, current, raced, misread, under, held, failed>>

\* thread::wait
wait(c) ==
  LET s == cl[c]
  IN /\ s.pc = "sleep" /\ s.active
     /\ Goto(c, [s EXCEPT !.active = FALSE,
                          !.pc = IF s.goal = "wait4req" THEN "check"
                                 ELSE "disk"])
     /\ UNCHANGED <<frame, disk, current, raced, misread, under, done, held, failed>>

\* cleanup, when the application has issued its last request
cleanup(c) ==
  LET s == cl[c]
  IN /\ s.pc = "app" /\ s.script = <<>>
     /\ IF num_pending_ios(s) > 0
          THEN Goto(c, [s EXCEPT !.want = s.issued, !.goal = "wait4complete",
                                 !.pc = "disk"])
          ELSE Goto(c, [s EXCEPT !.pc = "done"])
     /\ UNCHANGED <<frame, disk, current, raced, misread, under, done, held, failed>>

\* The underlying I/O performs a request and notify_completion hands it to its
\* instance
DiskIO(u) ==
  LET n == Len(u.pages)
      frames == ToSet(u.pages)
      Loc(f) == u.loc + (CHOOSE i \in 1..n : u.pages[i] = f) - 1
  IN /\ IF u.op = "READ"
          THEN /\ frame' = [f \in Frames |-> IF f \in frames
                              THEN [frame[f] EXCEPT !.data = disk[Loc(f)]]
                              ELSE frame[f]]
               /\ misread' = misread \cup {frame[f].id : f \in {g \in frames : Loc(g) # frame[g].id}}
               /\ raced' = raced \cup {frame[f].id : f \in {g \in frames :
                                         \E h \in Frames : frame[h].was = frame[g].id}}
               /\ UNCHANGED disk
          ELSE /\ disk' = [p \in FilePages |-> IF p = u.loc
                             THEN frame[u.pages[1]].data ELSE disk[p]]
               /\ frame' = [frame EXCEPT ![u.pages[1]].was = None]
               /\ UNCHANGED <<raced, misread>>
     /\ under' = under \ {u}
     /\ cl' = [cl EXCEPT ![u.io].diskq = Append(@, u), ![u.io].active = TRUE]
     /\ UNCHANGED <<current, done, held, failed>>

Client(c) ==
  \/ access(c) \/ search(c) \/ write_dirty_page(c) \/ QueueOnPage(c)
  \/ write(c) \/ read(c) \/ DiskCompleted(c) \/ DiskDrained(c)
  \/ handle_pending_requests(c) \/ PendingDrained(c) \/ process_cached_reqs(c)
  \/ process_completed_requests(c) \/ wait4req(c) \/ wait(c) \/ cleanup(c)

Aborted == \/ failed # {}
           \/ \E c \in Clients : cl[c].pc \in {"abort orig", "abort async"}

Disks == \E u \in under : DiskIO(u)

Next == ~Aborted /\ (Disks \/ \E c \in Clients : Client(c))

\* A search that gets a page: the page set does not refuse a page for ever while it
\* has one to give
Given(c) == cl[c].pc = "search" /\ search(c) /\ cl[c].next' # cl[c].next

-----------------------------------------------------------------------------
(* Properties.                                                               *)

\* The references a client's queues and local variables hold on frame f
HoldsOf(s, f) ==
  LET Count(q, Test(_)) == Cardinality({i \in DOMAIN q : Test(q[i])})
      inHand == \/ s.pc \in {"evict", "queue", "write"}
                \/ s.pc = "read" /\ s.then \in {"evict", "queue"}
  IN Count(s.pendq, LAMBDA x : x[1] = f) + Count(s.cached, LAMBDA x : x[2] = f)
       + Count(s.run, LAMBDA x : x = f)
       + Count(s.diskq, LAMBDA u : u.op = "WRITE" /\ u.pages = <<f>>)
       + MapThenSumSet(LAMBDA i : Len(s.got[i][2]),
                       {i \in DOMAIN s.got : s.got[i][1] = f})
       + (IF inHand /\ s.pg = f THEN 1 ELSE 0)

\* A page's reference count is the number of requests that wait on it, are
\* queued with it or hold it, plus one while it is written back: no reference
\* leaks (the page could never be evicted again) and none is dropped early (it
\* could be evicted under a request).
RefExact ==
  \A f \in Frames :
    frame[f].ref =
      Len(frame[f].reqs) + Cardinality({h \in held : h[2] = f})
        + Cardinality({u \in under : u.op = "WRITE" /\ u.pages = <<f>>})
        + MapThenSumSet(LAMBDA c : HoldsOf(cl[c], f), Clients)

\* The assertions of the code about pages and requests hold in every
\* interleaving: no I/O is pending on a frame that is evicted or written back,
\* a page handed to __write has no old dirty data left, a completed write-back
\* finds it still there and a page of a request is completed once.  Three can fail,
\* and only so: the one of write_dirty_page (1236) when a request evicts a page of its
\* own range or the one that begins where it ends, the one of process_user_req (1486)
\* when a synchronous request gets no page at all, and the one of process_user_reqs
\* (1516) when a synchronous request was made while an earlier one waited for pages.
\* The assertions at the end of cleanup hold as well: nothing of the instance is left,
\* no request of it waits on a page of the shared cache, and the underlying I/O has none
\* of its requests, so no thread is handed a completion for an instance that is gone.
Drained(c) ==
  LET s == cl[c]
  IN /\ s.processed = s.issued /\ s.completed = s.issued
     /\ s.to = s.from /\ s.npages = 0 /\ Idle(s)
     /\ <<>> = s.pendq \o s.doneq \o s.diskq \o s.cached \o s.userq
     /\ \A u \in under : u.io # c
     /\ \A f \in Frames : \A r \in ToSet(frame[f].reqs) : r.io # c

AssertionsHold ==
  /\ \A x \in failed : x[1] = "overlap" /\ x[3] \in x[2].lo .. x[2].hi + 1
  /\ \A c \in Clients :
       LET s == cl[c]
       IN /\ s.pc = "abort orig" => s.req.sync /\ s.next = s.req.lo
          /\ s.pc = "abort async" => s.behind
          /\ s.pc = "done" => Drained(c)

\* The cache never serves stale or lost data: a ready page holds every write
\* applied to it, so does an evicted frame until it is written back, and the
\* file holds the data of a page that is in neither.  Two kinds of pages are
\* excepted: those that were read from the file while an evicted frame still held newer
\* data of them (raced: no search finds a frame by the page it had before), and the
\* last page of a write of several pages that ends within it, for which __write reads
\* the first page of the request (907-908).
Coherent ==
  \A p \in FilePages \ (raced \cup misread) :
    /\ \A f \in Hits(p) : frame[f].ready => frame[f].data = current[p]
    /\ \A f \in Frames : frame[f].was = p => frame[f].data = current[p]
    /\ (\A f \in Hits(p) : ~frame[f].ready)
         /\ (\A f \in Frames : frame[f].was # p) => disk[p] = current[p]

\* "We are going to write to part of a page, therefore, we need to first read the
\* page." (902-903): what is read into a frame is the page of that frame.
PartReadsPage == misread = {}

\* wait4req sleeps for a synchronous request of several pages, some of which it has
\* not found yet: nobody wakes it when a page set has room again
Forgotten(c) ==
  LET s == cl[c]
  IN s.pc = "sleep" /\ s.goal = "wait4req" /\ ~Idle(s) /\ ~within_1page(s.req)

\* Unless an assertion stops the process (AssertionsHold says which can), every
\* request completes and every cleanup returns, except the call of a synchronous
\* request of several pages that found some of them and then no room: no other
\* instance sleeps while another holds what it waits for.
Settled == Aborted \/ \A c \in Clients : cl[c].pc = "done" \/ Forgotten(c)
=============================================================================
