------------------------------ MODULE RemoteIO ------------------------------
(***************************************************************************)
(* Asynchronous I/O of SAFS, end to end: application threads issue         *)
(* requests through a remote_io each (remote_access.cpp); a request is     *)
(* split at the RAID block boundaries (file_mapper.h) and its parts are    *)
(* buffered in a sender per disk (messaging.h), flushed to the queue of    *)
(* the disk's I/O thread (disk_read_thread.{h,cpp}), submitted to the      *)
(* kernel within the limit of AIO slots (aio_private.cpp, wpaio.cpp),      *)
(* handed over to the AIO completion thread (aio_private.cpp), put into    *)
(* the completion queue of the remote_io, and processed by the             *)
(* application thread.                                                     *)
(*                                                                         *)
(* Every thread sleeps in thread::wait() and is woken by activate(); both  *)
(* are used here through the event they implement (ActivationEvent.tla,    *)
(* see SafsThread.tla).  The queues are unbounded but for the one of the   *)
(* completion thread.  Only high-priority requests are modelled.           *)
(***************************************************************************)
EXTENDS Integers, Sequences, FiniteSets, FiniteSetsExt

CONSTANTS
  Clients,                  \* application threads, each with its remote_io
  NDisks,                   \* disks, each with an I/O thread
  BlockSize,                \* RAID block size, in pages
  RandStart,                \* RAID0_mapper::rand_start
  Request,                  \* id |-> [client, off, size, kind]
  Programs,                 \* the scenarios: client |-> [start, calls]
  AIO_DEPTH,                \* AIO slots of an I/O thread
  CompleteQueueSize,        \* of the AIO completion thread: 10240
  GroupAt,                  \* completions that are grouped by client: 8
  MAX_DISK_CACHED_REQS      \* parts a remote_io buffers: 1000

Disks == 0 .. NDisks - 1
Kinds == {"async", "sync", "flush", "bad"}

ASSUME RemoteIOAssumption ==
  /\ NDisks \in Nat \ {0} /\ BlockSize \in Nat \ {0} /\ RandStart \in Nat
  /\ AIO_DEPTH \in Nat \ {0} /\ GroupAt \in Nat \ {0}
  /\ CompleteQueueSize \in Nat /\ MAX_DISK_CACHED_REQS \in Nat
  /\ \A r \in DOMAIN Request :
       /\ Request[r].client \in Clients /\ Request[r].kind \in Kinds
       /\ Request[r].off \in Nat /\ Request[r].size \in Nat \ {0}
  /\ "cleanup" \notin DOMAIN Request
  /\ \A P \in Programs, c \in Clients :
       /\ P[c].start \in {"ready", "command", "closed"}
       /\ P[c].calls \in Seq(DOMAIN Request \cup {"cleanup"})
       /\ \A i, j \in 1 .. Len(P[c].calls) :
            P[c].calls[i] = P[c].calls[j] => i = j
       /\ \A i \in 1 .. Len(P[c].calls) :
            \/ P[c].calls[i] = "cleanup" /\ i = Len(P[c].calls)
            \/ P[c].calls[i] \in DOMAIN Request /\ Request[P[c].calls[i]].client = c

VARIABLES
  app,                      \* per client: where it is, and its loop variables
  todo,                     \* per client: requests to issue, and perhaps cleanup
  issued, completed,        \* remote_io::num_issued_reqs, num_completed_reqs
  senders,                  \* remote_io::senders, a buffer per disk
  complete_queue,           \* remote_io::complete_queue
  app_event,                \* activation of the application thread
  done_size,                \* remote_orig_io_request::completed_size
  callbacks,                \* how often the callback of a request was invoked
  accepted,                 \* requests access() did not reject (history)
  io,                       \* per disk: where its I/O thread is in run()
  queue,                    \* disk_io_thread::queue
  comm_queue,               \* disk_io_thread::comm_queue
  io_event,                 \* activation of the I/O thread
  local_reqs,               \* requests run() has fetched and not submitted
  open_files,               \* the clients whose file is open, per disk
  kernel,                   \* parts submitted and not complete
  events,                   \* parts complete and not reaped
  busy_aio,                 \* aio_ctx_impl::busy_aio
  notify,                   \* per notifying thread: groups still to hand over
  reaped,                   \* per disk: the events io_wait() is working on
  completed_reqs,           \* aio_complete_thread::completed_reqs
  cb_thread,                \* where the completion thread is
  cb_event                  \* its activation

requestVars == <<todo, issued, completed, senders, done_size, callbacks,
                 accepted>>
inboxVars == <<complete_queue, app_event>>
diskVars == <<queue, comm_queue, io_event>>
ioVars == <<io, local_reqs, open_files, busy_aio, reaped>>
cbVars == <<notify, completed_reqs, cb_thread, cb_event>>
downstream == <<ioVars, kernel, events, cbVars>>
vars == <<app, requestVars, inboxVars, diskVars, downstream>>

\* The threads that call notify_completion(): the I/O threads and, as NDisks,
\* the completion thread.
CB == NDisks
Notifiers == 0 .. NDisks

-----------------------------------------------------------------------------
(***************************************************************************)
(* Splitting a request: one part per RAID block it touches.                *)
(***************************************************************************)
FirstBlock(r) == Request[r].off \div BlockSize
LastBlock(r) == (Request[r].off + Request[r].size - 1) \div BlockSize
IsSplit(r) == FirstBlock(r) # LastBlock(r)

Part(r, b) ==
  LET end == Request[r].off + Request[r].size
      from == Max({Request[r].off, b * BlockSize})
      to == Min({end, (b + 1) * BlockSize})
  IN [req |-> r, off |-> from, size |-> to - from]

Parts(r) ==
  IF Request[r].kind \in {"flush", "bad"} THEN {}
  ELSE {Part(r, b) : b \in FirstBlock(r) .. LastBlock(r)}

\* RAID0_mapper::map2file()
map2file(p) == (p.off \div BlockSize + RandStart) % NDisks

ClientOf(p) == Request[p.req].client

\* The parts of the requests sent that go to disk d, and the sequence of them
\* that the loops over the requests and over their blocks produce.
PartsFor(sent, d) ==
  {p \in UNION {Parts(sent[i]) : i \in 1 .. Len(sent)} : map2file(p) = d}

Before(sent, p, q) ==
  \E i, j \in 1 .. Len(sent) :
    /\ p.req = sent[i] /\ q.req = sent[j]
    /\ i < j \/ (i = j /\ p.off < q.off)

InOrder(sent, d) ==
  {s \in [1 .. Cardinality(PartsFor(sent, d)) -> PartsFor(sent, d)] :
     \A i, j \in DOMAIN s : i < j => Before(sent, s[i], s[j])}

-----------------------------------------------------------------------------
(***************************************************************************)
(* The threads sleep.  A client starts "ready", its file open on every     *)
(* disk; or with opening it ("command"); or takes no part ("closed").      *)
(***************************************************************************)
Init ==
  /\ \E P \in Programs :
       /\ todo = [c \in Clients |-> P[c].calls]
       /\ app = [c \in Clients |->
                   [pc |-> P[c].start, op |-> "open", disk |-> 0,
                    ret |-> "ready", pending |-> 0, target |-> 0,
                    cleaned |-> FALSE]]
       /\ open_files = [d \in Disks |-> {c \in Clients : P[c].start = "ready"}]
  /\ issued = [c \in Clients |-> 0]
  /\ completed = [c \in Clients |-> 0]
  /\ senders = [c \in Clients |-> [d \in Disks |-> <<>>]]
  /\ complete_queue = [c \in Clients |-> <<>>]
  /\ app_event = [c \in Clients |-> FALSE]
  /\ done_size = [r \in DOMAIN Request |-> 0]
  /\ callbacks = [r \in DOMAIN Request |-> 0]
  /\ accepted = {}
  /\ io = [d \in Disks |-> "asleep"]
  /\ queue = [d \in Disks |-> <<>>]
  /\ comm_queue = [d \in Disks |-> <<>>]
  /\ io_event = [d \in Disks |-> FALSE]
  /\ local_reqs = [d \in Disks |-> <<>>]
  /\ kernel = [d \in Disks |-> {}]
  /\ events = [d \in Disks |-> <<>>]
  /\ busy_aio = [d \in Disks |-> 0]
  /\ notify = [t \in Notifiers |-> <<>>]
  /\ reaped = [d \in Disks |-> 0]
  /\ completed_reqs = <<>>
  /\ cb_thread = "notify"
  /\ cb_event = FALSE

-----------------------------------------------------------------------------
(***************************************************************************)
(* The application thread.                                                 *)
(***************************************************************************)
Goto(c, pc) == app' = [app EXCEPT ![c].pc = pc]

num_pending_ios(c) == issued[c] - completed[c]
Outstanding(c) ==
  {r \in accepted : Request[r].client = c /\ Request[r].kind # "flush"
                    /\ callbacks[r] = 0}

(***************************************************************************)
(* remote_io_factory opens the file of the client on every I/O thread, and *)
(* closes it at the end: a command is queued, the I/O thread activated,    *)
(* and the command's completion awaited, thread by thread.                 *)
(***************************************************************************)
execute_remote_comm(c) ==
  LET d == app[c].disk IN
  /\ app[c].pc = "command"
  /\ comm_queue' = [comm_queue EXCEPT ![d] = Append(@, [client |-> c, op |-> app[c].op])]
  /\ Goto(c, "command_activate")
  /\ UNCHANGED <<requestVars, inboxVars, queue, io_event,
                 downstream>>

comm_activate(c) ==
  /\ app[c].pc = "command_activate"
  /\ io_event' = [io_event EXCEPT ![app[c].disk] = TRUE]
  /\ Goto(c, "command_wait")
  /\ UNCHANGED <<requestVars, inboxVars, queue, comm_queue, downstream>>

\* A command leaves comm_queue when it has been run and is complete.
comm_wait4complete(c) ==
  LET d == app[c].disk IN
  /\ app[c].pc = "command_wait"
  /\ \A i \in 1 .. Len(comm_queue[d]) : comm_queue[d][i].client # c
  /\ app' = [app EXCEPT
        ![c].disk = IF d + 1 < NDisks THEN d + 1 ELSE 0,
        ![c].pc = IF d + 1 < NDisks THEN "command"
                  ELSE IF app[c].op = "open" THEN "ready" ELSE "closed"]
  /\ UNCHANGED <<requestVars, inboxVars, diskVars, downstream>>

(***************************************************************************)
(* access(): the whole array is counted as issued first; a request that is *)
(* rejected throws and leaves the rest of the array unsent.  The buffers   *)
(* are flushed when they hold too much or a request asks for it.           *)
(***************************************************************************)
Sent(batch) ==
  LET bad == {i \in 1 .. Len(batch) : Request[batch[i]].kind = "bad"}
  IN IF bad = {} THEN batch ELSE SubSeq(batch, 1, Min(bad) - 1)

access(c) ==
  /\ app[c].pc = "ready"
  /\ \E n \in 1 .. Len(todo[c]) :
       LET batch == SubSeq(todo[c], 1, n)
           sent == Sent(batch)
           kinds == {Request[sent[i]].kind : i \in 1 .. Len(sent)}
           flushes == SelectSeq(sent, LAMBDA r : Request[r].kind = "flush")
       IN /\ todo[c][n] # "cleanup"
          /\ todo' = [todo EXCEPT ![c] = SubSeq(@, n + 1, Len(@))]
          /\ issued' = [issued EXCEPT ![c] = @ + n]
          /\ completed' = [completed EXCEPT ![c] = @ + Len(flushes)]
          /\ accepted' = accepted \cup {sent[i] : i \in 1 .. Len(sent)}
          /\ \E new \in [Disks -> UNION {InOrder(sent, d) : d \in Disks}] :
               /\ \A d \in Disks : new[d] \in InOrder(sent, d)
               /\ senders' = [senders EXCEPT ![c] = [d \in Disks |-> @[d] \o new[d]]]
          /\ LET remaining == MapThenSumSet(LAMBDA d : Len(senders'[c][d]), Disks)
             IN app' = IF Len(sent) = n /\ (\/ remaining > MAX_DISK_CACHED_REQS
                                            \/ kinds \cap {"sync", "flush"} # {})
                       THEN [app EXCEPT ![c].pc = "flush", ![c].ret = "ready",
                                        ![c].disk = 0]
                       ELSE app
  /\ UNCHANGED <<done_size, callbacks, inboxVars, diskVars, downstream>>

(***************************************************************************)
(* flush_requests(): each sender with data is flushed and its I/O thread   *)
(* activated.                                                              *)
(***************************************************************************)
HasData(c) == {d \in Disks : d >= app[c].disk /\ senders[c][d] # <<>>}

\* Mutant: the I/O thread is not activated.
flush_requests_Quiet(c) ==
  /\ app[c].pc = "flush"
  /\ IF HasData(c) = {}
       THEN /\ Goto(c, app[c].ret)
            /\ UNCHANGED <<queue, senders>>
       ELSE LET d == Min(HasData(c)) IN
            /\ queue' = [queue EXCEPT ![d] = @ \o senders[c][d]]
            /\ senders' = [senders EXCEPT ![c][d] = <<>>]
            /\ app' = [app EXCEPT ![c].disk = d + 1]
  /\ UNCHANGED <<todo, issued, completed, done_size, callbacks, accepted,
                 inboxVars, comm_queue, io_event, downstream>>

flush_requests(c) ==
  /\ app[c].pc = "flush"
  /\ IF HasData(c) = {}
       THEN /\ Goto(c, app[c].ret)
            /\ UNCHANGED <<queue, senders>>
       ELSE LET d == Min(HasData(c)) IN
            /\ queue' = [queue EXCEPT ![d] = @ \o senders[c][d]]
            /\ senders' = [senders EXCEPT ![c][d] = <<>>]
            /\ app' = [app EXCEPT ![c].pc = "flush_activate", ![c].disk = d]
  /\ UNCHANGED <<todo, issued, completed, done_size, callbacks, accepted,
                 inboxVars, comm_queue, io_event, downstream>>

flush_activate(c) ==
  /\ app[c].pc = "flush_activate"
  /\ io_event' = [io_event EXCEPT ![app[c].disk] = TRUE]
  /\ app' = [app EXCEPT ![c].pc = "flush", ![c].disk = @ + 1]
  /\ UNCHANGED <<requestVars, inboxVars, queue, comm_queue, downstream>>

(***************************************************************************)
(* process_completed_requests(): a whole request is handed to the callback *)
(* at once, a split one when its last part has come; the other parts do    *)
(* not count as completed requests.                                        *)
(***************************************************************************)
Times(c, r) ==
  Cardinality({i \in 1 .. Len(complete_queue[c]) : complete_queue[c][i].req = r})

SizeGot(c, r) ==
  MapThenSumSet(LAMBDA i : complete_queue[c][i].size,
                {i \in 1 .. Len(complete_queue[c]) : complete_queue[c][i].req = r})

Completes(c) ==
  {r \in DOMAIN Request : /\ IsSplit(r) /\ Times(c, r) > 0
                          /\ done_size[r] + SizeGot(c, r) = Request[r].size}

process_completed_requests(c) ==
  LET split == {r \in DOMAIN Request : IsSplit(r) /\ Times(c, r) > 0}
      num_part_reqs == MapThenSumSet(LAMBDA r : Times(c, r), split)
                         - Cardinality(Completes(c))
  IN /\ done_size' = [r \in DOMAIN Request |->
           done_size[r] + IF r \in split THEN SizeGot(c, r) ELSE 0]
     /\ callbacks' = [r \in DOMAIN Request |->
           callbacks[r] + IF r \in split
                            THEN IF r \in Completes(c) THEN 1 ELSE 0
                            ELSE Times(c, r)]
     /\ completed' = [completed EXCEPT
           ![c] = @ + Len(complete_queue[c]) - num_part_reqs]
     /\ complete_queue' = [complete_queue EXCEPT ![c] = <<>>]

\* Mutant: what is buffered is not flushed before the wait.
wait4complete_NoFlush(c) ==
  /\ app[c].pc = "ready"
  /\ \E n \in 1 .. Cardinality(Outstanding(c)) :
       app' = [app EXCEPT ![c].pc = "process",
                          ![c].disk = 0, ![c].target = n,
                          ![c].pending = num_pending_ios(c)]
  /\ UNCHANGED <<requestVars, inboxVars, diskVars, downstream>>

(***************************************************************************)
(* wait4complete(n).  The client asks for no more requests than it has     *)
(* outstanding; a rejected one would never complete.                       *)
(***************************************************************************)
wait4complete(c) ==
  /\ app[c].pc = "ready"
  /\ \E n \in 1 .. Cardinality(Outstanding(c)) :
       app' = [app EXCEPT ![c].pc = "flush", ![c].ret = "process",
                          ![c].disk = 0, ![c].target = n,
                          ![c].pending = num_pending_ios(c)]
  /\ UNCHANGED <<requestVars, inboxVars, diskVars, downstream>>

wait4complete_process(c) ==
  /\ app[c].pc = "process"
  /\ process_completed_requests(c)
  /\ Goto(c, IF app[c].pending - (issued[c] - completed'[c]) < app[c].target
                THEN "wait" ELSE "ready")
  /\ UNCHANGED <<todo, issued, senders, accepted, app_event, diskVars,
                 downstream>>

wait4complete_wait(c) ==
  /\ app[c].pc = "wait"
  /\ app_event[c]
  /\ app_event' = [app_event EXCEPT ![c] = FALSE]
  /\ Goto(c, "process")
  /\ UNCHANGED <<requestVars, complete_queue, diskVars, downstream>>

(***************************************************************************)
(* cleanup(): process what has completed, flush the senders without        *)
(* activating anybody, poll the queues until they are empty, activating    *)
(* all I/O threads meanwhile, and ask the I/O threads to flush.  The       *)
(* activations of one round of polling are one step.                       *)
(***************************************************************************)
cleanup(c) ==
  /\ app[c].pc = "ready" /\ todo[c] = <<"cleanup">>
  /\ todo' = [todo EXCEPT ![c] = <<>>]
  /\ process_completed_requests(c)
  /\ app' = [app EXCEPT ![c].pc = "cleanup_flush", ![c].disk = 0]
  /\ UNCHANGED <<issued, senders, accepted, app_event, diskVars,
                 downstream>>

\* Mutant: cleanup() polls without having flushed the senders.
cleanup_flush_Skip(c) ==
  /\ app[c].pc = "cleanup_flush"
  /\ app' = [app EXCEPT ![c].pc = "cleanup_poll", ![c].disk = 0, ![c].pending = 0]
  /\ UNCHANGED <<requestVars, inboxVars, diskVars, downstream>>

cleanup_flush(c) ==
  /\ app[c].pc = "cleanup_flush"
  /\ IF HasData(c) = {}
       THEN /\ app' = [app EXCEPT ![c].pc = "cleanup_poll", ![c].disk = 0,
                                  ![c].pending = 0]
            /\ UNCHANGED <<queue, senders>>
       ELSE LET d == Min(HasData(c)) IN
            /\ queue' = [queue EXCEPT ![d] = @ \o senders[c][d]]
            /\ senders' = [senders EXCEPT ![c][d] = <<>>]
            /\ app' = [app EXCEPT ![c].disk = d + 1]
  /\ UNCHANGED <<todo, issued, completed, done_size, callbacks, accepted,
                 inboxVars, comm_queue, io_event, downstream>>

\* The entries of one queue are added to num (in "pending").
cleanup_poll(c) ==
  LET d == app[c].disk
      num == app[c].pending + Len(queue[d])
  IN
  /\ app[c].pc = "cleanup_poll"
  /\ app' = [app EXCEPT ![c].disk = (d + 1) % NDisks, ![c].pending = num,
                        ![c].pc = IF d + 1 < NDisks THEN @
                                  ELSE IF num > 0 THEN "cleanup_activate"
                                  ELSE "cleanup_end"]
  /\ UNCHANGED <<requestVars, inboxVars, diskVars, downstream>>

cleanup_activate(c) ==
  /\ app[c].pc = "cleanup_activate"
  /\ io_event' = [d \in Disks |-> TRUE]
  /\ app' = [app EXCEPT ![c].pc = "cleanup_poll", ![c].pending = 0]
  /\ UNCHANGED <<requestVars, inboxVars, queue, comm_queue, downstream>>

\* disk_io_thread::flush_requests() activates, thread by thread.
cleanup_end(c) ==
  LET d == app[c].disk IN
  /\ app[c].pc = "cleanup_end"
  /\ io_event' = [io_event EXCEPT ![d] = TRUE]
  /\ app' = [app EXCEPT ![c].disk = (d + 1) % NDisks, ![c].cleaned = TRUE,
                        ![c].pc = IF d + 1 < NDisks THEN @ ELSE "ready"]
  /\ UNCHANGED <<requestVars, inboxVars, queue, comm_queue, downstream>>

\* The factory is destroyed after its remote_io, which nobody destroys with
\* requests outstanding: completions would reach freed memory.
close_file(c) ==
  /\ app[c].pc = "ready" /\ app[c].cleaned /\ Outstanding(c) = {}
  /\ app' = [app EXCEPT ![c].pc = "command", ![c].op = "close", ![c].disk = 0]
  /\ UNCHANGED <<requestVars, inboxVars, diskVars, downstream>>

-----------------------------------------------------------------------------
(***************************************************************************)
(* The I/O thread of disk d.                                               *)
(***************************************************************************)
upstream == <<app, requestVars>>
IOGoto(d, pc) == io' = [io EXCEPT ![d] = pc]

\* Woken up, the thread starts run().  flush_counter is left out: it decides
\* whether aio->flush_requests() is called, and that does nothing.
run(d) ==
  /\ io[d] = "asleep"
  /\ io_event[d]
  /\ io_event' = [io_event EXCEPT ![d] = FALSE]
  /\ IOGoto(d, "fetch")
  /\ UNCHANGED <<upstream, inboxVars, queue, comm_queue, local_reqs, open_files,
                 busy_aio, reaped, kernel, events, cbVars>>

run_commands(d) ==
  LET comm == Head(comm_queue[d]) IN
  /\ io[d] = "fetch"
  /\ comm_queue[d] # <<>>
  /\ comm_queue' = [comm_queue EXCEPT ![d] = Tail(@)]
  /\ open_files' = [open_files EXCEPT ![d] =
       IF comm.op = "open" THEN @ \cup {comm.client} ELSE @ \ {comm.client}]
  /\ UNCHANGED <<upstream, inboxVars, queue, io_event, io,
                 local_reqs, busy_aio, reaped, kernel, events, cbVars>>

(***************************************************************************)
(* get_all_reqs(), after the commands or, in the inner loop of run(),      *)
(* after I/O has completed.  With nothing to submit the thread completes   *)
(* pending I/O, and leaves run() when there is none.                       *)
(***************************************************************************)
get_all_reqs(d) ==
  /\ io[d] \in {"fetch", "refetch"}
  /\ io[d] = "fetch" => comm_queue[d] = <<>>
  /\ local_reqs' = [local_reqs EXCEPT ![d] = queue[d]]
  /\ queue' = [queue EXCEPT ![d] = <<>>]
  /\ IOGoto(d, IF queue[d] # <<>> THEN "submit"
               ELSE IF busy_aio[d] > 0 THEN "io_wait" ELSE "asleep")
  /\ UNCHANGED <<upstream, inboxVars, comm_queue, io_event,
                 open_files, busy_aio, reaped, kernel, events, cbVars>>

\* async_io::access(): as many as there are free slots.
aio_access(d) ==
  LET n == Min({AIO_DEPTH - busy_aio[d], Len(local_reqs[d])}) IN
  /\ io[d] = "submit"
  /\ kernel' = [kernel EXCEPT ![d] = @ \cup {local_reqs[d][i] : i \in 1 .. n}]
  /\ busy_aio' = [busy_aio EXCEPT ![d] = @ + n]
  /\ local_reqs' = [local_reqs EXCEPT ![d] = SubSeq(@, n + 1, Len(@))]
  /\ IOGoto(d, IF n < Len(local_reqs[d]) THEN "io_wait" ELSE "fetch")
  /\ UNCHANGED <<upstream, inboxVars, diskVars, open_files, reaped, events,
                 cbVars>>

(***************************************************************************)
(* process_completed_reqs(): a few completions are handed over one by one, *)
(* many of them client by client, in any order of the clients.             *)
(***************************************************************************)
Indexes(ps, c) == {i \in 1 .. Len(ps) : ClientOf(ps[i]) = c}

\* The parts of client c in the order of ps.
OfClient(ps, c) ==
  {[i \in DOMAIN f |-> ps[f[i]]] :
     f \in {f \in [1 .. Cardinality(Indexes(ps, c)) -> Indexes(ps, c)] :
              \A i, j \in DOMAIN f : i < j => f[i] < f[j]}}

GroupSeqs(ps) ==
  IF Len(ps) < GroupAt
    THEN {[i \in 1 .. Len(ps) |-> [client |-> ClientOf(ps[i]), parts |-> <<ps[i]>>]]}
    ELSE LET cs == {ClientOf(ps[i]) : i \in 1 .. Len(ps)} IN
         {gs \in [1 .. Cardinality(cs) ->
                    [client : cs, parts : UNION {OfClient(ps, c) : c \in cs}]] :
            /\ \A i, j \in DOMAIN gs : gs[i].client = gs[j].client => i = j
            /\ \A i \in DOMAIN gs : gs[i].parts \in OfClient(ps, gs[i].client)}

\* Mutant: what the completion queue has no room for is forgotten.
return_cb_Drop(d) ==
  LET n == Len(events[d])
      ret == Min({n, CompleteQueueSize - Len(completed_reqs)})
  IN
  /\ io[d] = "io_wait"
  /\ events[d] # <<>>
  /\ completed_reqs' = completed_reqs \o SubSeq(events[d], 1, ret)
  /\ notify' = [notify EXCEPT ![d] = <<>>]
  /\ reaped' = [reaped EXCEPT ![d] = n]
  /\ events' = [events EXCEPT ![d] = <<>>]
  /\ IOGoto(d, "add_reqs_activate")
  /\ UNCHANGED <<upstream, inboxVars, diskVars, local_reqs, open_files,
                 busy_aio, kernel, cb_thread, cb_event>>

(***************************************************************************)
(* io_wait(): the completed events go to the completion thread as far as   *)
(* its queue has room; the thread itself hands over the rest, and only     *)
(* then are the slots free again.                                          *)
(***************************************************************************)
return_cb(d) ==
  LET n == Len(events[d])
      ret == Min({n, CompleteQueueSize - Len(completed_reqs)})
  IN
  /\ io[d] = "io_wait"
  /\ events[d] # <<>>
  /\ completed_reqs' = completed_reqs \o SubSeq(events[d], 1, ret)
  /\ \E gs \in GroupSeqs(SubSeq(events[d], ret + 1, n)) :
       notify' = [notify EXCEPT ![d] = gs]
  /\ reaped' = [reaped EXCEPT ![d] = n]
  /\ events' = [events EXCEPT ![d] = <<>>]
  /\ IOGoto(d, "add_reqs_activate")
  /\ UNCHANGED <<upstream, inboxVars, diskVars, local_reqs, open_files,
                 busy_aio, kernel, cb_thread, cb_event>>

add_reqs_activate(d) ==
  /\ io[d] = "add_reqs_activate"
  /\ cb_event' = TRUE
  /\ IOGoto(d, "notify")
  /\ UNCHANGED <<upstream, inboxVars, diskVars, local_reqs, open_files,
                 busy_aio, reaped, kernel, events, notify, completed_reqs,
                 cb_thread>>

io_wait_returns(d) ==
  /\ io[d] = "notify" /\ notify[d] = <<>>
  /\ busy_aio' = [busy_aio EXCEPT ![d] = @ - reaped[d]]
  /\ reaped' = [reaped EXCEPT ![d] = 0]
  /\ IOGoto(d, IF local_reqs[d] # <<>> THEN "submit" ELSE "refetch")
  /\ UNCHANGED <<upstream, inboxVars, diskVars, local_reqs, open_files, kernel,
                 events, cbVars>>

\* The kernel completes what was submitted, in any order.
kernel_complete(d) ==
  /\ \E p \in kernel[d] :
       /\ kernel' = [kernel EXCEPT ![d] = @ \ {p}]
       /\ events' = [events EXCEPT ![d] = Append(@, p)]
  /\ UNCHANGED <<upstream, inboxVars, diskVars, ioVars, cbVars>>

-----------------------------------------------------------------------------
(***************************************************************************)
(* remote_io::notify_completion(), called by thread t: the requests are    *)
(* put into the completion queue, then the application thread is           *)
(* activated.  A group without parts has been put.                         *)
(***************************************************************************)
Notifying(t) == t \in {CB} \cup {d \in Disks : io[d] = "notify"}

notify_completion(t) ==
  /\ Notifying(t)
  /\ notify[t] # <<>> /\ notify[t][1].parts # <<>>
  /\ complete_queue' = [complete_queue EXCEPT
        ![notify[t][1].client] = @ \o notify[t][1].parts]
  /\ notify' = [notify EXCEPT ![t][1].parts = <<>>]
  /\ UNCHANGED <<upstream, app_event, diskVars, ioVars, kernel, events,
                 completed_reqs, cb_thread, cb_event>>

notify_activate(t) ==
  /\ Notifying(t)
  /\ notify[t] # <<>> /\ notify[t][1].parts = <<>>
  /\ app_event' = [app_event EXCEPT ![notify[t][1].client] = TRUE]
  /\ notify' = [notify EXCEPT ![t] = Tail(@)]
  /\ UNCHANGED <<upstream, complete_queue, diskVars, ioVars, kernel, events,
                 completed_reqs, cb_thread, cb_event>>

(***************************************************************************)
(* The AIO completion thread.                                              *)
(***************************************************************************)
cb_run ==
  /\ cb_thread = "run"
  /\ \E gs \in GroupSeqs(completed_reqs) : notify' = [notify EXCEPT ![CB] = gs]
  /\ completed_reqs' = <<>>
  /\ cb_thread' = "notify"
  /\ UNCHANGED <<upstream, inboxVars, diskVars, ioVars, kernel, events,
                 cb_event>>

cb_wait_event ==
  /\ cb_thread = "notify" /\ notify[CB] = <<>>
  /\ cb_event
  /\ cb_event' = FALSE
  /\ cb_thread' = "run"
  /\ UNCHANGED <<upstream, inboxVars, diskVars, ioVars, kernel, events, notify,
                 completed_reqs>>

-----------------------------------------------------------------------------
\* A client inside a call; a client that is about to make one.
AppStep(c) ==
  \/ execute_remote_comm(c) \/ comm_activate(c) \/ comm_wait4complete(c)
  \/ flush_requests(c) \/ flush_activate(c)
  \/ wait4complete_process(c) \/ wait4complete_wait(c)
  \/ cleanup_flush(c) \/ cleanup_poll(c) \/ cleanup_activate(c)
  \/ cleanup_end(c)

AppCall(c) == access(c) \/ wait4complete(c) \/ cleanup(c) \/ close_file(c)

IOStep(d) ==
  \/ run(d) \/ run_commands(d) \/ get_all_reqs(d)
  \/ aio_access(d) \/ return_cb(d) \/ add_reqs_activate(d)
  \/ io_wait_returns(d)

NotifyStep(t) == notify_completion(t) \/ notify_activate(t)

Next ==
  \/ \E c \in Clients : AppStep(c) \/ AppCall(c)
  \/ \E d \in Disks : IOStep(d) \/ kernel_complete(d)
  \/ \E t \in Notifiers : NotifyStep(t)
  \/ cb_run \/ cb_wait_event

(***************************************************************************)
(* Fairness: every thread that is not blocked runs, and the kernel         *)
(* completes what it was given.  No client has to make a call.             *)
(***************************************************************************)
Spec ==
  /\ Init /\ [][Next]_vars
  /\ \A c \in Clients : WF_vars(AppStep(c))
  /\ \A d \in Disks : WF_vars(IOStep(d) \/ NotifyStep(d))
  /\ \A d \in Disks : WF_vars(kernel_complete(d))
  /\ WF_vars(cb_run \/ cb_wait_event \/ NotifyStep(CB))

-----------------------------------------------------------------------------
AppPc == {"command", "command_activate", "command_wait", "ready", "flush",
          "flush_activate", "process", "wait", "cleanup_flush", "cleanup_poll",
          "cleanup_activate", "cleanup_end", "closed"}
IOPc == {"asleep", "fetch", "refetch", "submit", "io_wait",
         "add_reqs_activate", "notify"}

TypeOK ==
  /\ \A c \in Clients :
       /\ app[c].pc \in AppPc
       /\ app[c].disk \in 0 .. NDisks
       /\ completed[c] <= issued[c]
  /\ io \in [Disks -> IOPc]
  /\ Len(completed_reqs) <= CompleteQueueSize
  /\ cb_thread \in {"run", "notify"}

Occurrences(p, seq) == Cardinality({i \in 1 .. Len(seq) : seq[i] = p})

\* How many copies of a part there are on its way through the threads.
InFlight(p) ==
  LET d == map2file(p)
      c == ClientOf(p)
  IN Occurrences(p, senders[c][d] \o queue[d] \o local_reqs[d] \o events[d]
                      \o completed_reqs \o complete_queue[c])
       + (IF p \in kernel[d] THEN 1 ELSE 0)
       + MapThenSumSet(
           LAMBDA t : MapThenSumSet(LAMBDA i : Occurrences(p, notify[t][i].parts),
                              1 .. Len(notify[t])),
           Notifiers)

(***************************************************************************)
(* No part is lost, duplicated or counted twice on its way through the     *)
(* senders, the queues, the kernel and the two threads that hand over      *)
(* completions, and the callback of a request is invoked once: when the    *)
(* last of its parts has come back, whatever order they came in.  busy_aio *)
(* never exceeds the depth of the AIO context although it is decremented   *)
(* after the callbacks have run, and the slots it leaves free are free.    *)
(***************************************************************************)
SlotsExact ==
  \A d \in Disks :
    /\ busy_aio[d] <= AIO_DEPTH
    /\ busy_aio[d] = Cardinality(kernel[d]) + Len(events[d]) + reaped[d]

PartsConserved ==
  /\ TypeOK
  /\ SlotsExact
  /\ \A r \in accepted : Parts(r) # {} =>
       /\ \A p \in Parts(r) : InFlight(p) <= 1
       /\ callbacks[r] = IF \E p \in Parts(r) : InFlight(p) = 1 THEN 0 ELSE 1
       /\ IsSplit(r) => done_size[r] =
            MapThenSumSet(LAMBDA p : p.size, {p \in Parts(r) : InFlight(p) = 0})

\* Clients that are going to activate the I/O thread of disk d.
WillActivate(d) ==
  \E c \in Clients :
    \/ app[c].pc \in {"command_activate", "flush_activate"} /\ app[c].disk = d
    \/ app[c].pc \in {"cleanup_flush", "cleanup_poll", "cleanup_activate",
                      "cleanup_end"}

(***************************************************************************)
(* Nobody sleeps on work: an I/O thread goes to sleep with no I/O pending, *)
(* and whenever a sleeping thread has something in its queue the thread    *)
(* that put it there is still about to activate it.                        *)
(***************************************************************************)
NoSleepOnWork ==
  /\ \A d \in Disks : io[d] = "asleep" /\ ~ io_event[d] =>
       /\ busy_aio[d] = 0 /\ local_reqs[d] = <<>>
       /\ queue[d] # <<>> \/ comm_queue[d] # <<>> => WillActivate(d)
  /\ cb_thread = "notify" /\ notify[CB] = <<>> /\ ~ cb_event
       /\ completed_reqs # <<>> => \E d \in Disks : io[d] = "add_reqs_activate"
  /\ \A c \in Clients : app[c].pc = "wait" /\ ~ app_event[c]
                        /\ complete_queue[c] # <<>> =>
         \E t \in Notifiers : /\ notify[t] # <<>> /\ notify[t][1].client = c
                              /\ notify[t][1].parts = <<>>

(***************************************************************************)
(* The counters and queues that calls rely on are right.  num_pending_ios()*)
(* counts the requests without a callback, the rejected ones included:     *)
(* parts of split requests and flush requests do not make the two counters *)
(* drift apart.  When cleanup() has stopped polling, none of the client's  *)
(* requests is left in a sender or in the queue of an I/O thread.  And a   *)
(* request reaches the AIO context only while its file is open there,      *)
(* which construct_req() asserts, although an I/O thread that waits for    *)
(* I/O fetches requests without having looked for commands.                *)
(***************************************************************************)
CleanupComplete ==
  \A c \in Clients : app[c].pc = "cleanup_end" =>
    \A d \in Disks :
      /\ senders[c][d] = <<>>
      /\ \A i \in 1 .. Len(queue[d]) : ClientOf(queue[d][i]) # c

CallsJustified ==
  /\ \A c \in Clients :
       completed[c] =
         Cardinality({r \in accepted : Request[r].client = c} \ Outstanding(c))
  /\ CleanupComplete
  /\ \A d \in Disks :
       \A p \in {local_reqs[d][i] : i \in 1 .. Len(local_reqs[d])} \cup kernel[d] :
         ClientOf(p) \in open_files[d]

(***************************************************************************)
(* Every call returns: opening and closing a file, flushing, cleanup(),    *)
(* and wait4complete() of requests that were accepted.  That being inside  *)
(* a call leads to being outside of one is the same as to be outside of    *)
(* one again and again, which TLC checks without a tableau.                *)
(***************************************************************************)
CallsReturn ==
  \A c \in Clients : []<>(app[c].pc \in {"ready", "closed"})

-----------------------------------------------------------------------------
(***************************************************************************)
(* Instance of RemoteIO: two disks, RAID blocks of two pages, one AIO slot *)
(* per disk, a completion thread with a queue of two, and two clients.     *)
(* Each scenario is small and drives one of the hard cases.                *)
(***************************************************************************)
CONSTANTS io1, io2

\* a1 has three parts, on the disks 0, 1 and 0; a5 has two.
MCRequest ==
  [a1 |-> [client |-> io1, off |-> 1, size |-> 4, kind |-> "async"],
   a2 |-> [client |-> io1, off |-> 4, size |-> 1, kind |-> "async"],
   a3 |-> [client |-> io1, off |-> 0, size |-> 1, kind |-> "flush"],
   a4 |-> [client |-> io1, off |-> 0, size |-> 1, kind |-> "bad"],
   a5 |-> [client |-> io1, off |-> 1, size |-> 2, kind |-> "async"],
   b1 |-> [client |-> io2, off |-> 2, size |-> 2, kind |-> "sync"],
   b2 |-> [client |-> io2, off |-> 0, size |-> 1, kind |-> "sync"]]

Both(start_a, calls_a, start_b, calls_b) ==
  [c \in Clients |-> IF c = io1 THEN [start |-> start_a, calls |-> calls_a]
                               ELSE [start |-> start_b, calls |-> calls_b]]

MCPrograms == {
  \* more parts than a disk has slots and the completion thread has room for
  Both("ready", <<"a1">>, "closed", <<>>),
  \* two clients whose completions meet in the completion thread
  Both("ready", <<"a2">>, "ready", <<"b1">>),
  \* a flush request, and a request that is rejected
  Both("ready", <<"a2", "a3", "a4">>, "closed", <<>>),
  \* cleanup while requests are buffered, queued or in the kernel
  Both("ready", <<"a5", "cleanup">>, "closed", <<>>),
  \* a file opened and used beside another client's I/O on the same disk
  Both("ready", <<"a2">>, "command", <<"b2">>),
  \* a client's whole life
  Both("command", <<"a2", "cleanup">>, "closed", <<>>)}
=============================================================================
