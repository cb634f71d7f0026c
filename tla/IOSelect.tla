------------------------------ MODULE IOSelect ------------------------------
(***************************************************************************)
(* Waiting for several I/O objects at once: create_io_select and wait4ios  *)
(* (SAFS/libsafs/io_interface.cpp) and remote_io_select                    *)
(* (remote_access.cpp).  A thread issues requests to its remote_ios, some  *)
(* of which are split into parts for several disks, and waits until no     *)
(* more than a number of them are pending; a callback may issue more, also *)
(* to another remote_io.                                                   *)
(*                                                                         *)
(* Grain.  A flush of a remote_io is a step and so is the processing of    *)
(* what its complete_queue holds; a part is done at a disk, put into the   *)
(* complete_queue, and then the thread is activated.  A remote_io is what  *)
(* RemoteIO models in detail: the senders do not fill up here.             *)
(***************************************************************************)
EXTENDS Integers, Sequences, FiniteSets, SequencesExt

CONSTANTS
  Remote,           \* the remote_ios; other I/O objects have no io_select
  Given,            \* sequences of I/O objects given to create_io_select
  Programs,         \* sequences of <<"access", io, parts>> and <<"wait", max>>
  Follow,           \* remote_io -> the request <<io, parts>> its callback issues
  MaxReqs,          \* bound: requests
  BusyWait,         \* params.is_busy_wait()
  NULL

VARIABLES ios,      \* the remote_ios of the io_select
          cached,   \* parts in the senders
          flight,   \* parts at the I/O threads
          queue,    \* parts in the complete_queues
          left,     \* request -> parts not yet processed
          of,       \* request -> its remote_io
          issued, completed,   \* num_issued_reqs, num_completed_reqs
          notifying,           \* I/O threads between add and activate
          activated,           \* of the thread
          calls, pc

vars == <<ios, cached, flight, queue, left, of, issued, completed, notifying, activated,
          calls, pc>>

-----------------------------------------------------------------------------

\* add_io: only remote_ios, each once
add_io(sel, io) ==
  IF io \in Remote /\ \A i \in DOMAIN sel : sel[i] # io THEN Append(sel, io) ELSE sel

\* create_io_select: an empty_io_select, which has no I/O objects, when no object
\* needs one
create_io_select(given) == FoldLeft(add_io, <<>>, given)

Idle == [at |-> "idle", i |-> 1, done |-> 0, want |-> 0, max |-> 0]

Init ==
  /\ \E g \in Given : ios = create_io_select(g)
  /\ calls \in Programs
  /\ cached = [io \in Remote |-> {}] /\ queue = cached /\ flight = cached
  /\ left = <<>> /\ of = <<>>
  /\ issued = [io \in Remote |-> 0] /\ completed = issued
  /\ notifying = 0 /\ activated = FALSE /\ pc = Idle

\* num_pending_ios of the io_select
num_pending_ios ==
  FoldLeft(LAMBDA n, io : n + issued[io] - completed[io], 0, ios)

\* remote_io::access of requests <<io, parts>>, buffered in the senders
Accessed(rs, was) ==
  /\ left' = was \o [i \in DOMAIN rs |-> rs[i][2]]
  /\ of' = of \o [i \in DOMAIN rs |-> rs[i][1]]
  /\ issued' = [io \in Remote |->
                  issued[io] + Cardinality({i \in DOMAIN rs : rs[i][1] = io})]
  /\ cached' = [io \in Remote |-> cached[io] \cup
                  UNION {{<<Len(of) + i, k>> : k \in 1 .. rs[i][2]} :
                           i \in {j \in DOMAIN rs : rs[j][1] = io}}]

access ==
  /\ pc.at = "idle" /\ calls # <<>> /\ Head(calls)[1] = "access"
  /\ Accessed(<<<<Head(calls)[2], Head(calls)[3]>>>>, left)
  /\ calls' = Tail(calls)
  /\ UNCHANGED <<ios, flight, queue, completed, notifying, activated, pc>>

-----------------------------------------------------------------------------
(* wait4ios, and remote_io_select::wait4complete in its loop                 *)

\* wait4complete(num_to_process): to the first I/O object, or back when there is none
Turn(max) ==
  LET toProcess == IF num_pending_ios > max THEN num_pending_ios - max ELSE 0
      want == IF num_pending_ios < toProcess THEN num_pending_ios ELSE toProcess
  IN pc' = [at |-> IF ios = <<>> THEN "check" ELSE "flush", i |-> 1, done |-> 0,
            want |-> want, max |-> max]

wait4ios ==
  /\ pc.at = "idle" /\ calls # <<>> /\ Head(calls)[1] = "wait"
  /\ Turn(Head(calls)[2])
  /\ UNCHANGED <<ios, cached, flight, queue, left, of, issued, completed, notifying,
                 activated, calls>>

flush_requests ==
  LET io == ios[pc.i]
  IN /\ pc.at = "flush"
     /\ flight' = [flight EXCEPT ![io] = @ \cup cached[io]]
     /\ cached' = [cached EXCEPT ![io] = {}]
     /\ pc' = [pc EXCEPT !.at = "process"]
     /\ UNCHANGED <<ios, queue, left, of, issued, completed, notifying, activated, calls>>

\* The requests whose last parts are in the complete_queue of an I/O object
Finished(io) ==
  {r \in DOMAIN left : left[r] > 0 /\ left[r] = Cardinality({p \in queue[io] : p[1] = r})}

\* process_all_completed_requests: the parts count, the callback runs for requests,
\* and what it issues waits for a flush
process_all_completed_requests ==
  LET io == ios[pc.i]
      finished == Finished(io)
      room == MaxReqs - Len(of)
      more == IF Follow[io] = NULL THEN 0
              ELSE IF Cardinality(finished) < room THEN Cardinality(finished) ELSE room
      done == pc.done + Cardinality(queue[io])
  IN /\ pc.at = "process"
     /\ Accessed([i \in 1 .. more |-> Follow[io]],
                 [r \in DOMAIN left |-> left[r] - Cardinality({p \in queue[io] : p[1] = r})])
     /\ completed' = [completed EXCEPT ![io] = @ + Cardinality(finished)]
     /\ queue' = [queue EXCEPT ![io] = {}]
     /\ pc' = [pc EXCEPT !.done = done,
                         !.i = IF @ < Len(ios) THEN @ + 1 ELSE 1,
                         !.at = IF pc.i < Len(ios) THEN "flush"
                                ELSE IF done >= pc.want THEN "check"
                                ELSE IF BusyWait THEN "flush" ELSE "wait"]
     /\ UNCHANGED <<ios, flight, notifying, activated, calls>>

\* curr->wait()
wait ==
  /\ pc.at = "wait" /\ activated
  /\ activated' = FALSE /\ pc' = [pc EXCEPT !.at = "flush"]
  /\ UNCHANGED <<ios, cached, flight, queue, left, of, issued, completed, notifying, calls>>

\* The end of the loop of wait4ios
Check ==
  /\ pc.at = "check"
  /\ IF num_pending_ios > pc.max THEN Turn(pc.max) /\ UNCHANGED calls
     ELSE pc' = Idle /\ calls' = Tail(calls)
  /\ UNCHANGED <<ios, cached, flight, queue, left, of, issued, completed, notifying, activated>>

-----------------------------------------------------------------------------
(* The I/O threads                                                           *)

\* notify_completion: the part is put into the complete_queue
notify_completion(io) ==
  \E p \in flight[io] :
    /\ flight' = [flight EXCEPT ![io] = @ \ {p}]
    /\ queue' = [queue EXCEPT ![io] = @ \cup {p}]
    /\ notifying' = notifying + 1
    /\ UNCHANGED <<ios, cached, left, of, issued, completed, activated, calls, pc>>

\* and the thread activated
activate ==
  /\ notifying > 0 /\ notifying' = notifying - 1
  /\ activated' = TRUE
  /\ UNCHANGED <<ios, cached, flight, queue, left, of, issued, completed, calls, pc>>

User == \/ access \/ wait4ios \/ flush_requests \/ process_all_completed_requests
        \/ wait \/ Check
Disks == activate \/ \E io \in Remote : notify_completion(io)

Next == User \/ Disks

Spec == Init /\ [][Next]_vars /\ WF_vars(User) /\ WF_vars(Disks)

-----------------------------------------------------------------------------
(* Properties                                                                *)

\* Every part of a request that is not processed is in one sender, at one disk or in
\* one complete_queue, of its own remote_io, and num_pending_ios counts the requests
\* with such parts, although wait4complete counts parts and callbacks add requests.
SelectPendingExact ==
  /\ \A io \in Remote :
       issued[io] - completed[io] = Cardinality({r \in DOMAIN of : of[r] = io /\ left[r] > 0})
  /\ \A r \in DOMAIN of :
       left[r] = Cardinality({p \in cached[of[r]] : p[1] = r})
                 + Cardinality({p \in flight[of[r]] : p[1] = r})
                 + Cardinality({p \in queue[of[r]] : p[1] = r})

\* The thread does not sleep in wait4complete unless a part is at a disk or its
\* completion is being notified: never on requests that only it could send.
SleepsOnFlight ==
  pc.at = "wait" /\ ~activated =>
    notifying > 0 \/ \E i \in DOMAIN ios : flight[ios[i]] # {}

\* Every call returns, also when the objects given to create_io_select repeat or
\* need no disk.
CallsDone == calls = <<>>
=============================================================================
