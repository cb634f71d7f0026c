------------------------------ MODULE DiskFiles -----------------------------
(***************************************************************************)
(* The physical files behind the I/O threads: a factory opens its SAFS     *)
(* file in every I/O thread with a remote command (disk_read_thread.{h,    *)
(* cpp}), the thread opens the files that lie on its own disks             *)
(* (file_partition.h, read_private.{h,cpp}) and counts how often the file  *)
(* was opened (async_io::io_ref), and a request finds its way from a page  *)
(* of the SAFS file to a place on a disk in two halves: the caller picks   *)
(* the thread with map2file() and get_disk_id() (remote_access.cpp), the   *)
(* thread picks the file and the offset with its partition                 *)
(* (async_io::construct_req).                                              *)
(*                                                                         *)
(* A remote_comm is modelled step by step, as its owner deletes it when it *)
(* sees is_complete.  Ids are those of file_mapper: factories that share a *)
(* mapper share the id, and open_file() counts them.                       *)
(***************************************************************************)
EXTENDS FileMapper, SequencesExt

CONSTANTS
  Threads,            \* I/O threads
  DisksOf,            \* thread |-> its disks
  MapperOf,           \* file id |-> its mapper
  DiskOf,             \* file id |-> index in the stripe |-> disk
  Users,
  Programs,           \* the scenarios: user |-> sequence of calls
  NoFile

Ids == DOMAIN MapperOf
Calls == {"open", "access", "writeback", "close"}

\* Every disk has one thread, a call sequence opens what it uses
DiskFilesAssumption ==
  /\ \A t1, t2 \in Threads : t1 # t2 => DisksOf[t1] \cap DisksOf[t2] = {}
  /\ \A f \in Ids : \A i \in 0..MapperOf[f].n - 1 : DiskOf[f][i] \in UNION {DisksOf[t] : t \in Threads}
  /\ \A P \in Programs : DOMAIN P = Users

VARIABLES
  open_files,         \* async_io::open_files of a thread
  comm_queue,         \* disk_io_thread::comm_queue: [user, kind, id]
  queue,              \* requests of a thread: [user, via, id, page]
  thread,             \* "run", or the command complete() is in the middle of
  todo,               \* calls a user has still to make
  user,               \* where a user is: "ready", "command", "wait4complete", "io"
  left,               \* threads the user's current command still goes to
  is_complete,        \* of the remote_comm of a user
  comm_alive,         \* the remote_comm of a user exists
  signalled_dead,     \* complete() signalled a remote_comm that was deleted
  held,               \* files a user has opened and not begun to close (history)
  accessed,           \* the place the last access of a user went to
  fault               \* the request an assertion failed for

fileVars == <<open_files, comm_queue, queue, thread, todo, user, left, is_complete,
              comm_alive, signalled_dead, held, accessed, fault>>

-----------------------------------------------------------------------------
(* logical_file_partition and buffered_io.                                   *)

\* open_comm::run with the positions instead of the disks of the file
Indices_ByPosition(t, f) ==
  SetToSortSeq({i \in 0..MapperOf[f].n - 1 : i \in DisksOf[t]}, <)

\* open_comm::run: the indices of the file that lie on disks of the thread
Indices(t, f) ==
  SetToSortSeq({i \in 0..MapperOf[f].n - 1 : DiskOf[f][i] \in DisksOf[t]}, <)

\* logical_file_partition: file_map, -1 for what the partition does not hold
file_map(indices, i) ==
  IF \E k \in DOMAIN indices : indices[k] = i
  THEN (CHOOSE k \in DOMAIN indices : indices[k] = i) - 1 ELSE -1

\* logical_file_partition::map2file, whose assertion fails when this is -1
partition_map2file(io, f, page) == file_map(io.indices, map2file(MapperOf[f], page))

\* buffered_io: a file descriptor for every file of the partition; the disk it is on
buffered_io(t, f) ==
  LET indices == Indices(t, f)
  IN [indices |-> indices, fds |-> [k \in DOMAIN indices |-> DiskOf[f][indices[k]]]]

\* buffered_io::get_fd: a partition with one file has no need to map
get_fd(io, f, page) ==
  IF Len(io.fds) = 1 THEN io.fds[1]
  ELSE io.fds[partition_map2file(io, f, page) + 1]

-----------------------------------------------------------------------------
(* async_io: the table of open files.                                        *)

\* io_ref: a buffered_io and its count; no buffered_io when it was closed
IoRef(io) == [io |-> io, count |-> 1, valid |-> TRUE]
NoRef == [io |-> NoFile, count |-> 0, valid |-> FALSE]

\* open_file: a new entry, another reference, or an entry that was closed
open_file(t, f) ==
  open_files' = [open_files EXCEPT ![t][f] =
                   IF @.valid THEN [@ EXCEPT !.count = @ + 1] ELSE IoRef(buffered_io(t, f))]

\* io_ref::dec_ref: the last reference closes the files on the disks
dec_ref(ref) == IF ref.count = 1 THEN NoRef ELSE [ref EXCEPT !.count = @ - 1]

\* close_file keeps the entry of the table
close_file(t, f) == open_files' = [open_files EXCEPT ![t][f] = dec_ref(@)]

Init ==
  /\ open_files = [t \in Threads |-> [f \in Ids |-> NoRef]]
  /\ comm_queue = [t \in Threads |-> <<>>] /\ queue = [t \in Threads |-> <<>>]
  /\ thread = [t \in Threads |-> "run"]
  /\ todo \in Programs
  /\ user = [u \in Users |-> "ready"] /\ left = [u \in Users |-> {}]
  /\ is_complete = [u \in Users |-> FALSE] /\ comm_alive = [u \in Users |-> FALSE]
  /\ signalled_dead = FALSE /\ held = {}
  /\ accessed = [u \in Users |-> NoFile]
  /\ fault = NoFile

-----------------------------------------------------------------------------
(* Users: a remote_io_factory that opens and closes, and its remote_io.      *)

Call(u) == Head(todo[u])

\* remote_io_factory: the constructor and the destructor go from thread to thread
Begin(u) ==
  /\ user[u] = "ready" /\ todo[u] # <<>> /\ Call(u).call \in {"open", "close"}
  /\ user' = [user EXCEPT ![u] = "command"] /\ left' = [left EXCEPT ![u] = Threads]
  /\ held' = IF Call(u).call = "close" THEN held \ {[user |-> u, id |-> Call(u).id]} ELSE held
  /\ UNCHANGED <<open_files, comm_queue, queue, thread, todo, is_complete, comm_alive,
                 signalled_dead, accessed, fault>>

\* execute_remote_comm: a new command in the queue of the thread, and activate().  The
\* threads are a set ordered by address.
execute_remote_comm(u) ==
  /\ user[u] = "command"
  /\ \E t \in left[u] :
       /\ comm_queue' = [comm_queue EXCEPT ![t] =
                           Append(@, [user |-> u, kind |-> Call(u).call, id |-> Call(u).id])]
       /\ left' = [left EXCEPT ![u] = @ \ {t}]
  /\ is_complete' = [is_complete EXCEPT ![u] = FALSE]
  /\ comm_alive' = [comm_alive EXCEPT ![u] = TRUE]
  /\ user' = [user EXCEPT ![u] = "wait4complete"]
  /\ UNCHANGED <<open_files, queue, thread, todo, signalled_dead, held, accessed, fault>>

\* wait4complete returns when is_complete is set, whether or not it had to sleep, and
\* execute_remote_comm deletes the command
wait4complete(u) ==
  /\ user[u] = "wait4complete" /\ is_complete[u]
  /\ comm_alive' = [comm_alive EXCEPT ![u] = FALSE]
  /\ user' = [user EXCEPT ![u] = IF left[u] # {} THEN "command" ELSE "ready"]
  /\ todo' = IF left[u] # {} THEN todo ELSE [todo EXCEPT ![u] = Tail(@)]
  /\ held' = IF left[u] = {} /\ Call(u).call = "open"
             THEN held \cup {[user |-> u, id |-> Call(u).id]} ELSE held
  /\ UNCHANGED <<open_files, comm_queue, queue, thread, left, is_complete, signalled_dead,
                 accessed, fault>>

\* remote_io::access: the mapper of the remote_io picks the disk, and with it the
\* thread.  The page may be of another file: a cache that all files share evicts a
\* dirty page of any of them, accessed before, through the remote_io of the one that
\* needs the room.
Send(u) ==
  /\ user[u] = "ready" /\ todo[u] # <<>> /\ Call(u).call \in {"access", "writeback"}
  /\ LET via == Call(u).via
         disk == DiskOf[via][map2file(MapperOf[via], Call(u).page)]
         t == CHOOSE t \in Threads : disk \in DisksOf[t]
     IN queue' = [queue EXCEPT ![t] =
                    Append(@, [user |-> u, via |-> via, id |-> Call(u).id, page |-> Call(u).page])]
  /\ Call(u).call = "writeback" =>
       \E v \in Users : accessed[v] # NoFile /\ accessed[v].id = Call(u).id
                         /\ accessed[v].page = Call(u).page
  /\ user' = [user EXCEPT ![u] = "io"]
  /\ UNCHANGED <<open_files, comm_queue, thread, todo, left, is_complete, comm_alive,
                 signalled_dead, held, accessed, fault>>

-----------------------------------------------------------------------------
(* The I/O thread.                                                           *)

\* run_commands: open_comm::run or close_comm::run, and the locked part of complete()
run_commands(t) ==
  /\ thread[t] = "run" /\ comm_queue[t] # <<>>
  /\ LET c == Head(comm_queue[t])
     IN /\ IF c.kind = "open" THEN open_file(t, c.id) ELSE close_file(t, c.id)
        /\ is_complete' = [is_complete EXCEPT ![c.user] = TRUE]
        /\ thread' = [thread EXCEPT ![t] = c.user]
  /\ comm_queue' = [comm_queue EXCEPT ![t] = Tail(@)]
  /\ UNCHANGED <<queue, todo, user, left, comm_alive, signalled_dead, held, accessed, fault>>

\* remote_comm::complete signals after it has unlocked
complete_signal(t) ==
  /\ thread[t] \in Users
  /\ signalled_dead' = (signalled_dead \/ ~comm_alive[thread[t]])
  /\ thread' = [thread EXCEPT ![t] = "run"]
  /\ UNCHANGED <<open_files, comm_queue, queue, todo, user, left, is_complete, comm_alive,
                 held, accessed, fault>>

\* construct_req: its assertions, the file and the offset in it; the request completes
\* and its user goes on
construct_req(t) ==
  /\ thread[t] = "run" /\ comm_queue[t] = <<>> /\ queue[t] # <<>>
  /\ LET r == Head(queue[t])
         ref == open_files[t][r.id]
         bid == map(MapperOf[r.id], r.page)
     IN IF ~ref.valid
        THEN fault' = [what |-> "file not open", req |-> r] /\ UNCHANGED <<accessed, user, todo>>
        ELSE IF partition_map2file(ref.io, r.id, r.page) = -1
        THEN fault' = [what |-> "not in the partition", req |-> r] /\ UNCHANGED <<accessed, user, todo>>
        ELSE /\ accessed' = [accessed EXCEPT ![r.user] =
                               [id |-> r.id, page |-> r.page, off |-> bid.off,
                                disk |-> get_fd(ref.io, r.id, r.page)]]
             /\ user' = [user EXCEPT ![r.user] = "ready"]
             /\ todo' = [todo EXCEPT ![r.user] = Tail(@)]
             /\ UNCHANGED fault
  /\ queue' = [queue EXCEPT ![t] = Tail(@)]
  /\ UNCHANGED <<open_files, comm_queue, thread, left, is_complete, comm_alive,
                 signalled_dead, held>>

\* A failed assertion ends the process
FileNext ==
  fault = NoFile /\
  \/ \E u \in Users : Begin(u) \/ execute_remote_comm(u) \/ wait4complete(u) \/ Send(u)
  \/ \E t \in Threads : run_commands(t) \/ complete_signal(t) \/ construct_req(t)

FileSpec ==
  /\ Init /\ [][FileNext]_fileVars
  /\ \A u \in Users : WF_fileVars(Begin(u) \/ execute_remote_comm(u) \/ wait4complete(u) \/ Send(u))
  /\ \A t \in Threads : WF_fileVars(run_commands(t) \/ complete_signal(t) \/ construct_req(t))

-----------------------------------------------------------------------------
(* Properties.                                                               *)

\* The two halves of the way agree: an access goes to the disk and the page of the
\* file there that the mapper of the file names, although the caller and the I/O
\* thread find them separately and the files of a thread are numbered anew
\* (remote_access.cpp:199-203, disk_read_thread.cpp:34-47, aio_private.cpp:180-190).
\* The assertions that the file is open and the block in the thread's partition
\* (aio_private.cpp:181-182, file_partition.h:95-96) fail only for a dirty page written
\* back through the remote_io of another file: the first when the page's own file was
\* closed, the second when the two mappers name disks of different threads.
AccessExact ==
  /\ \A u \in Users : accessed[u] # NoFile =>
       LET a == accessed[u] bid == map(MapperOf[a.id], a.page)
       IN a.disk = DiskOf[a.id][bid.idx] /\ a.off = bid.off
  /\ fault # NoFile =>
       LET r == fault.req
           disk(f) == DiskOf[f][map2file(MapperOf[f], r.page)]
       IN /\ r.via # r.id
          /\ IF fault.what = "file not open" THEN \A h \in held : h.id # r.id
             ELSE \A t \in Threads : ~ {disk(r.via), disk(r.id)} \subseteq DisksOf[t]

\* A file that a factory has opened and not begun to close is open in every I/O
\* thread, whatever the other factories that share it do in the meantime
\* (aio_private.cpp:94-107, 377-410).
OpenWhileHeld ==
  \A h \in held, t \in Threads : open_files[t][h.id].valid

\* complete() never touches a command its owner has deleted
\* (disk_read_thread.h:67-72, 164-172).
CommandAlive == ~signalled_dead

=============================================================================
