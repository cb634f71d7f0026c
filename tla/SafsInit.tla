------------------------------ MODULE SafsInit ------------------------------
(***************************************************************************)
(* The life of the I/O system (SAFS/libsafs/io_interface.cpp): threads     *)
(* call init_io_system and destroy_io_system, which count their callers,   *)
(* and between the two make I/O factories and I/O instances.               *)
(* The I/O threads and the disks they serve are made by init_io_system;    *)
(* opening a file on an I/O thread is one step here (see RemoteIO).        *)
(***************************************************************************)
EXTENDS Integers, Sequences, FiniteSets, FiniteSetsExt, SequencesExt

CONSTANTS
  Users, Main,              \* threads that call; the main thread
  Disks, DiskNode,          \* the disks (0..n-1) and the NUMA node of each
  NumIOThreads,             \* I/O threads per node; 0: one for each disk
  Scripts,                  \* functions from Users to sequences of calls
  NULL

InitAssumption ==
  /\ Disks = 0 .. Cardinality(Disks) - 1 /\ Disks # {}
  /\ DOMAIN DiskNode = Disks /\ NumIOThreads \in Nat

VARIABLES
  init_count, raid_conf, cache,
  read_threads,             \* I/O thread of each disk, or <<>> before init
  open,                     \* per I/O thread: the files it has open
  script, pc,               \* per user: the calls to make; step of the call
  held,                     \* per user: the factory and the I/Os of it
  used,                     \* per user: init_io_system calls that returned
  early,                    \* the users whose last init_io_system returned when the
                            \* system was not complete or was being destroyed
  failed                    \* who met an assertion that failed or was refused a factory

initVars == <<init_count, raid_conf, cache, read_threads, open, script, pc, held, used,
              early, failed>>

NoFactory == [kind |-> NULL, num_ios |-> 0]

Init ==
  /\ init_count = 0 /\ raid_conf = FALSE /\ cache = FALSE
  /\ read_threads = <<>> /\ open = <<>>
  /\ script \in Scripts
  /\ pc = [u \in Users |-> "idle"]
  /\ held = [u \in Users |-> NoFactory] /\ used = [u \in Users |-> 0]
  /\ early = {} /\ failed = {}

-----------------------------------------------------------------------------
(* The I/O threads                                                           *)

Nodes == {DiskNode[d] : d \in Disks}
\* indices: the disks of a node, in order
DisksOf(n) == SetToSortSeq({d \in Disks : DiskNode[d] = n}, <)
ThreadsOf(n) == IF NumIOThreads = 0 THEN Len(DisksOf(n)) ELSE NumIOThreads

\* The disks of thread i of node n: the partition it is made with
Share(n, i) ==
  LET per == Len(DisksOf(n)) \div ThreadsOf(n)
  IN SubSeq(DisksOf(n), i * per + 1, (i + 1) * per)
AllThreads == UNION {{<<n, i>> : i \in 0..ThreadsOf(n) - 1} : n \in Nodes}
\* read_threads: later threads replace earlier ones
MadeThreads ==
  [d \in Disks |->
     LET mine == {t \in AllThreads : \E k \in DOMAIN Share(t[1], t[2]) : Share(t[1], t[2])[k] = d}
     IN IF mine = {} THEN NULL ELSE CHOOSE t \in mine : \A s \in mine : s[2] <= t[2]]
EvenShare == \A n \in Nodes : Len(DisksOf(n)) % ThreadsOf(n) = 0

-----------------------------------------------------------------------------
Next1(u, call) == script[u] # <<>> /\ Head(script[u])[1] = call /\ pc[u] = "idle"
Done(u) == script' = [script EXCEPT ![u] = Tail(@)] /\ pc' = [pc EXCEPT ![u] = "idle"]
Go(u, l) == pc' = [pc EXCEPT ![u] = l] /\ UNCHANGED script
Fail(u, what) == failed' = failed \cup {<<u, what>>}

Complete == raid_conf /\ \A d \in Disks : d \in DOMAIN read_threads /\ read_threads[d] # NULL
Destroying == \E u \in Users : pc[u] \in {"reset", "destroy"}

\* init_io_system returns
InitReturns(u) ==
  /\ Done(u)
  /\ used' = [used EXCEPT ![u] = @ + 1]
  /\ early' = IF Complete' /\ ~Destroying THEN early \ {u} ELSE early \cup {u}

\* init_io_system: all but the first caller return at once
InitCount(u) ==
  /\ Next1(u, "init")
  /\ init_count' = init_count + 1
  /\ UNCHANGED <<raid_conf, cache, read_threads, open, held, failed>>
  /\ IF init_count > 0 THEN InitReturns(u) ELSE Go(u, "init") /\ UNCHANGED <<used, early>>

\* The parameters, the RAID configuration, which may be bad (the script says),
\* and the completion threads of AIO
InitConf(u) ==
  /\ pc[u] = "init"
  /\ UNCHANGED <<init_count, cache, read_threads, open, held>>
  /\ \/ /\ raid_conf /\ UNCHANGED raid_conf /\ InitReturns(u)
        /\ IF read_threads = <<>> THEN Fail(u, "init: no I/O threads") ELSE UNCHANGED failed
     \/ /\ ~raid_conf /\ Head(script[u])[2] = "bad"
        /\ Done(u) /\ UNCHANGED <<raid_conf, used, early, failed>>
     \/ /\ ~raid_conf /\ Head(script[u])[2] # "bad" /\ raid_conf' = TRUE
        /\ Go(u, "threads") /\ UNCHANGED <<used, early, failed>>

\* Under the mutex: the I/O threads and, when asked for, the page cache
InitThreads(u) ==
  /\ pc[u] = "threads"
  /\ IF read_threads = <<>>
       THEN /\ read_threads' = MadeThreads
            /\ open' = [t \in AllThreads |-> {}]
            /\ IF EvenShare THEN UNCHANGED failed ELSE Fail(u, "init: uneven disks")
       ELSE UNCHANGED <<read_threads, open, failed>>
  /\ cache' = (cache \/ Head(script[u])[2] = "cache")
  /\ UNCHANGED <<init_count, raid_conf, held>>
  /\ InitReturns(u)

\* destroy_io_system for every caller
DestroyAtOnce(u) ==
  /\ Next1(u, "destroy")
  /\ init_count' = init_count - 1
  /\ Go(u, "reset")
  /\ used' = [used EXCEPT ![u] = Max({@ - 1, 0})]
  /\ UNCHANGED <<raid_conf, cache, read_threads, open, held, early, failed>>

\* destroy_io_system: the last caller ...
DestroyCount(u) ==
  /\ Next1(u, "destroy")
  /\ init_count' = init_count - 1
  /\ used' = [used EXCEPT ![u] = Max({@ - 1, 0})]
  /\ IF init_count <= 0 THEN Fail(u, "destroy: not initialized") ELSE UNCHANGED failed
  /\ IF init_count > 1 THEN Done(u) ELSE Go(u, "reset")
  /\ UNCHANGED <<raid_conf, cache, read_threads, open, held, early>>

\* ... resets the configuration ...
DestroyConf(u) ==
  /\ pc[u] = "reset" /\ raid_conf' = FALSE /\ Go(u, "destroy")
  /\ UNCHANGED <<init_count, cache, read_threads, open, held, used, early, failed>>

\* ... and drops the I/O threads.  The page cache stays.
DestroyThreads(u) ==
  /\ pc[u] = "destroy"
  /\ read_threads' = <<>> /\ open' = <<>> /\ Done(u)
  /\ UNCHANGED <<init_count, raid_conf, cache, held, used, early, failed>>

-----------------------------------------------------------------------------
(* Factories and I/O instances.  A cached or compute factory holds a remote  *)
(* factory, whose num_ios counts its instances.                              *)

Remote(kind) == kind \in {"remote", "cached", "comp"}
FileOf(u) == u                      \* the mapper a factory makes

\* The remote factory expects a thread for each disk and opens the file on every
\* I/O thread
OpenRemote(u) ==
  /\ IF read_threads = <<>> THEN Fail(u, "factory: no I/O threads") ELSE UNCHANGED failed
  /\ open' = [t \in DOMAIN open |-> open[t] \cup {FileOf(u)}]

\* create_io_factory: throws when SAFS is not initialized (the file exists) and
\* when there is no page cache for the cached kind
CreateFactory(u) ==
  LET kind == Head(script[u])[2]
  IN /\ Next1(u, "factory") /\ Done(u)
     /\ IF ~raid_conf THEN Fail(u, "factory: not init") /\ UNCHANGED <<open, held>>
        ELSE IF kind = "cached" /\ ~cache THEN UNCHANGED <<open, held, failed>>
        ELSE /\ held' = [held EXCEPT ![u] = [kind |-> kind, num_ios |-> 0]]
             /\ IF Remote(kind) THEN OpenRemote(u) ELSE UNCHANGED <<open, failed>>
     /\ UNCHANGED <<init_count, raid_conf, cache, read_threads, used, early>>

\* create_io, on the files themselves (posix, aio)
CreateIO(u) ==
  /\ Next1(u, "io") /\ Done(u) /\ ~Remote(held[u].kind)
  /\ held' = [held EXCEPT ![u].num_ios = IF held[u].kind = NULL THEN 0 ELSE @ + 1]
  /\ UNCHANGED <<init_count, raid_conf, cache, read_threads, open, used, early, failed>>

\* create_io over the I/O threads: the remote I/O, alone or under the cached or
\* compute one, is counted
CreateRemoteIO(u) ==
  /\ Next1(u, "io") /\ Done(u) /\ Remote(held[u].kind)
  /\ held' = [held EXCEPT ![u].num_ios = @ + 1]
  /\ UNCHANGED <<init_count, raid_conf, cache, read_threads, open, used, early, failed>>

\* ~io_interface tells the factory
DropIO(u) ==
  /\ Next1(u, "drop_io") /\ Done(u)
  /\ held' = [held EXCEPT ![u].num_ios = IF held[u].kind = NULL THEN 0 ELSE @ - 1]
  /\ UNCHANGED <<init_count, raid_conf, cache, read_threads, open, used, early, failed>>

\* The destructor of the factory: no instance is left, and the I/O threads that
\* there still are close the file
DropFactory(u) ==
  /\ Next1(u, "drop") /\ Done(u)
  /\ held' = [held EXCEPT ![u] = NoFactory]
  /\ IF held[u].num_ios # 0 THEN Fail(u, "factory: I/Os left") ELSE UNCHANGED failed
  /\ open' = IF Remote(held[u].kind) THEN [t \in DOMAIN open |-> open[t] \ {FileOf(u)}] ELSE open
  /\ UNCHANGED <<init_count, raid_conf, cache, read_threads, used, early>>

\* The program: a thread may start after the main thread's init_io_system, and the
\* main thread may join the others
Started(u) ==
  /\ Next1(u, "started") /\ used[Main] > 0 /\ Done(u)
  /\ UNCHANGED <<init_count, raid_conf, cache, read_threads, open, held, used, early, failed>>
Join(u) ==
  /\ Next1(u, "join") /\ (\A v \in Users \ {u} : script[v] = <<>>) /\ Done(u)
  /\ UNCHANGED <<init_count, raid_conf, cache, read_threads, open, held, used, early, failed>>

\* A failed assertion ends the process; a factory that is refused is an exception
Aborted == \E f \in failed : f[2] # "factory: not init"

Next ==
  \E u \in Users : ~Aborted /\
    \/ InitCount(u) \/ InitConf(u) \/ InitThreads(u)
    \/ DestroyCount(u) \/ DestroyConf(u) \/ DestroyThreads(u)
    \/ CreateFactory(u) \/ CreateIO(u) \/ CreateRemoteIO(u) \/ DropIO(u) \/ DropFactory(u)
    \/ Started(u) \/ Join(u)

InitSpec == Init /\ [][Next]_initVars

-----------------------------------------------------------------------------
(* Properties                                                                *)

\* A caller that found the system complete when its init_io_system returned keeps the
\* configuration and an I/O thread for every disk until it calls destroy_io_system,
\* whatever the others initialise and destroy meanwhile; only a caller whose
\* init_io_system returned while another was still in its own, or in
\* destroy_io_system, is refused a factory or has an assertion fail.
UsersKeepSystem ==
  /\ \A u \in Users : used[u] > 0 /\ u \notin early => Complete
  /\ \A f \in failed : f[1] \in early

\* Every disk is served by one I/O thread, the one whose partition holds it, so
\* that the thread requests are sent to (read_threads) can map them; and an I/O
\* thread has the files of the live remote factories of such callers open, and no
\* file without a factory.
RemoteUsers == {u \in Users : Remote(held[u].kind)}
ThreadsServeDisks ==
  read_threads # <<>> =>
    /\ \A d \in Disks : \A t \in AllThreads :
         d \in ToSet(Share(t[1], t[2])) <=> read_threads[d] = t
    /\ \A t \in AllThreads : /\ {FileOf(u) : u \in RemoteUsers \ early} \subseteq open[t]
                             /\ open[t] \subseteq {FileOf(u) : u \in RemoteUsers}

\* "As long as all threads call init_io_system() first before using the global data,
\* they will all see the complete global data." (io_interface.cpp:56-57)
InitComplete == \A u \in Users : used[u] > 0 => Complete
=============================================================================
