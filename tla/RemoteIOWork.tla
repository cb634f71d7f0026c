---------------------------- MODULE RemoteIOWork ----------------------------
(***************************************************************************)
(* No thread of RemoteIO sleeps on work.  What has to be known is who      *)
(* answers for an entry of a queue: WorkAnswered for the queues of the     *)
(* I/O threads, CleanupProgress for cleanup(), which polls them instead,   *)
(* and HandoverInv for the way back.  Each step keeps the three.           *)
(***************************************************************************)
EXTENDS RemoteIOSteps

\* Time for the steps of this module, which has many facts in view
USE SMTT(30)

RemoteTypes == AppTypes /\ SenderTypes /\ DiskTypes /\ NotifyTypes

(***************************************************************************)
(* Who answers for an entry of an I/O thread's queues: not just anybody,   *)
(* as in WillActivate, but the client that put it there.  cleanup() no     *)
(* longer does once it has stopped polling.                                *)
(***************************************************************************)
AnswersFor(c, d) ==
  \/ app[c].pc = "flush_activate" /\ app[c].disk = d
  \/ app[c].pc \in {"cleanup_flush", "cleanup_poll", "cleanup_activate"}

CommandsAnswered(d) ==
  \A i \in 1 .. Len(comm_queue[d]) :
    LET c == comm_queue[d][i].client
    IN  app[c].pc = "command_activate" /\ app[c].disk = d

PartsAnswered(d) ==
  \A i \in 1 .. Len(queue[d]) : AnswersFor(ClientOf(queue[d][i]), d)

\* A thread that is in "fetch" is going to look at both queues.
WorkAnswered ==
  \A d \in Disks : io[d] # "fetch" /\ ~ io_event[d] =>
                     CommandsAnswered(d) /\ PartsAnswered(d)

(***************************************************************************)
(* What cleanup() has established: no sender behind it holds data, and, as *)
(* long as it has counted nothing, no queue behind it a part of its client.*)
(***************************************************************************)
NoneQueued(c, d) == \A i \in 1 .. Len(queue[d]) : ClientOf(queue[d][i]) # c

CleanupOf(c) ==
  /\ app[c].pc = "cleanup_flush" =>
       \A d \in Disks : d < app[c].disk => senders[c][d] = <<>>
  /\ app[c].pc \in {"cleanup_poll", "cleanup_activate", "cleanup_end"} =>
       \A d \in Disks : senders[c][d] = <<>>
  /\ app[c].pc = "cleanup_poll" =>
       /\ app[c].pending \in Nat
       /\ app[c].pending = 0 =>
            \A d \in Disks : d < app[c].disk => NoneQueued(c, d)
  /\ app[c].pc = "cleanup_activate" => app[c].disk = 0
  /\ app[c].pc = "cleanup_end" => \A d \in Disks : NoneQueued(c, d)

CleanupProgress == \A c \in Clients : CleanupOf(c)

(***************************************************************************)
(* Completions on their way to the completion thread and to the clients.   *)
(* A thread has nothing left to hand over when it collects more.           *)
(***************************************************************************)
NotifyEmpty ==
  /\ \A d \in Disks : io[d] \notin {"add_reqs_activate", "notify"} =>
                        notify[d] = <<>>
  /\ cb_thread = "run" => notify[CB] = <<>>

CompletionsAnswered ==
  cb_thread = "notify" /\ ~ cb_event /\ completed_reqs # <<>> =>
    \E d \in Disks : io[d] = "add_reqs_activate"

InboxAnswered ==
  \A c \in Clients : app[c].pc = "wait" /\ ~ app_event[c]
                     /\ complete_queue[c] # <<>> =>
    \E t \in Notifiers : /\ notify[t] # <<>> /\ notify[t][1].client = c
                         /\ notify[t][1].parts = <<>>

HandoverInv == NotifyEmpty /\ CompletionsAnswered /\ InboxAnswered

SleepInv ==
  /\ RemoteTypes /\ SlotsCovered /\ WorkAnswered /\ CleanupProgress
  /\ HandoverInv

(***************************************************************************)
(* The handover of completions.                                            *)
(***************************************************************************)
\* A client goes to wait with nothing in its completion queue.
LEMMA WaitsForEmpty ==
  ASSUME AppTypes, SenderTypes, NEW c \in Clients, AppStep(c) \/ AppCall(c)
  PROVE  app'[c].pc = "wait" => complete_queue'[c] = <<>>
<1>1. CASE wait4complete_process(c)
  BY <1>1 DEF wait4complete_process, process_completed_requests, SenderTypes
<1>2. CASE ~ wait4complete_process(c)
  <2>1. CASE execute_remote_comm(c)  BY <2>1, CommandQueued
  <2>2. CASE comm_activate(c)  BY <2>2, CommandActivates
  <2>3. CASE comm_wait4complete(c)  BY <2>3, CommandCompletes
  <2>4. CASE flush_requests(c)  BY Zenon, <2>4, FlushMoves
  <2>5. CASE flush_activate(c)  BY <2>5, FlushActivates
  <2>7. CASE wait4complete_wait(c)  BY <2>7, WaitEnds
  <2>8. CASE cleanup_flush(c)  BY Zenon, <2>8, CleanupFlushMoves
  <2>9. CASE cleanup_poll(c)  BY <2>9, CleanupPollMoves
  <2>10. CASE cleanup_activate(c)  BY <2>10, CleanupActivates
  <2>11. CASE cleanup_end(c)  BY <2>11, CleanupEnds
  <2>12. CASE access(c)  BY <2>12, AccessSends
  <2>13. CASE wait4complete(c)  BY <2>13, WaitBegins
  <2>14. CASE cleanup(c)  BY <2>14, CleanupBegins
  <2>15. CASE close_file(c)  BY <2>15, CloseBegins
  <2> QED  BY <1>2, <2>1, <2>2, <2>3, <2>4, <2>5, <2>7, <2>8, <2>9, <2>10, <2>11,
              <2>12, <2>13, <2>14, <2>15 DEF AppStep, AppCall
<1> QED  BY <1>1, <1>2

\* A client's step keeps what is known about the handover.
LEMMA ClientHandover ==
  ASSUME AppTypes, SenderTypes, HandoverInv, NEW c \in Clients,
         AppStep(c) \/ AppCall(c)
  PROVE  HandoverInv'
<1>1. NotifyEmpty' /\ CompletionsAnswered'
  BY ClientLeaves DEF HandoverInv, NotifyEmpty, CompletionsAnswered
<1>2. ASSUME NEW b \in Clients, app'[b].pc = "wait", ~ app_event'[b],
             complete_queue'[b] # <<>>
      PROVE  \E t \in Notifiers : /\ notify'[t] # <<>> /\ notify'[t][1].client = b
                                  /\ notify'[t][1].parts = <<>>
  <2>1. b # c
    BY <1>2, WaitsForEmpty
  <2>2. app'[b] = app[b]
    BY <2>1, ClientKeepsApp DEF OnlyClient
  <2>3. \E t \in Notifiers : /\ notify[t] # <<>> /\ notify[t][1].client = b
                             /\ notify[t][1].parts = <<>>
    BY <1>2, <2>1, <2>2, ClientLeaves DEF HandoverInv, InboxAnswered
  <2> QED  BY <2>3, ClientLeaves
<1> QED  BY <1>1, <1>2 DEF HandoverInv, InboxAnswered

\* So does a step of an I/O thread or of the kernel, other than handing over.
LEMMA IOHandover ==
  ASSUME LowerInv, HandoverInv, NEW d \in Disks, IOStep(d) \/ kernel_complete(d)
  PROVE  HandoverInv'
<1>1. /\ UNCHANGED <<app, app_event, complete_queue, cb_thread>>
      /\ io \in [Disks -> IOPc] /\ notify \in [Notifiers -> Seq(Groups)]
      /\ d # CB /\ d \in Notifiers /\ CB \in Notifiers
      /\ \A e \in Disks : e \in Notifiers /\ e # CB
  <2>1. UNCHANGED <<app, app_event, complete_queue, cb_thread>>
    BY DEF IOStep, run, run_commands, get_all_reqs, aio_access, return_cb,
           add_reqs_activate, io_wait_returns, kernel_complete, upstream,
           inboxVars, cbVars
  <2>2. io \in [Disks -> IOPc] /\ notify \in [Notifiers -> Seq(Groups)]
    BY Zenon DEF LowerInv, DiskTypes, NotifyTypes, Groups
  <2>3. /\ CB \in Notifiers /\ \A e \in Disks : e \in Notifiers /\ e # CB
    BY Sizes DEF CB, Notifiers, Disks
  <2> QED  BY <2>1, <2>2, <2>3
<1>2. CASE return_cb(d)
  <2>1. /\ io[d] = "io_wait" /\ io' = [io EXCEPT ![d] = "add_reqs_activate"]
        /\ \E gs : notify' = [notify EXCEPT ![d] = gs]
        /\ cb_event' = cb_event
    BY Zenon, <1>2 DEF return_cb, IOGoto
  <2>2. notify[d] = <<>>
    BY <2>1 DEF HandoverInv, NotifyEmpty
  <2>3. \A t \in Notifiers : t # d => notify'[t] = notify[t]
    BY <1>1, <2>1
  <2>4. NotifyEmpty'
    BY <1>1, <2>1, <2>3 DEF HandoverInv, NotifyEmpty, CB
  <2>5. CompletionsAnswered'
    BY <1>1, <2>1 DEF CompletionsAnswered
  <2>6. ASSUME NEW c \in Clients, app[c].pc = "wait", ~ app_event[c],
               complete_queue[c] # <<>>
        PROVE  \E t \in Notifiers : /\ notify'[t] # <<>> /\ notify'[t][1].client = c
                                    /\ notify'[t][1].parts = <<>>
    <3>1. PICK t \in Notifiers : /\ notify[t] # <<>> /\ notify[t][1].client = c
                                 /\ notify[t][1].parts = <<>>
      BY <2>6 DEF HandoverInv, InboxAnswered
    <3>2. t # d
      BY <2>2, <3>1
    <3> QED  BY <2>3, <3>1, <3>2
  <2>7. InboxAnswered'
    BY <1>1, <2>6 DEF InboxAnswered
  <2> QED  BY <2>4, <2>5, <2>7 DEF HandoverInv
<1>3. CASE add_reqs_activate(d)
  <2>1. /\ io[d] = "add_reqs_activate" /\ io' = [io EXCEPT ![d] = "notify"]
        /\ notify' = notify /\ cb_event' = TRUE
    BY <1>3 DEF add_reqs_activate, IOGoto
  <2>2. NotifyEmpty'
    BY <1>1, <2>1 DEF HandoverInv, NotifyEmpty, CB
  <2>3. CompletionsAnswered' /\ InboxAnswered'
    BY <1>1, <2>1 DEF HandoverInv, CompletionsAnswered, InboxAnswered
  <2> QED  BY <2>2, <2>3 DEF HandoverInv
<1>4. CASE run(d) \/ run_commands(d) \/ get_all_reqs(d) \/ aio_access(d)
             \/ io_wait_returns(d) \/ kernel_complete(d)
  <2>1. /\ UNCHANGED <<notify, cb_event, completed_reqs>>
        /\ \/ io' = io
           \/ /\ \E pc : io' = [io EXCEPT ![d] = pc]
              /\ io[d] # "add_reqs_activate"
    BY <1>4 DEF run, run_commands, get_all_reqs, aio_access, io_wait_returns,
                kernel_complete, IOGoto, cbVars, ioVars
  <2>2. notify[d] = <<>> \/ io' = io
    BY <1>4 DEF run, run_commands, get_all_reqs, aio_access, io_wait_returns,
                kernel_complete, ioVars, HandoverInv, NotifyEmpty
  <2>3. NotifyEmpty'
    BY <1>1, <2>1, <2>2 DEF HandoverInv, NotifyEmpty, CB
  <2>4. CompletionsAnswered'
    BY <1>1, <2>1 DEF HandoverInv, CompletionsAnswered
  <2>5. InboxAnswered'
    BY <1>1, <2>1 DEF HandoverInv, InboxAnswered
  <2> QED  BY <2>3, <2>4, <2>5 DEF HandoverInv
<1> QED  BY <1>2, <1>3, <1>4 DEF IOStep

\* So does a step of a thread that hands over completions: a client is activated
\* after the last part of its group.
LEMMA NotifyHandover ==
  ASSUME SenderTypes, NotifyTypes, HandoverInv, NEW t \in Notifiers, NotifyStep(t)
  PROVE  HandoverInv'
<1>1. /\ UNCHANGED <<app, io, completed_reqs, cb_thread, cb_event>>
      /\ notify \in [Notifiers -> Seq(Groups)] /\ notify[t] # <<>>
      /\ complete_queue \in [Clients -> Seq(AllParts)]
      /\ app_event \in [Clients -> BOOLEAN]
  BY Zenon, NotifySteps DEF NotifyTypes, Groups, SenderTypes, NotifyStep,
                     notify_completion, notify_activate
<1>2. Len(notify[t]) \in Nat \ {0} /\ notify[t][1] \in Groups
      /\ notify[t] \in Seq(Groups)
  BY <1>1, EmptySeq, ElementOfSeq
<1>3. \A s \in Notifiers : s # t => notify'[s] = notify[s]
  BY Zenon, <1>1 DEF NotifyStep, notify_completion, notify_activate
<1>4. CompletionsAnswered'
  BY <1>1 DEF HandoverInv, CompletionsAnswered
<1>5. NotifyEmpty'
  <2>1. t = CB => cb_thread # "run"
    BY <1>1 DEF HandoverInv, NotifyEmpty
  <2>2. t \in Disks => io[t] = "notify"
    <3>1. CB \notin Disks
      BY Sizes DEF CB, Disks
    <3> QED  BY Zenon, <3>1 DEF NotifyStep, notify_completion, notify_activate, Notifying
  <2>3. CB \in Notifiers /\ \A e \in Disks : e \in Notifiers
    BY Sizes DEF CB, Notifiers, Disks
  <2> QED  BY <1>1, <1>3, <2>1, <2>2, <2>3 DEF HandoverInv, NotifyEmpty, CB
<1>6. CASE notify_completion(t)
  <2> DEFINE g == notify[t][1]
             h == [g EXCEPT !.parts = <<>>]
  <2>1. /\ complete_queue' = [complete_queue EXCEPT ![g.client] = @ \o g.parts]
        /\ notify' = [notify EXCEPT ![t] = [notify[t] EXCEPT ![1] = h]]
        /\ app_event' = app_event /\ g.parts # <<>>
    BY <1>6 DEF notify_completion
  <2>2. h.client = g.client /\ h.parts = <<>> /\ h \in Groups
    <3>1. <<>> \in Seq(AllParts)
      OBVIOUS
    <3> QED  BY Zenon, <1>2, <3>1 DEF Groups
  <2> HIDE DEF h
  <2>3. notify'[t] # <<>> /\ notify'[t][1] = h
    <3>1. notify'[t] = [notify[t] EXCEPT ![1] = h]
      BY <1>1, <2>1
    <3>2. /\ Len([notify[t] EXCEPT ![1] = h]) = Len(notify[t])
          /\ [notify[t] EXCEPT ![1] = h][1] = h
      BY <1>2, <2>2, ExceptSeq
    <3> QED  BY <1>2, <3>1, <3>2
  <2>4. ASSUME NEW c \in Clients, app[c].pc = "wait", ~ app_event[c],
               complete_queue'[c] # <<>>
        PROVE  \E s \in Notifiers : /\ notify'[s] # <<>> /\ notify'[s][1].client = c
                                    /\ notify'[s][1].parts = <<>>
    <3>1. CASE c = g.client
      BY <2>2, <2>3, <3>1
    <3>2. CASE c # g.client
      <4>1. complete_queue'[c] = complete_queue[c]
        BY <1>1, <2>1, <3>2
      <4>2. PICK s \in Notifiers : /\ notify[s] # <<>> /\ notify[s][1].client = c
                                   /\ notify[s][1].parts = <<>>
        BY <2>4, <4>1 DEF HandoverInv, InboxAnswered
      <4>3. s # t
        BY <3>2, <4>2
      <4> QED  BY <1>3, <4>2, <4>3
    <3> QED  BY <3>1, <3>2
  <2>5. InboxAnswered'
    BY <1>1, <2>1, <2>4 DEF InboxAnswered
  <2> QED  BY <1>4, <1>5, <2>5 DEF HandoverInv
<1>7. CASE notify_activate(t)
  <2> DEFINE g == notify[t][1]
  <2>1. /\ app_event' = [app_event EXCEPT ![g.client] = TRUE]
        /\ complete_queue' = complete_queue
    BY <1>7 DEF notify_activate
  <2>2. g.client \in Clients
    BY <1>2 DEF Groups
  <2>3. ASSUME NEW c \in Clients, app[c].pc = "wait", ~ app_event'[c],
               complete_queue[c] # <<>>
        PROVE  \E s \in Notifiers : /\ notify'[s] # <<>> /\ notify'[s][1].client = c
                                    /\ notify'[s][1].parts = <<>>
    <3>1. c # g.client /\ ~ app_event[c]
      BY <1>1, <2>1, <2>2, <2>3
    <3>2. PICK s \in Notifiers : /\ notify[s] # <<>> /\ notify[s][1].client = c
                                 /\ notify[s][1].parts = <<>>
      BY <2>3, <3>1 DEF HandoverInv, InboxAnswered
    <3>3. s # t
      BY <3>1, <3>2
    <3> QED  BY <1>3, <3>2, <3>3
  <2>4. InboxAnswered'
    BY <1>1, <2>1, <2>3 DEF InboxAnswered
  <2> QED  BY <1>4, <1>5, <2>4 DEF HandoverInv
<1> QED  BY <1>6, <1>7 DEF NotifyStep

-----------------------------------------------------------------------------
(***************************************************************************)
(* Who put an entry into a queue answers for it.  First the clients of the *)
(* entries.                                                                *)
(***************************************************************************)
LEMMA EntryClients ==
  ASSUME DiskTypes, NEW d \in Disks
  PROVE  /\ \A i \in 1 .. Len(comm_queue[d]) : comm_queue[d][i].client \in Clients
         /\ \A i \in 1 .. Len(queue[d]) : ClientOf(queue[d][i]) \in Clients
<1> DEFINE T == [client : Clients, op : {"open", "close"}]
<1>1. comm_queue[d] \in Seq(T) /\ queue[d] \in Seq(AllParts)
  BY ZenonT(60) DEF DiskTypes
<1> HIDE DEF T
<1>2. /\ \A i \in 1 .. Len(comm_queue[d]) : comm_queue[d][i] \in T
      /\ \A i \in 1 .. Len(queue[d]) : queue[d][i] \in AllParts
  BY <1>1, ElementOfSeq
<1>3. \A e \in T : e.client \in Clients
  BY DEF T
<1> QED  BY <1>2, <1>3, PartClient

\* A client's step that queues nothing, and either leaves it answering or
\* activates the thread.
LEMMA QuietStep ==
  ASSUME DiskTypes, WorkAnswered, NEW c \in Clients, OnlyClient(c),
         UNCHANGED <<io, queue, comm_queue>>,
         \A d \in Disks : ~ io_event'[d] => ~ io_event[d],
         \A d \in Disks : ~ io_event'[d] =>
           /\ ~ (app[c].pc = "command_activate" /\ app[c].disk = d)
           /\ AnswersFor(c, d) => AnswersFor(c, d)' \/ NoneQueued(c, d)
  PROVE  WorkAnswered'
<1> SUFFICES ASSUME NEW d \in Disks, io'[d] # "fetch", ~ io_event'[d]
             PROVE  CommandsAnswered(d)' /\ PartsAnswered(d)'
  BY DEF WorkAnswered
<1>1. CommandsAnswered(d) /\ PartsAnswered(d)
  BY DEF WorkAnswered
<1>2. ASSUME NEW i \in 1 .. Len(comm_queue[d])
      PROVE  LET b == comm_queue[d][i].client
             IN  app'[b].pc = "command_activate" /\ app'[b].disk = d
  <2> DEFINE b == comm_queue[d][i].client
  <2>1. app[b].pc = "command_activate" /\ app[b].disk = d /\ b \in Clients
    BY <1>1, EntryClients DEF CommandsAnswered
  <2>2. b # c
    BY <2>1
  <2> QED  BY <2>1, <2>2 DEF OnlyClient
<1>3. ASSUME NEW i \in 1 .. Len(queue[d])
      PROVE  AnswersFor(ClientOf(queue[d][i]), d)'
  <2> DEFINE b == ClientOf(queue[d][i])
  <2>1. AnswersFor(b, d) /\ b \in Clients
    BY <1>1, EntryClients DEF PartsAnswered
  <2>2. CASE b = c
    <3>1. ~ NoneQueued(c, d)
      BY <2>2 DEF NoneQueued
    <3>2. AnswersFor(c, d)'
      BY <2>1, <2>2, <3>1
    <3>3. queue' = queue
      OBVIOUS
    <3> QED  BY <2>2, <3>2, <3>3 DEF AnswersFor
  <2>3. CASE b # c
    <3>1. app'[b] = app[b]
      BY <2>1, <2>3 DEF OnlyClient
    <3> QED  BY <2>1, <3>1 DEF AnswersFor
  <2> QED  BY <2>2, <2>3
<1>4. CommandsAnswered(d)'
  BY <1>2 DEF CommandsAnswered
<1>5. PartsAnswered(d)'
  BY <1>3 DEF PartsAnswered
<1> QED  BY <1>4, <1>5

\* A client queues a command, and is going to activate the thread.
LEMMA CommandIsAnswered ==
  ASSUME AppTypes, DiskTypes, WorkAnswered, NEW c \in Clients, execute_remote_comm(c)
  PROVE  WorkAnswered'
<1>1. /\ OnlyClient(c) /\ app[c].pc = "command" /\ app'[c].pc = "command_activate"
      /\ app'[c].disk = app[c].disk /\ app[c].disk \in Disks
  BY CommandQueued DEF AppTypes, AppRecord
<1> DEFINE s == app[c].disk
           T == [client : Clients, op : {"open", "close"}]
           m == [client |-> c, op |-> app[c].op]
<1>2. /\ comm_queue' = [comm_queue EXCEPT ![s] = Append(comm_queue[s], m)]
      /\ UNCHANGED <<io, queue, io_event>>
  BY DEF execute_remote_comm, downstream, ioVars
<1>3. comm_queue \in [Disks -> Seq(T)] /\ m \in T
  BY Zenon DEF DiskTypes, AppTypes, AppRecord
<1>m. m.client = c
  OBVIOUS
<1> HIDE DEF T, m
<1> SUFFICES ASSUME NEW d \in Disks, io'[d] # "fetch", ~ io_event'[d]
             PROVE  CommandsAnswered(d)' /\ PartsAnswered(d)'
  BY DEF WorkAnswered
<1>4. CommandsAnswered(d) /\ PartsAnswered(d)
  BY <1>2 DEF WorkAnswered
<1>5. \A i \in 1 .. Len(comm_queue[d]) :
        LET b == comm_queue[d][i].client
        IN  app'[b].pc = "command_activate" /\ app'[b].disk = d
  BY <1>1, <1>4, EntryClients DEF CommandsAnswered, OnlyClient
<1>6. ASSUME NEW i \in 1 .. Len(comm_queue'[d])
      PROVE  LET b == comm_queue'[d][i].client
             IN  app'[b].pc = "command_activate" /\ app'[b].disk = d
  <2>1. CASE d # s
    BY <1>2, <1>3, <1>5, <2>1
  <2>2. CASE d = s
    <3>1. comm_queue'[d] = Append(comm_queue[d], m)
      BY <1>1, <1>2, <1>3, <2>2
    <3>2. /\ Len(comm_queue'[d]) = Len(comm_queue[d]) + 1
          /\ Len(comm_queue[d]) \in Nat
          /\ \A k \in 1 .. Len(comm_queue[d]) :
               comm_queue'[d][k] = comm_queue[d][k]
          /\ comm_queue'[d][Len(comm_queue[d]) + 1] = m
      BY <1>3, <3>1, AppendProperties, LenProperties
    <3>3. CASE i = Len(comm_queue[d]) + 1
      BY ZenonT(60), <1>1, <1>m, <2>2, <3>2, <3>3
    <3>4. CASE i # Len(comm_queue[d]) + 1
      <4>1. i \in 1 .. Len(comm_queue[d])
        BY <3>2, <3>4
      <4> QED  BY <1>5, <3>2, <4>1
    <3> QED  BY <3>3, <3>4
  <2> QED  BY <2>1, <2>2
<1>7. CommandsAnswered(d)'
  BY <1>6 DEF CommandsAnswered
<1>8. ASSUME NEW i \in 1 .. Len(queue[d])
      PROVE  AnswersFor(ClientOf(queue[d][i]), d)'
  <2> DEFINE b == ClientOf(queue[d][i])
  <2>1. AnswersFor(b, d) /\ b \in Clients
    BY <1>4, EntryClients DEF PartsAnswered
  <2>2. b # c
    BY <1>1, <2>1 DEF AnswersFor
  <2>3. app'[b] = app[b] /\ queue' = queue
    BY <1>1, <1>2, <2>1, <2>2 DEF OnlyClient
  <2> QED  BY <2>1, <2>3 DEF AnswersFor
<1>9. PartsAnswered(d)'
  BY <1>2, <1>8 DEF PartsAnswered
<1> QED  BY <1>7, <1>9

\* A flush: the entries of the queue after it.
FlushesTo(c, d) == queue' = [queue EXCEPT ![d] = @ \o senders[c][d]]

\* An entry of a queue after a flush is an older one or one the client flushed.
LEMMA FlushedEntries ==
  ASSUME SenderTypes, DiskTypes, NEW c \in Clients, NEW d \in Disks,
         FlushesTo(c, d),
         NEW e \in Disks, NEW i \in 1 .. Len(queue'[e])
  PROVE  \/ ClientOf(queue'[e][i]) = c /\ e = d
         \/ i \in 1 .. Len(queue[e]) /\ queue'[e][i] = queue[e][i]
<1>1. /\ queue \in [Disks -> Seq(AllParts)] /\ senders[c][d] \in Seq(PartsOf(c))
      /\ PartsOf(c) \subseteq AllParts
  BY DEF DiskTypes, SenderTypes, PartsOf
<1>2. senders[c][d] \in Seq(AllParts)
  BY <1>1
<1>3. CASE e # d
  BY <1>1, <1>3 DEF FlushesTo
<1>4. CASE e = d
  <2> DEFINE q == queue[e]
             b == senders[c][d]
  <2>1. queue'[e] = q \o b
    BY <1>1, <1>4 DEF FlushesTo
  <2>2. q \in Seq(AllParts) /\ b \in Seq(AllParts)
    BY <1>1, <1>2
  <2> HIDE DEF q, b
  <2>3. /\ Len(q \o b) = Len(q) + Len(b) /\ Len(q) \in Nat /\ Len(b) \in Nat
        /\ \A k \in 1 .. Len(q) + Len(b) :
             (q \o b)[k] = IF k <= Len(q) THEN q[k] ELSE b[k - Len(q)]
    BY <2>2, ConcatProperties, LenProperties
  <2>4. i \in 1 .. Len(q) + Len(b)
    BY <2>1, <2>3
  <2>5. CASE i <= Len(q)
    <3>1. i \in 1 .. Len(q) /\ (q \o b)[i] = q[i]
      BY <2>3, <2>4, <2>5
    <3> QED  BY <2>1, <3>1 DEF q
  <2>6. CASE ~ (i <= Len(q))
    <3>1. i - Len(q) \in 1 .. Len(b) /\ (q \o b)[i] = b[i - Len(q)]
      BY <2>3, <2>4, <2>6
    <3>2. b[i - Len(q)] \in PartsOf(c)
      BY <1>1, <3>1, ElementOfSeq DEF b
    <3>3. queue'[e][i] \in PartsOf(c)
      BY <2>1, <3>1, <3>2
    <3> QED  BY <1>4, <3>3 DEF PartsOf
  <2> QED  BY <2>5, <2>6
<1> QED  BY <1>3, <1>4

\* A client flushes a buffer, and answers for what was in it.
LEMMA FlushIsAnswered ==
  ASSUME AppTypes, SenderTypes, DiskTypes, WorkAnswered, NEW c \in Clients,
         OnlyClient(c), NEW d \in Disks,
         FlushesTo(c, d),
         UNCHANGED <<io, comm_queue, io_event>>,
         app[c].pc # "command_activate", AnswersFor(c, d)',
         \A e \in Disks : AnswersFor(c, e) => AnswersFor(c, e)'
  PROVE  WorkAnswered'
<1> SUFFICES ASSUME NEW e \in Disks, io'[e] # "fetch", ~ io_event'[e]
             PROVE  CommandsAnswered(e)' /\ PartsAnswered(e)'
  BY DEF WorkAnswered
<1>1. CommandsAnswered(e) /\ PartsAnswered(e)
  BY DEF WorkAnswered
<1>2. CommandsAnswered(e)'
  BY <1>1, EntryClients DEF CommandsAnswered, OnlyClient
<1>3. ASSUME NEW i \in 1 .. Len(queue'[e])
      PROVE  AnswersFor(ClientOf(queue[e][i]), e)'
  <2> DEFINE b == ClientOf(queue'[e][i])
  <2>1. CASE b = c /\ e = d
    BY <2>1 DEF AnswersFor
  <2>2. CASE i \in 1 .. Len(queue[e]) /\ queue'[e][i] = queue[e][i]
    <3>1. AnswersFor(b, e) /\ b \in Clients
      BY <1>1, <2>2, EntryClients DEF PartsAnswered, AnswersFor
    <3>2. CASE b = c
      BY <3>1, <3>2 DEF AnswersFor
    <3>3. CASE b # c
      BY <3>1, <3>3 DEF AnswersFor, OnlyClient
    <3> QED  BY <3>2, <3>3
  <2>3. \/ ClientOf(queue'[e][i]) = c /\ e = d
        \/ i \in 1 .. Len(queue[e]) /\ queue'[e][i] = queue[e][i]
    BY FlushedEntries
  <2> QED  BY <2>1, <2>2, <2>3
<1>4. PartsAnswered(e)'
  BY <1>3 DEF PartsAnswered
<1> QED  BY <1>2, <1>4

\* The steps that activate: only where the client was to.
LEMMA Activations ==
  ASSUME AppTypes, DiskTypes, NEW c \in Clients, NEW d \in Disks, ~ io_event'[d]
  PROVE  /\ comm_activate(c) => ~ io_event[d] /\ app[c].disk # d
         /\ flush_activate(c) => ~ io_event[d] /\ app[c].disk # d
         /\ ~ cleanup_activate(c)
         /\ cleanup_end(c) => ~ io_event[d]
<1>1. io_event \in [Disks -> BOOLEAN]
  BY DEF DiskTypes
<1>2. ASSUME comm_activate(c) \/ flush_activate(c)
      PROVE  ~ io_event[d] /\ app[c].disk # d
  <2>1. io_event' = [io_event EXCEPT ![app[c].disk] = TRUE]
    BY <1>2 DEF comm_activate, flush_activate
  <2> QED  BY <1>1, <2>1
<1>3. cleanup_end(c) => ~ io_event[d]
  <2>1. cleanup_end(c) => io_event' = [io_event EXCEPT ![app[c].disk] = TRUE]
    BY DEF cleanup_end
  <2> QED  BY <1>1, <2>1
<1>4. ~ cleanup_activate(c)
  BY DEF cleanup_activate
<1> QED  BY <1>2, <1>3, <1>4

\* A step of a client keeps WorkAnswered: what it puts into a queue it answers
\* for, and it stops answering by activating the thread.
LEMMA ClientWork ==
  ASSUME AppTypes, SenderTypes, DiskTypes, WorkAnswered, CleanupProgress,
         CleanupProgress', NEW c \in Clients, AppStep(c) \/ AppCall(c)
  PROVE  WorkAnswered'
<1>1. io' = io
  BY ClientLeaves
<1>2. CASE execute_remote_comm(c)
  BY <1>2, CommandIsAnswered
<1>3. CASE flush_requests(c)
  <2>1. UNCHANGED <<comm_queue, io_event>>
    BY <1>3 DEF flush_requests
  <2>2. OnlyClient(c) /\ app[c].pc = "flush"
    BY ZenonT(60), <1>3, FlushMoves
  <2>3. CASE UNCHANGED <<queue, senders>>
    BY <1>1, <2>1, <2>2, <2>3, QuietStep DEF AnswersFor
  <2>4. ASSUME NEW d \in Disks, app'[c].pc = "flush_activate", app'[c].disk = d,
               queue' = [queue EXCEPT ![d] = @ \o senders[c][d]]
        PROVE  WorkAnswered'
    <3>1. FlushesTo(c, d)
      BY <2>4 DEF FlushesTo
    <3>2. AnswersFor(c, d)' /\ \A e \in Disks : ~ AnswersFor(c, e)
      BY <2>2, <2>4 DEF AnswersFor
    <3> QED  BY <1>1, <2>1, <2>2, <3>1, <3>2, FlushIsAnswered
  <2> QED  BY Zenon, <1>3, <2>3, <2>4, FlushMoves
<1>4. CASE cleanup_flush(c)
  <2>1. UNCHANGED <<comm_queue, io_event>>
    BY <1>4 DEF cleanup_flush
  <2>2. OnlyClient(c) /\ app[c].pc = "cleanup_flush"
        /\ app'[c].pc \in {"cleanup_poll", "cleanup_flush"}
    BY ZenonT(60), <1>4, CleanupFlushMoves
  <2>3. \A e \in Disks : AnswersFor(c, e)'
    BY <2>2 DEF AnswersFor
  <2>4. CASE UNCHANGED <<queue, senders>>
    BY Zenon, <1>1, <2>1, <2>2, <2>3, <2>4, QuietStep
  <2>5. ASSUME NEW d \in Disks,
               queue' = [queue EXCEPT ![d] = @ \o senders[c][d]]
        PROVE  WorkAnswered'
    <3>1. FlushesTo(c, d)
      BY <2>5 DEF FlushesTo
    <3> QED  BY <1>1, <2>1, <2>2, <2>3, <3>1, FlushIsAnswered
  <2> QED  BY Zenon, <1>4, <2>4, <2>5, CleanupFlushMoves
<1>5. CASE comm_activate(c) \/ flush_activate(c) \/ cleanup_activate(c)
             \/ cleanup_end(c)
  <2>1. UNCHANGED <<queue, comm_queue>> /\ OnlyClient(c)
    BY ZenonT(60), <1>5, CommandActivates, FlushActivates, CleanupActivates, CleanupEnds
       DEF comm_activate, flush_activate, cleanup_activate, cleanup_end
  <2>2. app[c].pc \in {"command_activate", "flush_activate", "cleanup_activate",
                       "cleanup_end"}
    BY <1>5, CommandActivates, FlushActivates, CleanupActivates, CleanupEnds
  <2>3. ASSUME NEW d \in Disks, ~ io_event'[d]
        PROVE  /\ ~ io_event[d]
               /\ ~ (app[c].pc = "command_activate" /\ app[c].disk = d)
               /\ ~ AnswersFor(c, d)
    <3>1. CASE comm_activate(c)
      BY <2>3, <3>1, Activations, CommandActivates DEF AnswersFor
    <3>2. CASE flush_activate(c)
      BY <2>3, <3>2, Activations, FlushActivates DEF AnswersFor
    <3>3. CASE cleanup_end(c)
      BY <2>3, <3>3, Activations, CleanupEnds DEF AnswersFor
    <3> QED  BY ZenonT(60), <1>5, <2>3, <3>1, <3>2, <3>3, Activations
  <2> QED  BY <1>1, <2>1, <2>3, QuietStep
<1>6. CASE cleanup_poll(c)
  <2>1. UNCHANGED <<queue, comm_queue, io_event>> /\ OnlyClient(c)
    BY ZenonT(60), <1>6, CleanupPollMoves DEF cleanup_poll, diskVars
  <2>2. /\ app[c].pc = "cleanup_poll"
        /\ app'[c].pc \in {"cleanup_poll", "cleanup_activate", "cleanup_end"}
    BY <1>6, CleanupPollMoves
  <2>3. ASSUME NEW d \in Disks PROVE AnswersFor(c, d)' \/ NoneQueued(c, d)
    <3>1. CASE app'[c].pc = "cleanup_end"
      <4>1. NoneQueued(c, d)'
        BY ZenonT(60), <3>1 DEF CleanupProgress, CleanupOf
      <4> QED  BY <2>1, <4>1 DEF NoneQueued
    <3>2. CASE app'[c].pc # "cleanup_end"
      BY <2>2, <3>2 DEF AnswersFor
    <3> QED  BY <3>1, <3>2
  <2> QED  BY <1>1, <2>1, <2>2, <2>3, QuietStep
<1>7. CASE comm_wait4complete(c) \/ wait4complete_process(c)
             \/ wait4complete_wait(c) \/ access(c) \/ wait4complete(c)
             \/ cleanup(c) \/ close_file(c)
  <2>1. UNCHANGED <<queue, comm_queue, io_event>>
    BY Zenon, <1>7 DEF comm_wait4complete, wait4complete_process, wait4complete_wait,
                access, wait4complete, cleanup, close_file, diskVars
  <2>2. app[c].pc \in {"command_wait", "process", "wait", "ready"}
    BY ZenonT(60), <1>7 DEF comm_wait4complete, wait4complete_process, wait4complete_wait,
                access, wait4complete, cleanup, close_file
  <2>3. \A d \in Disks : ~ AnswersFor(c, d)
    BY <2>2 DEF AnswersFor
  <2>4. OnlyClient(c)
    BY ClientKeepsApp
  <2> QED  BY ZenonT(60), <1>1, <2>1, <2>2, <2>3, <2>4, QuietStep
<1> QED  BY <1>2, <1>3, <1>4, <1>5, <1>6, <1>7 DEF AppStep, AppCall

\* An I/O thread leaves "fetch" when it has looked at both queues.
LEMMA IOWork ==
  ASSUME DiskTypes, WorkAnswered, NEW d \in Disks, IOStep(d) \/ kernel_complete(d)
  PROVE  WorkAnswered'
<1> SUFFICES ASSUME NEW e \in Disks, io'[e] # "fetch", ~ io_event'[e]
             PROVE  CommandsAnswered(e)' /\ PartsAnswered(e)'
  BY DEF WorkAnswered
<1>1. /\ io \in [Disks -> IOPc] /\ DOMAIN queue = Disks /\ DOMAIN comm_queue = Disks
      /\ io_event \in [Disks -> BOOLEAN]
  BY DEF DiskTypes
<1>2. app' = app
  BY ZenonT(60) DEF IOStep, run, run_commands, get_all_reqs, aio_access, return_cb,
         add_reqs_activate, io_wait_returns, kernel_complete, upstream
<1>3. CASE io[e] # "fetch" /\ ~ io_event[e] /\ comm_queue'[e] = comm_queue[e]
             /\ queue'[e] = queue[e]
  <2>1. CommandsAnswered(e) /\ PartsAnswered(e)
    BY <1>3 DEF WorkAnswered
  <2> QED  BY <1>2, <1>3, <2>1 DEF CommandsAnswered, PartsAnswered, AnswersFor
<1>4. CASE e # d
  <2>1. /\ io'[e] = io[e] /\ io_event'[e] = io_event[e] /\ queue'[e] = queue[e]
        /\ comm_queue'[e] = comm_queue[e]
    BY ZenonT(60), <1>1, <1>4 DEF IOStep, run, run_commands, get_all_reqs, aio_access,
         return_cb, add_reqs_activate, io_wait_returns, kernel_complete, IOGoto,
         diskVars, ioVars
  <2> QED  BY ZenonT(60), <1>3, <2>1
<1>5. CASE e = d
  <2>1. ~ run(d) /\ ~ run_commands(d)
    BY <1>1, <1>5 DEF run, run_commands, IOGoto
  <2>2. CASE get_all_reqs(d)
    <3>1. /\ queue'[e] = <<>> /\ comm_queue'[e] = comm_queue[e] /\ io_event' = io_event
          /\ io[e] = "fetch" => comm_queue[e] = <<>>
      BY ZenonT(60), <1>1, <1>5, <2>2 DEF get_all_reqs
    <3>2. PartsAnswered(e)'
      BY <3>1 DEF PartsAnswered
    <3>3. CASE io[e] = "fetch"
      BY <3>1, <3>2, <3>3 DEF CommandsAnswered
    <3>4. CASE io[e] # "fetch"
      <4>1. CommandsAnswered(e)
        BY <3>1, <3>4 DEF WorkAnswered
      <4> QED  BY <1>2, <3>1, <3>2, <4>1 DEF CommandsAnswered
    <3> QED  BY <3>3, <3>4
  <2>3. CASE aio_access(d) \/ return_cb(d) \/ add_reqs_activate(d)
               \/ io_wait_returns(d) \/ kernel_complete(d)
    <3>1. UNCHANGED <<queue, comm_queue, io_event>>
      BY ZenonT(60), <2>3 DEF aio_access, return_cb, add_reqs_activate, io_wait_returns,
                  kernel_complete, diskVars
    <3>2. io[d] # "fetch"
      BY ZenonT(60), <1>5, <2>3 DEF aio_access, return_cb, add_reqs_activate, io_wait_returns,
                  kernel_complete, ioVars
    <3> QED  BY <1>3, <1>5, <3>1, <3>2
  <2> QED  BY ZenonT(60), <2>1, <2>2, <2>3 DEF IOStep
<1> QED  BY <1>4, <1>5

-----------------------------------------------------------------------------
(***************************************************************************)
(* What cleanup() has established stays true: of the other clients first,  *)
(* whose senders nobody touches and whose parts nobody else queues.        *)
(***************************************************************************)
LEMMA OtherQueues ==
  ASSUME SenderTypes, DiskTypes, NEW c \in Clients, AppStep(c) \/ AppCall(c)
  PROVE  /\ queue' = queue \/ \E d \in Disks : FlushesTo(c, d)
         /\ \A b \in Clients : b # c => senders'[b] = senders[b]
<1>1. CASE flush_requests(c) \/ cleanup_flush(c)
  <2>1. CASE UNCHANGED <<queue, senders>>
    BY <2>1
  <2>2. CASE ~ UNCHANGED <<queue, senders>>
    <3> DEFINE d == Min(HasData(c))
    <3>1. HasData(c) # {}
      BY ZenonT(60), <1>1, <2>2 DEF flush_requests, cleanup_flush
    <3>2. /\ queue' = [queue EXCEPT ![d] = @ \o senders[c][d]]
          /\ senders' = [senders EXCEPT ![c][d] = <<>>]
      BY Zenon, <1>1, <3>1 DEF flush_requests, cleanup_flush
    <3>3. d \in Disks
      <4>1. HasData(c) \in SUBSET Nat /\ HasData(c) \subseteq Disks
        BY Sizes DEF HasData, Disks
      <4> QED  BY <3>1, <4>1, MinOfNats
    <3> HIDE DEF d
    <3>4. FlushesTo(c, d)
      BY <3>2 DEF FlushesTo
    <3>5. \A b \in Clients : b # c => senders'[b] = senders[b]
      BY <3>2 DEF SenderTypes
    <3> QED  BY <3>3, <3>4, <3>5
  <2> QED  BY <2>1, <2>2
<1>2. CASE access(c)
  <2>1. queue' = queue
    BY Zenon, <1>2 DEF access, diskVars
  <2>2. \E new : senders' = [senders EXCEPT ![c] = [d \in Disks |-> @[d] \o new[d]]]
    BY ZenonT(60), <1>2 DEF access
  <2> QED  BY <2>1, <2>2 DEF SenderTypes
<1>3. CASE ~ (flush_requests(c) \/ cleanup_flush(c) \/ access(c))
  BY ZenonT(60), <1>3 DEF AppStep, AppCall, execute_remote_comm, comm_activate,
         comm_wait4complete, flush_activate, wait4complete_process,
         wait4complete_wait, cleanup_poll, cleanup_activate, cleanup_end,
         wait4complete, cleanup, close_file, requestVars, diskVars
<1> QED  BY ZenonT(60), <1>1, <1>2, <1>3

\* A step of one client leaves what the cleanup() of another has established: a
\* client puts only parts of its own into a queue.
LEMMA OthersCleanup ==
  ASSUME AppTypes, SenderTypes, DiskTypes, CleanupProgress,
         NEW c \in Clients, AppStep(c) \/ AppCall(c),
         NEW b \in Clients, b # c
  PROVE  CleanupOf(b)'
<1>1. app'[b] = app[b] /\ senders'[b] = senders[b]
  BY ZenonT(60), ClientKeepsApp, OtherQueues DEF OnlyClient
<1>2. ASSUME NEW e \in Disks, NoneQueued(b, e) PROVE NoneQueued(b, e)'
  <2>1. CASE queue' = queue
    BY <1>2, <2>1 DEF NoneQueued
  <2>2. ASSUME NEW d \in Disks, FlushesTo(c, d) PROVE NoneQueued(b, e)'
    <3>1. ASSUME NEW i \in 1 .. Len(queue'[e]) PROVE ClientOf(queue'[e][i]) # b
      <4>1. \/ ClientOf(queue'[e][i]) = c /\ e = d
            \/ i \in 1 .. Len(queue[e]) /\ queue'[e][i] = queue[e][i]
        BY <2>2, FlushedEntries
      <4> QED  BY <1>2, <4>1 DEF NoneQueued
    <3> QED  BY <3>1 DEF NoneQueued
  <2> QED  BY <2>1, <2>2, OtherQueues
<1>3. CleanupOf(b)
  BY DEF CleanupProgress
<1> QED  BY ZenonT(60), <1>1, <1>2, <1>3 DEF CleanupOf

\* And of the client itself, which goes on only when it has seen so.
LEMMA OwnCleanup ==
  ASSUME AppTypes, SenderTypes, DiskTypes, CleanupProgress,
         NEW c \in Clients, AppStep(c) \/ AppCall(c)
  PROVE  CleanupOf(c)'
<1>1. /\ NDisks \in Nat \ {0} /\ Disks = 0 .. NDisks - 1
      /\ app[c].disk \in 0 .. NDisks /\ CleanupOf(c)
  BY Sizes DEF AppTypes, AppRecord, Disks, CleanupProgress
<1>2. CASE cleanup_flush(c)
  <2>1. app[c].pc = "cleanup_flush"
    BY ZenonT(60), <1>2, CleanupFlushMoves
  <2>2. \A e \in Disks : e < app[c].disk => senders[c][e] = <<>>
    BY <1>1, <2>1 DEF CleanupOf
  <2>3. CASE /\ app'[c].pc = "cleanup_poll" /\ app'[c].disk = 0
             /\ app'[c].pending = 0 /\ HasData(c) = {}
             /\ UNCHANGED <<queue, senders>>
    <3>1. \A e \in Disks : senders[c][e] = <<>>
      BY <1>1, <2>2, <2>3 DEF HasData
    <3>2. \A e \in Disks : ~ (e < app'[c].disk)
      BY <1>1, <2>3
    <3> QED  BY <2>3, <3>1, <3>2 DEF CleanupOf
  <2>4. ASSUME NEW d \in Disks, app'[c].pc = "cleanup_flush", app'[c].disk = d + 1,
               \A e \in Disks : app[c].disk <= e /\ e < d => senders[c][e] = <<>>,
               senders' = [senders EXCEPT ![c][d] = <<>>]
        PROVE  CleanupOf(c)'
    <3>1. senders'[c] = [senders[c] EXCEPT ![d] = <<>>] /\ DOMAIN senders[c] = Disks
      BY <2>4 DEF SenderTypes
    <3>2. ASSUME NEW e \in Disks, e < d + 1 PROVE senders'[c][e] = <<>>
      <4>1. CASE e = d  BY <3>1, <4>1
      <4>2. CASE e # d
        <5>1. senders[c][e] = <<>>
          BY <1>1, <2>2, <2>4, <3>2, <4>2
        <5> QED  BY <3>1, <4>2, <5>1
      <4> QED  BY <4>1, <4>2
    <3> QED  BY <2>4, <3>2 DEF CleanupOf
  <2> QED  BY Zenon, <1>2, <2>3, <2>4, CleanupFlushMoves
<1>3. CASE cleanup_poll(c)
  <2> DEFINE d == app[c].disk
             num == app[c].pending + Len(queue[d])
  <2>1. /\ app[c].pc = "cleanup_poll" /\ d \in Disks /\ app'[c].pending = num
        /\ \/ /\ d + 1 < NDisks
              /\ app'[c].pc = "cleanup_poll" /\ app'[c].disk = d + 1
           \/ /\ d + 1 = NDisks /\ app'[c].disk = 0
              /\ app'[c].pc = IF num > 0 THEN "cleanup_activate" ELSE "cleanup_end"
    BY <1>3, CleanupPollMoves
  <2>2. UNCHANGED <<queue, senders>>
    BY <1>3 DEF cleanup_poll, requestVars, diskVars
  <2>3. /\ app[c].pending \in Nat
        /\ app[c].pending = 0 => \A e \in Disks : e < d => NoneQueued(c, e)
        /\ \A e \in Disks : senders[c][e] = <<>>
    BY ZenonT(60), <1>1, <2>1 DEF CleanupOf
  <2>4. queue[d] \in Seq(AllParts) /\ Len(queue[d]) \in Nat
    BY ZenonT(60), <2>1, LenProperties DEF DiskTypes
  <2>5. num \in Nat
    BY <2>3, <2>4
  <2>6. ASSUME num = 0, NEW e \in Disks, e < d + 1 PROVE NoneQueued(c, e)
    <3>1. app[c].pending = 0 /\ Len(queue[d]) = 0
      BY <2>3, <2>4, <2>6
    <3>2. CASE e = d  BY <3>1, <3>2 DEF NoneQueued
    <3>3. CASE e < d  BY <2>3, <3>1, <3>3
    <3>4. e = d \/ e < d
      BY <1>1, <2>1, <2>6
    <3> QED  BY <3>2, <3>3, <3>4
  <2> HIDE DEF num
  <2>7. CASE d + 1 < NDisks /\ app'[c].pc = "cleanup_poll" /\ app'[c].disk = d + 1
    <3>1. \A e \in Disks : senders'[c][e] = <<>>
      BY <2>2, <2>3
    <3>2. app'[c].pending = 0 => \A e \in Disks : e < app'[c].disk => NoneQueued(c, e)'
      BY ZenonT(60), <2>1, <2>2, <2>6, <2>7 DEF NoneQueued
    <3> QED  BY <2>1, <2>5, <2>7, <3>1, <3>2 DEF CleanupOf
  <2>8. CASE /\ d + 1 = NDisks /\ app'[c].disk = 0
             /\ app'[c].pc = IF num > 0 THEN "cleanup_activate" ELSE "cleanup_end"
    <3>1. \A e \in Disks : senders'[c][e] = <<>>
      BY <2>2, <2>3
    <3>2. ASSUME app'[c].pc = "cleanup_end", NEW e \in Disks PROVE NoneQueued(c, e)'
      <4>1. num = 0
        BY <2>5, <2>8, <3>2
      <4>2. e < d + 1
        BY <1>1, <2>1, <2>8
      <4>3. NoneQueued(c, e)
        BY <2>6, <4>1, <4>2
      <4> QED  BY ZenonT(60), <2>2, <4>3 DEF NoneQueued
    <3>3. app'[c].pc \in {"cleanup_activate", "cleanup_end"}
      BY <2>8
    <3> QED  BY ZenonT(60), <2>8, <3>1, <3>2, <3>3 DEF CleanupOf
  <2> QED  BY <2>1, <2>7, <2>8
<1>4. CASE cleanup_activate(c)
  <2>1. /\ app[c].pc = "cleanup_activate" /\ app'[c].pc = "cleanup_poll"
        /\ app'[c].disk = app[c].disk /\ app'[c].pending = 0
    BY <1>4, CleanupActivates
  <2>2. senders' = senders
    BY <1>4 DEF cleanup_activate, requestVars
  <2>3. app[c].disk = 0 /\ \A e \in Disks : senders[c][e] = <<>>
    BY <1>1, <2>1 DEF CleanupOf
  <2>4. \A e \in Disks : ~ (e < app'[c].disk)
    BY <1>1, <2>1, <2>3
  <2> QED  BY <2>1, <2>2, <2>3, <2>4 DEF CleanupOf
<1>5. CASE cleanup_end(c)
  <2>1. app[c].pc = "cleanup_end" /\ app'[c].pc \in {"cleanup_end", "ready"}
    BY <1>5, CleanupEnds
  <2>2. UNCHANGED <<queue, senders>>
    BY <1>5 DEF cleanup_end, requestVars
  <2>3. \A e \in Disks : senders[c][e] = <<>> /\ NoneQueued(c, e)
    BY <1>1, <2>1 DEF CleanupOf
  <2>4. \A e \in Disks : senders'[c][e] = <<>> /\ NoneQueued(c, e)'
    BY <2>2, <2>3 DEF NoneQueued
  <2> QED  BY <2>1, <2>4 DEF CleanupOf
<1>6. CASE cleanup(c)
  <2>1. app'[c].pc = "cleanup_flush" /\ app'[c].disk = 0
    BY <1>6, CleanupBegins
  <2>2. \A e \in Disks : ~ (e < app'[c].disk)
    BY <1>1, <2>1
  <2> QED  BY <2>1, <2>2 DEF CleanupOf
<1>7. CASE ~ (cleanup_flush(c) \/ cleanup_poll(c) \/ cleanup_activate(c)
                \/ cleanup_end(c) \/ cleanup(c))
  <2>1. app'[c].pc \notin {"cleanup_flush", "cleanup_poll", "cleanup_activate",
                           "cleanup_end"}
    <3>1. CASE execute_remote_comm(c)  BY <3>1, CommandQueued
    <3>2. CASE comm_activate(c)  BY <3>2, CommandActivates
    <3>3. CASE comm_wait4complete(c)  BY <3>3, CommandCompletes
    <3>4. CASE flush_requests(c)  BY ZenonT(60), <3>4, FlushMoves
    <3>5. CASE flush_activate(c)  BY <3>5, FlushActivates
    <3>6. CASE wait4complete_process(c)  BY <3>6, ProcessMoves
    <3>7. CASE wait4complete_wait(c)  BY <3>7, WaitEnds
    <3>8. CASE access(c)  BY <3>8, AccessSends
    <3>9. CASE wait4complete(c)  BY <3>9, WaitBegins
    <3>10. CASE close_file(c)  BY <3>10, CloseBegins
    <3> QED  BY ZenonT(60), <1>7, <3>1, <3>2, <3>3, <3>4, <3>5, <3>6, <3>7, <3>8, <3>9, <3>10
             DEF AppStep, AppCall
  <2> QED  BY <2>1 DEF CleanupOf
<1> QED  BY <1>2, <1>3, <1>4, <1>5, <1>6, <1>7

\* The threads below only take from the queues.
LEMMA LowerCleanup ==
  ASSUME DiskTypes, CleanupProgress, UNCHANGED <<app, senders>>,
         queue' = queue \/ \E d \in Disks : queue' = [queue EXCEPT ![d] = <<>>]
  PROVE  CleanupProgress'
<1>1. ASSUME NEW b \in Clients, NEW e \in Disks, NoneQueued(b, e)
      PROVE  NoneQueued(b, e)'
  <2>1. queue'[e] \in {queue[e], <<>>}
    BY DEF DiskTypes
  <2> QED  BY <1>1, <2>1 DEF NoneQueued
<1> QED  BY <1>1 DEF CleanupProgress, CleanupOf
=============================================================================
