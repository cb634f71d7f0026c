--------------------------- MODULE RemoteIOSteps ----------------------------
(***************************************************************************)
(* RemoteIO, for any number of clients and disks and any requests: types   *)
(* of the queues between the threads and the bound on the AIO slots, what  *)
(* each step of a client does, and the steps that need no counting.        *)
(***************************************************************************)
EXTENDS RemoteIO, SequenceTheorems, WellFoundedInduction, TLAPS

\* Time for the steps of this module, which has many facts in view
USE SMTT(30)

-----------------------------------------------------------------------------
(***************************************************************************)
(* Where things are.  PartsOf(c) are the parts a client can ever send.     *)
(***************************************************************************)
AllParts == UNION {Parts(r) : r \in DOMAIN Request}
PartsOf(c) == {p \in AllParts : ClientOf(p) = c}
AppFields == {"pc", "op", "disk", "ret", "pending", "target", "cleaned"}

\* The record of a client.  Its counters are left open: nobody's sleep depends
\* on them.
AppRecord(a) ==
  /\ DOMAIN a = AppFields
  /\ a.pc \in AppPc
  /\ a.disk \in 0 .. NDisks
  /\ a.ret \in {"ready", "process"}
  /\ a.op \in {"open", "close"}
  /\ a.pc \in {"command", "command_activate", "command_wait", "flush_activate",
               "cleanup_poll", "cleanup_activate", "cleanup_end"}
       => a.disk \in Disks

AppTypes ==
  /\ DOMAIN app = Clients
  /\ \A c \in Clients : AppRecord(app[c])

\* What is left to do for client c: its own requests, then perhaps cleanup().
IsProgram(s, c) ==
  /\ s \in Seq(DOMAIN Request \cup {"cleanup"})
  /\ \A i \in 1 .. Len(s) :
       \/ s[i] = "cleanup" /\ i = Len(s)
       \/ s[i] \in DOMAIN Request /\ Request[s[i]].client = c

SenderTypes ==
  /\ DOMAIN todo = Clients /\ DOMAIN senders = Clients
  /\ \A c \in Clients :
       /\ IsProgram(todo[c], c)
       /\ senders[c] \in [Disks -> Seq(PartsOf(c))]
  /\ complete_queue \in [Clients -> Seq(AllParts)]
  /\ app_event \in [Clients -> BOOLEAN]

\* The I/O threads and the kernel.
DiskTypes ==
  /\ io \in [Disks -> IOPc]
  /\ queue \in [Disks -> Seq(AllParts)]
  /\ comm_queue \in [Disks -> Seq([client : Clients, op : {"open", "close"}])]
  /\ io_event \in [Disks -> BOOLEAN]
  /\ local_reqs \in [Disks -> Seq(AllParts)]
  /\ kernel \in [Disks -> SUBSET AllParts]
  /\ \A d \in Disks : IsFiniteSet(kernel[d])
  /\ events \in [Disks -> Seq(AllParts)]
  /\ busy_aio \in [Disks -> Nat]
  /\ reaped \in [Disks -> Nat]

\* The threads that hand over completions, a group for a client at a time.
Groups == [client : Clients, parts : Seq(AllParts)]

NotifyTypes ==
  /\ notify \in [Notifiers -> Seq(Groups)]
  /\ completed_reqs \in Seq(AllParts)
  /\ Len(completed_reqs) <= CompleteQueueSize
  /\ cb_thread \in {"run", "notify"}
  /\ cb_event \in BOOLEAN

-----------------------------------------------------------------------------
(***************************************************************************)
(* The slots.  busy_aio covers what is in the kernel, what has completed   *)
(* and what io_wait() is working on, so that subtracting the last leaves a *)
(* count, and a thread that finds it zero has no I/O pending.              *)
(***************************************************************************)
SlotsCovered ==
  \A d \in Disks :
    /\ busy_aio[d] <= AIO_DEPTH
    /\ Cardinality(kernel[d]) + Len(events[d]) + reaped[d] <= busy_aio[d]
    /\ io[d] \notin {"add_reqs_activate", "notify"} => reaped[d] = 0
    /\ io[d] = "asleep" => busy_aio[d] = 0 /\ local_reqs[d] = <<>>

\* The sizes alone, without what RemoteIOAssumption says of the requests.
LEMMA Sizes ==
  NDisks \in Nat \ {0} /\ AIO_DEPTH \in Nat \ {0} /\ CompleteQueueSize \in Nat
BY RemoteIOAssumption

-----------------------------------------------------------------------------
(***************************************************************************)
(* Numbers and parts.                                                      *)
(***************************************************************************)
\* A non-empty set of naturals has a minimum, and Min is it.
LEMMA MinOfNats ==
  ASSUME NEW S \in SUBSET Nat, S # {}
  PROVE  Min(S) \in S /\ \A y \in S : Min(S) <= y
<1>1. PICK x \in S : \A y \in S : ~ (<<y, x>> \in OpToRel(<, Nat))
  BY Zenon, NatLessThanWellFounded, WFMin
<1>2. ASSUME NEW y \in S PROVE x <= y
  <2>1. ~ (<<y, x>> \in OpToRel(<, Nat))
    BY Zenon, <1>1
  <2>2. ~ (y < x)
    BY <2>1, Zenon DEF OpToRel
  <2> QED  BY <2>2
<1> QED  BY Zenon, <1>2 DEF Min

\* A part knows its request, and so its client.
LEMMA PartClient ==
  ASSUME NEW p \in AllParts
  PROVE  p.req \in DOMAIN Request /\ ClientOf(p) \in Clients
<1>1. PICK r \in DOMAIN Request : p \in Parts(r)
  BY DEF AllParts
<1>2. PICK b \in FirstBlock(r) .. LastBlock(r) : p = Part(r, b)
  BY <1>1 DEF Parts
<1>3. Part(r, b).req = r
  BY DEF Part
<1> QED  BY <1>1, <1>2, <1>3, RemoteIOAssumption DEF ClientOf

-----------------------------------------------------------------------------
(***************************************************************************)
(* What the steps of a client do to its record.                            *)
(***************************************************************************)
OnlyClient(c) ==
  /\ DOMAIN app' = Clients
  /\ DOMAIN app'[c] = AppFields
  /\ \A b \in Clients : b # c => app'[b] = app[b]

\* The steps that only go on to the next place of the code.
LEMMA GotoEffect ==
  ASSUME AppTypes, NEW c \in Clients, NEW pc, Goto(c, pc)
  PROVE  /\ OnlyClient(c)
         /\ app'[c].pc = pc
         /\ app'[c].disk = app[c].disk /\ app'[c].ret = app[c].ret
         /\ app'[c].op = app[c].op /\ app'[c].pending = app[c].pending
<1>1. DOMAIN app = Clients /\ DOMAIN app[c] = AppFields
  BY DEF AppTypes, AppRecord
<1>2. app' = [app EXCEPT ![c] = [app[c] EXCEPT !.pc = pc]]
  BY DEF Goto
<1>3. app'[c] = [app[c] EXCEPT !.pc = pc]
  BY <1>1, <1>2
<1> QED  BY <1>1, <1>2, <1>3 DEF OnlyClient, AppFields

\* A client's step keeps the types when its own record is well formed.
LEMMA OneRecord ==
  ASSUME AppTypes, NEW c \in Clients, OnlyClient(c), AppRecord(app'[c])
  PROVE  AppTypes'
BY DEF AppTypes, OnlyClient, AppRecord

\* The disk the next buffer to flush is for.
LEMMA NextBuffer ==
  ASSUME AppTypes, NEW c \in Clients, HasData(c) # {}
  PROVE  LET d == Min(HasData(c))
         IN  /\ d \in Disks /\ d >= app[c].disk
             /\ \A e \in Disks : app[c].disk <= e /\ e < d => senders[c][e] = <<>>
<1>1. HasData(c) \in SUBSET Nat
  BY Sizes DEF HasData, Disks
<1>2. Min(HasData(c)) \in HasData(c) /\ \A y \in HasData(c) : Min(HasData(c)) <= y
  BY <1>1, MinOfNats
<1>3. app[c].disk \in Nat
  BY Sizes DEF AppTypes, AppRecord
<1>4. \A e \in Disks : e \in Int
  BY Sizes DEF Disks
<1> DEFINE d == Min(HasData(c))
<1>5. d \in Disks /\ d >= app[c].disk
  BY Zenon, <1>2 DEF HasData
<1>6. ASSUME NEW e \in Disks, app[c].disk <= e, e < d PROVE senders[c][e] = <<>>
  <2>1. e \notin HasData(c)
    BY <1>2, <1>4, <1>5, <1>6
  <2> QED  BY <1>3, <1>4, <1>6, <2>1 DEF HasData
<1> QED  BY <1>5, <1>6

-----------------------------------------------------------------------------
(***************************************************************************)
(* The steps of a client, one by one.                                      *)
(***************************************************************************)

\* A command is queued.
LEMMA CommandQueued ==
  ASSUME AppTypes, NEW c \in Clients, execute_remote_comm(c)
  PROVE  /\ OnlyClient(c) /\ AppRecord(app'[c])
         /\ app[c].pc = "command" /\ app'[c].pc = "command_activate"
         /\ app'[c].disk = app[c].disk
<1>1. app[c].pc = "command" /\ Goto(c, "command_activate")
  BY DEF execute_remote_comm
<1>2. /\ OnlyClient(c) /\ app'[c].pc = "command_activate"
      /\ app'[c].disk = app[c].disk /\ app'[c].ret = app[c].ret
      /\ app'[c].op = app[c].op
  BY <1>1, GotoEffect
<1>3. AppRecord(app[c])
  BY DEF AppTypes
<1> QED  BY <1>1, <1>2, <1>3 DEF OnlyClient, AppRecord, AppPc

\* Its I/O thread is activated.
LEMMA CommandActivates ==
  ASSUME AppTypes, NEW c \in Clients, comm_activate(c)
  PROVE  /\ OnlyClient(c) /\ AppRecord(app'[c])
         /\ app[c].pc = "command_activate" /\ app'[c].pc = "command_wait"
         /\ app'[c].disk = app[c].disk
<1>1. app[c].pc = "command_activate" /\ Goto(c, "command_wait")
  BY DEF comm_activate
<1>2. /\ OnlyClient(c) /\ app'[c].pc = "command_wait"
      /\ app'[c].disk = app[c].disk /\ app'[c].ret = app[c].ret
      /\ app'[c].op = app[c].op
  BY <1>1, GotoEffect
<1>3. AppRecord(app[c])
  BY DEF AppTypes
<1> QED  BY <1>1, <1>2, <1>3 DEF OnlyClient, AppRecord, AppPc

\* wait() of the application thread returns.
LEMMA WaitEnds ==
  ASSUME AppTypes, NEW c \in Clients, wait4complete_wait(c)
  PROVE  /\ OnlyClient(c) /\ AppRecord(app'[c])
         /\ app[c].pc = "wait" /\ app'[c].pc = "process"
         /\ app'[c].disk = app[c].disk
<1>1. app[c].pc = "wait" /\ Goto(c, "process")
  BY DEF wait4complete_wait
<1>2. /\ OnlyClient(c) /\ app'[c].pc = "process"
      /\ app'[c].disk = app[c].disk /\ app'[c].ret = app[c].ret
      /\ app'[c].op = app[c].op
  BY <1>1, GotoEffect
<1>3. AppRecord(app[c])
  BY DEF AppTypes
<1> QED  BY <1>1, <1>2, <1>3 DEF OnlyClient, AppRecord, AppPc

\* A command is complete, and the next disk is to get one.
LEMMA CommandCompletes ==
  ASSUME AppTypes, NEW c \in Clients, comm_wait4complete(c)
  PROVE  /\ OnlyClient(c) /\ AppRecord(app'[c])
         /\ app[c].pc = "command_wait"
         /\ app'[c].pc \in {"command", "ready", "closed"}
<1> DEFINE d == app[c].disk
           disk == IF d + 1 < NDisks THEN d + 1 ELSE 0
           pc == IF d + 1 < NDisks THEN "command"
                 ELSE IF app[c].op = "open" THEN "ready" ELSE "closed"
<1>1. /\ DOMAIN app = Clients /\ AppRecord(app[c])
      /\ NDisks \in Nat \ {0} /\ d \in 0 .. NDisks
  BY Sizes DEF AppTypes, AppRecord
<1>2. /\ app[c].pc = "command_wait"
      /\ app' = [app EXCEPT ![c].disk = disk, ![c].pc = pc]
  BY DEF comm_wait4complete
<1>3. disk \in 0 .. NDisks - 1 /\ pc \in {"command", "ready", "closed"}
  BY <1>1
<1> HIDE DEF disk, pc
<1>4. /\ OnlyClient(c) /\ app'[c].pc = pc /\ app'[c].disk = disk
      /\ app'[c].ret = app[c].ret /\ app'[c].op = app[c].op
  BY <1>1, <1>2 DEF OnlyClient, AppRecord, AppFields
<1> QED  BY <1>1, <1>2, <1>3, <1>4 DEF OnlyClient, AppRecord, AppPc, Disks

\* flush_requests() empties the next buffer, or is done.
LEMMA FlushMoves ==
  ASSUME AppTypes, NEW c \in Clients, flush_requests(c)
  PROVE  /\ OnlyClient(c) /\ AppRecord(app'[c])
         /\ app[c].pc = "flush"
         /\ \/ /\ app'[c].pc \in {"ready", "process"}
               /\ UNCHANGED <<queue, senders>>
            \/ \E d \in Disks :
                 /\ app'[c].pc = "flush_activate" /\ app'[c].disk = d
                 /\ queue' = [queue EXCEPT ![d] = @ \o senders[c][d]]
                 /\ senders' = [senders EXCEPT ![c][d] = <<>>]
<1>1. /\ DOMAIN app = Clients /\ AppRecord(app[c]) /\ NDisks \in Nat \ {0}
  BY Sizes DEF AppTypes
<1>2. app[c].pc = "flush"
  BY DEF flush_requests
<1>3. CASE HasData(c) = {}
  <2>1. Goto(c, app[c].ret) /\ UNCHANGED <<queue, senders>>
    BY <1>3 DEF flush_requests
  <2>2. /\ OnlyClient(c) /\ app'[c].pc = app[c].ret
        /\ app'[c].disk = app[c].disk /\ app'[c].ret = app[c].ret
        /\ app'[c].op = app[c].op
    BY <2>1, GotoEffect
  <2> QED  BY Zenon, <1>1, <1>2, <2>1, <2>2 DEF OnlyClient, AppRecord, AppPc
<1>4. CASE HasData(c) # {}
  <2> DEFINE d == Min(HasData(c))
  <2>1. d \in Disks
    BY <1>4, NextBuffer
  <2>2. /\ queue' = [queue EXCEPT ![d] = @ \o senders[c][d]]
        /\ senders' = [senders EXCEPT ![c][d] = <<>>]
        /\ app' = [app EXCEPT ![c].pc = "flush_activate", ![c].disk = d]
    BY Zenon, <1>4 DEF flush_requests
  <2> HIDE DEF d
  <2>3. /\ OnlyClient(c) /\ app'[c].pc = "flush_activate" /\ app'[c].disk = d
        /\ app'[c].ret = app[c].ret /\ app'[c].op = app[c].op
    BY <1>1, <2>2 DEF OnlyClient, AppRecord, AppFields
  <2>4. d \in 0 .. NDisks
    BY <1>1, <2>1 DEF Disks
  <2>5. AppRecord(app'[c])
    BY <1>1, <2>1, <2>3, <2>4 DEF OnlyClient, AppRecord, AppPc
  <2> QED  BY Zenon, <1>2, <2>1, <2>2, <2>3, <2>5
<1> QED  BY Zenon, <1>3, <1>4

\* The I/O thread of the disk whose queue got the buffer is activated.
LEMMA FlushActivates ==
  ASSUME AppTypes, NEW c \in Clients, flush_activate(c)
  PROVE  /\ OnlyClient(c) /\ AppRecord(app'[c])
         /\ app[c].pc = "flush_activate" /\ app'[c].pc = "flush"
<1>1. /\ DOMAIN app = Clients /\ AppRecord(app[c]) /\ NDisks \in Nat \ {0}
  BY Sizes DEF AppTypes
<1>2. /\ app[c].pc = "flush_activate"
      /\ app' = [app EXCEPT ![c].pc = "flush", ![c].disk = app[c].disk + 1]
  BY DEF flush_activate
<1>3. /\ OnlyClient(c) /\ app'[c].pc = "flush" /\ app'[c].disk = app[c].disk + 1
      /\ app'[c].ret = app[c].ret /\ app'[c].op = app[c].op
  BY <1>1, <1>2 DEF OnlyClient, AppRecord, AppFields
<1>4. app[c].disk + 1 \in 0 .. NDisks
  BY <1>1, <1>2 DEF AppRecord, Disks
<1> QED  BY <1>1, <1>2, <1>3, <1>4 DEF OnlyClient, AppRecord, AppPc

\* wait4complete() has processed what there was and waits or returns.
LEMMA ProcessMoves ==
  ASSUME AppTypes, NEW c \in Clients, wait4complete_process(c)
  PROVE  /\ OnlyClient(c) /\ AppRecord(app'[c])
         /\ app[c].pc = "process" /\ app'[c].pc \in {"wait", "ready"}
<1> DEFINE pc == IF app[c].pending - (issued[c] - completed'[c]) < app[c].target
                 THEN "wait" ELSE "ready"
<1>1. app[c].pc = "process" /\ Goto(c, pc)
  BY DEF wait4complete_process
<1>2. pc \in {"wait", "ready"}
  OBVIOUS
<1> HIDE DEF pc
<1>3. /\ OnlyClient(c) /\ app'[c].pc = pc
      /\ app'[c].disk = app[c].disk /\ app'[c].ret = app[c].ret
      /\ app'[c].op = app[c].op
  BY <1>1, GotoEffect
<1>4. AppRecord(app[c])
  BY DEF AppTypes
<1> QED  BY <1>1, <1>2, <1>3, <1>4 DEF OnlyClient, AppRecord, AppPc

\* cleanup() hands over the next buffer, or begins to poll.
LEMMA CleanupFlushMoves ==
  ASSUME AppTypes, NEW c \in Clients, cleanup_flush(c)
  PROVE  /\ OnlyClient(c) /\ AppRecord(app'[c])
         /\ app[c].pc = "cleanup_flush"
         /\ \/ /\ app'[c].pc = "cleanup_poll" /\ app'[c].disk = 0
               /\ app'[c].pending = 0
               /\ HasData(c) = {}
               /\ UNCHANGED <<queue, senders>>
            \/ \E d \in Disks :
                 /\ app'[c].pc = "cleanup_flush" /\ app'[c].disk = d + 1
                 /\ \A e \in Disks : app[c].disk <= e /\ e < d
                                       => senders[c][e] = <<>>
                 /\ queue' = [queue EXCEPT ![d] = @ \o senders[c][d]]
                 /\ senders' = [senders EXCEPT ![c][d] = <<>>]
<1>1. /\ DOMAIN app = Clients /\ AppRecord(app[c]) /\ NDisks \in Nat \ {0}
  BY Sizes DEF AppTypes
<1>2. app[c].pc = "cleanup_flush"
  BY DEF cleanup_flush
<1>3. CASE HasData(c) = {}
  <2>1. /\ app' = [app EXCEPT ![c].pc = "cleanup_poll", ![c].disk = 0,
                              ![c].pending = 0]
        /\ UNCHANGED <<queue, senders>>
    BY <1>3 DEF cleanup_flush
  <2>2. /\ OnlyClient(c) /\ app'[c].pc = "cleanup_poll" /\ app'[c].disk = 0
        /\ app'[c].pending = 0
        /\ app'[c].ret = app[c].ret /\ app'[c].op = app[c].op
    BY <1>1, <2>1 DEF OnlyClient, AppRecord, AppFields
  <2>3. 0 \in 0 .. NDisks /\ 0 \in Disks
    BY <1>1 DEF Disks
  <2>4. AppRecord(app'[c])
    BY <1>1, <2>2, <2>3 DEF OnlyClient, AppRecord, AppPc
  <2> QED  BY ZenonT(60), <1>2, <1>3, <2>1, <2>2, <2>4
<1>4. CASE HasData(c) # {}
  <2> DEFINE d == Min(HasData(c))
  <2>1. /\ d \in Disks
        /\ \A e \in Disks : app[c].disk <= e /\ e < d => senders[c][e] = <<>>
    BY <1>4, NextBuffer
  <2>2. /\ queue' = [queue EXCEPT ![d] = @ \o senders[c][d]]
        /\ senders' = [senders EXCEPT ![c][d] = <<>>]
        /\ app' = [app EXCEPT ![c].disk = d + 1]
    BY Zenon, <1>4 DEF cleanup_flush
  <2> HIDE DEF d
  <2>3. /\ OnlyClient(c) /\ app'[c].pc = app[c].pc /\ app'[c].disk = d + 1
        /\ app'[c].ret = app[c].ret /\ app'[c].op = app[c].op
    BY <1>1, <2>2 DEF OnlyClient, AppRecord, AppFields
  <2>4. d + 1 \in 0 .. NDisks
    BY <1>1, <2>1 DEF Disks
  <2>5. AppRecord(app'[c])
    BY <1>1, <1>2, <2>3, <2>4 DEF OnlyClient, AppRecord, AppPc
  <2> QED  BY Zenon, <1>2, <2>1, <2>2, <2>3, <2>5
<1> QED  BY Zenon, <1>3, <1>4

\* cleanup() counts the entries of one queue.
LEMMA CleanupPollMoves ==
  ASSUME AppTypes, NEW c \in Clients, cleanup_poll(c)
  PROVE  LET d == app[c].disk
             num == app[c].pending + Len(queue[d])
         IN  /\ OnlyClient(c) /\ AppRecord(app'[c])
             /\ app[c].pc = "cleanup_poll" /\ d \in Disks
             /\ app'[c].pending = num
             /\ \/ /\ d + 1 < NDisks
                   /\ app'[c].pc = "cleanup_poll" /\ app'[c].disk = d + 1
                \/ /\ d + 1 = NDisks /\ app'[c].disk = 0
                   /\ app'[c].pc = IF num > 0 THEN "cleanup_activate"
                                   ELSE "cleanup_end"
<1> DEFINE d == app[c].disk
           num == app[c].pending + Len(queue[d])
           disk == (d + 1) % NDisks
           pc == IF d + 1 < NDisks THEN app[c].pc
                 ELSE IF num > 0 THEN "cleanup_activate" ELSE "cleanup_end"
<1>1. /\ DOMAIN app = Clients /\ AppRecord(app[c]) /\ NDisks \in Nat \ {0}
  BY Sizes DEF AppTypes
<1>2. /\ app[c].pc = "cleanup_poll"
      /\ app' = [app EXCEPT ![c].disk = disk, ![c].pending = num, ![c].pc = pc]
  BY DEF cleanup_poll
<1>3. d \in 0 .. NDisks - 1
  BY <1>1, <1>2 DEF AppRecord, Disks
<1>4. disk \in 0 .. NDisks - 1
  BY <1>1, <1>3
<1>5. pc \in {"cleanup_poll", "cleanup_activate", "cleanup_end"}
  BY <1>2
<1>6. CASE d + 1 < NDisks
  <2>1. disk = d + 1 /\ pc = "cleanup_poll"
    BY <1>1, <1>2, <1>3, <1>6
  <2> HIDE DEF d, num, disk, pc
  <2>2. /\ OnlyClient(c) /\ app'[c].pc = pc /\ app'[c].disk = disk
        /\ app'[c].pending = num
        /\ app'[c].ret = app[c].ret /\ app'[c].op = app[c].op
    BY <1>1, <1>2 DEF OnlyClient, AppRecord, AppFields
  <2>3. AppRecord(app'[c])
    BY <1>1, <1>4, <1>5, <2>2 DEF OnlyClient, AppRecord, AppPc, Disks
  <2> QED  BY <1>2, <1>3, <1>6, <2>1, <2>2, <2>3 DEF d, num, Disks
<1>7. CASE ~ (d + 1 < NDisks)
  <2>1. d + 1 = NDisks
    BY <1>1, <1>3, <1>7
  <2>2. disk = 0
    BY <1>1, <2>1
  <2>3. pc = IF num > 0 THEN "cleanup_activate" ELSE "cleanup_end"
    BY <1>7
  <2> HIDE DEF d, num, disk, pc
  <2>4. /\ OnlyClient(c) /\ app'[c].pc = pc /\ app'[c].disk = disk
        /\ app'[c].pending = num
        /\ app'[c].ret = app[c].ret /\ app'[c].op = app[c].op
    BY <1>1, <1>2 DEF OnlyClient, AppRecord, AppFields
  <2>5. AppRecord(app'[c])
    BY <1>1, <1>4, <1>5, <2>4 DEF OnlyClient, AppRecord, AppPc, Disks
  <2> QED  BY <1>2, <1>3, <2>1, <2>2, <2>3, <2>4, <2>5 DEF d, num, Disks
<1> QED  BY <1>6, <1>7

\* cleanup() activates everybody and polls again.
LEMMA CleanupActivates ==
  ASSUME AppTypes, NEW c \in Clients, cleanup_activate(c)
  PROVE  /\ OnlyClient(c) /\ AppRecord(app'[c])
         /\ app[c].pc = "cleanup_activate" /\ app'[c].pc = "cleanup_poll"
         /\ app'[c].disk = app[c].disk /\ app'[c].pending = 0
<1>1. /\ DOMAIN app = Clients /\ AppRecord(app[c])
  BY DEF AppTypes
<1>2. /\ app[c].pc = "cleanup_activate"
      /\ app' = [app EXCEPT ![c].pc = "cleanup_poll", ![c].pending = 0]
  BY DEF cleanup_activate
<1>3. /\ OnlyClient(c) /\ app'[c].pc = "cleanup_poll"
      /\ app'[c].disk = app[c].disk /\ app'[c].pending = 0
      /\ app'[c].ret = app[c].ret /\ app'[c].op = app[c].op
  BY <1>1, <1>2 DEF OnlyClient, AppRecord, AppFields
<1> QED  BY <1>1, <1>2, <1>3 DEF OnlyClient, AppRecord, AppPc

\* cleanup() asks one thread after the other to flush.
LEMMA CleanupEnds ==
  ASSUME AppTypes, NEW c \in Clients, cleanup_end(c)
  PROVE  /\ OnlyClient(c) /\ AppRecord(app'[c])
         /\ app[c].pc = "cleanup_end" /\ app'[c].pc \in {"cleanup_end", "ready"}
<1> DEFINE d == app[c].disk
           disk == (d + 1) % NDisks
           pc == IF d + 1 < NDisks THEN app[c].pc ELSE "ready"
<1>1. /\ DOMAIN app = Clients /\ AppRecord(app[c]) /\ NDisks \in Nat \ {0}
  BY Sizes DEF AppTypes
<1>2. /\ app[c].pc = "cleanup_end"
      /\ app' = [app EXCEPT ![c].disk = disk, ![c].cleaned = TRUE, ![c].pc = pc]
  BY DEF cleanup_end
<1>3. disk \in 0 .. NDisks - 1 /\ pc \in {"cleanup_end", "ready"}
  BY <1>1, <1>2 DEF AppRecord, Disks
<1> HIDE DEF d, disk, pc
<1>4. /\ OnlyClient(c) /\ app'[c].pc = pc /\ app'[c].disk = disk
      /\ app'[c].ret = app[c].ret /\ app'[c].op = app[c].op
  BY <1>1, <1>2 DEF OnlyClient, AppRecord, AppFields
<1> QED  BY <1>1, <1>2, <1>3, <1>4 DEF OnlyClient, AppRecord, AppPc, Disks

\* wait4complete() flushes first.
LEMMA WaitBegins ==
  ASSUME AppTypes, NEW c \in Clients, wait4complete(c)
  PROVE  /\ OnlyClient(c) /\ AppRecord(app'[c])
         /\ app[c].pc = "ready" /\ app'[c].pc = "flush"
<1>1. /\ DOMAIN app = Clients /\ AppRecord(app[c]) /\ NDisks \in Nat \ {0}
  BY Sizes DEF AppTypes
<1>2. PICK n : app' = [app EXCEPT ![c].pc = "flush", ![c].ret = "process",
                          ![c].disk = 0, ![c].target = n,
                          ![c].pending = num_pending_ios(c)]
  BY Zenon DEF wait4complete
<1>3. app[c].pc = "ready"
  BY DEF wait4complete
<1>4. /\ OnlyClient(c) /\ app'[c].pc = "flush" /\ app'[c].disk = 0
      /\ app'[c].ret = "process" /\ app'[c].op = app[c].op
  BY <1>1, <1>2 DEF OnlyClient, AppRecord, AppFields
<1> QED  BY <1>1, <1>3, <1>4 DEF OnlyClient, AppRecord, AppPc

\* cleanup() has processed what has completed.
LEMMA CleanupBegins ==
  ASSUME AppTypes, NEW c \in Clients, cleanup(c)
  PROVE  /\ OnlyClient(c) /\ AppRecord(app'[c])
         /\ app[c].pc = "ready" /\ app'[c].pc = "cleanup_flush"
         /\ app'[c].disk = 0
<1>1. /\ DOMAIN app = Clients /\ AppRecord(app[c]) /\ NDisks \in Nat \ {0}
  BY Sizes DEF AppTypes
<1>2. /\ app[c].pc = "ready"
      /\ app' = [app EXCEPT ![c].pc = "cleanup_flush", ![c].disk = 0]
  BY DEF cleanup
<1>3. /\ OnlyClient(c) /\ app'[c].pc = "cleanup_flush" /\ app'[c].disk = 0
      /\ app'[c].ret = app[c].ret /\ app'[c].op = app[c].op
  BY <1>1, <1>2 DEF OnlyClient, AppRecord, AppFields
<1> QED  BY <1>1, <1>2, <1>3 DEF OnlyClient, AppRecord, AppPc

\* The factory begins to close the file.
LEMMA CloseBegins ==
  ASSUME AppTypes, NEW c \in Clients, close_file(c)
  PROVE  /\ OnlyClient(c) /\ AppRecord(app'[c])
         /\ app[c].pc = "ready" /\ app'[c].pc = "command"
<1>1. /\ DOMAIN app = Clients /\ AppRecord(app[c]) /\ NDisks \in Nat \ {0}
  BY Sizes DEF AppTypes
<1>2. /\ app[c].pc = "ready"
      /\ app' = [app EXCEPT ![c].pc = "command", ![c].op = "close", ![c].disk = 0]
  BY DEF close_file
<1>3. /\ OnlyClient(c) /\ app'[c].pc = "command" /\ app'[c].disk = 0
      /\ app'[c].ret = app[c].ret /\ app'[c].op = "close"
  BY <1>1, <1>2 DEF OnlyClient, AppRecord, AppFields
<1> QED  BY <1>1, <1>2, <1>3 DEF OnlyClient, AppRecord, AppPc, Disks

-----------------------------------------------------------------------------
(***************************************************************************)
(* access().                                                               *)
(***************************************************************************)
\* A rejected request ends what is sent of a batch.
LEMMA SentIsPrefix ==
  ASSUME NEW S, NEW batch \in Seq(S)
  PROVE  \E k \in 0 .. Len(batch) : Sent(batch) = SubSeq(batch, 1, k)
<1> DEFINE bad == {i \in 1 .. Len(batch) : Request[batch[i]].kind = "bad"}
<1>1. Len(batch) \in Nat
  BY LenProperties
<1>2. CASE bad = {}
  <2>1. Sent(batch) = batch /\ SubSeq(batch, 1, Len(batch)) = batch
    BY <1>2, SubSeqFull DEF Sent
  <2>2. Len(batch) \in 0 .. Len(batch)
    BY <1>1
  <2> QED  BY Zenon, <2>1, <2>2
<1>3. CASE bad # {}
  <2>1. bad \in SUBSET Nat
    BY <1>1
  <2>2. Min(bad) \in bad
    BY Zenon, <1>3, <2>1, MinOfNats
  <2>3. Min(bad) - 1 \in 0 .. Len(batch)
    BY <1>1, <2>2
  <2>4. Sent(batch) = SubSeq(batch, 1, Min(bad) - 1)
    BY Zenon, <1>3 DEF Sent
  <2> QED  BY Zenon, <2>3, <2>4
<1> QED  BY <1>2, <1>3

\* What is left of a program is one, and what was taken off its front without
\* reaching cleanup() are requests of the client.
LEMMA ProgramSplits ==
  ASSUME NEW c \in Clients, NEW s, IsProgram(s, c), NEW n \in 1 .. Len(s),
         s[n] # "cleanup"
  PROVE  /\ IsProgram(SubSeq(s, n + 1, Len(s)), c)
         /\ SubSeq(s, 1, n) \in Seq(DOMAIN Request)
         /\ Len(SubSeq(s, 1, n)) = n
         /\ \A i \in 1 .. n : SubSeq(s, 1, n)[i] = s[i]
         /\ \A i \in 1 .. n : s[i] \in DOMAIN Request /\ Request[s[i]].client = c
<1> DEFINE S == DOMAIN Request \cup {"cleanup"}
<1>1. s \in Seq(S) /\ Len(s) \in Nat
  BY LenProperties DEF IsProgram
<1>2. \A i \in 1 .. Len(s) : s[i] \in S
  BY <1>1, ElementOfSeq
<1>3. ASSUME NEW i \in 1 .. n
      PROVE  s[i] \in DOMAIN Request /\ Request[s[i]].client = c
  <2>1. i \in 1 .. Len(s)
    BY <1>1
  <2>2. CASE s[i] = "cleanup" /\ i = Len(s)
    BY <1>1, <2>2
  <2>3. CASE s[i] \in DOMAIN Request /\ Request[s[i]].client = c
    BY <2>3
  <2> QED  BY <2>1, <2>2, <2>3 DEF IsProgram
<1>4. /\ SubSeq(s, 1, n) \in Seq(DOMAIN Request)
      /\ Len(SubSeq(s, 1, n)) = n
      /\ \A i \in 1 .. n : SubSeq(s, 1, n)[i] = s[i]
  <2>1. \A i \in 1 .. n : s[i] \in DOMAIN Request
    BY <1>3
  <2>2. /\ SubSeq(s, 1, n) \in Seq(DOMAIN Request)
        /\ Len(SubSeq(s, 1, n)) = IF 1 <= n THEN n - 1 + 1 ELSE 0
        /\ \A i \in 1 .. n - 1 + 1 : SubSeq(s, 1, n)[i] = s[1 + i - 1]
    BY <2>1, SubSeqProperties
  <2> QED  BY <1>1, <2>2
<1> DEFINE t == SubSeq(s, n + 1, Len(s))
<1>5. /\ t \in Seq(S) /\ Len(t) = Len(s) - n
      /\ \A i \in 1 .. Len(t) : t[i] = s[n + i]
  <2>1. \A i \in n + 1 .. Len(s) : s[i] \in S
    BY <1>1, <1>2
  <2>2. /\ t \in Seq(S)
        /\ Len(t) = IF n + 1 <= Len(s) THEN Len(s) - (n + 1) + 1 ELSE 0
        /\ \A i \in 1 .. Len(s) - (n + 1) + 1 : t[i] = s[(n + 1) + i - 1]
    BY <1>1, <2>1, SubSeqProperties
  <2> HIDE DEF t
  <2>3. Len(t) = Len(s) - n
    BY <1>1, <2>2
  <2> QED  BY <1>1, <2>2, <2>3
<1> HIDE DEF t
<1>6. ASSUME NEW i \in 1 .. Len(t)
      PROVE  \/ t[i] = "cleanup" /\ i = Len(t)
             \/ t[i] \in DOMAIN Request /\ Request[t[i]].client = c
  <2>1. n + i \in 1 .. Len(s) /\ t[i] = s[n + i]
    BY <1>1, <1>5
  <2>2. \/ s[n + i] = "cleanup" /\ n + i = Len(s)
        \/ s[n + i] \in DOMAIN Request /\ Request[s[n + i]].client = c
    BY <2>1 DEF IsProgram
  <2> QED  BY <1>1, <1>5, <2>1, <2>2
<1>7. IsProgram(t, c)
  BY <1>5, <1>6 DEF IsProgram
<1> QED  BY <1>3, <1>4, <1>7 DEF t

(***************************************************************************)
(* access() takes n requests off the client's program and sends the parts  *)
(* of the first ones, up to one that is rejected.                          *)
(***************************************************************************)
Sends(c, n, sent, new) ==
  /\ n \in 1 .. Len(todo[c])
  /\ sent \in Seq(DOMAIN Request) /\ Len(sent) <= n
  /\ \A i \in 1 .. Len(sent) :
       sent[i] = todo[c][i] /\ Request[sent[i]].client = c
  /\ todo' = [todo EXCEPT ![c] = SubSeq(todo[c], n + 1, Len(todo[c]))]
  /\ accepted' = accepted \cup {sent[i] : i \in 1 .. Len(sent)}
  /\ \A d \in Disks : new[d] \in InOrder(sent, d)
  /\ senders' = [senders EXCEPT ![c] = [d \in Disks |-> senders[c][d] \o new[d]]]

\* access() sends a prefix of the call's requests, and changes nothing else than
\* what the client owns.
LEMMA AccessSends ==
  ASSUME AppTypes, SenderTypes, NEW c \in Clients, access(c)
  PROVE  /\ OnlyClient(c) /\ AppRecord(app'[c])
         /\ app[c].pc = "ready" /\ app'[c].pc \in {"ready", "flush"}
         /\ \E n, sent, new : Sends(c, n, sent, new)
         /\ IsProgram(todo'[c], c)
<1>1. /\ DOMAIN app = Clients /\ AppRecord(app[c]) /\ NDisks \in Nat \ {0}
  BY Sizes DEF AppTypes
<1>2. app[c].pc = "ready" /\ IsProgram(todo[c], c) /\ DOMAIN todo = Clients
  BY Zenon DEF access, SenderTypes
<1>3. PICK n \in 1 .. Len(todo[c]) :
        /\ todo[c][n] # "cleanup"
        /\ todo' = [todo EXCEPT ![c] = SubSeq(todo[c], n + 1, Len(todo[c]))]
        /\ LET sent == Sent(SubSeq(todo[c], 1, n)) IN
           /\ accepted' = accepted \cup {sent[i] : i \in 1 .. Len(sent)}
           /\ \E new : /\ \A d \in Disks : new[d] \in InOrder(sent, d)
                       /\ senders' = [senders EXCEPT ![c] =
                                 [d \in Disks |-> senders[c][d] \o new[d]]]
        /\ \/ app' = app
           \/ app' = [app EXCEPT ![c].pc = "flush", ![c].ret = "ready",
                                 ![c].disk = 0]
  BY Zenon DEF access
<1> DEFINE batch == SubSeq(todo[c], 1, n)
           sent == Sent(batch)
<1>4. /\ IsProgram(SubSeq(todo[c], n + 1, Len(todo[c])), c)
      /\ batch \in Seq(DOMAIN Request) /\ Len(batch) = n
      /\ \A i \in 1 .. n : batch[i] = todo[c][i]
      /\ \A i \in 1 .. n : Request[todo[c][i]].client = c
  BY <1>2, <1>3, ProgramSplits
<1>5. Len(todo[c]) \in Nat /\ n \in Nat
  BY <1>2, <1>3, LenProperties DEF IsProgram
<1> HIDE DEF batch
<1>6. PICK k \in 0 .. n : sent = SubSeq(batch, 1, k)
  BY <1>4, SentIsPrefix
<1>7. /\ sent \in Seq(DOMAIN Request) /\ Len(sent) = k
      /\ \A i \in 1 .. Len(sent) : sent[i] = batch[i]
  <2>1. \A i \in 1 .. k : batch[i] \in DOMAIN Request
    BY <1>4, <1>5, ElementOfSeq
  <2>2. /\ SubSeq(batch, 1, k) \in Seq(DOMAIN Request)
        /\ Len(SubSeq(batch, 1, k)) = IF 1 <= k THEN k - 1 + 1 ELSE 0
        /\ \A i \in 1 .. k - 1 + 1 : SubSeq(batch, 1, k)[i] = batch[1 + i - 1]
    BY <2>1, SubSeqProperties
  <2>3. Len(SubSeq(batch, 1, k)) = k
    BY <2>2
  <2> QED  BY <1>6, <2>2, <2>3
<1>8. \A i \in 1 .. Len(sent) :
        sent[i] = todo[c][i] /\ Request[sent[i]].client = c
  BY <1>4, <1>5, <1>7
<1>9. PICK new : /\ \A d \in Disks : new[d] \in InOrder(sent, d)
                 /\ senders' = [senders EXCEPT ![c] =
                                 [d \in Disks |-> senders[c][d] \o new[d]]]
  BY Zenon, <1>3 DEF batch
<1>10. accepted' = accepted \cup {sent[i] : i \in 1 .. Len(sent)}
  BY <1>3 DEF batch
<1> HIDE DEF sent
<1>11. Len(sent) <= n
  BY <1>5, <1>7
<1>12. Sends(c, n, sent, new)
  BY Zenon, <1>3, <1>7, <1>8, <1>9, <1>10, <1>11 DEF Sends
<1>13. CASE app' = app
  <2>1. OnlyClient(c) /\ AppRecord(app'[c]) /\ app'[c].pc = "ready"
    BY <1>1, <1>2, <1>13 DEF OnlyClient, AppRecord
  <2> QED  BY <1>2, <1>3, <1>4, <1>12, <2>1
<1>14. CASE app' = [app EXCEPT ![c].pc = "flush", ![c].ret = "ready",
                               ![c].disk = 0]
  <2>1. /\ OnlyClient(c) /\ app'[c].pc = "flush" /\ app'[c].disk = 0
        /\ app'[c].ret = "ready" /\ app'[c].op = app[c].op
    BY <1>1, <1>14 DEF OnlyClient, AppRecord, AppFields
  <2>2. AppRecord(app'[c])
    BY <1>1, <2>1 DEF OnlyClient, AppRecord, AppPc
  <2> QED  BY <1>2, <1>3, <1>4, <1>12, <2>1, <2>2
<1> QED  BY <1>3, <1>13, <1>14

-----------------------------------------------------------------------------
(***************************************************************************)
(* The types are kept, by the steps of the clients first.                  *)
(***************************************************************************)
LEMMA ClientKeepsApp ==
  ASSUME AppTypes, SenderTypes, NEW c \in Clients, AppStep(c) \/ AppCall(c)
  PROVE  OnlyClient(c) /\ AppTypes'
<1>1. OnlyClient(c) /\ AppRecord(app'[c])
  <2>1. CASE execute_remote_comm(c)  BY <2>1, CommandQueued
  <2>2. CASE comm_activate(c)  BY <2>2, CommandActivates
  <2>3. CASE comm_wait4complete(c)  BY <2>3, CommandCompletes
  <2>4. CASE flush_requests(c)  BY Zenon, <2>4, FlushMoves
  <2>5. CASE flush_activate(c)  BY <2>5, FlushActivates
  <2>6. CASE wait4complete_process(c)  BY <2>6, ProcessMoves
  <2>7. CASE wait4complete_wait(c)  BY <2>7, WaitEnds
  <2>8. CASE cleanup_flush(c)  BY ZenonT(60), <2>8, CleanupFlushMoves
  <2>9. CASE cleanup_poll(c)  BY <2>9, CleanupPollMoves
  <2>10. CASE cleanup_activate(c)  BY <2>10, CleanupActivates
  <2>11. CASE cleanup_end(c)  BY <2>11, CleanupEnds
  <2>12. CASE access(c)  BY <2>12, AccessSends
  <2>13. CASE wait4complete(c)  BY <2>13, WaitBegins
  <2>14. CASE cleanup(c)  BY <2>14, CleanupBegins
  <2>15. CASE close_file(c)  BY <2>15, CloseBegins
  <2> QED  BY <2>1, <2>2, <2>3, <2>4, <2>5, <2>6, <2>7, <2>8, <2>9, <2>10, <2>11,
              <2>12, <2>13, <2>14, <2>15 DEF AppStep, AppCall
<1> QED  BY <1>1, OneRecord

\* A flushed buffer is a sequence of parts like the queue it goes to.
LEMMA FlushTypes ==
  ASSUME SenderTypes, DiskTypes, NEW c \in Clients, NEW d \in Disks,
         queue' = [queue EXCEPT ![d] = @ \o senders[c][d]],
         senders' = [senders EXCEPT ![c][d] = <<>>],
         UNCHANGED <<todo, complete_queue, app_event, io, comm_queue, io_event,
                     local_reqs, kernel, events, busy_aio, reaped>>
  PROVE  SenderTypes' /\ DiskTypes'
<1>1. senders[c] \in [Disks -> Seq(PartsOf(c))] /\ PartsOf(c) \subseteq AllParts
  BY DEF SenderTypes, PartsOf
<1>2. senders[c][d] \in Seq(AllParts)
  BY <1>1
<1>3. queue[d] \o senders[c][d] \in Seq(AllParts)
  BY <1>2, ConcatProperties DEF DiskTypes
<1>4. queue' \in [Disks -> Seq(AllParts)]
  BY <1>3 DEF DiskTypes
<1>5. /\ DOMAIN senders' = Clients
      /\ \A b \in Clients : senders'[b] \in [Disks -> Seq(PartsOf(b))]
  <2>1. <<>> \in Seq(PartsOf(c))
    OBVIOUS
  <2>2. senders' = [senders EXCEPT ![c] = [senders[c] EXCEPT ![d] = <<>>]]
    OBVIOUS
  <2>3. [senders[c] EXCEPT ![d] = <<>>] \in [Disks -> Seq(PartsOf(c))]
    BY <1>1, <2>1
  <2> QED  BY <2>2, <2>3 DEF SenderTypes
<1> QED  BY Zenon, <1>4, <1>5 DEF SenderTypes, DiskTypes, IsProgram

\* A client's step leaves what the others have got and what is on its way.
LEMMA ClientLeaves ==
  ASSUME SenderTypes, NEW c \in Clients, AppStep(c) \/ AppCall(c)
  PROVE  /\ UNCHANGED <<io, local_reqs, busy_aio, reaped, kernel, events, notify,
                        completed_reqs, cb_thread, cb_event>>
         /\ \A b \in Clients : b # c =>
              complete_queue'[b] = complete_queue[b] /\ app_event'[b] = app_event[b]
<1>1. UNCHANGED <<io, local_reqs, busy_aio, reaped, kernel, events, notify,
                  completed_reqs, cb_thread, cb_event>>
  BY Zenon DEF AppStep, AppCall, execute_remote_comm, comm_activate, comm_wait4complete,
         flush_requests, flush_activate, wait4complete_process,
         wait4complete_wait, cleanup_flush, cleanup_poll, cleanup_activate,
         cleanup_end, access, wait4complete, cleanup, close_file, downstream,
         ioVars, cbVars
<1>2. /\ complete_queue' \in {complete_queue, [complete_queue EXCEPT ![c] = <<>>]}
      /\ app_event' \in {app_event, [app_event EXCEPT ![c] = FALSE]}
  BY Zenon DEF AppStep, AppCall, execute_remote_comm, comm_activate, comm_wait4complete,
         flush_requests, flush_activate, wait4complete_process,
         wait4complete_wait, cleanup_flush, cleanup_poll, cleanup_activate,
         cleanup_end, access, wait4complete, cleanup, close_file, inboxVars,
         process_completed_requests
<1> QED  BY <1>1, <1>2 DEF SenderTypes

-----------------------------------------------------------------------------
(***************************************************************************)
(* The steps of the threads below that move entries and count nothing.     *)
(***************************************************************************)
\* Two numbers: what Min(...) of the code gives.
LEMMA MinOfTwo ==
  ASSUME NEW a \in Nat, NEW b \in Nat
  PROVE  /\ Min({a, b}) \in Nat /\ Min({a, b}) <= a /\ Min({a, b}) <= b
         /\ Min({a, b}) \in {a, b}
<1>1. {a, b} \in SUBSET Nat /\ {a, b} # {}
  OBVIOUS
<1> QED  BY <1>1, MinOfNats

\* Of a sequence cut in two, each part is a sequence over the same set.
LEMMA CutTypes ==
  ASSUME NEW S, NEW s \in Seq(S), NEW n \in 0 .. Len(s)
  PROVE  /\ SubSeq(s, 1, n) \in Seq(S) /\ Len(SubSeq(s, 1, n)) = n
         /\ SubSeq(s, n + 1, Len(s)) \in Seq(S)
         /\ Len(SubSeq(s, n + 1, Len(s))) = Len(s) - n
<1>1. Len(s) \in Nat /\ \A i \in 1 .. Len(s) : s[i] \in S
  BY LenProperties, ElementOfSeq
<1>2. \A i \in 1 .. n : s[i] \in S
  BY <1>1
<1>3. \A i \in n + 1 .. Len(s) : s[i] \in S
  BY <1>1
<1>4. /\ SubSeq(s, 1, n) \in Seq(S)
      /\ Len(SubSeq(s, 1, n)) = IF 1 <= n THEN n - 1 + 1 ELSE 0
  BY <1>2, SubSeqProperties
<1>5. /\ SubSeq(s, n + 1, Len(s)) \in Seq(S)
      /\ Len(SubSeq(s, n + 1, Len(s))) =
           IF n + 1 <= Len(s) THEN Len(s) - (n + 1) + 1 ELSE 0
  BY <1>1, <1>3, SubSeqProperties
<1> QED  BY <1>1, <1>4, <1>5

(***************************************************************************)
(* The I/O threads and the kernel keep their types and the slots.          *)
(***************************************************************************)
LowerInv == DiskTypes /\ NotifyTypes /\ SlotsCovered

\* The I/O thread fetches commands and requests.
LEMMA RunKeeps ==
  ASSUME LowerInv, NEW d \in Disks, run(d) \/ run_commands(d) \/ get_all_reqs(d)
  PROVE  LowerInv'
<1>1. UNCHANGED <<busy_aio, reaped, kernel, events, notify, completed_reqs,
                  cb_thread, cb_event>>
  BY DEF run, run_commands, get_all_reqs, cbVars
<1>2. NotifyTypes'
  BY <1>1 DEF NotifyTypes, LowerInv
<1>3. /\ d \in DOMAIN io /\ DOMAIN io = Disks /\ io[d] \in IOPc
      /\ queue \in [Disks -> Seq(AllParts)]
      /\ local_reqs \in [Disks -> Seq(AllParts)]
      /\ busy_aio \in [Disks -> Nat]
  BY DEF LowerInv, DiskTypes
<1>4. CASE run(d)
  <2>1. /\ UNCHANGED <<queue, comm_queue, local_reqs>>
        /\ io' = [io EXCEPT ![d] = "fetch"]
        /\ io_event' = [io_event EXCEPT ![d] = FALSE]
    BY <1>4 DEF run, IOGoto
  <2>2. DiskTypes'
    BY ZenonT(60), <1>1, <2>1 DEF DiskTypes, IOPc, LowerInv
  <2>3. SlotsCovered'
    BY <1>1, <1>3, <1>4, <2>1 DEF SlotsCovered, LowerInv, run
  <2> QED  BY <1>2, <2>2, <2>3 DEF LowerInv
<1>5. CASE run_commands(d)
  <2>1. /\ UNCHANGED <<queue, io, io_event, local_reqs>>
        /\ comm_queue[d] # <<>>
        /\ comm_queue' = [comm_queue EXCEPT ![d] = Tail(comm_queue[d])]
    BY Zenon, <1>5 DEF run_commands
  <2> DEFINE T == [client : Clients, op : {"open", "close"}]
  <2>2. comm_queue \in [Disks -> Seq(T)]
    BY Zenon DEF LowerInv, DiskTypes
  <2> HIDE DEF T
  <2>3. Tail(comm_queue[d]) \in Seq(T)
    BY <2>1, <2>2, HeadTailProperties
  <2>4. comm_queue' \in [Disks -> Seq(T)]
    BY <2>1, <2>2, <2>3
  <2>5. DiskTypes'
    BY ZenonT(60), <1>1, <2>1, <2>4 DEF DiskTypes, LowerInv, T
  <2>6. SlotsCovered'
    BY <1>1, <2>1 DEF SlotsCovered, LowerInv
  <2> QED  BY <1>2, <2>5, <2>6 DEF LowerInv
<1>6. CASE get_all_reqs(d)
  <2> DEFINE pc == IF queue[d] # <<>> THEN "submit"
                   ELSE IF busy_aio[d] > 0 THEN "io_wait" ELSE "asleep"
  <2>1. /\ UNCHANGED <<comm_queue, io_event>>
        /\ local_reqs' = [local_reqs EXCEPT ![d] = queue[d]]
        /\ queue' = [queue EXCEPT ![d] = <<>>]
        /\ io' = [io EXCEPT ![d] = pc]
        /\ io[d] \in {"fetch", "refetch"}
    BY <1>6 DEF get_all_reqs, IOGoto
  <2>2. DiskTypes'
    <3>1. pc \in IOPc
      BY DEF IOPc
    <3> HIDE DEF pc
    <3>2. io' \in [Disks -> IOPc]
      BY <2>1, <3>1 DEF DiskTypes, LowerInv
    <3>3. /\ local_reqs' \in [Disks -> Seq(AllParts)]
          /\ queue' \in [Disks -> Seq(AllParts)]
      BY <1>3, <2>1
    <3> QED  BY ZenonT(60), <1>1, <2>1, <3>2, <3>3 DEF DiskTypes, LowerInv
  <2>3. ASSUME NEW e \in Disks
        PROVE  /\ busy_aio'[e] <= AIO_DEPTH
               /\ Cardinality(kernel'[e]) + Len(events'[e]) + reaped'[e] <= busy_aio'[e]
               /\ io'[e] \notin {"add_reqs_activate", "notify"} => reaped'[e] = 0
               /\ io'[e] = "asleep" => busy_aio'[e] = 0 /\ local_reqs'[e] = <<>>
    <3>1. CASE e # d
      BY <1>1, <1>3, <2>1, <3>1 DEF SlotsCovered, LowerInv
    <3>2. CASE e = d
      <4>1. io'[d] = pc /\ local_reqs'[d] = queue[d]
        BY <1>3, <2>1
      <4>2. pc = "asleep" => busy_aio[d] = 0 /\ queue[d] = <<>>
        BY <1>3
      <4> QED  BY <1>1, <2>1, <3>2, <4>1, <4>2 DEF SlotsCovered, LowerInv
    <3> QED  BY <3>1, <3>2
  <2>4. SlotsCovered'
    BY <2>3 DEF SlotsCovered
  <2> QED  BY <1>2, <2>2, <2>4 DEF LowerInv
<1> QED  BY <1>4, <1>5, <1>6

LEMMA NotifySteps ==
  ASSUME SenderTypes, NotifyTypes, NEW t \in Notifiers, NotifyStep(t)
  PROVE  /\ SenderTypes' /\ NotifyTypes'
         /\ UNCHANGED <<app, todo, senders, queue, comm_queue, io_event, io,
                        local_reqs, busy_aio, reaped, kernel, events,
                        completed_reqs, cb_thread, cb_event>>
<1>1. UNCHANGED <<app, todo, senders, queue, comm_queue, io_event, io,
                  local_reqs, busy_aio, reaped, kernel, events,
                  completed_reqs, cb_thread, cb_event>>
  BY ZenonT(60) DEF NotifyStep, notify_completion, notify_activate, upstream, requestVars,
         diskVars, ioVars
<1>2. /\ notify \in [Notifiers -> Seq(Groups)] /\ notify[t] # <<>>
      /\ complete_queue \in [Clients -> Seq(AllParts)]
      /\ app_event \in [Clients -> BOOLEAN]
  BY Zenon DEF NotifyStep, notify_completion, notify_activate, NotifyTypes, SenderTypes,
         Groups
<1> DEFINE g == notify[t][1]
<1>3. /\ notify[t] \in Seq(Groups) /\ Len(notify[t]) \in Nat \ {0}
      /\ g \in Groups
  <2>1. notify[t] \in Seq(Groups)
    BY <1>2
  <2>2. Len(notify[t]) \in Nat \ {0}
    BY <1>2, <2>1, EmptySeq, LenProperties
  <2> QED  BY <2>1, <2>2, ElementOfSeq
<1> HIDE DEF g
<1>4. g.client \in Clients /\ g.parts \in Seq(AllParts)
  BY <1>3 DEF Groups
<1>5. CASE notify_completion(t)
  <2>1. /\ complete_queue' = [complete_queue EXCEPT ![g.client] = @ \o g.parts]
        /\ notify' = [notify EXCEPT ![t] = [notify[t] EXCEPT ![1] =
                                              [g EXCEPT !.parts = <<>>]]]
        /\ app_event' = app_event
    BY <1>5 DEF notify_completion, g
  <2>2. complete_queue[g.client] \o g.parts \in Seq(AllParts)
    BY <1>2, <1>4, ConcatProperties
  <2>3. complete_queue' \in [Clients -> Seq(AllParts)]
    BY <1>2, <1>4, <2>1, <2>2
  <2>4. [g EXCEPT !.parts = <<>>] \in Groups
    <3>1. <<>> \in Seq(AllParts)
      OBVIOUS
    <3> QED  BY Zenon, <1>3, <3>1 DEF Groups
  <2> HIDE DEF g
  <2> DEFINE h == [g EXCEPT !.parts = <<>>]
  <2>5. [notify[t] EXCEPT ![1] = h] \in Seq(Groups)
    <3> HIDE DEF h
    <3> QED  BY <1>3, <2>4, ExceptSeq DEF h
  <2>6. notify' \in [Notifiers -> Seq(Groups)]
    BY <1>2, <2>1, <2>5
  <2> QED  BY Zenon, <1>1, <2>1, <2>3, <2>6 DEF SenderTypes, NotifyTypes, Groups, IsProgram
<1>6. CASE notify_activate(t)
  <2>1. /\ app_event' = [app_event EXCEPT ![g.client] = TRUE]
        /\ notify' = [notify EXCEPT ![t] = Tail(notify[t])]
        /\ complete_queue' = complete_queue
    BY Zenon, <1>6 DEF notify_activate, g
  <2>2. Tail(notify[t]) \in Seq(Groups)
    BY <1>2, <1>3, HeadTailProperties
  <2>3. notify' \in [Notifiers -> Seq(Groups)] /\ app_event' \in [Clients -> BOOLEAN]
    BY Zenon, <1>2, <2>1, <2>2
  <2> QED  BY Zenon, <1>1, <2>1, <2>3 DEF SenderTypes, NotifyTypes, Groups, IsProgram
<1> QED  BY <1>1, <1>5, <1>6 DEF NotifyStep
=============================================================================
