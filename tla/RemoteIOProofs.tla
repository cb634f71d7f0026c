--------------------------- MODULE RemoteIOProofs ---------------------------
(***************************************************************************)
(* The theorems about RemoteIO.  First what needs counting: the parts of a *)
(* request, groups of completions and the AIO slots; then SleepInv, the    *)
(* inductive invariant, with the steps of RemoteIOSteps and RemoteIOWork.  *)
(***************************************************************************)
EXTENDS RemoteIOWork, FiniteSetTheorems

\* Time for the steps of this module, which has many facts in view
USE SMTT(30)

-----------------------------------------------------------------------------
(***************************************************************************)
(* The parts of a request, and what access() puts into the queues.         *)
(***************************************************************************)
\* The values of a function on a finite set.
LEMMA ValuesFinite ==
  ASSUME NEW S, IsFiniteSet(S), NEW f, DOMAIN f = S
  PROVE  /\ IsFiniteSet({f[x] : x \in S})
         /\ Cardinality({f[x] : x \in S}) <= Cardinality(S)
<1> DEFINE T == {f[x] : x \in S}
           g == [x \in S |-> f[x]]
<1>1. g \in Surjection(S, T)
  BY DEF Surjection
<1> HIDE DEF g, T
<1>2. IsFiniteSet(T) /\ Cardinality(T) <= Cardinality(S)
  BY <1>1, FS_Surjection
<1> QED  BY <1>2 DEF T

\* A request has finitely many parts, all of its client.
LEMMA PartsOfRequest ==
  ASSUME NEW r \in DOMAIN Request
  PROVE  /\ IsFiniteSet(Parts(r))
         /\ Parts(r) \subseteq PartsOf(Request[r].client)
         /\ \A p \in Parts(r) : p.req = r
<1>1. FirstBlock(r) \in Int /\ LastBlock(r) \in Int
  BY RemoteIOAssumption DEF FirstBlock, LastBlock
<1>2. IsFiniteSet({Part(r, b) : b \in FirstBlock(r) .. LastBlock(r)})
  <2>1. IsFiniteSet(FirstBlock(r) .. LastBlock(r))
    BY <1>1, FS_Interval
  <2> DEFINE S == FirstBlock(r) .. LastBlock(r)
             f == [b \in S |-> Part(r, b)]
  <2>2. IsFiniteSet({f[b] : b \in S})
    <3>1. DOMAIN f = S
      OBVIOUS
    <3> HIDE DEF f, S
    <3> QED  BY Zenon, <2>1, <3>1, ValuesFinite DEF S
  <2>3. {f[b] : b \in S} = {Part(r, b) : b \in S}
    OBVIOUS
  <2> QED  BY <2>2, <2>3
<1>3. IsFiniteSet(Parts(r))
  BY <1>2, FS_EmptySet DEF Parts
<1>4. \A b : Part(r, b).req = r
  BY DEF Part
<1>5. \A p \in Parts(r) : p.req = r
  BY <1>4 DEF Parts
<1> QED  BY <1>3, <1>5 DEF AllParts, PartsOf, ClientOf

\* The parts of a sequence of requests of client c.
LEMMA PartsForClient ==
  ASSUME NEW c \in Clients, NEW sent \in Seq(DOMAIN Request), NEW d \in Disks,
         \A i \in 1 .. Len(sent) : Request[sent[i]].client = c
  PROVE  /\ IsFiniteSet(PartsFor(sent, d))
         /\ PartsFor(sent, d) \subseteq PartsOf(c)
         /\ \A s \in InOrder(sent, d) : s \in Seq(PartsOf(c))
<1> DEFINE all == {Parts(sent[i]) : i \in 1 .. Len(sent)}
<1>1. Len(sent) \in Nat /\ \A i \in 1 .. Len(sent) : sent[i] \in DOMAIN Request
  BY LenProperties, ElementOfSeq
<1>2. \A i \in 1 .. Len(sent) :
        IsFiniteSet(Parts(sent[i])) /\ Parts(sent[i]) \subseteq PartsOf(c)
  BY <1>1, PartsOfRequest
<1>3. IsFiniteSet(all)
  <2> DEFINE S == 1 .. Len(sent)
             f == [i \in S |-> Parts(sent[i])]
  <2>1. IsFiniteSet(S)
    BY <1>1, FS_Interval
  <2>2. IsFiniteSet({f[i] : i \in S})
    <3>1. DOMAIN f = S
      OBVIOUS
    <3> HIDE DEF f, S
    <3> QED  BY <2>1, <3>1, ValuesFinite
  <2>3. {f[i] : i \in S} = all
    OBVIOUS
  <2> QED  BY Zenon, <2>2, <2>3
<1>4. IsFiniteSet(UNION all)
  <2>1. \A T \in all : IsFiniteSet(T)
    BY <1>2
  <2> HIDE DEF all
  <2> QED  BY <1>3, <2>1, FS_UNION
<1>5. PartsFor(sent, d) \subseteq UNION all /\ PartsFor(sent, d) \subseteq PartsOf(c)
  BY <1>2 DEF PartsFor
<1>6. IsFiniteSet(PartsFor(sent, d)) /\ Cardinality(PartsFor(sent, d)) \in Nat
  BY <1>4, <1>5, FS_Subset, FS_CardinalityType
<1>7. ASSUME NEW s \in InOrder(sent, d) PROVE s \in Seq(PartsOf(c))
  <2>1. s \in [1 .. Cardinality(PartsFor(sent, d)) -> PartsFor(sent, d)]
    BY DEF InOrder
  <2>2. s \in [1 .. Cardinality(PartsFor(sent, d)) -> PartsOf(c)]
    BY <1>5, <2>1
  <2> QED  BY <1>6, <2>2, IsASeq
<1> QED  BY <1>5, <1>6, <1>7

\* What access() puts into the buffers are parts of its client's requests.
LEMMA AccessTypes ==
  ASSUME AppTypes, SenderTypes, NEW c \in Clients, access(c)
  PROVE  SenderTypes'
<1>1. PICK n, sent, new : Sends(c, n, sent, new)
  BY AccessSends
<1>2. IsProgram(todo'[c], c)
  BY AccessSends
<1>3. senders[c] \in [Disks -> Seq(PartsOf(c))]
  BY DEF SenderTypes
<1>4. \A d \in Disks : new[d] \in Seq(PartsOf(c))
  BY <1>1, PartsForClient DEF Sends
<1>5. \A d \in Disks : senders[c][d] \o new[d] \in Seq(PartsOf(c))
  BY <1>3, <1>4, ConcatProperties
<1>6. /\ DOMAIN senders' = Clients
      /\ \A b \in Clients : senders'[b] \in [Disks -> Seq(PartsOf(b))]
  BY <1>1, <1>5 DEF Sends, SenderTypes
<1>7. DOMAIN todo' = Clients /\ \A b \in Clients : IsProgram(todo'[b], b)
  BY <1>1, <1>2 DEF Sends, SenderTypes
<1>8. UNCHANGED <<complete_queue, app_event>>
  BY ZenonT(60) DEF access, inboxVars
<1> QED  BY <1>6, <1>7, <1>8 DEF SenderTypes, IsProgram

\* A client's step keeps the types of the queues.
LEMMA ClientKeepsQueues ==
  ASSUME AppTypes, SenderTypes, DiskTypes, NotifyTypes, NEW c \in Clients,
         AppStep(c) \/ AppCall(c)
  PROVE  SenderTypes' /\ DiskTypes' /\ NotifyTypes'
<1> DEFINE D == UNCHANGED <<io, local_reqs, busy_aio, reaped, kernel, events,
                            notify, completed_reqs, cb_thread, cb_event>>
           S == UNCHANGED <<todo, senders, complete_queue, app_event>>
           Q == UNCHANGED <<queue, comm_queue, io_event>>
<1>1. D
  BY ClientLeaves
<1>2. NotifyTypes'
  BY <1>1 DEF NotifyTypes
<1>3. S => SenderTypes'
  BY DEF SenderTypes, IsProgram
<1>4. Q => DiskTypes'
  BY Zenon, <1>1 DEF DiskTypes
<1>5. CASE execute_remote_comm(c)
  <2>1. S /\ UNCHANGED <<queue, io_event>>
    BY <1>5 DEF execute_remote_comm, requestVars, inboxVars
  <2>2. app[c].disk \in Disks /\ app[c].op \in {"open", "close"}
    BY <1>5 DEF execute_remote_comm, AppTypes, AppRecord
  <2> DEFINE e == [client |-> c, op |-> app[c].op]
             T == [client : Clients, op : {"open", "close"}]
  <2>3. e \in T
    BY <2>2
  <2>4. comm_queue' = [comm_queue EXCEPT ![app[c].disk] =
                         Append(comm_queue[app[c].disk], e)]
    BY <1>5 DEF execute_remote_comm
  <2>5. comm_queue \in [Disks -> Seq(T)]
    BY Zenon DEF DiskTypes
  <2> HIDE DEF e, T
  <2>6. comm_queue' \in [Disks -> Seq(T)]
    BY <2>2, <2>3, <2>4, <2>5
  <2> QED  BY ZenonT(60), <1>1, <1>2, <1>3, <2>1, <2>6 DEF DiskTypes, T
<1>6. CASE comm_activate(c) \/ flush_activate(c) \/ cleanup_activate(c)
             \/ cleanup_end(c)
  <2>1. S /\ UNCHANGED <<queue, comm_queue>>
    BY <1>6 DEF comm_activate, flush_activate, cleanup_activate, cleanup_end,
                requestVars, inboxVars
  <2>2. io_event' \in [Disks -> BOOLEAN]
    BY ZenonT(60), <1>6 DEF comm_activate, flush_activate, cleanup_activate, cleanup_end,
                DiskTypes
  <2> QED  BY Zenon, <1>1, <1>2, <1>3, <2>1, <2>2 DEF DiskTypes
<1>7. CASE comm_wait4complete(c) \/ cleanup_poll(c) \/ wait4complete(c)
             \/ close_file(c)
  <2>1. S /\ Q
    BY Zenon, <1>7 DEF comm_wait4complete, cleanup_poll, wait4complete, close_file,
                requestVars, inboxVars, diskVars
  <2> QED  BY <1>2, <1>3, <1>4, <2>1
<1>8. CASE flush_requests(c) \/ cleanup_flush(c)
  <2>1. UNCHANGED <<todo, complete_queue, app_event, comm_queue, io_event>>
    BY Zenon, <1>8 DEF flush_requests, cleanup_flush, inboxVars
  <2>2. CASE UNCHANGED <<queue, senders>>
    BY <1>2, <1>3, <1>4, <2>1, <2>2
  <2>3. CASE \E d \in Disks :
               /\ queue' = [queue EXCEPT ![d] = @ \o senders[c][d]]
               /\ senders' = [senders EXCEPT ![c][d] = <<>>]
    BY ZenonT(60), <1>1, <1>2, <2>1, <2>3, FlushTypes
  <2> QED  BY Zenon, <1>8, <2>2, <2>3, FlushMoves, CleanupFlushMoves
<1>9. CASE wait4complete_process(c)
  <2>1. UNCHANGED <<todo, senders, app_event>> /\ Q
    BY <1>9 DEF wait4complete_process, diskVars
  <2>2. complete_queue' = [complete_queue EXCEPT ![c] = <<>>]
    BY <1>9 DEF wait4complete_process, process_completed_requests
  <2> QED  BY <1>2, <1>4, <2>1, <2>2 DEF SenderTypes, IsProgram
<1>10. CASE wait4complete_wait(c)
  <2>1. UNCHANGED <<todo, senders, complete_queue>> /\ Q
    BY <1>10 DEF wait4complete_wait, diskVars, requestVars
  <2>2. app_event' \in [Clients -> BOOLEAN]
    BY <1>10 DEF wait4complete_wait, SenderTypes
  <2> QED  BY ZenonT(60), <1>2, <1>4, <2>1, <2>2 DEF SenderTypes, IsProgram
<1>11. CASE access(c)
  <2>1. Q
    BY ZenonT(60), <1>11 DEF access, diskVars
  <2> QED  BY <1>2, <1>4, <1>11, <2>1, AccessTypes
<1>12. CASE cleanup(c)
  <2>1. UNCHANGED <<senders, app_event>> /\ Q
    BY <1>12 DEF cleanup, diskVars
  <2>2. /\ complete_queue' = [complete_queue EXCEPT ![c] = <<>>]
        /\ todo' = [todo EXCEPT ![c] = <<>>]
    BY <1>12 DEF cleanup, process_completed_requests
  <2>3. complete_queue' \in [Clients -> Seq(AllParts)]
    BY <2>2 DEF SenderTypes
  <2>4. IsProgram(<<>>, c)
    BY DEF IsProgram
  <2>5. DOMAIN todo' = Clients /\ \A b \in Clients : IsProgram(todo'[b], b)
    BY <2>2, <2>4 DEF SenderTypes
  <2> QED  BY ZenonT(60), <1>2, <1>4, <2>1, <2>3, <2>5 DEF SenderTypes, IsProgram
<1> QED  BY <1>5, <1>6, <1>7, <1>8, <1>9, <1>10, <1>11, <1>12 DEF AppStep, AppCall

-----------------------------------------------------------------------------
(***************************************************************************)
(* The steps of the threads below.  Completions are grouped into what      *)
(* notify_completion() takes: a client and parts.                          *)
(***************************************************************************)
LEMMA GroupTypes ==
  ASSUME NEW ps \in Seq(AllParts), NEW gs \in GroupSeqs(ps)
  PROVE  gs \in Seq(Groups)
<1>1. Len(ps) \in Nat /\ \A i \in 1 .. Len(ps) : ps[i] \in AllParts
  BY LenProperties, ElementOfSeq
<1>2. \A i \in 1 .. Len(ps) : ClientOf(ps[i]) \in Clients
  BY <1>1, PartClient
<1>3. CASE Len(ps) < GroupAt
  <2>1. gs = [i \in 1 .. Len(ps) |-> [client |-> ClientOf(ps[i]), parts |-> <<ps[i]>>]]
    BY <1>3 DEF GroupSeqs
  <2>2. \A i \in 1 .. Len(ps) : <<ps[i]>> \in Seq(AllParts)
    BY <1>1
  <2>3. \A i \in 1 .. Len(ps) : [client |-> ClientOf(ps[i]), parts |-> <<ps[i]>>] \in Groups
    BY <1>2, <2>2 DEF Groups
  <2>4. gs \in [1 .. Len(ps) -> Groups]
    BY <2>1, <2>3
  <2> QED  BY <1>1, <2>4, SeqDef
<1>4. CASE ~ (Len(ps) < GroupAt)
  <2> DEFINE cs == {ClientOf(ps[i]) : i \in 1 .. Len(ps)}
  <2>1. gs \in [1 .. Cardinality(cs) ->
                 [client : cs, parts : UNION {OfClient(ps, c) : c \in cs}]]
    BY <1>4 DEF GroupSeqs
  <2>2. cs \subseteq Clients
    BY <1>2
  <2>3. IsFiniteSet(cs)
    <3> DEFINE f == [i \in 1 .. Len(ps) |-> ClientOf(ps[i])]
    <3>1. IsFiniteSet(1 .. Len(ps))
      BY <1>1, FS_Interval
    <3>2. DOMAIN f = 1 .. Len(ps) /\ cs = {f[i] : i \in 1 .. Len(ps)}
      OBVIOUS
    <3> HIDE DEF f, cs
    <3>3. IsFiniteSet({f[i] : i \in 1 .. Len(ps)})
      BY <3>1, <3>2, ValuesFinite
    <3> QED  BY <3>2, <3>3
  <2>4. Cardinality(cs) \in Nat
    BY <2>3, FS_CardinalityType
  <2>5. ASSUME NEW c \in cs, NEW s \in OfClient(ps, c) PROVE s \in Seq(AllParts)
    <3> DEFINE ix == Indexes(ps, c)
               n == Cardinality(ix)
    <3>1. PICK f \in [1 .. n -> ix] : s = [i \in DOMAIN f |-> ps[f[i]]]
      BY <2>5 DEF OfClient
    <3>2. ix \subseteq 1 .. Len(ps)
      BY DEF Indexes
    <3>3. IsFiniteSet(ix)
      <4>1. IsFiniteSet(1 .. Len(ps))
        BY <1>1, FS_Interval
      <4> HIDE DEF ix
      <4> QED  BY Zenon, <3>2, <4>1, FS_Subset
    <3>4. n \in Nat
      <4> HIDE DEF ix
      <4> QED  BY <3>3, FS_CardinalityType
    <3> HIDE DEF ix, n
    <3>5. s \in [1 .. n -> AllParts]
      BY ZenonT(60), <1>1, <3>1, <3>2
    <3> QED  BY <3>4, <3>5, SeqDef
  <2>6. \A i \in 1 .. Cardinality(cs) : gs[i] \in Groups
    <3> DEFINE U == UNION {OfClient(ps, c) : c \in cs}
    <3>1. U \subseteq Seq(AllParts)
      BY <2>5
    <3> HIDE DEF U, cs
    <3>2. [client : cs, parts : U] \subseteq Groups
      BY <2>2, <3>1 DEF Groups
    <3>3. gs \in [1 .. Cardinality(cs) -> [client : cs, parts : U]]
      BY <2>1 DEF U, cs
    <3> QED  BY <3>2, <3>3
  <2>7. gs \in [1 .. Cardinality(cs) -> Groups]
    <3> HIDE DEF cs
    <3> QED  BY <2>1, <2>6
  <2> HIDE DEF cs
  <2> QED  BY <2>4, <2>7, SeqDef
<1> QED  BY <1>3, <1>4

(***************************************************************************)
(* The I/O threads and the kernel keep their types and the slots.          *)
(***************************************************************************)
\* The I/O thread submits requests: each one takes a slot that is free.
LEMMA SubmitKeeps ==
  ASSUME LowerInv, NEW d \in Disks, aio_access(d)
  PROVE  LowerInv'
<1> DEFINE n == Min({AIO_DEPTH - busy_aio[d], Len(local_reqs[d])})
           got == {local_reqs[d][i] : i \in 1 .. n}
           pc == IF n < Len(local_reqs[d]) THEN "io_wait" ELSE "fetch"
<1>1. /\ io[d] = "submit"
      /\ kernel' = [kernel EXCEPT ![d] = @ \cup got]
      /\ busy_aio' = [busy_aio EXCEPT ![d] = @ + n]
      /\ local_reqs' = [local_reqs EXCEPT
           ![d] = SubSeq(local_reqs[d], n + 1, Len(local_reqs[d]))]
      /\ io' = [io EXCEPT ![d] = pc]
      /\ UNCHANGED <<queue, comm_queue, io_event, reaped, events>>
      /\ UNCHANGED <<notify, completed_reqs, cb_thread, cb_event>>
  BY ZenonT(60) DEF aio_access, IOGoto, diskVars, cbVars
<1>2. NotifyTypes'
  BY <1>1 DEF NotifyTypes, LowerInv
<1>3. /\ busy_aio[d] \in Nat /\ busy_aio[d] <= AIO_DEPTH /\ AIO_DEPTH \in Nat
      /\ local_reqs[d] \in Seq(AllParts)
      /\ kernel[d] \in SUBSET AllParts /\ IsFiniteSet(kernel[d])
      /\ events[d] \in Seq(AllParts) /\ reaped[d] \in Nat
      /\ Cardinality(kernel[d]) + Len(events[d]) + reaped[d] <= busy_aio[d]
      /\ reaped[d] = 0
  BY ZenonT(60), <1>1, Sizes DEF LowerInv, DiskTypes, SlotsCovered
<1>4. Len(local_reqs[d]) \in Nat /\ Len(events[d]) \in Nat
  BY <1>3, LenProperties
<1>5. /\ n \in Nat /\ n <= AIO_DEPTH - busy_aio[d] /\ n <= Len(local_reqs[d])
  <2>1. AIO_DEPTH - busy_aio[d] \in Nat
    BY <1>3
  <2> QED  BY <1>4, <2>1, MinOfTwo
<1> HIDE DEF n
<1>6. /\ IsFiniteSet(got) /\ Cardinality(got) <= n /\ got \subseteq AllParts
      /\ Cardinality(got) \in Nat
  <2> DEFINE f == [i \in 1 .. n |-> local_reqs[d][i]]
  <2>1. DOMAIN f = 1 .. n /\ got = {f[i] : i \in 1 .. n}
    OBVIOUS
  <2>2. IsFiniteSet(1 .. n) /\ Cardinality(1 .. n) = n
    BY <1>5, FS_Interval
  <2>3. got \subseteq AllParts
    BY <1>3, <1>4, <1>5, ElementOfSeq
  <2> HIDE DEF f, got
  <2>4. IsFiniteSet({f[i] : i \in 1 .. n}) /\ Cardinality({f[i] : i \in 1 .. n}) <= n
    BY ZenonT(60), <2>1, <2>2, ValuesFinite
  <2> QED  BY <2>1, <2>3, <2>4, FS_CardinalityType
<1>7. /\ IsFiniteSet(kernel[d] \cup got)
      /\ Cardinality(kernel[d] \cup got) \in Nat
      /\ Cardinality(kernel[d]) \in Nat
      /\ Cardinality(kernel[d] \cup got) <= Cardinality(kernel[d]) + n
  <2> HIDE DEF got
  <2>1. /\ IsFiniteSet(kernel[d] \cup got)
        /\ Cardinality(kernel[d] \cup got) =
             Cardinality(kernel[d]) + Cardinality(got)
               - Cardinality(kernel[d] \cap got)
    BY Zenon, <1>3, <1>6, FS_Union
  <2>2. IsFiniteSet(kernel[d] \cap got)
    BY ZenonT(60), <1>3, FS_Intersection
  <2>3. /\ Cardinality(kernel[d] \cap got) \in Nat
        /\ Cardinality(kernel[d] \cup got) \in Nat
        /\ Cardinality(kernel[d]) \in Nat
    BY <1>3, <2>1, <2>2, FS_CardinalityType
  <2> QED  BY <1>5, <1>6, <2>1, <2>3
<1>8. SubSeq(local_reqs[d], n + 1, Len(local_reqs[d])) \in Seq(AllParts)
  BY <1>3, <1>4, <1>5, CutTypes
<1>9. pc \in {"io_wait", "fetch"} /\ busy_aio[d] + n \in Nat
      /\ busy_aio[d] + n <= AIO_DEPTH
  BY <1>3, <1>5
<1> HIDE DEF got, pc
<1>10. DiskTypes'
  <2>1. kernel' \in [Disks -> SUBSET AllParts]
    BY <1>1, <1>6 DEF LowerInv, DiskTypes
  <2>2. \A e \in Disks : IsFiniteSet(kernel'[e])
    BY <1>1, <1>7 DEF LowerInv, DiskTypes
  <2>3. io' \in [Disks -> IOPc] /\ busy_aio' \in [Disks -> Nat]
    BY <1>1, <1>9 DEF LowerInv, DiskTypes, IOPc
  <2>4. local_reqs' \in [Disks -> Seq(AllParts)]
    BY <1>1, <1>8 DEF LowerInv, DiskTypes
  <2> QED  BY ZenonT(60), <1>1, <2>1, <2>2, <2>3, <2>4 DEF LowerInv, DiskTypes
<1>11. ASSUME NEW e \in Disks
       PROVE  /\ busy_aio'[e] <= AIO_DEPTH
              /\ Cardinality(kernel'[e]) + Len(events'[e]) + reaped'[e] <= busy_aio'[e]
              /\ io'[e] \notin {"add_reqs_activate", "notify"} => reaped'[e] = 0
              /\ io'[e] = "asleep" => busy_aio'[e] = 0 /\ local_reqs'[e] = <<>>
  <2>1. CASE e # d
    BY <1>1, <2>1 DEF SlotsCovered, LowerInv, DiskTypes
  <2>2. CASE e = d
    <3>1. /\ kernel'[d] = kernel[d] \cup got /\ busy_aio'[d] = busy_aio[d] + n
          /\ io'[d] = pc /\ events'[d] = events[d] /\ reaped'[d] = reaped[d]
      BY <1>1 DEF LowerInv, DiskTypes
    <3> QED  BY <1>3, <1>4, <1>5, <1>7, <1>9, <2>2, <3>1
  <2> QED  BY <2>1, <2>2
<1>12. SlotsCovered'
  BY <1>11 DEF SlotsCovered
<1> QED  BY <1>2, <1>10, <1>12 DEF LowerInv

\* The I/O thread collects events of the kernel.
LEMMA ReapKeeps ==
  ASSUME LowerInv, NEW d \in Disks, return_cb(d)
  PROVE  LowerInv'
<1> DEFINE n == Len(events[d])
           ret == Min({n, CompleteQueueSize - Len(completed_reqs)})
<1>1. /\ io[d] = "io_wait"
      /\ completed_reqs' = completed_reqs \o SubSeq(events[d], 1, ret)
      /\ \E gs \in GroupSeqs(SubSeq(events[d], ret + 1, n)) :
           notify' = [notify EXCEPT ![d] = gs]
      /\ reaped' = [reaped EXCEPT ![d] = n]
      /\ events' = [events EXCEPT ![d] = <<>>]
      /\ io' = [io EXCEPT ![d] = "add_reqs_activate"]
      /\ UNCHANGED <<queue, comm_queue, io_event, local_reqs, busy_aio, kernel,
                     cb_thread, cb_event>>
  BY Zenon DEF return_cb, IOGoto, diskVars
<1>2. /\ events[d] \in Seq(AllParts) /\ completed_reqs \in Seq(AllParts)
      /\ Len(completed_reqs) <= CompleteQueueSize /\ CompleteQueueSize \in Nat
      /\ notify \in [Notifiers -> Seq(Groups)]
  BY Zenon, Sizes DEF LowerInv, DiskTypes, NotifyTypes, Groups
<1>3. n \in Nat /\ Len(completed_reqs) \in Nat
  BY <1>2, LenProperties
<1>4. /\ ret \in 0 .. n /\ ret <= CompleteQueueSize - Len(completed_reqs)
  <2>1. CompleteQueueSize - Len(completed_reqs) \in Nat
    BY <1>2, <1>3
  <2> HIDE DEF n
  <2>2. ret \in Nat /\ ret <= n /\ ret <= CompleteQueueSize - Len(completed_reqs)
    BY <1>3, <2>1, MinOfTwo
  <2> QED  BY <1>3, <2>2
<1> HIDE DEF ret
<1>5. /\ SubSeq(events[d], 1, ret) \in Seq(AllParts)
      /\ Len(SubSeq(events[d], 1, ret)) = ret
      /\ SubSeq(events[d], ret + 1, n) \in Seq(AllParts)
  BY <1>2, <1>4, CutTypes
<1>6. NotifyTypes'
  <2>1. /\ completed_reqs' \in Seq(AllParts)
        /\ Len(completed_reqs') = Len(completed_reqs) + ret
    BY <1>1, <1>2, <1>5, ConcatProperties
  <2>2. Len(completed_reqs') <= CompleteQueueSize
    BY <1>2, <1>3, <1>4, <2>1
  <2>3. PICK gs \in GroupSeqs(SubSeq(events[d], ret + 1, n)) :
          notify' = [notify EXCEPT ![d] = gs]
    BY Zenon, <1>1
  <2>4. gs \in Seq(Groups)
    BY Zenon, <1>5, GroupTypes
  <2>5. notify' \in [Notifiers -> Seq(Groups)]
    BY ZenonT(60), <1>2, <2>3, <2>4
  <2> QED  BY ZenonT(60), <1>1, <2>1, <2>2, <2>5 DEF LowerInv, NotifyTypes, Groups
<1>7. DiskTypes'
  <2>1. events' \in [Disks -> Seq(AllParts)]
    BY <1>1 DEF LowerInv, DiskTypes
  <2>2. io' \in [Disks -> IOPc] /\ reaped' \in [Disks -> Nat]
    BY <1>1, <1>3 DEF LowerInv, DiskTypes, IOPc
  <2> QED  BY Zenon, <1>1, <2>1, <2>2 DEF LowerInv, DiskTypes
<1>8. ASSUME NEW e \in Disks
      PROVE  /\ busy_aio'[e] <= AIO_DEPTH
             /\ Cardinality(kernel'[e]) + Len(events'[e]) + reaped'[e] <= busy_aio'[e]
             /\ io'[e] \notin {"add_reqs_activate", "notify"} => reaped'[e] = 0
             /\ io'[e] = "asleep" => busy_aio'[e] = 0 /\ local_reqs'[e] = <<>>
  <2>1. CASE e # d
    BY <1>1, <2>1 DEF SlotsCovered, LowerInv, DiskTypes
  <2>2. CASE e = d
    <3>1. /\ Len(events'[d]) = 0 /\ reaped'[d] = n /\ io'[d] = "add_reqs_activate"
          /\ kernel'[d] = kernel[d] /\ busy_aio'[d] = busy_aio[d]
      BY <1>1 DEF LowerInv, DiskTypes
    <3>2. /\ reaped[d] = 0 /\ busy_aio[d] <= AIO_DEPTH
          /\ Cardinality(kernel[d]) + n + reaped[d] <= busy_aio[d]
      BY ZenonT(60), <1>1 DEF SlotsCovered, LowerInv
    <3>3. Cardinality(kernel[d]) \in Nat
      BY FS_CardinalityType DEF LowerInv, DiskTypes
    <3> QED  BY <1>3, <2>2, <3>1, <3>2, <3>3
  <2> QED  BY <2>1, <2>2
<1>9. SlotsCovered'
  BY <1>8 DEF SlotsCovered
<1> QED  BY <1>6, <1>7, <1>9 DEF LowerInv

\* The I/O thread activates the completion thread, or its wait returns.
LEMMA WaitKeeps ==
  ASSUME LowerInv, NEW d \in Disks, add_reqs_activate(d) \/ io_wait_returns(d)
  PROVE  LowerInv'
<1>1. UNCHANGED <<queue, comm_queue, io_event, local_reqs, kernel, events, notify,
                  completed_reqs, cb_thread>>
  BY DEF add_reqs_activate, io_wait_returns, diskVars, cbVars
<1>2. NotifyTypes'
  BY Zenon, <1>1 DEF add_reqs_activate, io_wait_returns, cbVars, LowerInv, NotifyTypes
<1>3. /\ io \in [Disks -> IOPc] /\ busy_aio \in [Disks -> Nat]
      /\ reaped \in [Disks -> Nat]
  BY DEF LowerInv, DiskTypes
<1>4. CASE add_reqs_activate(d)
  <2>1. /\ io' = [io EXCEPT ![d] = "notify"] /\ io[d] = "add_reqs_activate"
        /\ UNCHANGED <<busy_aio, reaped>>
    BY <1>4 DEF add_reqs_activate, IOGoto
  <2>2. DiskTypes'
    BY ZenonT(60), <1>1, <2>1 DEF LowerInv, DiskTypes, IOPc
  <2>3. SlotsCovered'
    BY <1>1, <1>3, <2>1 DEF LowerInv, SlotsCovered
  <2> QED  BY <1>2, <2>2, <2>3 DEF LowerInv
<1>5. CASE io_wait_returns(d)
  <2> DEFINE pc == IF local_reqs[d] # <<>> THEN "submit" ELSE "refetch"
  <2>1. /\ io' = [io EXCEPT ![d] = pc]
        /\ busy_aio' = [busy_aio EXCEPT ![d] = busy_aio[d] - reaped[d]]
        /\ reaped' = [reaped EXCEPT ![d] = 0]
    BY <1>5 DEF io_wait_returns, IOGoto
  <2>2. pc \in {"submit", "refetch"}
    OBVIOUS
  <2> HIDE DEF pc
  <2>3. Cardinality(kernel[d]) \in Nat /\ Len(events[d]) \in Nat
    BY FS_CardinalityType, LenProperties DEF LowerInv, DiskTypes
  <2>4. /\ busy_aio[d] <= AIO_DEPTH /\ AIO_DEPTH \in Nat
        /\ Cardinality(kernel[d]) + Len(events[d]) + reaped[d] <= busy_aio[d]
    BY Sizes DEF LowerInv, SlotsCovered
  <2>5. busy_aio[d] - reaped[d] \in Nat
    BY <1>3, <2>3, <2>4
  <2>6. DiskTypes'
    <3>1. io' \in [Disks -> IOPc]
      BY <1>3, <2>1, <2>2 DEF IOPc
    <3>2. busy_aio' \in [Disks -> Nat] /\ reaped' \in [Disks -> Nat]
      BY <1>3, <2>1, <2>5
    <3> QED  BY ZenonT(60), <1>1, <3>1, <3>2 DEF LowerInv, DiskTypes
  <2>7. ASSUME NEW e \in Disks
        PROVE  /\ busy_aio'[e] <= AIO_DEPTH
               /\ Cardinality(kernel'[e]) + Len(events'[e]) + reaped'[e] <= busy_aio'[e]
               /\ io'[e] \notin {"add_reqs_activate", "notify"} => reaped'[e] = 0
               /\ io'[e] = "asleep" => busy_aio'[e] = 0 /\ local_reqs'[e] = <<>>
    <3>1. CASE e # d
      BY <1>1, <1>3, <2>1, <3>1 DEF SlotsCovered, LowerInv
    <3>2. CASE e = d
      <4>1. /\ busy_aio'[d] = busy_aio[d] - reaped[d] /\ reaped'[d] = 0
            /\ io'[d] = pc /\ kernel'[d] = kernel[d] /\ events'[d] = events[d]
        BY <1>1, <1>3, <2>1
      <4>2. busy_aio[d] \in Nat /\ reaped[d] \in Nat
        BY <1>3
      <4>3. /\ busy_aio'[d] <= AIO_DEPTH
            /\ Cardinality(kernel'[d]) + Len(events'[d]) + reaped'[d] <= busy_aio'[d]
        BY <2>3, <2>4, <4>1, <4>2
      <4>4. io'[d] # "asleep"
        BY <2>2, <4>1
      <4> QED  BY ZenonT(60), <3>2, <4>1, <4>3, <4>4
    <3> QED  BY ZenonT(60), <3>1, <3>2
  <2>8. SlotsCovered'
    BY <2>7 DEF SlotsCovered
  <2> QED  BY <1>2, <2>6, <2>8 DEF LowerInv
<1> QED  BY <1>4, <1>5

\* The kernel finishes a request; its slot stays taken until the event is collected.
LEMMA KernelKeeps ==
  ASSUME LowerInv, NEW d \in Disks, kernel_complete(d)
  PROVE  LowerInv'
<1>1. PICK p \in kernel[d] : /\ kernel' = [kernel EXCEPT ![d] = @ \ {p}]
                             /\ events' = [events EXCEPT ![d] = Append(@, p)]
  BY ZenonT(60) DEF kernel_complete
<1>2. UNCHANGED <<queue, comm_queue, io_event, io, local_reqs, busy_aio, reaped,
                  notify, completed_reqs, cb_thread, cb_event>>
  BY DEF kernel_complete, diskVars, ioVars, cbVars
<1>3. /\ kernel \in [Disks -> SUBSET AllParts] /\ events \in [Disks -> Seq(AllParts)]
      /\ \A e \in Disks : IsFiniteSet(kernel[e])
      /\ busy_aio[d] \in Nat /\ reaped[d] \in Nat
  BY DEF LowerInv, DiskTypes
<1>4. /\ IsFiniteSet(kernel[d] \ {p})
      /\ Cardinality(kernel[d] \ {p}) = Cardinality(kernel[d]) - 1
      /\ Cardinality(kernel[d]) \in Nat
  BY <1>3, FS_RemoveElement, FS_CardinalityType
<1>5. /\ Append(events[d], p) \in Seq(AllParts)
      /\ Len(Append(events[d], p)) = Len(events[d]) + 1
      /\ Len(events[d]) \in Nat
  BY <1>3, AppendProperties, LenProperties
<1>6. NotifyTypes'
  BY <1>2 DEF LowerInv, NotifyTypes
<1>7. DiskTypes'
  <2>1. kernel' \in [Disks -> SUBSET AllParts] /\ \A e \in Disks : IsFiniteSet(kernel'[e])
    BY <1>1, <1>3, <1>4
  <2>2. events' \in [Disks -> Seq(AllParts)]
    BY <1>1, <1>3, <1>5
  <2> QED  BY Zenon, <1>2, <2>1, <2>2 DEF LowerInv, DiskTypes
<1>8. ASSUME NEW e \in Disks
      PROVE  /\ busy_aio'[e] <= AIO_DEPTH
             /\ Cardinality(kernel'[e]) + Len(events'[e]) + reaped'[e] <= busy_aio'[e]
             /\ io'[e] \notin {"add_reqs_activate", "notify"} => reaped'[e] = 0
             /\ io'[e] = "asleep" => busy_aio'[e] = 0 /\ local_reqs'[e] = <<>>
  <2>1. CASE e # d
    BY <1>1, <1>2, <1>3, <2>1 DEF SlotsCovered, LowerInv
  <2>2. CASE e = d
    <3>1. kernel'[d] = kernel[d] \ {p} /\ events'[d] = Append(events[d], p)
      BY <1>1, <1>3
    <3>2. Cardinality(kernel'[d]) + Len(events'[d]) + reaped[d]
            = Cardinality(kernel[d]) + Len(events[d]) + reaped[d]
      BY <1>3, <1>4, <1>5, <3>1
    <3> QED  BY ZenonT(60), <1>2, <2>2, <3>2 DEF SlotsCovered, LowerInv
  <2> QED  BY <2>1, <2>2
<1>9. SlotsCovered'
  BY <1>8 DEF SlotsCovered
<1> QED  BY <1>6, <1>7, <1>9 DEF LowerInv

\* The completion thread keeps the types of what it hands over.
LEMMA CompletionThreadTypes ==
  ASSUME NotifyTypes, cb_run \/ cb_wait_event
  PROVE  /\ NotifyTypes'
         /\ UNCHANGED <<app, todo, senders, complete_queue, app_event, queue,
                        comm_queue, io_event, io, local_reqs, busy_aio, reaped,
                        kernel, events>>
<1>1. UNCHANGED <<app, todo, senders, complete_queue, app_event, queue,
                  comm_queue, io_event, io, local_reqs, busy_aio, reaped,
                  kernel, events>>
  BY DEF cb_run, cb_wait_event, upstream, requestVars, inboxVars, diskVars, ioVars
<1>2. CASE cb_run
  <2>1. PICK gs \in GroupSeqs(completed_reqs) : notify' = [notify EXCEPT ![CB] = gs]
    BY Zenon, <1>2 DEF cb_run
  <2>2. gs \in Seq(Groups)
    BY GroupTypes DEF NotifyTypes
  <2>3. notify' \in [Notifiers -> Seq(Groups)]
    BY Zenon, <2>1, <2>2 DEF NotifyTypes, Groups
  <2>4. completed_reqs' = <<>> /\ cb_thread' = "notify" /\ cb_event' = cb_event
    BY <1>2 DEF cb_run
  <2>5. completed_reqs' \in Seq(AllParts) /\ Len(completed_reqs') <= CompleteQueueSize
    BY <2>4, Sizes
  <2> QED  BY Zenon, <1>1, <2>3, <2>4, <2>5 DEF NotifyTypes, Groups
<1>3. CASE cb_wait_event
  BY Zenon, <1>1, <1>3 DEF cb_wait_event, NotifyTypes
<1> QED  BY <1>2, <1>3

\* So does a step of the completion thread.
LEMMA CompletionHandover ==
  ASSUME NotifyTypes, HandoverInv, cb_run \/ cb_wait_event
  PROVE  HandoverInv'
<1>1. UNCHANGED <<app, app_event, complete_queue, io>>
  BY CompletionThreadTypes
<1>2. /\ notify \in [Notifiers -> Seq(Groups)] /\ CB \in Notifiers
      /\ \A e \in Disks : e \in Notifiers /\ e # CB
  <2>1. /\ CB \in Notifiers
        /\ \A e \in Disks : e \in Notifiers /\ e # CB
    BY Sizes DEF CB, Notifiers, Disks
  <2> QED  BY Zenon, <2>1 DEF NotifyTypes, Groups
<1>3. CASE cb_run
  <2>1. /\ cb_thread = "run" /\ cb_thread' = "notify" /\ completed_reqs' = <<>>
        /\ \E gs : notify' = [notify EXCEPT ![CB] = gs]
    BY ZenonT(60), <1>3 DEF cb_run
  <2>2. notify[CB] = <<>>
    BY <2>1 DEF HandoverInv, NotifyEmpty
  <2>3. \A s \in Notifiers : s # CB => notify'[s] = notify[s]
    BY <1>2, <2>1
  <2>4. NotifyEmpty' /\ CompletionsAnswered'
    BY <1>1, <1>2, <2>1, <2>3 DEF HandoverInv, NotifyEmpty, CompletionsAnswered
  <2>5. InboxAnswered'
    BY <1>1, <2>2, <2>3 DEF HandoverInv, InboxAnswered
  <2> QED  BY <2>4, <2>5 DEF HandoverInv
<1>4. CASE cb_wait_event
  <2>1. /\ notify[CB] = <<>> /\ notify' = notify /\ cb_thread' = "run"
    BY <1>4 DEF cb_wait_event
  <2>2. NotifyEmpty' /\ CompletionsAnswered'
    BY <1>1, <2>1 DEF HandoverInv, NotifyEmpty, CompletionsAnswered, CB
  <2>3. InboxAnswered'
    BY <1>1, <2>1 DEF HandoverInv, InboxAnswered
  <2> QED  BY <2>2, <2>3 DEF HandoverInv
<1> QED  BY <1>3, <1>4

-----------------------------------------------------------------------------
(***************************************************************************)
(* Together.                                                               *)
(***************************************************************************)
LEMMA SleepInit == Init => SleepInv
<1> SUFFICES ASSUME Init PROVE SleepInv
  OBVIOUS
<1>1. PICK P \in Programs :
        /\ todo = [c \in Clients |-> P[c].calls]
        /\ app = [c \in Clients |->
                   [pc |-> P[c].start, op |-> "open", disk |-> 0,
                    ret |-> "ready", pending |-> 0, target |-> 0,
                    cleaned |-> FALSE]]
  BY Zenon DEF Init
<1>2. NDisks \in Nat \ {0} /\ 0 \in Disks /\ 0 \in 0 .. NDisks
  BY Sizes DEF Disks
<1>3. \A c \in Clients : P[c].start \in {"ready", "command", "closed"}
  BY ZenonT(60), RemoteIOAssumption
<1>4. AppTypes
  BY <1>1, <1>2, <1>3 DEF AppTypes, AppRecord, AppFields, AppPc
<1>5. SenderTypes
  <2>1. \A c \in Clients : IsProgram(todo[c], c)
    BY <1>1, RemoteIOAssumption DEF IsProgram
  <2>2. DOMAIN todo = Clients /\ DOMAIN senders = Clients
    BY ZenonT(60), <1>1 DEF Init
  <2>3. \A c \in Clients : senders[c] \in [Disks -> Seq(PartsOf(c))]
    BY DEF Init
  <2>4. /\ complete_queue \in [Clients -> Seq(AllParts)]
        /\ app_event \in [Clients -> BOOLEAN]
    BY DEF Init
  <2> QED  BY <2>1, <2>2, <2>3, <2>4 DEF SenderTypes
<1>6. DiskTypes
  BY FS_EmptySet DEF Init, DiskTypes, IOPc
<1>7. NotifyTypes
  <2>1. /\ notify = [t \in Notifiers |-> <<>>] /\ completed_reqs = <<>>
        /\ cb_thread = "notify" /\ cb_event = FALSE
    BY Zenon DEF Init
  <2>2. notify \in [Notifiers -> Seq(Groups)]
    BY <2>1
  <2>3. completed_reqs \in Seq(AllParts) /\ Len(completed_reqs) <= CompleteQueueSize
    BY <2>1, Sizes
  <2> QED  BY Zenon, <2>1, <2>2, <2>3 DEF NotifyTypes, Groups
<1>8. SlotsCovered
  BY Sizes, FS_EmptySet DEF Init, SlotsCovered
<1>9. WorkAnswered
  BY DEF Init, WorkAnswered, CommandsAnswered, PartsAnswered
<1>10. CleanupProgress
  BY <1>1, <1>3 DEF CleanupProgress, CleanupOf
<1>11. HandoverInv
  <2>1. NotifyEmpty
    BY Sizes DEF Init, NotifyEmpty, Notifiers, Disks, CB
  <2> QED  BY ZenonT(60), <2>1 DEF Init, HandoverInv, CompletionsAnswered, InboxAnswered
<1> QED  BY <1>4, <1>5, <1>6, <1>7, <1>8, <1>9, <1>10, <1>11 DEF SleepInv, RemoteTypes

\* A step of a client keeps SleepInv.
LEMMA ClientSleep ==
  ASSUME SleepInv, NEW c \in Clients, AppStep(c) \/ AppCall(c)
  PROVE  SleepInv'
<1>1. /\ AppTypes /\ SenderTypes /\ DiskTypes /\ NotifyTypes /\ SlotsCovered
      /\ WorkAnswered /\ CleanupProgress /\ HandoverInv
  BY DEF SleepInv, RemoteTypes
<1>2. AppTypes' /\ SenderTypes' /\ DiskTypes' /\ NotifyTypes'
  BY <1>1, ClientKeepsApp, ClientKeepsQueues
<1>3. SlotsCovered'
  BY <1>1, ClientLeaves DEF SlotsCovered
<1>4. CleanupProgress'
  BY <1>1, OthersCleanup, OwnCleanup DEF CleanupProgress
<1>5. WorkAnswered'
  BY <1>1, <1>4, ClientWork
<1>6. HandoverInv'
  BY <1>1, ClientHandover
<1> QED  BY <1>2, <1>3, <1>4, <1>5, <1>6 DEF SleepInv, RemoteTypes

\* A step of an I/O thread or of the kernel keeps SleepInv.
LEMMA IOSleep ==
  ASSUME SleepInv, NEW d \in Disks, IOStep(d) \/ kernel_complete(d)
  PROVE  SleepInv'
<1>1. /\ AppTypes /\ SenderTypes /\ LowerInv /\ DiskTypes
      /\ WorkAnswered /\ CleanupProgress /\ HandoverInv
  BY DEF SleepInv, RemoteTypes, LowerInv
<1>2. UNCHANGED <<app, todo, senders, complete_queue, app_event>>
  BY ZenonT(60) DEF IOStep, run, run_commands, get_all_reqs, aio_access, return_cb,
         add_reqs_activate, io_wait_returns, kernel_complete, upstream,
         requestVars, inboxVars
<1>3. AppTypes' /\ SenderTypes'
  BY ZenonT(60), <1>1, <1>2 DEF AppTypes, AppRecord, SenderTypes, IsProgram
<1>4. LowerInv'
  BY <1>1, RunKeeps, SubmitKeeps, ReapKeeps, WaitKeeps, KernelKeeps DEF IOStep
<1>5. CleanupProgress'
  <2>1. queue' = queue \/ queue' = [queue EXCEPT ![d] = <<>>]
    BY Zenon DEF IOStep, run, run_commands, get_all_reqs, aio_access, return_cb,
           add_reqs_activate, io_wait_returns, kernel_complete, diskVars
  <2> QED  BY <1>1, <1>2, <2>1, LowerCleanup
<1>6. WorkAnswered' /\ HandoverInv'
  BY <1>1, IOWork, IOHandover
<1> QED  BY <1>3, <1>4, <1>5, <1>6 DEF SleepInv, RemoteTypes, LowerInv

\* A step of the threads that hand over completions keeps SleepInv.
LEMMA NotifySleep ==
  ASSUME SleepInv,
         (\E t \in Notifiers : NotifyStep(t)) \/ cb_run \/ cb_wait_event
  PROVE  SleepInv'
<1>1. /\ AppTypes /\ SenderTypes /\ DiskTypes /\ NotifyTypes /\ SlotsCovered
      /\ WorkAnswered /\ CleanupProgress /\ HandoverInv
  BY DEF SleepInv, RemoteTypes
<1>2. UNCHANGED <<app, todo, senders, queue, comm_queue, io_event, io,
                  local_reqs, busy_aio, reaped, kernel, events>>
  BY <1>1, NotifySteps, CompletionThreadTypes
<1>3. NotifyTypes' /\ HandoverInv'
  BY <1>1, NotifySteps, CompletionThreadTypes, NotifyHandover, CompletionHandover
<1>4. SenderTypes'
  <2>1. CASE \E t \in Notifiers : NotifyStep(t)
    BY <1>1, <2>1, NotifySteps
  <2>2. CASE cb_run \/ cb_wait_event
    BY ZenonT(60), <1>1, <2>2, CompletionThreadTypes DEF SenderTypes, IsProgram
  <2> QED  BY <2>1, <2>2
<1>5. AppTypes' /\ DiskTypes' /\ SlotsCovered'
  BY ZenonT(60), <1>1, <1>2 DEF AppTypes, AppRecord, DiskTypes, SlotsCovered
<1>6. WorkAnswered'
  BY ZenonT(60), <1>1, <1>2 DEF WorkAnswered, CommandsAnswered, PartsAnswered, AnswersFor
<1>7. CleanupProgress'
  BY <1>1, <1>2, LowerCleanup
<1> QED  BY <1>3, <1>4, <1>5, <1>6, <1>7 DEF SleepInv, RemoteTypes

\* A stuttering step keeps SleepInv.
LEMMA SleepStutter == SleepInv /\ UNCHANGED vars => SleepInv'
<1> SUFFICES ASSUME SleepInv, UNCHANGED vars PROVE SleepInv'
  OBVIOUS
<1>1. UNCHANGED <<app, todo, senders, complete_queue, app_event, queue, comm_queue,
                  io_event, io, local_reqs, busy_aio, reaped, kernel, events, notify,
                  completed_reqs, cb_thread, cb_event>>
  BY DEF vars, requestVars, inboxVars, diskVars, downstream, ioVars, cbVars
<1>2. /\ AppTypes /\ SenderTypes /\ DiskTypes /\ NotifyTypes /\ SlotsCovered
      /\ WorkAnswered /\ CleanupProgress /\ HandoverInv
  BY DEF SleepInv, RemoteTypes
<1>3. AppTypes' /\ SenderTypes'
  BY ZenonT(60), <1>1, <1>2 DEF AppTypes, AppRecord, SenderTypes, IsProgram
<1>4. DiskTypes' /\ SlotsCovered'
  BY Zenon, <1>1, <1>2 DEF DiskTypes, SlotsCovered
<1>5. NotifyTypes'
  BY <1>1, <1>2 DEF NotifyTypes
<1>6. WorkAnswered'
  BY ZenonT(60), <1>1, <1>2 DEF WorkAnswered, CommandsAnswered, PartsAnswered, AnswersFor
<1>7. CleanupProgress'
  BY <1>1, <1>2, LowerCleanup
<1>8. HandoverInv'
  BY ZenonT(60), <1>1, <1>2 DEF HandoverInv, NotifyEmpty, CompletionsAnswered, InboxAnswered
<1> QED  BY <1>3, <1>4, <1>5, <1>6, <1>7, <1>8 DEF SleepInv, RemoteTypes

\* Who answers for an entry will activate the thread that sleeps over it.
LEMMA SleepImplies == SleepInv => NoSleepOnWork
<1> SUFFICES ASSUME SleepInv PROVE NoSleepOnWork
  OBVIOUS
<1>1. ASSUME NEW d \in Disks, io[d] = "asleep", ~ io_event[d]
      PROVE  /\ busy_aio[d] = 0 /\ local_reqs[d] = <<>>
             /\ queue[d] # <<>> \/ comm_queue[d] # <<>> => WillActivate(d)
  <2>1. CommandsAnswered(d) /\ PartsAnswered(d) /\ DiskTypes
    BY <1>1 DEF SleepInv, WorkAnswered, RemoteTypes
  <2>2. busy_aio[d] = 0 /\ local_reqs[d] = <<>>
    BY <1>1 DEF SleepInv, SlotsCovered
  <2>3. ASSUME queue[d] # <<>> PROVE WillActivate(d)
    <3>1. Len(queue[d]) \in Nat \ {0}
      BY <2>1, <2>3, EmptySeq DEF DiskTypes
    <3>2. AnswersFor(ClientOf(queue[d][1]), d) /\ ClientOf(queue[d][1]) \in Clients
      BY <2>1, <3>1, EntryClients DEF PartsAnswered
    <3> QED  BY <3>2 DEF AnswersFor, WillActivate
  <2>4. ASSUME comm_queue[d] # <<>> PROVE WillActivate(d)
    <3>1. Len(comm_queue[d]) \in Nat \ {0}
      BY <2>1, <2>4, EmptySeq DEF DiskTypes
    <3>2. /\ app[comm_queue[d][1].client].pc = "command_activate"
          /\ app[comm_queue[d][1].client].disk = d
          /\ comm_queue[d][1].client \in Clients
      BY <2>1, <3>1, EntryClients DEF CommandsAnswered
    <3> QED  BY <3>2 DEF WillActivate
  <2> QED  BY <2>2, <2>3, <2>4
<1> QED  BY Zenon, <1>1 DEF NoSleepOnWork, SleepInv, HandoverInv, CompletionsAnswered,
                     InboxAnswered

\* SleepInv is an invariant, from every scenario of every instance.
THEOREM SleepInvariant == Spec => []SleepInv
<1>1. SleepInv /\ [Next]_vars => SleepInv'
  BY ClientSleep, IOSleep, NotifySleep, SleepStutter DEF Next
<1> QED  BY <1>1, SleepInit, PTL DEF Spec

(***************************************************************************)
(* No thread of the asynchronous I/O sleeps on work, with any number of    *)
(* clients and disks, whatever the requests, the AIO depth and the size of *)
(* the completion queue: an I/O thread (thread::wait() in run()) sleeps    *)
(* with no I/O pending, and what is in its queues was put there by a       *)
(* client that is still to activate it; the same for the completion thread *)
(* and for a client in wait4complete().                                    *)
(***************************************************************************)
THEOREM NobodySleepsOnWork == Spec => []NoSleepOnWork
BY SleepInvariant, SleepImplies, PTL

\* Nothing of a client is left where cleanup() does not look.
LEMMA CleanupImplies == SleepInv => CleanupComplete
BY DEF SleepInv, CleanupProgress, CleanupOf, NoneQueued, CleanupComplete

(***************************************************************************)
(* remote_io::cleanup() polls the queues one after the other, while other  *)
(* clients fill them and the I/O threads empty them.  When it stops,       *)
(* none of the client's requests is in a sender or in the queue of an I/O  *)
(* thread.                                                                 *)
(***************************************************************************)
THEOREM CleanupLeavesNothing == Spec => []CleanupComplete
BY SleepInvariant, CleanupImplies, PTL

(***************************************************************************)
(* The AIO context is never asked for more slots than it has, although     *)
(* busy_aio is decremented after the callbacks have run and without a look *)
(* at the kernel, and the decrement never takes it below what is pending.  *)
(***************************************************************************)
THEOREM SlotsNeverExceeded == Spec => []SlotsCovered
<1>1. SleepInv => SlotsCovered
  BY DEF SleepInv
<1> QED  BY <1>1, SleepInvariant, PTL
=============================================================================
