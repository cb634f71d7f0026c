------------------------------ MODULE Messages ------------------------------
(***************************************************************************)
(* messaging.{h,cpp}: objects travel between threads in messages.  A       *)
(* message owns a buffer of a slab allocator; copying a message moves the  *)
(* buffer.  Threads share a thread_safe_msg_sender or have a               *)
(* simple_msg_sender of their own, and a receiver takes the messages off   *)
(* the destination queue (a thread_safe_FIFO_queue, Queues.tla), copies    *)
(* them to its own memory when it is on another node, and reads them.      *)
(*                                                                         *)
(* Grain.  What runs under the sender's spin lock is one step, an addition *)
(* to the queue another.  A receiver's work on its messages is private.    *)
(***************************************************************************)
EXTENDS Integers, Sequences, FiniteSets, SequencesExt, FiniteSetsExt

CONSTANTS
  Threads,
  Plans,            \* sets of calls: [t -> <<op, objects>>*]
  SizeOf(_),        \* get_serialized_size
  Written(_),       \* what serialize writes: the same but for a write of at most
                    \* MAX_INLINE_SIZE bytes in a message without inline data
  MsgSize,          \* size(): the buffers of the allocator
  Buffers,          \* the allocator's buffers
  Objs,             \* the objects of every plan
  NULL

VARIABLES buf,      \* the message of the thread_safe_msg_sender
          bufs,     \* msg_buffer of each thread's simple_msg_sender
          nobjs,    \* simple_msg_sender::num_objs
          queue,    \* the destination queue
          used,     \* buffers that are allocated
          snd,      \* threads that send
          rcv       \* the receiver: messages fetched, and objects read

mvars == <<buf, bufs, nobjs, queue, used, snd, rcv>>

-----------------------------------------------------------------------------
(* message: objs is what the buffer holds, off is curr_get_off              *)

\* init(): a message without a buffer
NoMsg == [b |-> NULL, objs |-> <<>>, off |-> 0, num |-> 0]
NewMsg(b) == [NoMsg EXCEPT !.b = b]
FreeBuf(n) == CHOOSE B \in SUBSET (Buffers \ used) : Cardinality(B) = n

\* Where the i-th object begins; past the last, curr_add_off
Begins(m, i) == MapThenSumSet(LAMBDA j : Written(m.objs[j]), 1 .. i - 1)
is_empty(m) == m.num = 0

\* add: as many of the objects as fit
NumFit(m, os) ==
  LET fits(i) == Begins([m EXCEPT !.objs = @ \o os], Len(m.objs) + i) + SizeOf(os[i]) <= MsgSize
  IN Max({n \in 0..Len(os) : \A i \in 1..n : fits(i)})
add(m, os) == [m EXCEPT !.objs = @ \o SubSeq(os, 1, NumFit(m, os)), !.num = @ + NumFit(m, os)]
Rest(m, os) == SubSeq(os, NumFit(m, os) + 1, Len(os))

\* copy_to: the other message gets all of the buffer and is read from its start
copy_to(m, b) == [b |-> b, objs |-> m.objs, off |-> 0, num |-> m.num]

\* get_next_addr: the object that begins at the offset, after which the offset is
\* advanced by get_serialized_size
ObjAt(m) ==
  LET at == {i \in DOMAIN m.objs : Begins(m, i) = m.off}
  IN IF at = {} THEN NULL ELSE m.objs[CHOOSE i \in at : TRUE]
get_next(m) == [m EXCEPT !.off = @ + SizeOf(ObjAt(m)), !.num = @ - 1]

\* get_next_objs: all that remain
RECURSIVE get_next_objs(_)
get_next_objs(m) == IF m.num = 0 THEN <<>> ELSE <<ObjAt(m)>> \o get_next_objs(get_next(m))

-----------------------------------------------------------------------------
Init ==
  \E p \in Plans, b \in {CHOOSE b \in Buffers : TRUE} :
    /\ buf = NewMsg(b) /\ used = {b}
    /\ bufs = [t \in Threads |-> <<>>] /\ nobjs = [t \in Threads |-> 0]
    /\ queue = <<>>
    /\ snd = [t \in Threads |-> [plan |-> p[t], pc |-> "idle", objs |-> <<>>, tmp |-> NoMsg]]
    /\ rcv = [msgs |-> <<>>, objs |-> <<>>]

Objects(t) == Head(snd[t].plan)[2]
Call(t, op) == snd[t].pc = "idle" /\ snd[t].plan # <<>> /\ Head(snd[t].plan)[1] = op
At(t, pc) == snd[t].pc = pc
Return(t) == snd' = [snd EXCEPT ![t].pc = "idle", ![t].plan = Tail(@), ![t].objs = <<>>, ![t].tmp = NoMsg]

\* thread_safe_msg_sender::send_cached: what fits goes to the buffer; a flush
\* when something is left
StartSend(t) ==
  /\ \/ Call(t, "cached") /\ snd' = [snd EXCEPT ![t].pc = "add", ![t].objs = Objects(t)]
     \/ Call(t, "flush") /\ snd' = [snd EXCEPT ![t].pc = "flush"]
     \/ Call(t, "send") /\ snd' = [snd EXCEPT ![t].pc = "flush", ![t].objs = Objects(t)]
  /\ UNCHANGED <<buf, bufs, nobjs, queue, used, rcv>>

send_cached(t) ==
  LET os == snd[t].objs
  IN /\ At(t, "add")
     /\ buf' = add(buf, os)
     /\ IF Rest(buf, os) = <<>> THEN Return(t)
        ELSE snd' = [snd EXCEPT ![t].pc = "flush", ![t].objs = Rest(buf, os)]
     /\ UNCHANGED <<bufs, nobjs, queue, used, rcv>>

\* Where flush returns to
AfterFlush(t) ==
  CASE Head(snd[t].plan)[1] = "flush" -> Return(t)
    [] Head(snd[t].plan)[1] = "cached" -> snd' = [snd EXCEPT ![t].pc = "add", ![t].tmp = NoMsg]
    [] OTHER -> snd' = [snd EXCEPT ![t].pc = "send", ![t].tmp = NoMsg]

\* A flush that leaves its message in the sender as well
FlushShared(t) ==
  /\ At(t, "flush")
  /\ IF is_empty(buf) THEN AfterFlush(t)
     ELSE snd' = [snd EXCEPT ![t].pc = "queue", ![t].tmp = buf]
  /\ UNCHANGED <<buf, used, bufs, nobjs, queue, rcv>>

\* flush: the buffered message is exchanged for a new one under the lock
flush(t) ==
  /\ At(t, "flush")
  /\ IF is_empty(buf) THEN AfterFlush(t) /\ UNCHANGED <<buf, used>>
     ELSE \E B \in {FreeBuf(1)} :
            /\ snd' = [snd EXCEPT ![t].pc = "queue", ![t].tmp = buf]
            /\ buf' = NewMsg(CHOOSE b \in B : TRUE)
            /\ used' = used \cup B
  /\ UNCHANGED <<bufs, nobjs, queue, rcv>>

\* ... and added to the queue after the lock is released
Enqueue(t) ==
  /\ At(t, "queue")
  /\ queue' = Append(queue, snd[t].tmp)
  /\ AfterFlush(t)
  /\ UNCHANGED <<buf, bufs, nobjs, used, rcv>>

\* send: messages of the thread's own, one after the other
send(t) ==
  LET os == snd[t].objs
  IN /\ At(t, "send")
     /\ IF os = <<>> THEN Return(t) /\ UNCHANGED <<queue, used>>
        ELSE \E B \in {FreeBuf(1)} :
               \E m \in {NewMsg(CHOOSE b \in B : TRUE)} :
                 /\ queue' = Append(queue, add(m, os))
                 /\ used' = used \cup B
                 /\ snd' = [snd EXCEPT ![t].objs = Rest(m, os)]
     /\ UNCHANGED <<buf, bufs, nobjs, rcv>>

-----------------------------------------------------------------------------
(* simple_msg_sender                                                         *)

\* The messages that hold the objects: msg_buffer adds one when the last is full
RECURSIVE add_objs(_, _, _)
add_objs(ms, os, free) ==
  IF os = <<>> THEN ms
  ELSE LET b == CHOOSE b \in free : TRUE
       IN IF ms = <<>> \/ NumFit(Last(ms), os) = 0
            THEN add_objs(Append(ms, NewMsg(b)), os, free \ {b})
            ELSE add_objs(Append(Front(ms), add(Last(ms), os)), Rest(Last(ms), os), free)

BufsOf(ms) == {ms[i].b : i \in DOMAIN ms}

simple_send_cached(t) ==
  /\ Call(t, "own")
  /\ \E ms \in {add_objs(bufs[t], Objects(t), Buffers \ used)} :
       /\ bufs' = [bufs EXCEPT ![t] = ms]
       /\ used' = used \cup BufsOf(ms)
  /\ nobjs' = [nobjs EXCEPT ![t] = @ + Len(Objects(t))]
  /\ Return(t)
  /\ UNCHANGED <<buf, queue, rcv>>

\* flush: all the messages move to the queue at once
simple_flush(t) ==
  /\ Call(t, "ownflush")
  /\ queue' = queue \o bufs[t]
  /\ bufs' = [bufs EXCEPT ![t] = <<>>]
  /\ nobjs' = [nobjs EXCEPT ![t] = 0]
  /\ Return(t)
  /\ UNCHANGED <<buf, used, rcv>>

-----------------------------------------------------------------------------
(* The receiver                                                              *)

\* Messages are taken off the queue into the receiver's array
Fetch(k) ==
  /\ rcv.msgs = <<>> /\ k <= Len(queue)
  /\ rcv' = [rcv EXCEPT !.msgs = SubSeq(queue, 1, k)]
  /\ queue' = SubSeq(queue, k + 1, Len(queue))
  /\ UNCHANGED <<buf, bufs, nobjs, used, snd>>

\* A message of another node: it is copied, read from the copy, and both are
\* cleared.  The callers copy a message before they read from it: copy_to resets
\* the offset but not the number of objects.
CopyAndRead ==
  /\ rcv.msgs # <<>> /\ Head(rcv.msgs).off = 0
  /\ \E B \in {FreeBuf(1)} :
       \E m \in {copy_to(Head(rcv.msgs), CHOOSE b \in B : TRUE)} :
         rcv' = [msgs |-> Tail(rcv.msgs), objs |-> rcv.objs \o get_next_objs(m)]
  /\ used' = used \ {Head(rcv.msgs).b}
  /\ UNCHANGED <<buf, bufs, nobjs, queue, snd>>

\* A message is read in two parts by a receiver with little room
ReadOne ==
  LET m == Head(rcv.msgs)
      left == get_next(m)
  IN /\ rcv.msgs # <<>>
     /\ rcv' = [msgs |-> IF left.num = 0 THEN Tail(rcv.msgs) ELSE <<left>> \o Tail(rcv.msgs),
                objs |-> Append(rcv.objs, ObjAt(m))]
     /\ used' = IF left.num = 0 THEN used \ {m.b} ELSE used
     /\ UNCHANGED <<buf, bufs, nobjs, queue, snd>>

-----------------------------------------------------------------------------
Next ==
  \/ \E t \in Threads :
       \/ StartSend(t) \/ send_cached(t) \/ flush(t) \/ Enqueue(t) \/ send(t)
       \/ simple_send_cached(t) \/ simple_flush(t)
  \/ \E k \in 1..2 : Fetch(k)
  \/ CopyAndRead
  \/ ReadOne

Spec == Init /\ [][Next]_mvars

-----------------------------------------------------------------------------
(* Properties.                                                               *)

AllMsgs ==
  LET private == [t \in Threads |-> <<snd[t].tmp>> \o bufs[t]]
  IN <<buf>> \o queue \o rcv.msgs
       \o FlattenSeq([i \in 1..Cardinality(Threads) |-> private[SetToSeq(Threads)[i]]])
Held == {i \in DOMAIN AllMsgs : AllMsgs[i].b # NULL}

\* A buffer belongs to exactly one message, although messages are copied by
\* memcpy, and the allocator's buffers in use are those of the messages: none
\* is leaked and none is freed twice.
BuffersOwned ==
  /\ {AllMsgs[i].b : i \in Held} = used
  /\ Cardinality(used) = Cardinality(Held)

\* Objects a thread has not yet handed to a message
Left(t) ==
  LET p == snd[t].plan
  IN FlattenSeq([i \in DOMAIN p |-> IF i = 1 /\ snd[t].pc # "idle" THEN snd[t].objs ELSE p[i][2]])

\* Every object is in exactly one place: not yet sent, in a message, or
\* received.  Flushes by several threads of one sender, objects that do not fit
\* and messages that are copied or read in part neither lose nor repeat one.
ObjectsOnce ==
  LET all == rcv.objs
               \o FlattenSeq([i \in DOMAIN AllMsgs |-> get_next_objs(AllMsgs[i])])
               \o FlattenSeq([i \in 1..Cardinality(Threads) |-> Left(SetToSeq(Threads)[i])])
  IN Len(all) = Cardinality(Objs) /\ ToSet(all) = Objs

=============================================================================
