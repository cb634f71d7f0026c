------------------------------- MODULE Queues -------------------------------
(***************************************************************************)
(* The FIFO queues of SAFS/libsafs/container.h: the circular buffer        *)
(* fifo_queue that can grow, thread_safe_FIFO_queue, which guards it with  *)
(* a spin lock, and blocking_FIFO_queue, whose producers and consumers     *)
(* sleep on one condition variable.                                        *)
(*                                                                         *)
(* Grain.  What runs under the lock or the mutex is one step; waiting      *)
(* gives the mutex up; the broadcast after a fetch comes after the unlock. *)
(* A signal wakes any one waiter, waking up for no reason is allowed.      *)
(***************************************************************************)
EXTENDS Integers, Sequences, FiniteSets, FiniteSetsExt

CONSTANTS
  Producers, Consumers, Wakers,
  Configs,    \* records: kind, init and max sizes, and what the threads do
  Junk        \* a slot of the buffer no entry was put in

VARIABLES
  conf,          \* the configuration of this behaviour
  buf, start, end,
  interrupted,
  waiters,       \* threads asleep on cond
  pr, co, wk,    \* producers, consumers and threads that call wakeup
  given,         \* the entries added so far, in the order of the adds
  out,           \* the entries fetched so far, in the order of the fetches
  failed         \* assertions that failed

vars == <<conf, buf, start, end, interrupted, waiters, pr, co, wk, given, out, failed>>

-----------------------------------------------------------------------------
(* fifo_queue                                                                *)

PowerOf2(n) == CHOOSE s \in {2^k : k \in 0..n} : s >= n /\ s < 2 * n

NewBuf(n) == [i \in 0 .. PowerOf2(n) - 1 |-> Junk]

get_size(q) == Cardinality(DOMAIN q.buf)
get_num_entries(q) == q.end - q.start
get_num_remaining(q) == get_size(q) - get_num_entries(q)
is_full(q) == q.end - q.start >= get_size(q)
is_empty(q) == q.start >= q.end
At(q, i) == q.buf[i % get_size(q)]

\* fetch: the entries taken, and the queue without them
Taken(q, num) == LET n == Min({num, get_num_entries(q)})
                 IN [i \in 1..n |-> At(q, q.start + i - 1)]
Shortened(q, num) == [q EXCEPT !.start = @ + Min({num, get_num_entries(q)})]

\* The queue with the first n of the entries es after its last one
Put(q, es, n) ==
  LET size == get_size(q)
      k == [i \in DOMAIN q.buf |-> ((i - q.end) % size) + 1]
  IN [q EXCEPT !.end = @ + n,
               !.buf = [i \in DOMAIN q.buf |-> IF k[i] <= n THEN es[k[i]] ELSE q.buf[i]]]

\* add(T *, int): one entry after the other until the queue is full
NumAdded(q, es) == Min({Len(es), get_num_remaining(q)})
Added(q, es) == Put(q, es, NumAdded(q, es))

\* add(fifo_queue *): a piece up to the end of the buffer, then, when that was
\* not enough, one from its beginning
PieceAdded(q, es) ==
  LET length == Min({get_size(q) - (q.end % get_size(q)), get_num_remaining(q)})
      n1 == Min({Len(es), length})
      rest == get_num_remaining(q) - n1
  IN IF n1 < length \/ rest = 0 THEN n1 ELSE n1 + Min({Len(es) - n1, rest})

\* A larger buffer whose entries stay where they were
ExpandInPlace(q, size) ==
  [q EXCEPT !.buf = [i \in 0 .. PowerOf2(size) - 1 |->
                       IF i \in DOMAIN q.buf THEN q.buf[i] ELSE Junk]]

\* A larger buffer, with the entries moved to its beginning
expand_queue(q, size) ==
  [buf |-> [i \in 0 .. PowerOf2(size) - 1 |->
              IF i < get_num_entries(q) THEN At(q, q.start + i) ELSE Junk],
   start |-> 0, end |-> get_num_entries(q)]

\* Doubling until there is room or the limit is reached
Doubled(size, need) == LET ok == {s \in {size * 2^k : k \in 0..need} :
                                    s >= need \/ s >= conf.max}
                       IN Min(ok)

Q == [buf |-> buf, start |-> start, end |-> end]
SetQ(q1) == \E q \in {q1} : buf' = q.buf /\ start' = q.start /\ end' = q.end

Init ==
  /\ conf \in Configs
  /\ buf = NewBuf(conf.init) /\ start = 0 /\ end = 0
  /\ interrupted = FALSE /\ waiters = {}
  /\ pr = [p \in Producers |-> [calls |-> conf.add[p], pc |-> "idle", added |-> 0]]
  /\ co = [c \in Consumers |-> [calls |-> conf.fetch[c], pc |-> "idle"]]
  /\ wk = [w \in Wakers |-> conf.wakeups]
  /\ given = <<>> /\ out = <<>> /\ failed = {}

Check(name, cond) == failed' = IF cond THEN failed ELSE failed \cup {name}

-----------------------------------------------------------------------------
(* thread_safe_FIFO_queue                                                    *)

\* add grows the queue up to max_size when entries are left
TsAdd(p) ==
  LET s == pr[p]
      es == Head(s.calls).entries
  IN /\ conf.kind = "spin" /\ s.calls # <<>>
     /\ \E q1 \in {Added(Q, es)} :
          LET ret == q1.end - end
              left == SubSeq(es, ret + 1, Len(es))
              grows == ret < Len(es) /\ get_size(Q) < conf.max
              size == Doubled(get_size(Q), get_size(Q) + Len(left))
          IN /\ \E q2 \in {IF grows THEN Added(expand_queue(q1, size), left) ELSE q1} :
                  /\ SetQ(q2)
                  /\ Check("add", grows => q2.end - q2.start = get_num_entries(Q) + Len(es))
                  /\ given' = given \o SubSeq(es, 1, q2.end - q2.start - get_num_entries(Q))
             /\ pr' = [pr EXCEPT ![p].calls =
                         IF grows \/ left = <<>> THEN Tail(@)
                         ELSE <<[Head(@) EXCEPT !.entries = left]>> \o Tail(@)]
     /\ UNCHANGED <<conf, interrupted, waiters, co, wk, out>>

TsFetch(c) ==
  LET s == co[c]
      num == Head(s.calls).num
  IN /\ conf.kind = "spin" /\ s.calls # <<>> /\ ~is_empty(Q)
     /\ SetQ(Shortened(Q, num)) /\ out' = out \o Taken(Q, num)
     /\ co' = [co EXCEPT ![c].calls = Tail(@)]
     /\ UNCHANGED <<conf, interrupted, waiters, pr, wk, given, failed>>

-----------------------------------------------------------------------------
(* blocking_FIFO_queue                                                       *)

\* A thread that takes the mutex is not asleep
Awake(t) == t \notin waiters

\* The size add_partial expands the queue to
NewSize(es) == Min({Max({get_size(Q) * 2, get_num_entries(Q) + Len(es)}), conf.max})

\* One iteration of add_partial.  A caller that has not added enough sleeps
\* while the queue is full.
add_partial(p) ==
  LET s == pr[p]
      call == Head(s.calls)
      es == call.entries
      grows == get_num_remaining(Q) < Len(es) /\ get_size(Q) < conf.max
  IN /\ conf.kind = "blocking" /\ s.calls # <<>> /\ s.pc = "idle"
     /\ \E q0 \in {IF grows THEN expand_queue(Q, NewSize(es)) ELSE Q} :
        \E n \in {PieceAdded(q0, es)} :
          LET left == SubSeq(es, n + 1, Len(es))
              added == s.added + n
              enough == added >= call.min \/ left = <<>>
              sleeps == ~enough /\ n = get_num_remaining(q0)
          IN /\ SetQ(Put(q0, es, n))
             /\ waiters' = (IF is_empty(Q) THEN {} ELSE waiters)
                             \cup (IF sleeps THEN {p} ELSE {})
             /\ pr' = [pr EXCEPT ![p] =
                         [calls |-> IF enough THEN Tail(s.calls)
                                    ELSE <<[call EXCEPT !.entries = left]>>
                                           \o Tail(s.calls),
                          pc |-> IF sleeps THEN "full" ELSE "idle",
                          added |-> IF enough THEN 0 ELSE added]]
             /\ given' = given \o SubSeq(es, 1, n)
     /\ Check("expand_queue", grows => get_size(Q) < PowerOf2(NewSize(es)))
     /\ UNCHANGED <<conf, interrupted, co, wk, out>>

\* The producer wakes up: it goes back to sleep while the queue is full
Full(p) ==
  /\ pr[p].pc = "full" /\ Awake(p)
  /\ IF is_full(Q) THEN waiters' = waiters \cup {p} /\ UNCHANGED pr
     ELSE pr' = [pr EXCEPT ![p].pc = "idle"] /\ UNCHANGED waiters
  /\ UNCHANGED <<conf, buf, start, end, interrupted, co, wk, given, out, failed>>

\* fetch, from the test of the loop on; it sleeps while the queue is empty
FetchSleeps(c) ==
  /\ conf.kind = "blocking" /\ co[c].pc = "idle" /\ co[c].calls # <<>> /\ Awake(c)
  /\ LET call == Head(co[c].calls)
     IN call.blocking /\ is_empty(Q) /\ ~(call.interruptible /\ interrupted)
  /\ waiters' = waiters \cup {c}
  /\ UNCHANGED <<conf, buf, start, end, interrupted, pr, co, wk, given, out, failed>>

\* fetch without the broadcast to producers that wait for room
FetchQuiet(c) ==
  LET call == Head(co[c].calls)
  IN /\ conf.kind = "blocking" /\ co[c].pc = "idle" /\ co[c].calls # <<>> /\ Awake(c)
     /\ ~call.blocking \/ ~is_empty(Q) \/ (call.interruptible /\ interrupted)
     /\ interrupted' = (interrupted /\ ~(call.blocking /\ is_empty(Q)))
     /\ SetQ(Shortened(Q, call.num)) /\ out' = out \o Taken(Q, call.num)
     /\ co' = [co EXCEPT ![c].calls = Tail(@)]
     /\ UNCHANGED <<conf, waiters, pr, wk, given, failed>>

\* fetch takes up to num entries; an interrupted one comes back with nothing
fetch(c) ==
  LET call == Head(co[c].calls)
  IN /\ conf.kind = "blocking" /\ co[c].pc = "idle" /\ co[c].calls # <<>> /\ Awake(c)
     /\ ~call.blocking \/ ~is_empty(Q) \/ (call.interruptible /\ interrupted)
     /\ interrupted' = (interrupted /\ ~(call.blocking /\ is_empty(Q)))
     /\ SetQ(Shortened(Q, call.num)) /\ out' = out \o Taken(Q, call.num)
     /\ co' = [co EXCEPT ![c].calls = Tail(@),
                         ![c].pc = IF is_full(Q) THEN "broadcast" ELSE "idle"]
     /\ UNCHANGED <<conf, waiters, pr, wk, given, failed>>

\* Having taken entries from a full queue, it wakes everyone
Broadcast(c) ==
  /\ co[c].pc = "broadcast"
  /\ waiters' = {}
  /\ co' = [co EXCEPT ![c].pc = "idle"]
  /\ UNCHANGED <<conf, buf, start, end, interrupted, pr, wk, given, out, failed>>

\* wakeup interrupts a consumer that waits for entries
wakeup(w) ==
  /\ conf.kind = "blocking" /\ wk[w] > 0
  /\ wk' = [wk EXCEPT ![w] = @ - 1]
  /\ IF is_empty(Q)
       THEN /\ interrupted' = TRUE
            /\ \/ waiters = {} /\ UNCHANGED waiters
               \/ \E t \in waiters : waiters' = waiters \ {t}
       ELSE UNCHANGED <<interrupted, waiters>>
  /\ UNCHANGED <<conf, buf, start, end, pr, co, given, out, failed>>

-----------------------------------------------------------------------------
Produce(p) == TsAdd(p) \/ add_partial(p) \/ Full(p)
Consume(c) == TsFetch(c) \/ FetchSleeps(c) \/ fetch(c) \/ Broadcast(c)

\* A failed assertion ends the program
Next == /\ failed = {}
        /\ \/ \E p \in Producers : Produce(p)
           \/ \E c \in Consumers : Consume(c)
           \/ \E w \in Wakers : wakeup(w)

-----------------------------------------------------------------------------
(* Properties.                                                               *)

\* The entries of the buffer, oldest first
Contents == [i \in 1 .. end - start |-> At(Q, start + i - 1)]

\* The circular buffer implements a queue, through every wrap-around, partial
\* add and expansion: what was fetched and what is still there are the entries
\* added, in the order of the adds.  The assertion of a blocking add on an expanded
\* queue holds; the one of thread_safe_FIFO_queue::add, that everything fits after the
\* growth (container.h:316), fails only with the queue full at its limit.
FIFOOrder ==
  /\ out \o Contents = given
  /\ failed \subseteq {"add"}
  /\ failed # {} => get_size(Q) >= conf.max /\ is_full(Q)

\* No sleeper is forgotten: every blocking add ends once there is room and every
\* blocking fetch once there are entries or it was interrupted, unless a failed
\* assertion ends the program.
CallsMade ==
  \/ failed # {}
  \/ /\ \A p \in Producers : pr[p].calls = <<>>
     /\ \A c \in Consumers : co[c].calls = <<>>
=============================================================================
