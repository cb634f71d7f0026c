-------------------------------- MODULE Slab --------------------------------
(***************************************************************************)
(* slab_allocator (SAFS/libsafs/slab_allocator.{h,cpp}): objects of one    *)
(* size on a linked list that threads share, blocks that are added to it   *)
(* up to max_size, and a buffer of objects per thread in front of it.      *)
(*                                                                         *)
(* Grain.  The list is the linked list of the code: next pointers, the     *)
(* last element and the size.  What runs under the spin lock is one step;  *)
(* a block is allocated between two locks.  Sizes are counted in objects.  *)
(***************************************************************************)
EXTENDS Integers, Sequences, FiniteSets, FiniteSetsExt

CONSTANTS
  Threads,
  Scripts,          \* sets of calls: [t -> <<op, n>>*]
  Increase,         \* increase_size / obj_size
  MaxSize,          \* max_size / obj_size
  LocalBuf,         \* local_buf_size
  NULL

SlabAssumption == Increase \in Nat \ {0} /\ MaxSize \in Nat /\ LocalBuf \in Nat

\* Objects are numbered in the order of their addresses; the last block may go
\* past max_size
Objs == 1 .. MaxSize + Increase

VARIABLES next, head, last, size,   \* linked_obj_list
          curr_size,
          blocks,                   \* objects of alloc_bufs
          local,                    \* the per-thread queues
          th

vars == <<next, head, last, size, curr_size, blocks, local, th>>
list == <<next, head, last, size>>

Init ==
  /\ next = [o \in Objs |-> NULL] /\ head = NULL /\ last = NULL /\ size = 0
  /\ curr_size = 0 /\ blocks = 0
  /\ local = [t \in Threads |-> <<>>]
  /\ \E s \in Scripts :
       th = [t \in Threads |-> [calls |-> s[t], pc |-> "idle", want |-> 0,
                                got |-> <<>>, own |-> <<>>, null |-> 0]]

To(t, s) == th' = [th EXCEPT ![t] = s]

-----------------------------------------------------------------------------
(* linked_obj_list                                                           *)

\* The objects reached from o, at most n of them
RECURSIVE Chain(_, _, _)
Chain(nx, o, n) == IF o = NULL \/ n = 0 THEN <<>> ELSE <<o>> \o Chain(nx, nx[o], n - 1)

\* A temporary list built by add: every object becomes the first.  Its head,
\* its last element, and the next pointers in it; tail is what follows it.
TmpHead(os) == os[Len(os)]
TmpLast(os) == os[1]
Linked(os, tail) ==
  [o \in Objs |-> IF o \in {os[i] : i \in DOMAIN os}
                    THEN LET i == CHOOSE i \in DOMAIN os : os[i] = o
                         IN IF i = 1 THEN tail ELSE os[i - 1]
                    ELSE next[o]]

\* add_list: the temporary list goes in front
add_list(os) ==
  IF os = <<>> THEN UNCHANGED list
  ELSE /\ next' = Linked(os, IF size = 0 THEN NULL ELSE head)
       /\ head' = TmpHead(os)
       /\ last' = IF size = 0 THEN TmpLast(os) ELSE last
       /\ size' = size + Len(os)

\* pop cuts the first num objects off
Popped(num) == Chain(next, head, num)
pop(num) ==
  LET os == Popped(num)
  IN /\ head' = IF os = <<>> THEN head ELSE next[os[Len(os)]]
     /\ next' = IF os = <<>> THEN next ELSE [next EXCEPT ![os[Len(os)]] = NULL]
     /\ size' = size - Len(os)
     /\ last' = IF size = Len(os) THEN NULL ELSE last

-----------------------------------------------------------------------------
(* Calls                                                                     *)

Idle(t, op) == th[t].pc = "idle" /\ th[t].calls # <<>> /\ Head(th[t].calls)[1] = op
NumOf(t) == Head(th[t].calls)[2]

\* alloc(objs, n)
StartAlloc(t) ==
  /\ Idle(t, "alloc")
  /\ To(t, [th[t] EXCEPT !.pc = "pop", !.want = NumOf(t), !.got = <<>>])
  /\ UNCHANGED <<list, curr_size, blocks, local>>

\* alloc(): from the thread's buffer, which is filled when it is empty
StartAlloc1(t) ==
  LET s == th[t]
  IN /\ Idle(t, "alloc1")
     /\ IF local[t] # <<>>
          THEN /\ To(t, [s EXCEPT !.own = Append(@, Head(local[t])), !.calls = Tail(@)])
               /\ local' = [local EXCEPT ![t] = Tail(@)]
          ELSE /\ To(t, [s EXCEPT !.pc = "pop", !.got = <<>>,
                                  !.want = Max({1, LocalBuf})])
               /\ UNCHANGED local
     /\ UNCHANGED <<list, curr_size, blocks>>

\* What the caller of alloc does with the objects it got
Got(t, os) ==
  LET s == [th[t] EXCEPT !.pc = "idle", !.want = 0, !.got = <<>>, !.calls = Tail(@)]
  IN IF Head(th[t].calls)[1] = "alloc" \/ LocalBuf = 0
       THEN To(t, [s EXCEPT !.own = @ \o os]) /\ UNCHANGED local
       ELSE /\ To(t, [s EXCEPT !.own = Append(@, Head(os))])
            /\ local' = [local EXCEPT ![t] = Tail(os)]

\* One turn of the loop: objects from the list, under the lock
Pop(t) ==
  LET s == th[t]
      os == s.got \o Popped(s.want - Len(s.got))
  IN /\ s.pc = "pop"
     /\ pop(s.want - Len(s.got))
     /\ IF Len(os) = s.want THEN Got(t, os)
        ELSE To(t, [s EXCEPT !.pc = "grow", !.got = os]) /\ UNCHANGED local
     /\ UNCHANGED <<curr_size, blocks>>

\* Too few: the room for a block is claimed under the lock
Grow(t) ==
  /\ th[t].pc = "grow"
  /\ IF curr_size < MaxSize
       THEN curr_size' = curr_size + Increase /\ To(t, [th[t] EXCEPT !.pc = "block"])
       ELSE To(t, [th[t] EXCEPT !.pc = "fail"]) /\ UNCHANGED curr_size
  /\ UNCHANGED <<list, blocks, local>>

\* The block is cut into objects that join the list
Block(t) ==
  /\ th[t].pc = "block"
  /\ blocks' = blocks + Increase
  /\ add_list([i \in 1..Increase |-> blocks + i])
  /\ To(t, [th[t] EXCEPT !.pc = "pop"])
  /\ UNCHANGED <<curr_size, local>>

\* No more memory: what was taken goes back, and the call returns nothing
Fail(t) ==
  /\ th[t].pc = "fail"
  /\ add_list(th[t].got)
  /\ To(t, [th[t] EXCEPT !.pc = "idle", !.want = 0, !.got = <<>>, !.calls = Tail(@),
                         !.null = @ + 1])
  /\ UNCHANGED <<curr_size, blocks, local>>

\* free(objs, n) of the objects the caller has had longest
free(t) ==
  LET s == th[t]
      n == Min({NumOf(t), Len(s.own)})
  IN /\ Idle(t, "free")
     /\ add_list(SubSeq(s.own, 1, n))
     /\ To(t, [s EXCEPT !.own = SubSeq(@, n + 1, Len(@)), !.calls = Tail(@)])
     /\ UNCHANGED <<curr_size, blocks, local>>

\* free(obj): to the thread's buffer, which is emptied when it is full
free1(t) ==
  LET s == th[t]
      full == Len(local[t]) >= LocalBuf
  IN /\ Idle(t, "free1")
     /\ IF s.own = <<>> THEN UNCHANGED <<list, local>>
        ELSE IF LocalBuf = 0 THEN add_list(<<Head(s.own)>>) /\ UNCHANGED local
        ELSE /\ add_list(IF full THEN local[t] ELSE <<>>)
             /\ local' = [local EXCEPT ![t] = Append(IF full THEN <<>> ELSE @, Head(s.own))]
     /\ To(t, [s EXCEPT !.own = IF @ = <<>> THEN @ ELSE Tail(@), !.calls = Tail(s.calls)])
     /\ UNCHANGED <<curr_size, blocks>>

-----------------------------------------------------------------------------
Next == \E t \in Threads :
          \/ StartAlloc(t) \/ StartAlloc1(t) \/ Pop(t) \/ Grow(t) \/ Block(t)
          \/ Fail(t) \/ free(t) \/ free1(t)

Spec == Init /\ [][Next]_vars

-----------------------------------------------------------------------------
(* Properties.                                                               *)

\* The linked list is intact: from head the next pointers lead through size
\* different objects to the last one.
ListIntact ==
  LET c == Chain(next, head, size + 1)
  IN /\ Len(c) = size /\ Cardinality(Range(c)) = size
     /\ last = IF size = 0 THEN NULL ELSE c[size]

\* Every object of the blocks is in exactly one place: on the list, in a
\* thread's buffer, on its way to a caller, or with one caller.  No object is
\* handed out twice and none is lost, and the linked list is intact.
ObjectsConserved ==
  LET listed == Range(Chain(next, head, size))
      holders(o) == {t \in Threads : o \in Range(th[t].own)}
      passing(o) == {t \in Threads : o \in Range(th[t].got)}
      buffered(o) == {t \in Threads : o \in Range(local[t])}
  IN /\ ListIntact
     /\ \A o \in 1..blocks :
          Cardinality(holders(o)) + Cardinality(passing(o)) + Cardinality(buffered(o))
            + (IF o \in listed THEN 1 ELSE 0) = 1

\* The memory claimed stays below max_size plus one block, although threads
\* allocate blocks without the lock, and the blocks never exceed the claim.
SizeBounded == blocks <= curr_size /\ curr_size < MaxSize + Increase
=============================================================================
