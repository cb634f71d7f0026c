----------------------------- MODULE PageArrays -----------------------------
(***************************************************************************)
(* Who holds the pages that a computation reads.  A request that runs a    *)
(* user_compute collects its pages, each with a reference; compute() moves *)
(* them into a page_byte_array on the stack, which the user may clone; a   *)
(* clone moves them on, and destroying it gives the references back        *)
(* (SAFS/libsafs/global_cached_private.cpp).  The pages are kept in an     *)
(* embedded_array (container.h), which leaves its own buffer for one on    *)
(* the heap when it grows, and requests and clones live in memory that an  *)
(* obj_allocator (slab_allocator.h) uses again.                            *)
(*                                                                         *)
(* Grain.  One step is a call of one thread.  Of page_status only pg is    *)
(* kept.  Junk is what memory that was never written holds.                *)
(***************************************************************************)
EXTENDS Integers, Sequences, FiniteSets, FiniteSetsExt

CONSTANTS
  Pages,
  Shapes,           \* the pages of a request, in order
  ReqAddrs,         \* memory of the request_allocator
  ArrAddrs,         \* memory of orig_array_allocator
  SimpAddrs,        \* memory of simp_array_allocator
  Stack,            \* the address of the array on the stack
  Size,             \* the elements embedded in an embedded_array
  MaxReqs,          \* bound: requests
  HeapIds,
  NULL, Junk

PageArraysAssumption == Size \in Nat \ {0} /\ MaxReqs \in Nat

VARIABLES refcnt,   \* page -> references
          heap,     \* buffers of embedded_arrays, NULL when not allocated
          reqs,     \* original_io_request
          arrs,     \* original_req_byte_array
          simps,    \* simple_page_byte_array
          made      \* requests so far

vars == <<refcnt, heap, reqs, arrs, simps, made>>

-----------------------------------------------------------------------------
(* embedded_array: an array and the heap before it give both after it        *)

embedded_array == [buf |-> [i \in 0 .. Size - 1 |-> Junk], real |-> NULL, cap |-> Size]

Elem(h, e, i) == IF e.real = NULL THEN e.buf[i] ELSE h[e.real][i]

Put(h, e, i, x) ==
  IF e.real = NULL THEN [h |-> h, e |-> [e EXCEPT !.buf[i] = x]]
  ELSE [h |-> [h EXCEPT ![e.real][i] = x], e |-> e]

delete(h, id) == IF id = NULL THEN h ELSE [h EXCEPT ![id] = NULL]
new(h) == CHOOSE id \in HeapIds : h[id] = NULL

resize(h, e, n) ==
  IF n <= e.cap THEN [h |-> h, e |-> e]
  ELSE LET grown == [i \in 0 .. n - 1 |-> IF i < e.cap THEN Elem(h, e, i) ELSE Junk]
       IN [h |-> [delete(h, e.real) EXCEPT ![new(h)] = grown],
           e |-> [e EXCEPT !.real = new(h), !.cap = n]]

clear(e) == IF e.real = NULL THEN e ELSE [e EXCEPT !.real = NULL, !.cap = Size]

\* assign takes the elements away from the other array
assign(h, to, from) ==
  IF from.real = NULL
    THEN [h |-> delete(h, to.real),
          to |-> [clear(to) EXCEPT !.buf = from.buf, !.cap = Size],
          from |-> [from EXCEPT !.buf = [i \in DOMAIN @ |-> NULL]]]
    ELSE [h |-> delete(h, to.real),
          to |-> [clear(to) EXCEPT !.real = from.real, !.cap = from.cap],
          from |-> [from EXCEPT !.real = NULL, !.cap = Size]]

-----------------------------------------------------------------------------
(* Objects                                                                   *)

\* original_req_byte_array(alloc), simple_page_byte_array(alloc) and
\* original_io_request(): what the initiators make of an allocator's memory
byte_array == [live |-> TRUE, valid |-> FALSE, n |-> 0, pages |-> embedded_array,
               of |-> <<>>, by |-> NULL]
simple_array == [live |-> TRUE, p |-> NULL, of |-> NULL]
io_request == [live |-> TRUE, status |-> embedded_array, of |-> <<>>]

Dead(o) == [o EXCEPT !.live = FALSE]

Init ==
  /\ refcnt = [p \in Pages |-> 0]
  /\ heap = [id \in HeapIds |-> NULL]
  /\ reqs = [a \in ReqAddrs |-> Dead(io_request)]
  /\ arrs = [a \in ArrAddrs \cup {Stack} |-> Dead(byte_array)]
  /\ simps = [a \in SimpAddrs \cup {Stack} |-> Dead(simple_array)]
  /\ made = 0

\* alloc_obj: memory that is free, initialised again whatever was in it
alloc_obj(mem, addrs) == {a \in addrs : ~mem[a].live}

dec_ref(refs, ps) == [p \in Pages |-> refs[p] - Cardinality({i \in DOMAIN ps : ps[i] = p})]

\* The pages an array covers
Released(h, o) == [i \in 0 .. o.n - 1 |-> Elem(h, o.pages, i)]

\* ~original_req_byte_array, and ~embedded_array of its pages
Destroyed(a) ==
  /\ refcnt' = IF arrs[a].valid THEN dec_ref(refcnt, Released(heap, arrs[a])) ELSE refcnt
  /\ heap' = delete(heap, arrs[a].pages.real)
  /\ arrs' = [arrs EXCEPT ![a] = Dead(@)]

-----------------------------------------------------------------------------
(* A request of several pages                                                *)

\* request_allocator::alloc_obj and original_io_request::init(req)
init(a, ps) ==
  LET r == resize(heap, embedded_array, Len(ps))
      zero == [i \in 0 .. Len(ps) - 1 |-> NULL]
  IN /\ a \in alloc_obj(reqs, ReqAddrs) /\ made < MaxReqs
     /\ made' = made + 1
     /\ IF r.e.real = NULL
          THEN /\ reqs' = [reqs EXCEPT ![a] = [io_request EXCEPT !.of = ps,
                             !.status = [r.e EXCEPT !.buf = [i \in DOMAIN @ |->
                                           IF i < Len(ps) THEN NULL ELSE @[i]]]]]
               /\ heap' = heap
          ELSE /\ reqs' = [reqs EXCEPT ![a] = [io_request EXCEPT !.of = ps, !.status = r.e]]
               /\ heap' = [r.h EXCEPT ![r.e.real] = zero]
     /\ UNCHANGED <<refcnt, arrs, simps>>

Computing(a) == arrs[Stack].live /\ arrs[Stack].by = a

\* complete_req of page i of a request that is to compute
complete_req(a, i) ==
  /\ reqs[a].live /\ ~Computing(a) /\ i < Len(reqs[a].of)
  /\ Elem(heap, reqs[a].status, i) = NULL
  /\ LET p == reqs[a].of[i + 1]
         r == Put(heap, reqs[a].status, i, p)
     IN /\ refcnt' = [refcnt EXCEPT ![p] = @ + 1]
        /\ heap' = r.h /\ reqs' = [reqs EXCEPT ![a].status = r.e]
  /\ UNCHANGED <<arrs, simps, made>>

\* The request has all its pages: compute() begins with byte_arr(*this, alloc),
\* which takes the pages out of status_arr
compute(a) ==
  LET o == reqs[a]
      n == Len(o.of)
      r == resize(heap, embedded_array, n)
      ps == [i \in 0 .. n - 1 |-> Elem(heap, o.status, i)]
      none(f) == [i \in DOMAIN f |-> IF i < n THEN NULL ELSE f[i]]
      with(f) == [i \in DOMAIN f |-> IF i < n THEN ps[i] ELSE f[i]]
      taken == IF o.status.real = NULL THEN r.h
               ELSE [r.h EXCEPT ![o.status.real] = none(@)]
  IN /\ o.live /\ o.of # <<>> /\ ~arrs[Stack].live /\ ~simps[Stack].live
     /\ \A i \in 0 .. n - 1 : ps[i] # NULL
     /\ arrs' = [arrs EXCEPT ![Stack] =
                   [byte_array EXCEPT !.valid = TRUE, !.n = n, !.of = o.of, !.by = a,
                      !.pages = IF r.e.real = NULL THEN [r.e EXCEPT !.buf = with(@)] ELSE r.e]]
     /\ heap' = IF r.e.real = NULL THEN taken ELSE [taken EXCEPT ![r.e.real] = with(@)]
     /\ reqs' = [reqs EXCEPT ![a].status =
                   IF @.real = NULL THEN [@ EXCEPT !.buf = none(@)] ELSE @]
     /\ UNCHANGED <<refcnt, simps, made>>

\* original_req_byte_array::assign: the array that takes the pages, and the other
Taking(o, r) == [o EXCEPT !.pages = r.to, !.valid = TRUE]
Giving(o, r) == [o EXCEPT !.pages = r.from, !.valid = FALSE]

\* clone(), by the user's run() or of a clone: an array of the allocator takes the
\* pages over.  An array that was cloned is not cloned again.
clone(a, b) ==
  LET r == assign(heap, embedded_array, arrs[a].pages)
  IN /\ arrs[a].live /\ arrs[a].valid /\ b \in alloc_obj(arrs, ArrAddrs)
     /\ heap' = r.h
     /\ arrs' = [arrs EXCEPT ![b] = Taking(arrs[a], r), ![a] = Giving(@, r)]
     /\ UNCHANGED <<refcnt, reqs, simps, made>>

\* run() returns, and byte_arr goes out of scope; the request is freed after it
Return(a) ==
  /\ Computing(a)
  /\ refcnt' = IF arrs[Stack].valid THEN dec_ref(refcnt, Released(heap, arrs[Stack])) ELSE refcnt
  /\ heap' = delete(delete(heap, arrs[Stack].pages.real), reqs[a].status.real)
  /\ arrs' = [arrs EXCEPT ![Stack] = Dead(@)]
  /\ reqs' = [reqs EXCEPT ![a] = Dead(@)]
  /\ UNCHANGED <<simps, made>>

\* page_byte_array::destroy(arr): free of the allocator destroys the object
destroy(a) ==
  /\ a # Stack /\ arrs[a].live
  /\ Destroyed(a)
  /\ UNCHANGED <<reqs, simps, made>>

-----------------------------------------------------------------------------
(* A request within a page that is in the cache                              *)

\* simple_page_byte_array(req, p, alloc), and assign of another one
simple_init(p) == [simple_array EXCEPT !.p = p, !.of = p]
simple_assign(from, a, b) == [from EXCEPT ![b] = from[a], ![a].p = NULL]

\* complete_cached_req: the array on the stack takes over the reference that the
\* search of the cache returned with the page
complete_cached_req(p) ==
  /\ ~arrs[Stack].live /\ ~simps[Stack].live /\ made < MaxReqs
  /\ made' = made + 1
  /\ refcnt' = [refcnt EXCEPT ![p] = @ + 1]
  /\ simps' = [simps EXCEPT ![Stack] = simple_init(p)]
  /\ UNCHANGED <<heap, reqs, arrs>>

\* clone() of a simple_page_byte_array
clone_simple(a, b) ==
  /\ simps[a].live /\ simps[a].p # NULL /\ b \in alloc_obj(simps, SimpAddrs)
  /\ simps' = simple_assign(simps, a, b)
  /\ UNCHANGED <<refcnt, heap, reqs, arrs, made>>

\* ~simple_page_byte_array, at the end of complete_cached_req or by destroy
destroy_simple(a) ==
  /\ simps[a].live
  /\ refcnt' = IF simps[a].p = NULL THEN refcnt ELSE [refcnt EXCEPT ![simps[a].p] = @ - 1]
  /\ simps' = [simps EXCEPT ![a] = Dead(@)]
  /\ UNCHANGED <<heap, reqs, arrs, made>>

-----------------------------------------------------------------------------
Next ==
  \/ \E a \in ReqAddrs, ps \in Shapes : init(a, ps)
  \/ \E a \in ReqAddrs, i \in 0 .. Cardinality(Pages) - 1 : complete_req(a, i)
  \/ \E a \in ReqAddrs : compute(a) \/ Return(a)
  \/ \E a \in ArrAddrs \cup {Stack}, b \in ArrAddrs : clone(a, b)
  \/ \E a \in ArrAddrs : destroy(a)
  \/ \E p \in Pages : complete_cached_req(p)
  \/ \E a \in SimpAddrs \cup {Stack}, b \in SimpAddrs : clone_simple(a, b)
  \/ \E a \in SimpAddrs \cup {Stack} : destroy_simple(a)

Spec == Init /\ [][Next]_vars

-----------------------------------------------------------------------------
(* Properties                                                                *)

\* A page has as many references as requests and arrays will give back: none is
\* lost when pages move from request to array to clone, and none is given back
\* twice, in whatever order the arrays are destroyed.
RefsExact ==
  \A p \in Pages :
    refcnt[p] =
      Cardinality({x \in ReqAddrs \X (0 .. Cardinality(Pages) - 1) :
                     /\ reqs[x[1]].live /\ x[2] < Len(reqs[x[1]].of)
                     /\ Elem(heap, reqs[x[1]].status, x[2]) = p})
      + Cardinality({x \in (DOMAIN arrs) \X (0 .. Cardinality(Pages) - 1) :
                       /\ arrs[x[1]].live /\ arrs[x[1]].valid /\ x[2] < arrs[x[1]].n
                       /\ Elem(heap, arrs[x[1]].pages, x[2]) = p})
      + Cardinality({a \in DOMAIN simps : simps[a].live /\ simps[a].p = p})

\* An array that was not cloned away reads the pages of its request, in their order
\* and within its capacity, also when they moved through arrays of other sizes.
PagesKept ==
  /\ \A a \in DOMAIN arrs : arrs[a].live /\ arrs[a].valid =>
       /\ arrs[a].n = Len(arrs[a].of) /\ arrs[a].n <= arrs[a].pages.cap
       /\ \A i \in 0 .. arrs[a].n - 1 : Elem(heap, arrs[a].pages, i) = arrs[a].of[i + 1]
  /\ \A a \in DOMAIN simps : simps[a].live => simps[a].p \in {NULL, simps[a].of}

\* A buffer on the heap belongs to exactly one embedded_array of an object that
\* lives, so it is deleted once and not used after that.
HeapOwned ==
  LET users(id) == {a \in DOMAIN arrs : arrs[a].live /\ arrs[a].pages.real = id}
      holders(id) == {a \in DOMAIN reqs : reqs[a].live /\ reqs[a].status.real = id}
  IN \A id \in HeapIds :
       Cardinality(users(id)) + Cardinality(holders(id)) = IF heap[id] = NULL THEN 0 ELSE 1
=============================================================================
