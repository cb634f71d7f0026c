------------------------------ MODULE IORequest ------------------------------
(***************************************************************************)
(* I/O requests (SAFS/libsafs/io_request.{h,cpp}): the vector of buffers   *)
(* of an extended request, which begins in the object and grows on the     *)
(* heap; the arithmetic on the range of a request; the copy of a request   *)
(* into a message and out of it; and the delivery of finished requests,    *)
(* grouped by the I/O that issued them.                                    *)
(***************************************************************************)
EXTENDS Integers, Sequences, SequencesExt, FiniteSets, FiniteSetsExt

CONSTANTS
  Exts, Bufs,                \* extension objects; buffers [id, size]
  Embedded, MinAlloc,        \* NUM_EMBEDDED_IOVECS, MIN_NUM_ALLOC_IOVECS
  CapBits,                   \* width of vec_capacity (15), whose limit the powers of
                             \* two from MinAlloc on reach
  MaxBufs,                   \* bound on the buffers of a request
  PageSize, BlockPages,      \* PAGE_SIZE; pages of a RAID block
  MaxOff, MaxSize,           \* bounds of the plain requests
  ObjSize, PayloadSize,      \* sizeof(io_request), sizeof(payload)
  MaxInline,                 \* MAX_INLINE_SIZE
  IOs, MaxDone               \* I/O instances; requests finished at once, a bound

IORequestAssumption ==
  /\ Embedded \in Nat \ {0} /\ MinAlloc > Embedded /\ CapBits \in Nat \ {0}
  /\ \E k \in 0..CapBits - 2 : MinAlloc = 2^k
  /\ PayloadSize \in Nat /\ ObjSize > PayloadSize

VARIABLES
  ext,                       \* the extensions: [heap, cap, num, vec]
  added,                     \* the buffers each one was given, in order
  req,                       \* a plain request: [off, size, method]
  done,                      \* I/O instances of the finished requests
  failed                     \* what ended the process

reqVars == <<ext, added, req, done, failed>>

-----------------------------------------------------------------------------
(* io_req_extension                                                          *)

Garbage == [id |-> 0, size |-> 0]
\* The value a signed bit field of CapBits bits keeps
Field(n) == ((n + 2 ^ (CapBits - 1)) % 2 ^ CapBits) - 2 ^ (CapBits - 1)
EmptyExt == [heap |-> FALSE, cap |-> Embedded, num |-> 0,
             vec |-> [i \in 0..Embedded - 1 |-> Garbage]]

\* A larger vector that holds the first n buffers of the old one from index d on
Moved(e, cap, d, n) ==
  [e EXCEPT !.heap = TRUE, !.cap = Field(cap),
            !.vec = [i \in 0..cap - 1 |-> IF i >= d /\ i - d < n THEN e.vec[i - d] ELSE Garbage]]
\* The vector is full and twice its capacity does not fit in vec_capacity: new throws
Overflows(e) == e.num >= e.cap /\ e.heap /\ Field(2 * e.cap) # 2 * e.cap
Put(e, i, b) == [e EXCEPT !.vec[i] = b, !.num = @ + 1]

\* add_io_buf: the vector is left when it is full, the embedded one to MinAlloc
\* buffers and one on the heap to twice its size
add_io_buf(e, b) ==
  Put(IF e.num < e.cap THEN e
      ELSE IF ~e.heap THEN Moved(e, MinAlloc, 0, Embedded)
      ELSE Moved(e, 2 * e.cap, 0, e.cap), e.num, b)

\* add_buf_front that forgets the shift when it moves from the object to the heap
AddFrontNoShift(e, b) ==
  LET full == e.num >= e.cap
  IN Put(IF full /\ ~e.heap THEN Moved(e, MinAlloc, 0, Embedded)
         ELSE IF full THEN Moved(e, 2 * e.cap, 1, e.cap)
         ELSE [e EXCEPT !.vec = [i \in DOMAIN @ |-> IF i >= 1 /\ i <= e.num THEN e.vec[i - 1] ELSE @[i]]],
         0, b)

\* add_buf_front: the same, with the buffers shifted by one
add_buf_front(e, b) ==
  LET full == e.num >= e.cap
  IN Put(IF full /\ ~e.heap THEN Moved(e, MinAlloc, 1, Embedded)
         ELSE IF full THEN Moved(e, 2 * e.cap, 1, e.cap)
         ELSE [e EXCEPT !.vec = [i \in DOMAIN @ |-> IF i >= 1 /\ i <= e.num THEN e.vec[i - 1] ELSE @[i]]],
         0, b)

\* init(): empty, the vector kept
InitExt(e) == [e EXCEPT !.num = 0, !.vec = [i \in DOMAIN @ |-> Garbage]]
\* init(ext): the buffers of another one, whose vector is no larger
InitFrom(e, other) ==
  [e EXCEPT !.num = other.num,
            !.vec = [i \in DOMAIN @ |-> IF i < other.num THEN other.vec[i] ELSE @[i]]]

ExtSize(e) == MapThenSumSet(LAMBDA i : e.vec[i].size, 0..e.num - 1)

-----------------------------------------------------------------------------
(* The range of a request                                                    *)

RoundPage(x) == (x \div PageSize) * PageSize
RoundUpPage(x) == RoundPage(x + PageSize - 1)
EndOf(r) == r.off + r.size

within_1page(r) == EndOf(r) <= RoundPage(r.off) + PageSize
contain_offset(r, off) == r.off <= off /\ off < EndOf(r)
has_overlap(r, off, size) ==
  \/ off >= r.off /\ off < EndOf(r)
  \/ off + size >= r.off /\ off + size < EndOf(r)
  \/ off <= r.off /\ off + size >= EndOf(r)
get_overlap_size(r, pg) == Min({pg + PageSize, EndOf(r)}) - Max({pg, r.off})
get_num_covered_pages(r) == (RoundUpPage(EndOf(r)) - RoundPage(r.off)) \div PageSize
inside_RAID_block(r) ==
  LET b == BlockPages * PageSize IN r.off \div b = (EndOf(r) - 1) \div b

\* extract: the part of a request in [off, off + size); buf is the place of its
\* data in the buffer of the request
extract(r, off, size) ==
  LET start == IF off <= r.off THEN r.off ELSE off
  IN [off |-> start, buf |-> start - r.off,
      size |-> Min({off + size - start, EndOf(r) - start})]

-----------------------------------------------------------------------------
(* In and out of a message.  The object is copied; a small write takes its    *)
(* data with it when the message accepts that.                                *)

Inlined(r, accept) == r.size <= MaxInline /\ r.method = "write" /\ accept
serialize(r, accept) ==
  [obj |-> r, inline |-> Inlined(r, accept),
   len |-> IF Inlined(r, accept) THEN ObjSize - PayloadSize + r.size ELSE ObjSize]
get_serialized_size(r) ==
  IF r.size > MaxInline \/ r.method = "read" THEN ObjSize ELSE ObjSize - PayloadSize + r.size
\* deserialize: the data is in the message or where it was
deserialize(m) == [obj |-> m.obj, data |-> IF m.inline THEN "message" ELSE "user"]

-----------------------------------------------------------------------------
(* process_reqs_on_io: sorted by I/O, one call for each run of the same one   *)

Sorted(s) == SortSeq(s, LAMBDA a, b : a.io < b.io)
Groups(s) ==
  LET t == Sorted(s)
      starts == {i \in DOMAIN t : i = 1 \/ t[i].io # t[i - 1].io}
      end(i) == IF \E j \in starts : j > i THEN Min({j \in starts : j > i}) - 1 ELSE Len(t)
  IN {[io |-> t[i].io, reqs |-> SubSeq(t, i, end(i))] : i \in starts}

-----------------------------------------------------------------------------
PlainReqs == [off : 0..MaxOff, size : 1..MaxSize, method : {"read", "write"}]
OneReq == [off |-> 0, size |-> 1, method |-> "read"]
OneDone == <<[io |-> Min(IOs), req |-> 1]>>

Init ==
  /\ ext = [e \in Exts |-> EmptyExt] /\ added = [e \in Exts |-> <<>>] /\ failed = {}
  /\ \/ req \in PlainReqs /\ done = OneDone
     \/ /\ req = OneReq
        /\ \E n \in 1..MaxDone : \E ios \in [1..n -> IOs] :
             done = [k \in 1..n |-> [io |-> ios[k], req |-> k]]

\* A buffer is added, by add_io_buf or add_buf_front
Grow(e, with, list) ==
  /\ ext[e].num < MaxBufs
  /\ IF Overflows(ext[e])
       THEN failed' = {"capacity"} /\ UNCHANGED <<ext, added>>
       ELSE /\ ext' = [ext EXCEPT ![e] = with] /\ added' = [added EXCEPT ![e] = list]
            /\ UNCHANGED failed
  /\ UNCHANGED <<req, done>>
Add(e) == \E b \in Bufs : Grow(e, add_io_buf(ext[e], b), Append(added[e], b))
AddFront(e) == \E b \in Bufs : Grow(e, add_buf_front(ext[e], b), <<b>> \o added[e])
Reset(e) ==
  /\ ext[e].num > 0 /\ ext' = [ext EXCEPT ![e] = InitExt(@)]
  /\ added' = [added EXCEPT ![e] = <<>>] /\ UNCHANGED <<req, done, failed>>
\* init(ext), with its assert(this->vec_capacity >= ext.vec_capacity)
Copy(e, o) ==
  /\ e # o
  /\ IF ext[e].cap < ext[o].cap
       THEN failed' = {"copy"} /\ UNCHANGED <<ext, added>>
       ELSE /\ ext' = [ext EXCEPT ![e] = InitFrom(@, ext[o])]
            /\ added' = [added EXCEPT ![e] = added[o]] /\ UNCHANGED failed
  /\ UNCHANGED <<req, done>>

\* Plain requests and deliveries are looked at in the first state of a behaviour;
\* the one with the plainest of both goes on with the extensions
Next ==
  /\ req = OneReq /\ done = OneDone /\ failed = {}
  /\ \E e \in Exts : Add(e) \/ AddFront(e) \/ Reset(e) \/ (\E o \in Exts : Copy(e, o))
RequestSpec == Init /\ [][Next]_reqVars

-----------------------------------------------------------------------------
\* Through every growth of the vector, from the object to the heap and on, from both
\* ends, reused and copied, the buffers of a request are those it was given, in
\* order, and its size is the sum of theirs.  A buffer is refused only by a vector
\* that holds the largest power of two below vec_capacity's limit, and a copy only
\* where the source once had more buffers than there is room for.
Largest == 2 ^ (CapBits - 2)
BuffersInOrder ==
  /\ \A e \in Exts :
       /\ ext[e].num = Len(added[e]) /\ ext[e].num <= ext[e].cap /\ ext[e].cap <= Largest
       /\ \A i \in 0..ext[e].num - 1 : ext[e].vec[i] = added[e][i + 1]
       /\ ExtSize(ext[e]) = FoldLeft(LAMBDA s, b : s + b.size, 0, added[e])
  /\ failed = {"capacity"} => \E e \in Exts : Len(added[e]) = Largest
  /\ failed = {"copy"} => \E e, o \in Exts : ext[e].cap < ext[o].cap /\ ext[o].heap

\* A request taken apart page by page is whole: the extracted parts follow one
\* another in the file and in the user's buffer, each inside its page and as large
\* as get_overlap_size says, there are get_num_covered_pages of them, and within_1page
\* and inside_RAID_block hold exactly when one page, or one block, has it all.
PartsWhole ==
  LET n == get_num_covered_pages(req)
      page(k) == RoundPage(req.off) + k * PageSize
      part(k) == extract(req, page(k), PageSize)
      blocks == {(req.off + i) \div (BlockPages * PageSize) : i \in 0..req.size - 1}
  IN /\ part(0).off = req.off /\ part(0).buf = 0 /\ EndOf(part(n - 1)) = EndOf(req)
     /\ \A k \in 0..n - 1 :
          /\ has_overlap(req, page(k), PageSize) /\ part(k).size > 0
          /\ part(k).size = get_overlap_size(req, page(k))
          /\ part(k).off >= page(k) /\ EndOf(part(k)) <= page(k) + PageSize
          /\ k > 0 => /\ part(k).off = EndOf(part(k - 1))
                      /\ part(k).buf = part(k - 1).buf + part(k - 1).size
     /\ within_1page(req) = (n = 1)
     /\ inside_RAID_block(req) = (Cardinality(blocks) = 1)

\* Every finished request is delivered once, to its own I/O and in one call per I/O.
DeliveredOnce ==
  LET g == Groups(done)
  IN /\ \A x \in g : \A i \in DOMAIN x.reqs : x.reqs[i].io = x.io
     /\ \A x, y \in g : x.io = y.io => x = y
     /\ MapThenSumSet(LAMBDA x : Len(x.reqs), g) = Len(done)
     /\ UNION {ToSet(x.reqs) : x \in g} = ToSet(done)

=============================================================================
