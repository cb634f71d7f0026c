----------------------------- MODULE NumaBuffer -----------------------------
(***************************************************************************)
(* A buffer spread over the memory of several NUMA nodes in ranges of 2^k  *)
(* bytes, round robin (SAFS/libsafs/NUMA_mapper.{h,cpp} and NUMA_buffer in *)
(* in_mem_io.cpp), with the copies in and out, the loading from a file and *)
(* the dump to one.                                                        *)
(***************************************************************************)
EXTENDS Integers, Sequences, SequencesExt, FiniteSetsExt

CONSTANTS
  PageSize,
  NumNodesLog, RangeSizeLog, \* sets of the logarithms to try
  MaxLength, MaxIO,          \* longest buffer; 256 MB of load_safs
  Writes                     \* how many writes are made, a bound

NumaAssumption == PageSize \in Nat \ {0} /\ MaxIO \in Nat \ {0} /\ Writes \in Nat

VARIABLES
  mapper,                    \* [numa_log, range_size]
  length, buf_lens, bufs,    \* as in NUMA_buffer; bufs[node] is a function of local offsets
  content,                   \* what the bytes of the buffer should be
  step                       \* number of operations so far

numaVars == <<mapper, length, buf_lens, bufs, content, step>>

-----------------------------------------------------------------------------
(* NUMA_mapper                                                               *)

get_num_nodes(m) == 2 ^ m.numa_log
Nodes(m) == 0..get_num_nodes(m) - 1

map2physical(m, idx) ==
  LET r == idx \div m.range_size
  IN <<r % get_num_nodes(m), (r \div get_num_nodes(m)) * m.range_size + (idx % m.range_size)>>

map2logical(m, node, off) ==
  (off \div m.range_size) * m.range_size * get_num_nodes(m) + m.range_size * node
    + (off % m.range_size)

\* cal_local_lengths: the last range, which may be empty, and those before it, one
\* per other node
cal_local_lengths(m, len) ==
  LET last == len \div m.range_size
      loc(r) == map2physical(m, r * m.range_size)
      size(r) == IF r = last THEN loc(r)[2] + (len % m.range_size) ELSE loc(r)[2] + m.range_size
      seen == {r \in 0..last : last - r < get_num_nodes(m)}
  IN [n \in Nodes(m) |-> LET mine == {r \in seen : loc(r)[1] = n}
                         IN IF mine = {} THEN 0 ELSE size(CHOOSE r \in mine : TRUE)]

-----------------------------------------------------------------------------
(* NUMA_buffer                                                               *)

RoundUp(x, b) == ((x + b - 1) \div b) * b

\* The constructor goes from the last byte back, range by range, once per node
BufLens(m, len) ==
  LET step1(s, i) ==
        LET loc == map2physical(m, s.last)
        IN IF s.stop THEN s
           ELSE [lens |-> [s.lens EXCEPT ![loc[1]] = loc[2] + 1],
                 stop |-> s.last < m.range_size,
                 last |-> (s.last \div m.range_size) * m.range_size - 1,
                 fresh |-> s.fresh /\ s.lens[loc[1]] = 0]
  IN FoldLeft(step1, [lens |-> [n \in Nodes(m) |-> 0], stop |-> FALSE, last |-> len - 1, fresh |-> TRUE],
              [i \in 1..get_num_nodes(m) |-> i])

\* get_data_loc: the piece of [off, off + size) that is in one piece of memory;
\* node -1 stands for the failure
get_data_loc(off, size) ==
  LET loc == map2physical(mapper, off)
      none == [node |-> -1, off |-> -1, size |-> 0]
      left == IF loc[2] % mapper.range_size = 0 THEN mapper.range_size
              ELSE RoundUp(loc[2], mapper.range_size) - loc[2]
      local == Min({left, size})
  IN IF off + size > length \/ buf_lens[loc[1]] <= loc[2]
          \/ local > buf_lens[loc[1]] - loc[2] THEN none
     ELSE [node |-> loc[1], off |-> loc[2], size |-> local]

\* The pieces copy_from and copy_to go through, <<offset in the buffer, piece>>
RECURSIVE Pieces(_, _)
Pieces(off, size) ==
  IF size <= 0 THEN <<>>
  ELSE LET p == get_data_loc(off, size)
       IN <<<<off, p>>>> \o (IF p.size = 0 THEN <<>> ELSE Pieces(off + p.size, size - p.size))

\* The chunks load, load_safs and dump go through: steps of at most max bytes
RECURSIVE Chunks(_, _, _)
Chunks(off, size, max) ==
  IF off >= size THEN <<>>
  ELSE LET n == Min({max, size - off})
           p == get_data_loc(off, n)
       IN <<<<off, [p EXCEPT !.size = Min({p.size, size - off})]>>>> \o Chunks(off + n, size, max)

\* What memory holds after data, a function of the offsets, went in by these pieces
Stored(pieces, data) ==
  [n \in Nodes(mapper) |->
    [o \in DOMAIN bufs[n] |->
      LET hit == {k \in DOMAIN pieces : LET p == pieces[k][2]
                    IN p.node = n /\ p.off <= o /\ o < p.off + p.size}
      IN IF hit = {} THEN bufs[n][o]
         ELSE LET p == pieces[Max(hit)] IN data[p[1] + o - p[2].off]]]
\* What comes out by these pieces
Fetched(pieces) ==
  FlattenSeq([k \in DOMAIN pieces |->
    [i \in 1..pieces[k][2].size |-> bufs[pieces[k][2].node][pieces[k][2].off + i - 1]]])

Init ==
  /\ mapper \in [numa_log : NumNodesLog, range_size : {2 ^ k : k \in RangeSizeLog}]
  /\ length \in {RoundUp(n, PageSize) : n \in 1..MaxLength}
  /\ buf_lens = BufLens(mapper, length).lens
  /\ bufs = [n \in Nodes(mapper) |-> [o \in 0..buf_lens[n] - 1 |-> 0]]
  /\ content = [i \in 0..length - 1 |-> 0]
  /\ step = 0

\* Data that is not in the buffer yet: byte i of write k
NewByte(i) == (step + 1) * 100 + i

\* copy_from
copy_from(off, size) ==
  /\ step < Writes /\ step' = step + 1 /\ size > 0 /\ off + size <= length
  /\ LET data == [i \in off..off + size - 1 |-> NewByte(i)]
     IN /\ bufs' = Stored(Pieces(off, size), data)
        /\ content' = [i \in 0..length - 1 |-> IF i \in DOMAIN data THEN data[i] ELSE content[i]]
  /\ UNCHANGED <<mapper, length, buf_lens>>

\* load and load_safs: a file of size bytes into a new buffer
Load(size, max, done) ==
  /\ step = 0 /\ step' = done /\ RoundUp(size, PageSize) = length
  /\ LET data == [i \in 0..size - 1 |-> NewByte(i)]
     IN /\ bufs' = Stored(Chunks(0, size, max), data)
        /\ content' = [i \in 0..length - 1 |-> IF i < size THEN data[i] ELSE 0]
  /\ UNCHANGED <<mapper, length, buf_lens>>
load == \E size \in 1..length : Load(size, mapper.range_size, Writes + 1)
load_safs == \E size \in 1..length : Load(size, Min({MaxIO, mapper.range_size}), Writes + 2)

Next == (\E off \in 0..length - 1, size \in 1..length : copy_from(off, size)) \/ load \/ load_safs
NumaSpec == Init /\ [][Next]_numaVars

-----------------------------------------------------------------------------
\* What is copied in at some offset comes out at that offset and no other, in
\* ranges of any alignment and over any number of nodes: copy_to of any range, and
\* the dump of the buffer, give exactly what copy_from, load and load_safs put
\* there last.
CopyExact ==
  /\ \A off \in 0..length - 1 : \A size \in {1, 3, length - off} \cap 0..length - off :
       Fetched(Pieces(off, size)) = [i \in 1..size |-> content[off + i - 1]]
  /\ Fetched(Chunks(0, length, mapper.range_size)) = [i \in 1..length |-> content[i - 1]]

\* The mapping is a bijection from the bytes of the buffer to those of the nodes'
\* buffers, with map2logical its inverse; a node's buffer is just long enough, no
\* node's length is decided twice, and cal_local_lengths agrees.
LengthsExact ==
  /\ BufLens(mapper, length).fresh
  /\ \A n \in Nodes(mapper) : \A o \in 0..buf_lens[n] - 1 :
       map2physical(mapper, map2logical(mapper, n, o)) = <<n, o>> /\ map2logical(mapper, n, o) < length
  /\ \A i \in 0..length - 1 : LET p == map2physical(mapper, i) IN p[2] < buf_lens[p[1]]
  /\ cal_local_lengths(mapper, length) = buf_lens
=============================================================================
