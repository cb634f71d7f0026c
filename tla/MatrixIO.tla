------------------------------ MODULE MatrixIO ------------------------------
(***************************************************************************)
(* io/IO.hpp, io/IOfactory.hpp and io/vecs_reader.hpp: how a data matrix   *)
(* is laid out in a file, loaded by MemoryIO, and read row by row or       *)
(* column by column by MemoryIO and by SyncIO.                             *)
(*                                                                         *)
(* A matrix is a function of <<row, column>>, both counted from 0, and a   *)
(* buffer or a file a sequence of cells.  A cell stands for one data_t, so *)
(* a file offset divided by dtype_size is a number of cells.  An IO object *)
(* is a record, and the operators return the object after the call.        *)
(***************************************************************************)
EXTENDS Integers, Sequences, FiniteSets

ROW == "ROW"
COL == "COL"
INVALID == "INVALID"
NULL == << >>                     \* the data pointer before it is set
Uninit == -1                      \* a cell no one has written
NoFile == ""

\* The cells of an n x m matrix in the order the orientation asks for.
Layout(M, n, m, orient) ==
  IF orient = ROW
    THEN [i \in 1 .. n * m |-> M[(i - 1) \div m, (i - 1) % m]]
    ELSE [i \in 1 .. n * m |-> M[(i - 1) % n, (i - 1) \div n]]

\* The rows of an fvecs file: the dimension, then the row.
FvecsLayout(M, n, m) ==
  [i \in 1 .. n * (m + 1) |->
     LET r == (i - 1) \div (m + 1)
         c == (i - 1) % (m + 1)
     IN  IF c = 0 THEN m ELSE M[r, c - 1]]

\* fvecs_reader::read, which asserts the dimension in front of every row.
fvecs_read(cells, dim) ==
  [i \in 1 .. dim[1] * dim[2] |->
     LET r == (i - 1) \div dim[2]
     IN  IF cells[r * (dim[2] + 1) + 1] = dim[2]
           THEN cells[r * (dim[2] + 1) + 2 + ((i - 1) % dim[2])]
           ELSE Uninit]

-----------------------------------------------------------------------------
\* MemoryIO::create() and the constructors of IO and MemoryIO.
NewMemoryIO ==
  [fn |-> NoFile, orient |-> INVALID, dim |-> <<0, 0>>, data |-> NULL,
   local |-> FALSE]

\* The setters keep the first value they are given.
set_fn(io, fn) == IF io.fn = NoFile THEN [io EXCEPT !.fn = fn] ELSE io

set_orientation(io, orient) ==
  IF io.orient = INVALID THEN [io EXCEPT !.orient = orient] ELSE io

set_shape(io, dim) == IF io.dim = <<0, 0>> THEN [io EXCEPT !.dim = dim] ELSE io

set_data(io, data) == IF io.data = NULL THEN [io EXCEPT !.data = data] ELSE io

\* from_file(): files maps a name to its cells, fvecs is the set of the names
\* with that extension.  A file shorter than the shape leaves cells unread.
from_file(io, files, fvecs) ==
  IF io.data # NULL THEN io
  ELSE [io EXCEPT
          !.data = IF io.fn \in fvecs THEN fvecs_read(files[io.fn], io.dim)
                   ELSE [i \in 1 .. io.dim[1] * io.dim[2] |->
                           IF i <= Len(files[io.fn]) THEN files[io.fn][i]
                           ELSE Uninit],
          !.local = TRUE]

\* Both branches of transpose() copy the same way and differ in the
\* orientation they leave.
transpose(io) ==
  LET n == io.dim[1]
      m == io.dim[2]
  IN  [io EXCEPT
         !.data = [i \in 1 .. n * m |->
                     io.data[((i - 1) % n) * m + ((i - 1) \div n) + 1]],
         !.orient = IF io.orient = ROW THEN COL ELSE ROW,
         !.dim = <<m, n>>]

\* Mutant of mem_get_col: the stride of a row is the number of rows.
mem_get_col_Stride(io, c) ==
  IF io.orient = COL
    THEN SubSeq(io.data, c * io.dim[1] + 1, (c + 1) * io.dim[1])
    ELSE [r \in 1 .. io.dim[1] |->
            io.data[(((r - 1) * io.dim[1] + c) % Len(io.data)) + 1]]

\* The elements behind the pointer MemoryIO::get_col() returns.
mem_get_col(io, c) ==
  IF io.orient = COL
    THEN SubSeq(io.data, c * io.dim[1] + 1, (c + 1) * io.dim[1])
    ELSE [r \in 1 .. io.dim[1] |-> io.data[(r - 1) * io.dim[2] + c + 1]]

mem_get_row(io, r) ==
  IF io.orient = ROW
    THEN SubSeq(io.data, r * io.dim[2] + 1, (r + 1) * io.dim[2])
    ELSE [c \in 1 .. io.dim[2] |-> io.data[(c - 1) * io.dim[1] + r + 1]]

\* A column of a ROW matrix and a row of a COL matrix are copies.
mem_col_copies(io) == io.orient = ROW
mem_row_copies(io) == io.orient = COL

\* MemoryIO::destroy().
mem_destroy(io) ==
  IF io.data # NULL /\ io.local THEN [io EXCEPT !.data = NULL] ELSE io

-----------------------------------------------------------------------------
\* SyncIO(fn, dim, orient): the stream is open at the first cell.  buf is
\* whether `data' has been allocated.
NewSyncIO(fn, dim, orient) ==
  [fn |-> fn, orient |-> orient, dim |-> dim, pos |-> 0, fail |-> FALSE,
   buf |-> FALSE]

\* std::fstream (external): read len cells at the position.  A short read
\* sets failbit, and a stream that has failed neither seeks nor reads.
StreamRead(io, cells, len) ==
  LET short == io.pos + len > Len(cells)
  IN  [io |-> IF io.fail THEN io
              ELSE [io EXCEPT !.pos = IF short THEN Len(cells) ELSE io.pos + len,
                              !.fail = short],
       got |-> [i \in 1 .. len |->
                  IF ~ io.fail /\ io.pos + i <= Len(cells) THEN cells[io.pos + i]
                  ELSE Uninit]]

seekp(io, off) == IF io.fail THEN io ELSE [io EXCEPT !.pos = off]

\* SyncIO::read(buf): size cells from wherever the stream is.
sync_read(io, cells) == StreamRead(io, cells, Len(cells))

ReadAt(io, cells, off, len) == StreamRead(seekp(io, off), cells, len)

\* One seek and one read for every cell, as the loops of get_col() and
\* get_row() do; offs are the offsets in order.
ReadEach(io, cells, offs) ==
  [io |-> ReadAt(io, cells, offs[Len(offs)], 1).io,
   got |-> [i \in 1 .. Len(offs) |-> ReadAt(io, cells, offs[i], 1).got[1]]]

sync_get_col(io, cells, c) ==
  IF io.orient = COL
    THEN LET r == ReadAt(io, cells, c * io.dim[1], io.dim[1])
         IN  [r EXCEPT !.io.buf = TRUE]
    ELSE ReadEach(io, cells, [r \in 1 .. io.dim[1] |-> (r - 1) * io.dim[2] + c])

\* Mutant of sync_get_row: a row of a ROW matrix is read without the seek.
sync_get_row_NoSeek(io, cells, r) ==
  IF io.orient = ROW
    THEN StreamRead(io, cells, io.dim[2])
    ELSE ReadEach(io, cells, [c \in 1 .. io.dim[2] |-> (c - 1) * io.dim[1] + r])

sync_get_row(io, cells, r) ==
  IF io.orient = ROW
    THEN ReadAt(io, cells, r * io.dim[2], io.dim[2])
    ELSE ReadEach(io, cells, [c \in 1 .. io.dim[2] |-> (c - 1) * io.dim[1] + r])

\* Every get_row() of SyncIO allocates, and get_col() of a ROW matrix.
sync_col_copies(io) == io.orient = ROW
sync_row_copies(io) == TRUE

\* SyncIO::write(buf, nbytes), which append() repeats: the cells of the file
\* and the stream afterwards.
stream_write(io, cells, buf) ==
  IF io.fail THEN [io |-> io, cells |-> cells]
  ELSE [io |-> [io EXCEPT !.pos = io.pos + Len(buf)],
        cells |-> [i \in 1 .. (IF io.pos + Len(buf) > Len(cells)
                                 THEN io.pos + Len(buf) ELSE Len(cells)) |->
                     IF i > io.pos /\ i <= io.pos + Len(buf) THEN buf[i - io.pos]
                     ELSE cells[i]]]

write_at(io, cells, buf, off) == stream_write(seekp(io, off), cells, buf)
=============================================================================
