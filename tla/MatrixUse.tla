----------------------------- MODULE MatrixUse ------------------------------
(***************************************************************************)
(* A client of the IO objects outside an engine, as io/unit-test/testIO.cpp*)
(* uses them: a MemoryIO over the client's own buffer, transposed and      *)
(* written to a file, and a SyncIO on that file which is read, written and *)
(* appended to.                                                            *)
(***************************************************************************)
EXTENDS MatrixIO

CONSTANTS
  Dims,             \* shapes of the matrix
  MaxTransposes,    \* bound: calls of transpose()
  MaxCells,         \* bound: cells of the file, for append()
  MaxReads          \* bound: calls of SyncIO::read(buf)

VARIABLES
  mem,              \* the MemoryIO
  orig,             \* the MemoryIO as it was created
  turns,            \* calls of transpose()
  cells,            \* the file, << >> before write()
  sync,             \* << >> or <<the SyncIO>>
  got,              \* the last buffer read through SyncIO and what it is of
  reads

useVars == <<mem, orig, turns, cells, sync, got, reads>>

Nothing == [what |-> "nothing", at |-> 0, buf |-> << >>]

\* MemoryIO::create(data, dim, orient): the cells of the buffer are numbered.
UseInit ==
  \E dim \in Dims, o \in {ROW, COL} :
    /\ mem = [NewMemoryIO EXCEPT !.dim = dim, !.orient = o, !.fn = "out",
                                 !.data = [i \in 1 .. dim[1] * dim[2] |-> i]]
    /\ orig = mem
    /\ turns = 0
    /\ cells = << >>
    /\ sync = << >>
    /\ got = Nothing
    /\ reads = 0

Transpose ==
  /\ turns < MaxTransposes
  /\ sync = << >>
  /\ mem' = transpose(mem)
  /\ turns' = turns + 1
  /\ UNCHANGED <<orig, cells, sync, got, reads>>

\* MemoryIO::write(): the whole buffer into a new file.
WriteFile ==
  /\ sync = << >>
  /\ cells' = mem.data
  /\ UNCHANGED <<mem, orig, turns, sync, got, reads>>

\* new SyncIO(fn, dim, orient) on the file just written.
OpenSync ==
  /\ sync = << >>
  /\ cells = mem.data
  /\ sync' = <<NewSyncIO(mem.fn, mem.dim, mem.orient)>>
  /\ UNCHANGED <<mem, orig, turns, cells, got, reads>>

Took(r, what, at) ==
  /\ sync' = <<r.io>>
  /\ got' = [what |-> what, at |-> at, buf |-> r.got]
  /\ UNCHANGED <<mem, orig, turns, cells>>

GetCol(c) ==
  /\ sync # << >>
  /\ Took(sync_get_col(sync[1], cells, c), "col", c)
  /\ UNCHANGED reads

GetRow(r) ==
  /\ sync # << >>
  /\ Took(sync_get_row(sync[1], cells, r), "row", r)
  /\ UNCHANGED reads

Read ==
  /\ sync # << >>
  /\ reads < MaxReads
  /\ Took(sync_read(sync[1], cells), "all", 0)
  /\ reads' = reads + 1

\* write(buf, offset, nbytes) of one cell, and append(): a write at the
\* position the stream happens to have.
Put(w) ==
  /\ sync' = <<w.io>>
  /\ cells' = w.cells
  /\ got' = Nothing
  /\ UNCHANGED <<mem, orig, turns, reads>>

WriteAt(off) ==
  /\ sync # << >>
  /\ Put(write_at(sync[1], cells, <<0>>, off))

Append1 ==
  /\ sync # << >>
  /\ sync[1].pos < MaxCells
  /\ Put(stream_write(sync[1], cells, <<0>>))

\* destroy(): the stream is closed.
DestroySync ==
  /\ sync # << >>
  /\ sync' = << >>
  /\ got' = Nothing
  /\ reads' = 0
  /\ UNCHANGED <<mem, orig, turns, cells>>

UseNext ==
  \/ Transpose \/ WriteFile \/ OpenSync
  \/ \E c \in 0 .. mem.dim[2] - 1 : GetCol(c)
  \/ \E r \in 0 .. mem.dim[1] - 1 : GetRow(r)
  \/ Read
  \/ \E off \in {0, Len(mem.data) - 1} : WriteAt(off)
  \/ Append1
  \/ DestroySync

UseSpec == UseInit /\ [][UseNext]_useVars
-----------------------------------------------------------------------------
(***************************************************************************)
(* Two calls of transpose() undo each other, as testIO.cpp asserts of the  *)
(* shape: cells, shape and orientation come back in either orientation.    *)
(* A transposed square matrix still gives the columns of the original; of  *)
(* any other shape nothing is said, because get_col() then strides over    *)
(* the buffer by the shape transpose() has swapped.                        *)
(***************************************************************************)
TransposeTwice ==
  /\ turns % 2 = 0 => mem = orig
  /\ turns % 2 = 1 /\ orig.dim[1] = orig.dim[2] /\ orig.orient = ROW =>
       \A c \in 0 .. orig.dim[2] - 1 : mem_get_col(mem, c) = mem_get_col(orig, c)

(***************************************************************************)
(* A row or a column read through SyncIO is the one of the file, after any *)
(* reads, writes and appends that moved the stream, unless the stream has  *)
(* failed (get_col, get_row of SyncIO against those of MemoryIO, which     *)
(* testIO.cpp compares).                                                   *)
(***************************************************************************)
SyncExact ==
  got.what \in {"row", "col"} /\ ~ sync[1].fail =>
    LET file == [mem EXCEPT !.data = cells]
    IN  got.buf = IF got.what = "row" THEN mem_get_row(file, got.at)
                  ELSE mem_get_col(file, got.at)

(***************************************************************************)
(* "Read everything in the file" (IO.hpp:111, above read(buf)): the buffer *)
(* SyncIO::read() fills holds the file.                                    *)
(***************************************************************************)

=============================================================================
