------------------------------ MODULE SafsUtil ------------------------------
(***************************************************************************)
(* The commands of SAFS-util (SAFS/utils/SAFS-util.cpp) on one SAFS file:  *)
(* create, load, load_part, verify, export and delete, each a process of   *)
(* its own, and each moving a buffer at a time through the striped files   *)
(* on the disks.  Data is counted in longs: a sector has Sector of them    *)
(* and a page PageLen.  The value of a long is a number, 0 if it was never *)
(* written.                                                                *)
(*                                                                         *)
(* The length of a completed disk read is not looked at (async_io's        *)
(* callback tests res2 only), so what lies past the end of a partition     *)
(* leaves the buffer as it was.                                            *)
(***************************************************************************)
EXTENDS FileMapper, SequencesExt

CONSTANTS
  UtilMapper,                \* the configured mapping
  Sector, PageLen,
  BufLen, ExportLen,         \* BUF_SIZE and the buffer of export
  UtilPlans                  \* sequences of commands <<name, argument>>

VARIABLES
  store,                     \* partition -> its longs; a partition may be missing
  hsize,                     \* the size in the header, 0 without a header
  ucmd,                      \* the command that runs
  uplan, ubuf,
  out,                       \* the file export writes
  want                       \* what was put in the file last (history)

utilVars == <<store, hsize, ucmd, uplan, ubuf, out, want>>

NoCmd == [name |-> "none"]
Files == 0..UtilMapper.n - 1
ROUNDUP(x, base) == ((x + base - 1) \div base) * base
Upto(s, n) == [i \in 1..n |-> IF i <= Len(s) THEN s[i] ELSE 0]

\* The external file number e and the synthetic source: the long at an offset
ExtData(e) == [i \in 1..e |-> 100 + i]
SynData(size) == [i \in 1..size |-> i]

UtilInit ==
  /\ store = <<>> /\ hsize = 0 /\ ucmd = NoCmd /\ uplan \in UtilPlans
  /\ ubuf = Upto(<<>>, BufLen) /\ out = <<>> /\ want = <<>>

FileExists == DOMAIN store = Files
get_file_size == MapThenSumSet(LAMBDA f : Len(store[f]), DOMAIN store)

\* Where a long of the file is
Place(o) ==
  LET at == map(UtilMapper, o \div PageLen)
  IN [idx |-> at.idx, pos |-> at.off * PageLen + (o % PageLen)]

\* A write of the first longs of the buffer, and a read into it
WriteAt(b, off, size) ==
  [f \in Files |->
     LET mine == {o \in off..off + size - 1 : Place(o).idx = f}
         end == Max({Len(store[f])} \cup {Place(o).pos + 1 : o \in mine})
     IN [i \in 1..end |->
           IF \E o \in mine : Place(o).pos + 1 = i
             THEN b[(CHOOSE o \in mine : Place(o).pos + 1 = i) - off + 1]
             ELSE Upto(store[f], end)[i]]]
ReadAt(b, off, size) ==
  [i \in 1..Len(b) |->
     LET p == Place(off + i - 1)
     IN IF i <= size /\ p.pos < Len(store[p.idx]) THEN store[p.idx][p.pos + 1] ELSE b[i]]

-----------------------------------------------------------------------------
Runs(name) == ucmd = NoCmd /\ uplan # <<>> /\ Head(uplan)[1] = name
UArg == Head(uplan)[2]
Loop(name) == ucmd.name = name /\ ucmd.off < ucmd.size
Ended(name) == ucmd.name = name /\ ucmd.off >= ucmd.size
Done == ucmd' = NoCmd /\ uplan' = Tail(uplan)

\* The partitions create_file allocates
NewParts(size) ==
  LET s == get_size_per_disk(UtilMapper, ROUNDUP(size, PageLen) \div PageLen)
  IN [f \in Files |-> Upto(<<>>, s[f] * PageLen)]

\* comm_create_file: the source is as long as the partitions together
comm_create_file ==
  /\ Runs("create") /\ DOMAIN store = {}
  /\ store' = NewParts(UArg) /\ hsize' = UArg
  /\ LET size == MapThenSumSet(LAMBDA f : Len(NewParts(UArg)[f]), Files)
     IN ucmd' = [name |-> "put", off |-> 0, size |-> size, data |-> SynData(size)]
  /\ ubuf' = Upto(<<>>, BufLen)
  /\ UNCHANGED <<uplan, out, want>>

\* comm_load_file2fs and load_data: into a new file, or as much of the external
\* file as an existing one has room for.  The size in its header stays.
comm_load_file2fs ==
  /\ Runs("load") /\ (DOMAIN store = {} \/ FileExists)
  /\ IF FileExists
       THEN /\ LET size == Min({UArg, get_file_size})
               IN ucmd' = [name |-> "put", off |-> 0, size |-> size, data |-> ExtData(size)]
            /\ UNCHANGED <<store, hsize>>
       ELSE /\ store' = NewParts(UArg) /\ hsize' = UArg
            /\ ucmd' = [name |-> "put", off |-> 0, size |-> UArg, data |-> ExtData(UArg)]
  /\ ubuf' = Upto(<<>>, BufLen)
  /\ UNCHANGED <<uplan, out, want>>

\* The length of a write: whole sectors
WriteLen(n) == ROUNDUP(n, Sector)

\* A buffer of the source is written; the end of its last sector is cleared
PutBuf ==
  /\ Loop("put")
  /\ \E size \in {Min({BufLen, ucmd.size - ucmd.off})} :
       \E b \in {[i \in 1..BufLen |->
                    IF i <= size THEN ucmd.data[ucmd.off + i]
                    ELSE IF i <= WriteLen(size) THEN 0 ELSE ubuf[i]]} :
         /\ ubuf' = b
         /\ store' = WriteAt(b, ucmd.off, WriteLen(size))
         /\ ucmd' = [ucmd EXCEPT !.off = @ + WriteLen(size)]
  /\ UNCHANGED <<hsize, uplan, out, want>>

PutEnd ==
  /\ Ended("put") /\ want' = ucmd.data /\ Done
  /\ UNCHANGED <<store, hsize, ubuf, out>>

\* comm_load_part_file2fs, into a directory that must not be there
comm_load_part ==
  /\ Runs("load_part") /\ UArg.part \notin DOMAIN store
  /\ store' = [f \in DOMAIN store \cup {UArg.part} |->
                 IF f = UArg.part THEN <<>> ELSE store[f]]
  /\ ucmd' = [name |-> "part", off |-> 0, size |-> UArg.ext, part |-> UArg.part]
  /\ UNCHANGED <<hsize, uplan, ubuf, out, want>>

\* A stripe block of the external file, unless it belongs to another partition.
\* It must be the next one of the partition (an assertion).
LoadBlock ==
  LET block == UtilMapper.block * PageLen
      bid == map(UtilMapper, ucmd.off \div PageLen)
      size == Min({block, ucmd.size - ucmd.off})
  IN /\ Loop("part")
     /\ IF bid.idx # ucmd.part THEN UNCHANGED store
        ELSE /\ Len(store[ucmd.part]) = bid.off * PageLen
             /\ store' = [store EXCEPT ![ucmd.part] =
                            @ \o SubSeq(ExtData(ucmd.size), ucmd.off + 1, ucmd.off + size)]
     /\ ucmd' = [ucmd EXCEPT !.off = @ + block]
     /\ UNCHANGED <<hsize, uplan, ubuf, out, want>>

LoadPartEnd ==
  /\ Ended("part") /\ Done
  /\ want' = IF FileExists THEN ExtData(ucmd.size) ELSE <<>>
  /\ UNCHANGED <<store, hsize, ubuf, out>>

\* comm_verify_file: against an external file, or (0) the synthetic source
comm_verify_file ==
  /\ Runs("verify") /\ FileExists
  /\ LET data == IF UArg = 0 THEN SynData(get_file_size) ELSE ExtData(UArg)
     IN /\ get_file_size >= Len(data)
        /\ ucmd' = [name |-> "verify", off |-> 0, size |-> ROUNDUP(Len(data), BufLen),
                    data |-> data, verified |-> 0, bad |-> {}]
  /\ ubuf' = Upto(<<>>, BufLen)
  /\ UNCHANGED <<store, hsize, uplan, out, want>>

\* What the callback compares of a buffer
CompareLen == Min({BufLen, Len(ucmd.data) - ucmd.off})
VerifyBuf ==
  /\ Loop("verify")
  /\ \E b \in {ReadAt(ubuf, ucmd.off, BufLen)} :
       /\ ubuf' = b
       /\ ucmd' = [ucmd EXCEPT
             !.off = @ + BufLen, !.verified = @ + CompareLen,
             !.bad = @ \cup {i \in ucmd.off + 1..ucmd.off + CompareLen :
                               b[i - ucmd.off] # Upto(ucmd.data, ucmd.size)[i]}]
  /\ UNCHANGED <<store, hsize, uplan, out, want>>
VerifyEnd == Ended("verify") /\ Done /\ UNCHANGED <<store, hsize, ubuf, out, want>>

\* comm_export: the size in the header, or of the partitions when it is 0
comm_export ==
  /\ Runs("export") /\ FileExists /\ hsize <= get_file_size
  /\ ucmd' = [name |-> "export", off |-> 0, size |-> IF hsize = 0 THEN get_file_size ELSE hsize]
  /\ out' = <<>> /\ ubuf' = Upto(<<>>, ExportLen)
  /\ UNCHANGED <<store, hsize, uplan, want>>

\* The length of the last read: direct I/O takes whole pages
LastRead(n) == ROUNDUP(n, PageLen)
ExportBuf ==
  /\ Loop("export")
  /\ \E last \in {ucmd.off + ExportLen > ucmd.size} :
       LET rest == ucmd.size - ucmd.off
           read_size == IF last THEN LastRead(rest) ELSE ExportLen
           write_size == IF last THEN rest ELSE ExportLen
       IN \E b \in {ReadAt(ubuf, ucmd.off, read_size)} :
            /\ ubuf' = b /\ out' = out \o SubSeq(b, 1, write_size)
            /\ ucmd' = [ucmd EXCEPT !.off = @ + read_size]
  /\ UNCHANGED <<store, hsize, uplan, want>>
ExportEnd == Ended("export") /\ Done /\ UNCHANGED <<store, hsize, ubuf, out, want>>

comm_delete_file ==
  /\ Runs("delete") /\ FileExists /\ uplan' = Tail(uplan)
  /\ store' = <<>> /\ hsize' = 0 /\ want' = <<>>
  /\ UNCHANGED <<ucmd, ubuf, out>>

UtilNext ==
  \/ comm_create_file \/ comm_load_file2fs \/ PutBuf \/ PutEnd
  \/ comm_load_part \/ LoadBlock \/ LoadPartEnd
  \/ comm_verify_file \/ VerifyBuf \/ VerifyEnd
  \/ comm_export \/ ExportBuf \/ ExportEnd \/ comm_delete_file

UtilSpec == UtilInit /\ [][UtilNext]_utilVars

-----------------------------------------------------------------------------
\* export returns what create, load, or one load_part for every partition put in
\* the file: for a size that fills no page and no buffer, whatever the mapping.
ExportExact ==
  Ended("export") =>
    /\ Len(out) = ucmd.size
    /\ \A i \in 1..Min({Len(out), Len(want)}) : out[i] = want[i]

\* verify finds no difference between the file and what was put in it, and looks
\* at all of it, although its reads go past the end of the partitions.
VerifyClean ==
  Ended("verify") /\ ucmd.data = want => ucmd.bad = {} /\ ucmd.verified = Len(want)
=============================================================================
