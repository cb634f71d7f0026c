----------------------------- MODULE SafsFiles ------------------------------
(***************************************************************************)
(* An SAFS file on the native file systems (SAFS/libsafs/safs_file.cpp,    *)
(* native_file.{h,cpp}, RAID_config.cpp): on every disk a directory with   *)
(* the name of the file, in it one file that holds a partition and is      *)
(* named by the partition's number, and beside partition 0 the header.     *)
(* A partition is the sequence of its pages; 0 is a page never written.    *)
(*                                                                         *)
(* A program makes the calls of a plan.  A native operation may fail, and  *)
(* the process may stop between two of them and start again; MaxFaults     *)
(* bounds both.                                                            *)
(***************************************************************************)
EXTENDS FileMapper, SequencesExt

CONSTANTS
  NDisks, Names, FirstName,
  SysBlock,                  \* the configured stripe block, in pages
  BufPages,                  \* pages load_data moves at a time
  Plans,                     \* sequences of calls <<op, arguments...>>
  MaxFaults,
  NULL

SafsAssumption ==
  /\ NDisks \in Nat \ {0} /\ SysBlock \in Nat \ {0} /\ BufPages \in Nat \ {0}
  /\ FirstName \in Names

Disks == 0 .. NDisks - 1
NoDir == [there |-> FALSE, header |-> NULL, parts |-> <<>>]
EmptyDir == [NoDir EXCEPT !.there = TRUE]
safs_header(block, size) == [block |-> block, size |-> size, meta |-> <<>>]
Torn == safs_header(0, 0)          \* a header file whose fwrite did not happen
is_valid(h) == h # NULL /\ h # Torn

VARIABLES
  fs,                        \* [disk][name]: the directory
  obj,                       \* the safs_file: its name and the cached header_file
  op,                        \* the call in progress
  plan, ret, faults,
  num_files,                 \* of the file group
  loaded,                    \* per name: the pages a load put there (history)
  cut                        \* per name: the partitions a resize made shorter (history)

safsVars == <<fs, obj, op, plan, ret, faults, num_files, loaded, cut>>

Idle == [name |-> "none"]
NewObj(n) == [name |-> n, header_file |-> NULL]

SafsInit ==
  /\ fs = [d \in Disks |-> [n \in Names |-> NoDir]]
  /\ plan \in Plans
  /\ obj = NewObj(FirstName) /\ op = Idle /\ ret = NULL
  /\ faults = 0 /\ num_files = 0 /\ loaded = [n \in Names |-> <<>>]
  /\ cut = [n \in Names |-> {}]

Dir(d) == fs[d][obj.name]
PartsOf(dir) == DOMAIN dir.parts
Pages(s, n) == [i \in 1..n |-> IF i <= Len(s) THEN s[i] ELSE 0]

-----------------------------------------------------------------------------
(* What a file looks like                                                    *)

\* read_all_files and erase_header_file: the header is left out only when there
\* is another file in the directory
Entries(dir) ==
  LET all == PartsOf(dir) \cup (IF dir.header # NULL THEN {-1} ELSE {})
  IN IF Cardinality(all) > 1 THEN all \ {-1} ELSE all
atoi(e) == IF e = -1 THEN 0 ELSE e
PartId(d, n) == atoi(CHOOSE e \in Entries(fs[d][n]) : TRUE)

\* safs_file::exist
exist(n) ==
  /\ \A d \in Disks : fs[d][n].there /\ Cardinality(Entries(fs[d][n])) = 1
  /\ Cardinality({PartId(d, n) : d \in Disks}) = NDisks

\* RAID_config::create_file_mapper: the directories in the order of the numbers
\* of their partitions, or NULL
MapperFiles(n) ==
  IF \E d \in Disks : ~fs[d][n].there \/ Cardinality(Entries(fs[d][n])) # 1 THEN NULL
  ELSE IF \E d, e \in Disks : d # e /\ PartId(d, n) = PartId(e, n) THEN NULL
  ELSE SetToSortSeq(Disks, LAMBDA d, e : PartId(d, n) < PartId(e, n))

\* get_header_file: the cached path, or the first directory with a header
get_header_file ==
  LET here == {d \in Disks : Dir(d).there /\ Dir(d).header # NULL}
  IN IF obj.header_file # NULL THEN obj.header_file
     ELSE IF here = {} THEN NULL ELSE <<Min(here), obj.name>>
HeaderAt(h) == IF h = NULL THEN NULL ELSE fs[h[1]][h[2]].header
get_header == HeaderAt(get_header_file)

\* get_size_per_disk: by the block size of the header, or the configured one
BlockSize == IF is_valid(get_header) THEN get_header.block ELSE SysBlock
SizesFor(size) == get_size_per_disk(Mapper("RAID0", NDisks, BlockSize, 0), size)

\* get_size: the data files together
get_size(n) ==
  MapThenSumSet(LAMBDA d : Len(fs[d][n].parts[CHOOSE p \in PartsOf(fs[d][n]) : TRUE]),
                {d \in Disks : PartsOf(fs[d][n]) # {}})

\* Where a reader finds page o: the mapper with the block size of the header
ReaderMapper(n) ==
  LET hs == {d \in Disks : is_valid(fs[d][n].header)}
  IN Mapper("RAID0", NDisks, IF hs = {} THEN SysBlock ELSE fs[Min(hs)][n].header.block, 0)
PlaceOf(n, o) ==
  LET at == map(ReaderMapper(n), o)
  IN [disk |-> MapperFiles(n)[at.idx + 1], part |-> at.idx, off |-> at.off]
PageAt(n, o) ==
  LET p == PlaceOf(n, o) dir == fs[p.disk][n]
  IN IF p.part \in PartsOf(dir) /\ p.off < Len(dir.parts[p.part])
       THEN dir.parts[p.part][p.off + 1] ELSE 0

-----------------------------------------------------------------------------
(* Calls, one native operation at a time                                     *)

Arg(i) == Head(plan)[i]
Calls(name) == op = Idle /\ plan # <<>> /\ Head(plan)[1] = name
Finish(r) == op' = Idle /\ plan' = Tail(plan) /\ ret' = <<Head(plan)[1], r>>

\* The order of the directories: shuffle_disks, or the file group's
DirOrders(group) ==
  CASE group = "naive" -> {[i \in Disks |-> i]}
    [] group = "rotate" -> {[i \in Disks |-> (num_files + i) % NDisks]}
    [] OTHER -> {f \in [Disks -> Disks] : \A i, j \in Disks : f[i] = f[j] => i = j}

\* create_file computes the sizes before there is a header
CreateOp(size, block, order, load) ==
  [name |-> "create", i |-> 0, order |-> order, sizes |-> SizesFor(size),
   header |-> safs_header(block, size), load |-> load,
   clean |-> \A d \in Disks : Dir(d) = NoDir]
StartCreate ==
  /\ Calls("create")
  /\ \E order \in DirOrders(Arg(4)) : op' = CreateOp(Arg(2), Arg(3), order, 0)
  /\ num_files' = num_files + 1
  /\ UNCHANGED <<fs, obj, plan, ret, faults, loaded, cut>>

MadeDir(d) == IF Dir(d).there THEN Dir(d) ELSE EmptyDir

\* The directory with the header, beside partition 0, and the partition,
\* allocated to its size (never shortened)
WholeDir(d) ==
  LET dir == MadeDir(d)
      old == IF op.i \in PartsOf(dir) THEN dir.parts[op.i] ELSE <<>>
      new == Pages(old, Max({Len(old), op.sizes[op.i]}))
  IN [dir EXCEPT !.header = IF op.i = 0 THEN op.header ELSE @,
                 !.parts = (op.i :> new) @@ @]
CreateDir ==
  LET d == op.order[op.i]
  IN /\ op.name = "create" /\ op.i < NDisks
     /\ fs' = [fs EXCEPT ![d][obj.name] = WholeDir(d)]
     /\ obj' = IF op.i = 0 THEN [obj EXCEPT !.header_file = <<d, obj.name>>] ELSE obj
     /\ op' = [op EXCEPT !.i = @ + 1]
     /\ UNCHANGED <<plan, ret, faults, num_files, loaded, cut>>

\* What may be there when create_file stops within a directory: no directory, an
\* empty one, a header without its contents, no or an empty partition
Unfinished(d) ==
  LET dir == MadeDir(d)
      headers == IF op.i = 0 THEN {dir.header, Torn, op.header} ELSE {dir.header}
  IN {Dir(d)} \cup {[dir EXCEPT !.header = h] : h \in headers}
       \cup {[dir EXCEPT !.header = IF op.i = 0 THEN op.header ELSE @,
                         !.parts = @ @@ (op.i :> <<>>)]}

\* A native operation fails and create_file returns false, or the process stops
CreateFails ==
  LET d == op.order[op.i]
  IN /\ op.name = "create" /\ op.i < NDisks /\ op.load = 0 /\ faults < MaxFaults
     /\ faults' = faults + 1
     /\ \E dir \in Unfinished(d) : fs' = [fs EXCEPT ![d][obj.name] = dir]
     /\ obj' \in {NewObj(obj.name),
                  IF op.i = 0 THEN [obj EXCEPT !.header_file = <<d, obj.name>>] ELSE obj}
     /\ Finish(FALSE)
     /\ UNCHANGED <<num_files, loaded, cut>>

\* load_data goes on after its create_file
CreateEnd ==
  /\ op.name = "create" /\ op.i = NDisks
  /\ IF op.load = 0 THEN Finish(TRUE)
     ELSE op' = [name |-> "load", i |-> 0, size |-> op.load] /\ UNCHANGED <<plan, ret>>
  /\ UNCHANGED <<fs, obj, faults, num_files, loaded, cut>>

\* load_data: as much of the external file as an existing file has room for
StartLoad ==
  /\ Calls("load")
  /\ LET size == IF exist(obj.name) THEN Min({Arg(2), get_size(obj.name)}) ELSE Arg(2)
     IN IF exist(obj.name)
          THEN op' = [name |-> "load", i |-> 0, size |-> size]
          ELSE \E order \in DirOrders("any") : op' = CreateOp(size, Arg(3), order, size)
  /\ UNCHANGED <<fs, obj, plan, ret, faults, num_files, loaded, cut>>

\* create_io_factory throws when the file still does not exist
LoadNoFactory ==
  /\ op.name = "load" /\ ~exist(obj.name) /\ Finish(FALSE)
  /\ UNCHANGED <<fs, obj, faults, num_files, loaded, cut>>

\* A buffer of pages is written through the mapper.  (No plan loads into a file
\* one of whose partitions is lost.)
Written(n, os) ==
  [d \in Disks |-> [fs[d] EXCEPT ![n].parts = [p \in DOMAIN @ |->
     LET mine == {o \in os : PlaceOf(n, o).disk = d /\ PlaceOf(n, o).part = p}
         end == Max({Len(@[p])} \cup {PlaceOf(n, o).off + 1 : o \in mine})
     IN [i \in 1..end |->
           IF \E o \in mine : PlaceOf(n, o).off + 1 = i
             THEN (CHOOSE o \in mine : PlaceOf(n, o).off + 1 = i) + 1
             ELSE Pages(@[p], end)[i]]]]]
LoadBuf ==
  LET size == Min({BufPages, op.size - op.i})
  IN /\ op.name = "load" /\ op.i < op.size /\ exist(obj.name)
     /\ fs' = Written(obj.name, op.i .. op.i + size - 1)
     /\ op' = [op EXCEPT !.i = @ + size]
     /\ loaded' = [loaded EXCEPT ![obj.name] = <<>>]
     /\ UNCHANGED <<obj, plan, ret, faults, num_files, cut>>

LoadEnd ==
  /\ op.name = "load" /\ op.i = op.size /\ exist(obj.name)
  /\ loaded' = [loaded EXCEPT ![obj.name] = [o \in 1..op.size |-> o]]
  /\ Finish(TRUE) /\ UNCHANGED <<fs, obj, faults, num_files, cut>>

\* delete_file: directory after directory, a file of it at a time in the order of
\* readdir; a directory that is not there makes rmdir, and so delete_file, fail
StartDelete ==
  /\ Calls("delete") /\ op' = [name |-> "delete", i |-> 0]
  /\ loaded' = [loaded EXCEPT ![obj.name] = <<>>] /\ cut' = [cut EXCEPT ![obj.name] = {}]
  /\ UNCHANGED <<fs, obj, plan, ret, faults, num_files>>

DeleteEntry ==
  LET dir == Dir(op.i)
  IN /\ op.name = "delete" /\ op.i < NDisks
     /\ \/ /\ dir.header # NULL
           /\ fs' = [fs EXCEPT ![op.i][obj.name].header = NULL]
        \/ \E p \in PartsOf(dir) :
             fs' = [fs EXCEPT ![op.i][obj.name].parts =
                      [q \in PartsOf(dir) \ {p} |-> dir.parts[q]]]
     /\ UNCHANGED <<obj, op, plan, ret, faults, num_files, loaded, cut>>

DeleteDir ==
  LET dir == Dir(op.i)
  IN /\ op.name = "delete" /\ op.i < NDisks /\ dir.header = NULL /\ PartsOf(dir) = {}
     /\ IF dir.there
          THEN /\ fs' = [fs EXCEPT ![op.i][obj.name] = NoDir]
               /\ op' = [op EXCEPT !.i = @ + 1] /\ UNCHANGED <<plan, ret>>
          ELSE Finish(FALSE) /\ UNCHANGED fs
     /\ UNCHANGED <<obj, faults, num_files, loaded, cut>>

DeleteEnd ==
  /\ op.name = "delete" /\ op.i = NDisks /\ Finish(TRUE)
  /\ UNCHANGED <<fs, obj, faults, num_files, loaded, cut>>

\* rename: directory after directory, then the name and the paths.  The cached
\* path of the header keeps the old name.
StartRename ==
  /\ Calls("rename")
  /\ IF exist(obj.name)
       THEN op' = [name |-> "rename", i |-> 0, to |-> Arg(2)] /\ UNCHANGED <<plan, ret>>
       ELSE Finish(FALSE)
  /\ UNCHANGED <<fs, obj, faults, num_files, loaded, cut>>

RenameDir ==
  LET old == Dir(op.i) new == fs[op.i][op.to]
  IN /\ op.name = "rename" /\ op.i < NDisks
     /\ IF new.header = NULL /\ PartsOf(new) = {}
          THEN /\ fs' = [fs EXCEPT ![op.i][op.to] = old, ![op.i][obj.name] = NoDir]
               /\ op' = [op EXCEPT !.i = @ + 1] /\ UNCHANGED <<plan, ret>>
          ELSE Finish(FALSE) /\ UNCHANGED fs
     /\ UNCHANGED <<obj, faults, num_files, loaded, cut>>

RenameEnd ==
  /\ op.name = "rename" /\ op.i = NDisks
  /\ obj' = [obj EXCEPT !.name = op.to]
  /\ loaded' = [loaded EXCEPT ![op.to] = loaded[obj.name], ![obj.name] = <<>>]
  /\ cut' = [cut EXCEPT ![op.to] = cut[obj.name], ![obj.name] = {}]
  /\ Finish(TRUE) /\ UNCHANGED <<fs, faults, num_files>>

\* resize: the data files are in the order of the directories, the sizes in the
\* order of the partitions.  Nothing but the header changes when the data files
\* together are long enough.
StartResize ==
  /\ Calls("resize")
  /\ IF ~exist(obj.name) THEN Finish(FALSE) /\ UNCHANGED obj
     ELSE /\ op' = [name |-> "resize", size |-> Arg(2), sizes |-> SizesFor(Arg(2)),
                    i |-> IF get_size(obj.name) < Arg(2) THEN 0 ELSE NDisks]
          /\ obj' = [obj EXCEPT !.header_file = get_header_file]
          /\ UNCHANGED <<plan, ret>>
  /\ UNCHANGED <<fs, faults, num_files, loaded, cut>>

\* The sizes of the partition before
SizeOfPrevious(d) == op.sizes[(d + NDisks - 1) % NDisks]
SizeForFile(d) == op.sizes[d]
ResizeFile ==
  LET dir == Dir(op.i)
  IN /\ op.name = "resize" /\ op.i < NDisks
     /\ fs' = [fs EXCEPT ![op.i][obj.name].parts =
                 [p \in PartsOf(dir) |-> Pages(dir.parts[p], SizeForFile(op.i))]]
     /\ cut' = [cut EXCEPT ![obj.name] = @ \cup
                  {p \in PartsOf(dir) : SizeForFile(op.i) < Len(dir.parts[p])}]
     /\ op' = [op EXCEPT !.i = @ + 1]
     /\ UNCHANGED <<obj, plan, ret, faults, num_files, loaded>>

ResizeEnd ==
  LET h == get_header_file
  IN /\ op.name = "resize" /\ op.i = NDisks
     /\ IF is_valid(HeaderAt(h))
          THEN fs' = [fs EXCEPT ![h[1]][h[2]].header.size = op.size] /\ Finish(TRUE)
          ELSE UNCHANGED fs /\ Finish(FALSE)
     /\ UNCHANGED <<obj, faults, num_files, loaded, cut>>

\* set_user_metadata: over what follows the header, which is not shortened; the
\* header must be there (an assertion)
SetMeta ==
  LET h == get_header_file
      over(old, new) == new \o SubSeq(old, Len(new) + 1, Len(old))
  IN /\ Calls("meta") /\ HeaderAt(h) # NULL
     /\ fs' = [fs EXCEPT ![h[1]][h[2]].header.meta = over(@, Arg(2))]
     /\ obj' = [obj EXCEPT !.header_file = h]
     /\ Finish(TRUE) /\ UNCHANGED <<faults, num_files, loaded, cut>>

\* Another safs_file object, for a file with this name
Open ==
  /\ Calls("open") /\ obj' = NewObj(Arg(2)) /\ Finish(TRUE)
  /\ UNCHANGED <<fs, faults, num_files, loaded, cut>>

\* A native operation fails, or the process stops and starts again
Fault ==
  /\ op.name \in {"delete", "rename", "resize", "load"}
  /\ op.i < IF op.name = "load" THEN op.size ELSE NDisks
  /\ faults < MaxFaults /\ faults' = faults + 1
  /\ obj' \in {obj, NewObj(obj.name)}
  /\ loaded' = [loaded EXCEPT ![obj.name] = <<>>]
  /\ Finish(FALSE) /\ UNCHANGED <<fs, num_files, cut>>

-----------------------------------------------------------------------------
SafsNext ==
  \/ StartCreate \/ CreateDir \/ CreateFails \/ CreateEnd
  \/ StartLoad \/ LoadNoFactory \/ LoadBuf \/ LoadEnd
  \/ StartDelete \/ DeleteEntry \/ DeleteDir \/ DeleteEnd
  \/ StartRename \/ RenameDir \/ RenameEnd
  \/ StartResize \/ ResizeFile \/ ResizeEnd
  \/ SetMeta \/ Open \/ Fault

SafsSpec == SafsInit /\ [][SafsNext]_safsVars

-----------------------------------------------------------------------------
(* Properties                                                                *)

\* A file that create_file made in directories that were not there exists for
\* every later safs_file and for create_file_mapper, which orders the directories
\* as create_file did, and each partition has the pages that the file's size
\* needs in stripes of the configured block; whatever calls failed half-way before.
\* (When the header names another block, readers place the pages by that one, and a
\* partition may be shorter than they need until it is written.)
CreatedWhole ==
  op.name = "create" /\ op.clean /\ op.i = NDisks =>
    /\ exist(obj.name)
    /\ MapperFiles(obj.name) = [k \in 1..NDisks |-> op.order[k - 1]]
    /\ \A o \in 0..op.header.size - 1 :
         LET at == map(Mapper("RAID0", NDisks, SysBlock, 0), o)
         IN at.off < Len(fs[op.order[at.idx]][obj.name].parts[at.idx])

\* exist and create_file_mapper, which read the directories each for itself,
\* agree in every state that failed and interrupted calls leave: the mapper that
\* create_io_factory uses without a test is never NULL.
MapperAgrees == \A n \in Names : exist(n) <=> MapperFiles(n) # NULL

\* What load_data wrote is what a reader finds through the mapper and the
\* header, after the file was renamed, its metadata was set and it was resized:
\* every page but those of a partition that a resize made shorter, which can only
\* be one that is not on the disk of its number, as resize takes the sizes in the
\* order of the disks and get_size_per_disk gives them in that of the partitions.
LoadedKept ==
  \A n \in Names : loaded[n] # <<>> /\ op = Idle =>
    /\ exist(n)
    /\ \A o \in 0..Len(loaded[n]) - 1 :
         PlaceOf(n, o).part \in cut[n] \/ PageAt(n, o) = loaded[n][o + 1]
    /\ cut[n] \subseteq {p \in Disks : p \notin PartsOf(fs[p][n])}

=============================================================================
