------------------------------- MODULE MCPool -------------------------------
(***************************************************************************)
(* Small systems that share nothing are model-checked together: a          *)
(* behaviour is a behaviour of one of them, named by which, whose          *)
(* variables are v1, v2, ...  ZeroN and KeepN fix the variables that a     *)
(* system with N variables does not have.  Systems, a constant, names the  *)
(* systems of a run: those whose waits and loops must end are in a run of  *)
(* their own, because liveness costs much more than safety.                *)
(***************************************************************************)
EXTENDS Integers, Sequences, FiniteSets, TLC

CONSTANTS
  Systems,                   \* the systems to check
  BuildSamples,              \* samples of the 0/1 matrices of "build"
  Nil,                       \* a model value, of no type
  FREE, grower1, grower2     \* of PageTable

VARIABLES which, v1, v2, v3, v4, v5, v6, v7, v8, v9,
          v10, v11, v12, v13, v14, v15, v16, v17, v18

pool == <<which, v1, v2, v3, v4, v5, v6, v7, v8, v9,
          v10, v11, v12, v13, v14, v15, v16, v17, v18>>

Zero17 == v18 = 0
Zero16 == v17 = 0 /\ Zero17
Zero15 == v16 = 0 /\ Zero16
Zero14 == v15 = 0 /\ Zero15
Zero13 == v14 = 0 /\ Zero14
Zero12 == v13 = 0 /\ Zero13
Zero11 == v12 = 0 /\ Zero12
Zero10 == v11 = 0 /\ Zero11
Zero9 == v10 = 0 /\ Zero10
Zero8 == v9 = 0 /\ Zero9
Zero7 == v8 = 0 /\ Zero8
Zero6 == v7 = 0 /\ Zero7
Zero5 == v6 = 0 /\ Zero6

Keep18 == UNCHANGED which
Keep17 == UNCHANGED v18 /\ Keep18
Keep16 == UNCHANGED v17 /\ Keep17
Keep15 == UNCHANGED v16 /\ Keep16
Keep14 == UNCHANGED v15 /\ Keep15
Keep13 == UNCHANGED v14 /\ Keep14
Keep12 == UNCHANGED v13 /\ Keep13
Keep11 == UNCHANGED v12 /\ Keep12
Keep10 == UNCHANGED v11 /\ Keep11
Keep9 == UNCHANGED v10 /\ Keep10
Keep8 == UNCHANGED v9 /\ Keep9
Keep7 == UNCHANGED v8 /\ Keep8
Keep6 == UNCHANGED v7 /\ Keep7
Keep5 == UNCHANGED v6 /\ Keep6

-----------------------------------------------------------------------------
(***************************************************************************)
(* The data structures of monya and their users, each on its own.          *)
(***************************************************************************)
\* Every 0/1 matrix of up to BuildSamples samples with two features, so that ties and
\* equal rows occur in every place, and five to nine samples with distinct
\* values, whose levels do not fill up by one pass
Skewed(n) == [i \in 1..n |-> <<i, (i * 2) % n>>]
BuildMatrices ==
  UNION {[1..n -> {0, 1} \X {0, 1}] : n \in 1..BuildSamples} \cup {Skewed(n) : n \in 5..9}

\* Three samples with ties, and samples whose tree has leaves that have never run
QueryMatrices == [1..3 -> {<<0, 0>>, <<0, 1>>, <<1, 0>>}] \cup {Skewed(n) : n \in {5, 7}}

\* Three files: 2 x 3 by rows, 3 x 3 by columns, 2 x 3 in fvecs format.  The
\* cells of one row have different values and the rows different distances.
Matrix(n, m, k) ==
  [x \in (0..n - 1) \X (0..m - 1) |-> k + x[1] * (x[1] + 1) * 4 + x[2]]
EngineFiles ==
  [a |-> [M |-> Matrix(2, 3, 0), dim |-> <<2, 3>>, orient |-> "ROW", fvecs |-> FALSE],
   b |-> [M |-> Matrix(3, 3, 100), dim |-> <<3, 3>>, orient |-> "COL", fvecs |-> FALSE],
   v |-> [M |-> Matrix(2, 3, 200), dim |-> <<2, 3>>, orient |-> "ROW", fvecs |-> TRUE]]
Params(f, io, ntree, nthread) ==
  [fn |-> f, iotype |-> io, orient |-> EngineFiles[f].orient, dim |-> EngineFiles[f].dim,
   ntree |-> ntree, nthread |-> nthread]
EngineParams ==
  {Params(f, "MEM", 2, 2) : f \in {"a", "b", "v"}}
    \cup {Params(f, "SYNC", 2, 1) : f \in {"a", "b"}} \cup {Params("a", "SYNC", 1, 2)}

NV == INSTANCE NNVector WITH
  Index <- {1, 2}, Vals <- {0, 1}, K <- 3, prev <- v1, next <- v2,
  data <- v3, live <- v4, _size <- v5, cache <- v6, pc <- v7, key <- v8,
  curr <- v9

RB == INSTANCE RBTree WITH
  Comparators <- 1..3, MaxNodes <- 8, left <- v1, right <- v2, parent <- v3,
  color <- v4, comparator <- v5, root <- v6, n <- v7, live <- v8,
  new_node <- v9, pc <- v10, deleted <- v11, old <- v12

Del == INSTANCE RBTree WITH
  Comparators <- 1..5, MaxNodes <- 6, left <- v1, right <- v2, parent <- v3,
  color <- v4, comparator <- v5, root <- v6, n <- v7, live <- v8,
  new_node <- v9, pc <- v10, deleted <- v11, old <- v12

BT == INSTANCE BinaryTree WITH
  Comparators <- 1..3, MaxNodes <- 4, left <- v1, right <- v2, parent <- v3,
  comparator <- v4, root <- v5, n <- v6, live <- v7, placed <- v8, pc <- v9

BF == INSTANCE BruteForce WITH
  Vals <- 0..2, MaxSamples <- 5, Ks <- 0..3, dist <- v1, k <- v2, i <- v3,
  NN <- v4, approx <- v5, matches <- v6, pc <- v7

KB == INSTANCE KdTree WITH
  Matrices <- BuildMatrices, MaxDepths <- {0, 1, 2, 10}, data <- v1,
  max_depth <- v2, heap <- v3, nodes <- v4, current_level <- v5,
  running <- v6, pending <- v7, bpc <- v8

KQ == INSTANCE KdQuery WITH
  Matrices <- QueryMatrices, MaxDepths <- {1, 10},
  Queries <- {<<0, 1>>, <<4, 2>>}, Ks <- {0, 2, 4}, MaxQueries <- 2,
  data <- v1, max_depth <- v2, heap <- v3, nodes <- v4, current_level <- v5,
  running <- v6, pending <- v7, bpc <- v8, qsample <- v9, k <- v10,
  result <- v11, visited <- v12, completed <- v13, node <- v14, todo <- v15,
  asked <- v16, qpc <- v17

Eng == INSTANCE Engine WITH
  Files <- EngineFiles, ParamSets <- EngineParams, K <- 2, MaxEngines <- 2,
  MaxLevel <- 2, MaxQueries <- 2, memIO <- v1, files <- v2, params <- v3,
  forest <- v4, pc <- v5, first <- v6, engines <- v7, temps <- v8,
  freed <- v9, loads <- v10, asked <- v11, result <- v12, queries <- v13

Mat == INSTANCE MatrixUse WITH
  Dims <- {<<2, 3>>, <<2, 2>>, <<3, 1>>}, MaxTransposes <- 3, MaxCells <- 7,
  MaxReads <- 2, mem <- v1, orig <- v2, turns <- v3, cells <- v4, sync <- v5,
  got <- v6, reads <- v7

StructuresInit ==
  \/ which = "nn" /\ NV!NNInit /\ Zero9
  \/ which = "rb" /\ RB!RBInit /\ Zero10
  \/ which = "delete" /\ Del!DelInit /\ Zero12
  \/ which = "binary" /\ BT!BTInit /\ Zero9
  \/ which = "brute" /\ BF!Init /\ Zero7
  \/ which = "build" /\ KB!Init /\ Zero8
  \/ which = "query" /\ KQ!KdInit /\ Zero17
  \/ which = "engine" /\ Eng!EngInit /\ Zero13
  \/ which = "matrix" /\ Mat!UseInit /\ Zero7

StructuresNext ==
  \/ which = "nn" /\ NV!NNNext /\ Keep9
  \/ which = "rb" /\ RB!RBNext /\ Keep10
  \/ which = "delete" /\ Del!DelNext /\ Keep12
  \/ which = "binary" /\ BT!BTNext /\ Keep9
  \/ which = "brute" /\ BF!BFNext /\ Keep7
  \/ which = "build" /\ KB!BuildNext /\ Keep8
  \/ which = "query" /\ KQ!KdNext /\ Keep17
  \/ which = "engine" /\ Eng!EngNext /\ Keep13
  \/ which = "matrix" /\ Mat!UseNext /\ Keep7

StructuresFairness ==
  /\ WF_pool(which = "rb" /\ (RB!Recolor \/ RB!Rotate \/ RB!BalanceEnd) /\ Keep10)
  /\ WF_pool(which = "build" /\ KB!BuildNext /\ Keep8)
  /\ WF_pool(which = "query" /\ (KQ!Descend \/ KQ!Visit \/ KQ!Eval \/ KQ!Return) /\ Keep17)

ASSUME NV!KAssumption

\* Linked structures.  NNVector: the two directions of the list agree, eval() and
\* pop_back() leak nothing and leave no pointer to a freed node, and the node that
\* operator[] caches is never a freed or a shifted one.  RBTree after insert() and
\* between the steps of balance(): parents and children agree, in order, equal black
\* heights and no red child of a red node but the new one, and find() finds
\* duplicates that rotations moved; where _delete() returns it has removed its node
\* and nothing else.  BinaryTree after any mix of insert() and insert_at(): no node is
\* lost or overwritten.
LinksSound ==
  /\ which = "nn" => NV!LinksConsistent /\ NV!SubscriptCorrect
  /\ which = "rb" => RB!LinksAgree /\ RB!Ordered /\ RB!RedBlack /\ RB!FindRight
  /\ which = "delete" => Del!DeletesOne
  /\ which = "binary" => BT!TreeWhole

Nearest ==
  INSTANCE NearestList WITH Item <- NV!Item, K <- 3, list <- IF which = "nn" THEN NV!List ELSE <<>>

\* NNVector keeps the k nearest of the samples given to eval(), sorted, ties in
\* the order of arrival, whatever pop_back() and clear() come between.
ImplementsNearest == Nearest!NearestSpec

\* build(): every sample is in exactly one leaf, comparators separate the samples
\* below them, and leaves are where its comment says, although the children of a
\* node are spawned again when the level below did not fill up.
BuildExact == which = "build" => KB!LeavesPartition /\ KB!SplitOrder /\ KB!LeavesTerminal

\* The two ways to the nearest samples.  getNN() of brute force returns min(k,
\* nsamples) samples no other of which is nearer, its vector's flag stays true, and
\* get_raw_accuracy() counts matches in whatever order the first find() leaves its
\* argument.  find_neighbors() of a tree returns the k nearest: the walk misses no
\* leaf and evaluates none twice, for ties and for one query after another.
NeighborsExact ==
  /\ which = "brute" => BF!ResultExact /\ BF!FlagTrue /\ BF!MatchesRight
  /\ which = "query" => KQ!QueryExact /\ KQ!StackCovers

InLoop ==
  \/ which = "build" /\ v8 # "built"
  \/ which = "query" /\ v17 # "idle"
  \/ which = "rb" /\ v10 = "balance"

\* build() ends, although a level whose nodes do not all spawn never fills the
\* next one by one pass, find_neighbors() returns, and so does the loop that balances a
\* red-black tree after an insertion: a loop that is entered leads to the end of it,
\* which is to say that no behaviour stays in one.
LoopsEnd == []<>~InLoop

\* Every tree of a forest is built from the columns and answers with the rows of one
\* file, whatever layout and IO: the engine's own with SyncIO, that of the first engine
\* of the program with MemoryIO; the roots split on different dimensions; the matrix
\* shared by the trees is deleted once, and the only copies left allocated are the rows
\* of a ROW matrix read through SyncIO.
ForestReads == which = "engine" => Eng!ForestReads /\ Eng!RootsDistinct /\ Eng!BuffersFreed

\* Two calls of transpose() undo each other, and a row or a column read through
\* SyncIO is the one of the file after any reads, writes and appends that moved
\* the stream.
MatrixExact == which = "matrix" => Mat!TransposeTwice /\ Mat!SyncExact

\* "Have all the nodes in this level been placed in the queue" (Scheduler.hpp:59,
\* level_is_full): a level that has been run held all the nodes the tree has at that
\* level.
FullLevelHasAll == which = "build" => KB!FullLevelHasAll

-----------------------------------------------------------------------------
(***************************************************************************)
(* How SAFS starts and keeps files on disks (SafsFiles, SafsInit,          *)
(* DiskFiles, NumaCache, SafsUtil, Config and FileMapper), and the         *)
(* requests, messages and memory between its threads (Slab, Messages,      *)
(* ByteArrays, PageArrays, NumaBuffer, KVStore, IORequest and PageFlags),  *)
(* each on its own.                                                        *)
(***************************************************************************)
FM == INSTANCE FileMapper WITH CONST_A <- 3, CONST_P <- 7

\* SafsFiles: files are created again after a delete that failed half-way; loaded,
\* renamed and loaded again; resized, and renamed over another file; resized with
\* the directories in any order
FilePlans ==
  { <<<<"create", 5, 1, "rotate">>, <<"delete">>, <<"create", 4, 2, "any">>,
      <<"delete">>, <<"create", 3, 2, "rotate">>>>,
    <<<<"load", 7, 1>>, <<"meta", <<1, 2>>>>, <<"rename", "b">>, <<"open", "b">>,
      <<"meta", <<3>>>>, <<"load", 3, 2>>>>,
    <<<<"create", 1, 2, "naive">>, <<"load", 2, 1>>, <<"resize", 3>>, <<"rename", "b">>,
      <<"resize", 20>>, <<"open", "a">>, <<"create", 2, 1, "any">>, <<"rename", "b">>>>,
    <<<<"load", 7, 2>>, <<"rename", "b">>, <<"resize", 9>>, <<"meta", <<1>>>>, <<"resize", 20>>>>,
    <<<<"create", 5, 2, "rotate">>, <<"open", "b">>, <<"create", 5, 2, "rotate">>, <<"load", 5, 2>>,
      <<"resize", 7>>>> }

\* SafsInit: the main thread starts the system, two threads use it and the main
\* thread starts it again after they and it have gone; and three threads that
\* initialise, use and destroy it without waiting for each other
DiskNode == [d \in 0..5 |-> IF d \in {2, 3} THEN 1 ELSE 0]
UserCalls(kind) ==
  <<<<"started">>, <<"init", "no">>, <<"factory", kind>>, <<"io">>, <<"io">>,
    <<"drop_io">>, <<"drop_io">>, <<"drop">>, <<"destroy">>>>
MainCalls(conf) ==
  <<<<"init", conf>>, <<"join">>, <<"destroy">>, <<"init", "bad">>, <<"destroy">>,
    <<"init", "no">>, <<"factory", "cached">>, <<"io">>, <<"drop_io">>, <<"drop">>, <<"destroy">>>>
OneUse == <<<<"factory", "remote">>, <<"io">>, <<"drop_io">>, <<"drop">>>>
InitScripts ==
  {[u \in {"m", "u1", "u2"} |-> IF u = "m" THEN MainCalls(c) ELSE UserCalls(k[u])] :
     c \in {"cache", "no"}, k \in [{"u1", "u2"} -> {"remote", "cached", "aio"}]}
    \cup {[u \in {"m", "u1", "u2"} |->
             IF u = "m" THEN <<<<"init", c>>>> \o (IF c = "bad" THEN <<>> ELSE OneUse) \o <<<<"destroy">>>>
             ELSE <<<<"init", "no">>>> \o OneUse \o <<<<"destroy">>>>] : c \in {"cache", "bad"}}

\* DiskFiles: four disks of two threads; file 1 has its stripe in another order than
\* file 2; two users open, use and close a shared file or one each; or u1 writes a page
\* of file 1 and closes it, and u2 evicts the page through the remote_io of file 2
DiskUsers == {"u1", "u2"}
DisksOf == [t \in {"t1", "t2"} |-> IF t = "t1" THEN {0, 2} ELSE {1, 3}]
Mappers == <<FM!Mapper("RAID0", 4, 2, 1), FM!Mapper("RAID5", 4, 1, 0)>>
DiskOf == <<[i \in 0..3 |-> <<2, 3, 0, 1>>[i + 1]], [i \in 0..3 |-> <<0, 1, 3, 2>>[i + 1]]>>
Call(call, id, page) == [call |-> call, id |-> id, via |-> id, page |-> page]
OpenFile(id) == Call("open", id, 0)
CloseFile(id) == Call("close", id, 0)
AccessPage(id, page) == Call("access", id, page)
DiskPrograms ==
  { [u \in DiskUsers |-> <<OpenFile(id[u]), AccessPage(id[u], p), AccessPage(id[u], 7), CloseFile(id[u])>>] :
      id \in [DiskUsers -> {1, 2}], p \in {0, 5} }
  \cup { [u \in DiskUsers |-> <<OpenFile(1), AccessPage(1, 6), CloseFile(1), OpenFile(1), CloseFile(1)>>] }
  \cup { [u \in DiskUsers |->
            IF u = "u1" THEN <<OpenFile(1), AccessPage(1, p), CloseFile(1)>>
            ELSE <<OpenFile(2), [Call("writeback", 1, p) EXCEPT !.via = 2], CloseFile(2)>>] : p \in 0..3 }

\* NumaCache: the three cache_configs
CacheConf(kind, size, nodes, files) ==
  [kind |-> kind, size |-> size, nodes |-> nodes, files |-> files, shift |-> 0]
CacheConfigs ==
  { CacheConf("even", 3, <<0, 1>>, <<0>>), CacheConf("test", 2, <<0, 1, 2, 3>>, <<0>>),
    CacheConf("file_map", 4, <<0, 1>>, <<1, 0, 1, 0>>) }

\* SafsUtil: sizes that fill no page, a page, and no buffer
RAID5Mapper == FM!Mapper("RAID5", 3, 2, 1)
LoadPart(e, p) == <<"load_part", [ext |-> e, part |-> p]>>
UtilPlans ==
  {<<<<"create", s>>, <<"verify", 0>>, <<"export", 0>>, <<"load", e>>, <<"verify", e>>,
     <<"export", 0>>, <<"delete", 0>>>> : s \in {0, 5, 16}, e \in {3, 9}}
    \cup {<<<<"load", e>>, <<"verify", e>>, <<"export", 0>>>> : e \in {1, 13, 24, 39}}
    \cup {<<LoadPart(e, 0), LoadPart(e, 2), LoadPart(e, 1), <<"verify", e>>, <<"export", 0>>,
            <<"delete", 0>>>> : e \in {2, 26, 61}}

Threads == {"t1", "t2"}
Both(a, b) == ("t1" :> a) @@ ("t2" :> b)

\* Slab: two threads that run out of memory together, and single objects
A(n) == <<"alloc", n>>
F(n) == <<"free", n>>
A1 == <<"alloc1", 1>>
F1 == <<"free1", 1>>
SlabScripts ==
  { Both(<<A(3), F(2), A(2)>>, <<A(2), F(2), A(3), F(3)>>),
    Both(<<A1, A1, A1, F1, F1, F1>>, <<A1, F1, A(2), A1>>) }

\* Messages: two threads share a sender; one also has its own.  Requests are of a
\* sector or more, so that both sizes of an object are equal.
SizeOfObj(o) == IF o = 3 THEN 2 ELSE 1
MsgPlans ==
  { Both(<<<<"cached", <<1, 2, 3>>>>, <<"flush", <<>>>>>>, <<<<"cached", <<4>>>>, <<"send", <<5, 6>>>>>>),
    Both(<<<<"own", <<1, 3>>>>, <<"own", <<4, 5, 6>>>>, <<"ownflush", <<>>>>>>,
         <<<<"cached", <<2>>>>, <<"flush", <<>>>>>>) }

\* KVStore: tasks within a page, over two and three pages, and next to each other
KVTasks ==
  {[idx |-> 0, n |-> 1], [idx |-> 1, n |-> 3], [idx |-> 3, n |-> 1], [idx |-> 6, n |-> 3],
   [idx |-> 13, n |-> 1]}

\* Config: a program configures SAFS three times, from a file and arguments, with
\* options that repeat, that cannot be used and that are of another form
Opt(k, v) == <<"option", k, v>>
Block(n, s) == Opt("RAID_block_size", <<n, s>>)
Mapping(m) == Opt("RAID_mapping", m)
Root(r) == Opt("root_conf", r)
Comment == <<"comment">>
Disk(n, p) == <<"disk", n, p, TRUE>>
RAIDFiles ==
  ("r1" :> <<Comment, Disk(0, "/a"), Disk(1, "/b"), <<"disk", 0, "/cc", FALSE>>>>)
    @@ ("r2" :> <<Disk(0, "/a"), Disk(0, "/x"), Disk(1, "/b")>>)
    @@ ("r3" :> <<Disk(1, "/b"), <<"empty">>, Disk(0, "/a")>>)
    @@ ("r4" :> "dir") @@ ("r5" :> <<Disk(1, "/b"), Comment, Disk(0, "/a")>>)
ConfigPrograms ==
  { <<<<"file", <<Comment, Block(4, "K"), x, Root(r), <<"empty">>, Mapping("RAID0")>>>>,
      <<"add", <<Opt("merge_reqs", <<0, "">>), <<"other">>, Block(n, "K")>>>>, <<"init">>,
      <<"create">>, <<"add", <<Root(s), y, Opt("num_nodes", <<2, "">>), y>>>>, <<"init">>,
      <<"file", <<Opt("cache_size", <<1, "G">>), z, Root("r5")>>>>, <<"init">>>> :
      r \in {"r1", "r5"}, s \in {"r2", "r3", "r4", "none"}, n \in {8, 12},
      x \in {Opt("cache_type", "gclock"), Opt("io_depth", <<3, "">>)},
      y \in {Mapping("HASH"), Mapping("RAID7"), Block(4, "G"), Opt("cache_type", "lru")},
      z \in {<<"empty">>, <<"other">>, Block(1, "M")} }

ReqBufs == {[id |-> 1, size |-> 1], [id |-> 2, size |-> 3]}

Fil == INSTANCE SafsFiles WITH
  CONST_A <- 3, CONST_P <- 7, NDisks <- 3, Names <- {"a", "b"},
  FirstName <- "a", SysBlock <- 2, BufPages <- 4, Plans <- FilePlans,
  MaxFaults <- 2, NULL <- Nil, fs <- v1, obj <- v2, op <- v3, plan <- v4,
  ret <- v5, faults <- v6, num_files <- v7, loaded <- v8, cut <- v9

Ini == INSTANCE SafsInit WITH
  Users <- {"m", "u1", "u2"}, Main <- "m", Disks <- 0..5,
  DiskNode <- DiskNode, NumIOThreads <- 2, Scripts <- InitScripts,
  NULL <- Nil, init_count <- v1, raid_conf <- v2, cache <- v3,
  read_threads <- v4, open <- v5, script <- v6, pc <- v7, held <- v8,
  used <- v9, early <- v10, failed <- v11

Dsk == INSTANCE DiskFiles WITH
  CONST_A <- 3, CONST_P <- 7, Threads <- {"t1", "t2"}, DisksOf <- DisksOf,
  MapperOf <- Mappers, DiskOf <- DiskOf, Users <- DiskUsers,
  Programs <- DiskPrograms, NoFile <- Nil, open_files <- v1,
  comm_queue <- v2, queue <- v3, thread <- v4, todo <- v5, user <- v6,
  left <- v7, is_complete <- v8, comm_alive <- v9, signalled_dead <- v10,
  held <- v11, accessed <- v12, fault <- v13

Num == INSTANCE NumaCache WITH
  Configs <- CacheConfigs, Pages <- 0..3,
  Batches <- {<<1, 2>>, <<0, 2>>, <<3>>}, MaxFlush <- {1, 2}, None <- Nil,
  conf <- v1, node_ids <- v2, threads <- v3, made <- v4, caches <- v5,
  held <- v6, dirty <- v7, home <- v8, flushed <- v9

Utl == INSTANCE SafsUtil WITH
  CONST_A <- 3, CONST_P <- 7, UtilMapper <- RAID5Mapper, Sector <- 2,
  PageLen <- 4, BufLen <- 16, ExportLen <- 12, UtilPlans <- UtilPlans,
  store <- v1, hsize <- v2, ucmd <- v3, uplan <- v4, ubuf <- v5, out <- v6,
  want <- v7

Slb == INSTANCE Slab WITH
  Threads <- Threads, Scripts <- SlabScripts, Increase <- 2, MaxSize <- 3,
  LocalBuf <- 2, NULL <- Nil, next <- v1, head <- v2, last <- v3,
  size <- v4, curr_size <- v5, blocks <- v6, local <- v7, th <- v8

Msg == INSTANCE Messages WITH
  Threads <- Threads, Plans <- MsgPlans, SizeOf <- SizeOfObj, Written <- SizeOfObj, MsgSize <- 2,
  Buffers <- 1..8, Objs <- 1..6, NULL <- Nil, buf <- v1, bufs <- v2,
  nobjs <- v3, queue <- v4, used <- v5, snd <- v6, rcv <- v7

Arr == INSTANCE PageArrays WITH
  Pages <- {"a", "b", "c"}, Shapes <- {<<"a", "b">>, <<"a", "b", "c">>},
  ReqAddrs <- 1..2, ArrAddrs <- 1..2, SimpAddrs <- {1}, Stack <- 0, Size <- 2,
  MaxReqs <- 2, HeapIds <- 1..4, NULL <- Nil, Junk <- "junk", refcnt <- v1,
  heap <- v2, reqs <- v3, arrs <- v4, simps <- v5, made <- v6

Cnf == INSTANCE Config WITH
  Programs <- ConfigPrograms, RAIDFiles <- RAIDFiles, Dirs <- {"/a", "/b", "/c"},
  Cut <- ("/cc" :> "/c"), Kilo <- 16, IntBits <- 14, PageSize <- 64,
  HwNodes <- 4, NULL <- Nil, configs <- v1, params <- v2, raid <- v3,
  given <- v4, inits <- v5, threw <- v6, calls <- v7

Byt == INSTANCE ByteArrays WITH
  PageSize <- 4, BlockSize <- 2, MaxOff <- 3, MaxSize <- 10,
  ElemSizes <- {1, 2}, arr <- v1, T <- v2, from <- v3, to <- v4, it <- v5,
  at <- v6, more <- v7, past <- v8

Buf == INSTANCE NumaBuffer WITH
  PageSize <- 2, NumNodesLog <- {0, 1, 2}, RangeSizeLog <- {1, 2},
  MaxLength <- 10, MaxIO <- 2, Writes <- 2, mapper <- v1, length <- v2,
  buf_lens <- v3, bufs <- v4, content <- v5, step <- v6

KV == INSTANCE KVStore WITH
  PerPage <- 2, Tasks <- KVTasks, MaxPending <- 2, MaxAsks <- 4,
  task_buf <- v1, num_pending_tasks <- v2, ios <- v3, asked <- v4,
  served <- v5, bad <- v6

Req == INSTANCE IORequest WITH
  Exts <- {1, 2}, Bufs <- ReqBufs, Embedded <- 1, MinAlloc <- 2,
  CapBits <- 4, MaxBufs <- 5, PageSize <- 4, BlockPages <- 2, MaxOff <- 9,
  MaxSize <- 10, ObjSize <- 7, PayloadSize <- 3, MaxInline <- 5, IOs <- 1..3,
  MaxDone <- 4, ext <- v1, added <- v2, req <- v3, done <- v4, failed <- v5

Flg == INSTANCE PageFlags WITH
  Users <- Threads, Completers <- {"c1", "c2"}, PageIds <- {"a", "b"},
  NoId <- "none", Nobody <- "nobody", MaxOps <- 3, MaxMerges <- 2,
  flags <- v1, meant <- v2, id <- v3, refcnt <- v4, cell_lock <- v5,
  page_lock <- v6, reqs <- v7, disk <- v8, pc <- v9, loaded <- v10,
  call <- v11, ops <- v12, merges <- v13

StorageInit ==
  \/ which = "files" /\ Fil!SafsInit /\ Zero9
  \/ which = "init" /\ Ini!Init /\ Zero11
  \/ which = "disk" /\ Dsk!Init /\ Zero13
  \/ which = "numa" /\ Num!Init /\ Zero9
  \/ which = "util" /\ Utl!UtilInit /\ Zero7
  \/ which = "slab" /\ Slb!Init /\ Zero8
  \/ which = "msg" /\ Msg!Init /\ Zero7
  \/ which = "arrays" /\ Arr!Init /\ Zero6
  \/ which = "config" /\ Cnf!Init /\ Zero7
  \/ which = "bytes" /\ Byt!Init /\ Zero8
  \/ which = "buffer" /\ Buf!Init /\ Zero6
  \/ which = "kv" /\ KV!Init /\ Zero6
  \/ which = "request" /\ Req!Init /\ Zero5
  \/ which = "flags" /\ Flg!Init /\ Zero13

StorageNext ==
  \/ which = "files" /\ Fil!SafsNext /\ Keep9
  \/ which = "init" /\ Ini!Next /\ Keep11
  \/ which = "disk" /\ Dsk!FileNext /\ Keep13
  \/ which = "numa" /\ Num!NumaNext /\ Keep9
  \/ which = "util" /\ Utl!UtilNext /\ Keep7
  \/ which = "slab" /\ Slb!Next /\ Keep8
  \/ which = "msg" /\ Msg!Next /\ Keep7
  \/ which = "arrays" /\ Arr!Next /\ Keep6
  \/ which = "config" /\ Cnf!Next /\ Keep7
  \/ which = "bytes" /\ Byt!Next /\ Keep8
  \/ which = "buffer" /\ Buf!Next /\ Keep6
  \/ which = "kv" /\ KV!Next /\ Keep6
  \/ which = "request" /\ Req!Next /\ Keep5
  \/ which = "flags" /\ Flg!FlagNext /\ Keep13

ASSUME StorageConstants ==
  /\ Fil!SafsAssumption /\ Ini!InitAssumption /\ Dsk!DiskFilesAssumption
  /\ Num!NumaCacheAssumption
  /\ Slb!SlabAssumption /\ Byt!ByteArraysAssumption /\ Buf!NumaAssumption
  /\ KV!KVAssumption /\ Req!IORequestAssumption
  /\ Arr!PageArraysAssumption /\ Cnf!ConfigAssumption /\ Flg!ThreadsApart

\* The mappers place no two pages of a file at one place, and the sizes of the files
\* on the disks cover every page (FileMapper)
ASSUME MappersRight ==
  \A option \in FM!Options, n \in 1..4, block \in 1..3, start \in 0..1 :
    LET m == FM!Mapper(option, n, block, start % n)
    IN \A size \in 0..30 : FM!Injective(m, size) /\ FM!SizesCover(m, size)

\* A file that create_file made is whole for every later reader, exist() and
\* create_file_mapper() agree in every state that failed and interrupted calls
\* leave, and what load_data wrote is what a reader finds through the mapper and
\* the header after renames, new metadata and resizes, but for the partitions that a
\* resize makes shorter, which are not on the disk of their number.  export returns
\* what create, load or a load_part for every partition put in the file, and verify
\* finds no difference and looks at all of it, for sizes that fill neither page nor
\* buffer.
FilesExact ==
  /\ which = "files" => Fil!CreatedWhole /\ Fil!MapperAgrees /\ Fil!LoadedKept
  /\ which = "util" => Utl!ExportExact /\ Utl!VerifyClean

\* A caller that found the system complete when its init_io_system returned keeps it
\* until it calls destroy_io_system, whatever the others do, and only one that
\* returned while another initialised or destroyed it fails; every disk is served by
\* the I/O thread whose partition holds it, which has the files of the live factories
\* open.  The system runs with the option given last for each parameter, over every
\* configuration of the program, and with every disk that its RAID file names, by the
\* path the file gives but for a last line without newline, or with none.
UsersKeepSystem ==
  /\ which = "init" => Ini!UsersKeepSystem /\ Ini!ThreadsServeDisks
  /\ which = "config" => Cnf!ParamsExact /\ Cnf!RAIDWhole /\ Cnf!MapperMade

\* An access that an I/O thread carries out goes to the disk and the page that the
\* mapper of its file names, although the caller and the I/O thread find them
\* separately and the I/O thread numbers the files of its partition anew; the
\* assertions on the way fail only for a dirty page evicted through the remote_io of
\* another file, when its own file was closed or the mappers of the two files
\* disagree on the thread.  A file that a factory has opened and not begun to close is
\* open in every I/O thread, whatever the other factories that share it do meanwhile.
AccessExact == which = "disk" => Dsk!AccessExact /\ Dsk!OpenWhileHeld

\* Every call about a page goes to the same part of a NUMA_cache; each part is the
\* one of its node and of the size computed for it, whatever the order in which the
\* threads that make them finish; a flush writes no more pages than it may.
OneHome == which = "numa" => Num!OneHome /\ Num!PartOnItsNode /\ Num!FlushBudget

\* Memory has one owner.  Every object of a slab allocator's blocks is on the list, in
\* a thread's buffer, on its way or with one caller, and the memory claimed stays
\* below max_size plus one block, although threads allocate blocks without the lock.
\* A message buffer belongs to one message, although messages are copied by memcpy,
\* and every object is not yet sent, in one message or received once, through
\* flushes by several threads of one sender and messages read in part.  A page has a
\* reference for each request, byte array and clone that will give one back, and a
\* heap buffer of an embedded_array has one owner, while pages move from one to another.
MemoryOwned ==
  /\ which = "slab" => Slb!ObjectsConserved /\ Slb!SizeBounded
  /\ which = "msg" => Msg!BuffersOwned /\ Msg!ObjectsOnce
  /\ which = "arrays" => Arr!RefsExact /\ Arr!PagesKept /\ Arr!HeapOwned

\* Data read through page_byte_array's iterators and memcpy, and through NUMA_buffer's
\* copies, loads and dump, is what is in the file, or was copied in, at that place,
\* for arrays that begin and end within pages and ranges of any alignment.  The
\* sequential iterator shows all of it, unless a move_to went past the end, and never
\* says that fewer elements remain than do.
CopiesExact ==
  /\ which = "bytes" => Byt!IteratorExact /\ Byt!CopiesExact /\ Byt!RemainingRight
  /\ which = "buffer" => Buf!CopyExact /\ Buf!LengthsExact

\* The buffers of a request are those it was given, in order, through every growth of
\* the vector up to the limit of vec_capacity, where the next buffer fails; a request
\* taken apart page by page is whole; every finished request is delivered once, to
\* its own I/O; and every entry asked of the key-value store is served by as many
\* tasks as asked for it, through merging, sorting and packing.
RequestsWhole ==
  /\ which = "request" => Req!BuffersInOrder /\ Req!PartsWhole /\ Req!DeliveredOnce
  /\ which = "kv" => KV!EntriesServed /\ KV!SlotsKept

\* No change of a page's flags is lost, although OLD_DIRTY is written with a plain load
\* and store of the byte; a page is never dirty and old dirty at once; and a page
\* that may be evicted has no I/O in flight.
FlagsExact == which = "flags" => Flg!FlagsExact /\ Flg!DirtyExcludes /\ Flg!EvictedQuiet

\* "As long as all threads call init_io_system() first before using the global data,
\* they will all see the complete global data." (io_interface.cpp:56)
InitComplete == which = "init" => Ini!InitComplete

\* "And then wait for the command to be executed." (disk_read_thread.h:168): the
\* I/O thread is done with a command when its owner deletes it.
CommandAlive == which = "disk" => Dsk!CommandAlive

-----------------------------------------------------------------------------
(***************************************************************************)
(* Parts of the page cache and of the I/O above it whose callers wait for  *)
(* each other, each on its own: PageTable, Eviction, Queues, CompIO,       *)
(* IOSelect, MergeRequests and GlobalCachedIO.                             *)
(***************************************************************************)
\* PageTable, a table of one cell: it is split while two threads look up pages that
\* move; two threads expand and one shrinks it; a cell that cannot be split is merged
\* back
Growers == {grower1, grower2}
Readers == {"r1", "r2"}
Grow(a, b) == (grower1 :> a) @@ (grower2 :> b)
Look(a, b) == ("r1" :> a) @@ ("r2" :> b)
TableScenarios ==
  { [calls |-> Grow(<<<<"expand", 4>>>>, <<>>),
     lookups |-> Look(<<<<"search", 0>>, <<"search", 1>>, <<"drop">>>>, <<<<"search", 1>>, <<"drop">>>>)],
    [calls |-> Grow(<<<<"expand", 1>>>>, <<<<"expand", 5>>, <<"expand", 1>>, <<"shrink", 1>>>>),
     lookups |-> Look(<<<<"write", 1>>, <<"drop">>, <<"peek", 0>>, <<"search", 1>>, <<"drop">>>>, <<>>)],
    [calls |-> Grow(<<<<"expand", 3>>>>, <<>>),
     lookups |-> Look(<<<<"search", 0>>, <<"search", 2>>, <<"drop">>>>,
                      <<<<"search", 4>>, <<"drop">>, <<"search", 0>>, <<"drop">>>>)] }

\* Queues: two producers and two consumers on a queue that grows once; adds that may
\* give up; an interrupted fetch; queues with a spin lock that grow, one to its limit
Producers == {"p1", "p2"}
Consumers == {"c1", "c2"}
INF == 99   \* INT_MAX
Add(p, ks, min) == [entries |-> [i \in 1 .. Len(ks) |-> <<p, ks[i]>>], min |-> min]
Fetch(blocking, interruptible) ==
  [num |-> 1, blocking |-> blocking, interruptible |-> interruptible]
Wait == Fetch(TRUE, FALSE)
Try == Fetch(FALSE, FALSE)
Give(a, b) == ("p1" :> a) @@ ("p2" :> b)
Take(a, b) == ("c1" :> a) @@ ("c2" :> b)
QueueConfigs ==
  { [kind |-> "blocking", init |-> 1, max |-> 2, wakeups |-> 0,
     add |-> Give(<<Add("p1", <<1, 2, 3>>, INF)>>, <<Add("p2", <<1>>, INF), Add("p2", <<2>>, INF)>>),
     fetch |-> Take(<<Wait, Wait>>, <<Wait, Wait, Wait>>)],
    [kind |-> "blocking", init |-> 2, max |-> 2, wakeups |-> 0,
     add |-> Give(<<Add("p1", <<1, 2, 3>>, 1), Add("p1", <<4, 5>>, 0)>>, <<Add("p2", <<1, 2, 3>>, 1)>>),
     fetch |-> Take(<<Wait, Wait>>, <<Wait>>)],
    [kind |-> "blocking", init |-> 2, max |-> 2, wakeups |-> 1,
     add |-> Give(<<Add("p1", <<1>>, INF)>>, <<>>),
     fetch |-> Take(<<Fetch(TRUE, TRUE)>>, <<>>)],
    [kind |-> "spin", init |-> 2, max |-> 8, wakeups |-> 0,
     add |-> Give(<<Add("p1", <<1>>, INF), Add("p1", <<2, 3>>, INF)>>, <<Add("p2", <<1, 2, 3>>, INF)>>),
     fetch |-> Take(<<Try, Try>>, <<Try>>)],
    [kind |-> "spin", init |-> 2, max |-> 4, wakeups |-> 0,
     add |-> Give(<<Add("p1", <<1>>, INF), Add("p1", <<2, 3>>, INF)>>, <<Add("p2", <<1, 2, 3>>, INF)>>),
     fetch |-> Take(<<Try, Try>>, <<Try>>)] }

\* CompIO: four tasks, what their runs ask for and the bytes their requests read; two
\* requests of one access are behind the limit, of two tasks or of a task twice
Of(a, b, c, d) == ("a" :> a) @@ ("b" :> b) @@ ("c" :> c) @@ ("d" :> d)
TaskRuns == Of(<<2, 0, 1>>, <<>>, <<1, 2>>, <<>>)
TaskOff == Of(3, 0, 4, 1)
TaskSize == Of(2, 4, 4, 1)
TaskScenarios ==
  { [kind |-> "direct", calls |-> <<<<"access", <<"a">>>>, <<"access", <<"b">>>>, <<"access", <<"c">>>>,
        <<"wait", 1>>, <<"access", <<"d">>>>, <<"cleanup">>>>],
    [kind |-> "direct", calls |-> <<<<"access", <<"c", "a", "b">>>>, <<"wait", 2>>, <<"wait", 0>>, <<"cleanup">>>>],
    [kind |-> "direct", calls |-> <<<<"access", <<"c", "a", "b", "d">>>>, <<"wait", 1>>, <<"cleanup">>>>],
    [kind |-> "direct", calls |-> <<<<"access", <<"c", "a", "d", "a">>>>, <<"wait", 2>>, <<"cleanup">>>>],
    [kind |-> "mem", calls |-> <<<<"access", <<"a", "b">>>>, <<"access", <<"c">>>>>>] }

PT == INSTANCE PageTable WITH
  Frames <- {"f1", "f2", "f3", "f4", "f5"}, InitFrames <- 0 :> {"f1"},
  Threads <- Growers, Readers <- Readers, Scenarios <- TableScenarios,
  init_ncells <- 1, TableSize <- 5, MinPages <- 1, CELL_MIN_NUM_PAGES <- 1,
  CELL_SIZE <- 3, None <- Nil, Pool <- FREE, level <- v1, split <- v2,
  height <- v3, cellidx <- v4, narrays <- v5, seq <- v6, expanding <- v7,
  cache_npages <- v8, locked <- v9, home <- v10, id <- v11, ref <- v12,
  dirty <- v13, th <- v14, rd <- v15, failed <- v16

Evi == INSTANCE Eviction WITH
  N <- 3, Policies <- {"LRU", "LFU", "FIFO", "clock", "gclock"},
  MaxHits <- 3, MAX_NUM_WRITEBACK <- 2, MaxSearches <- 6, policy <- v1,
  cell <- v2, head <- v3, pos_vec <- v4, idx <- v5, null <- v6,
  searches <- v7

Que == INSTANCE Queues WITH
  Producers <- Producers, Consumers <- Consumers, Wakers <- {"w1"},
  Configs <- QueueConfigs, Junk <- Nil, conf <- v1, buf <- v2, start <- v3,
  end <- v4, interrupted <- v5, waiters <- v6, pr <- v7, co <- v8, wk <- v9,
  given <- v10, out <- v11, failed <- v12

Cmp == INSTANCE CompIO WITH
  Computes <- {"a", "b", "c", "d"}, Gen <- TaskRuns, ReqOff <- TaskOff,
  ReqSize <- TaskSize, BlockSize <- 4, MaxMem <- 10, BufCap <- 3,
  QueueCap <- 3, Scenarios <- TaskScenarios, kind <- v1, calls <- v2,
  comp <- v3, queue <- v4, start <- v5, curr_it <- v6, some_done <- v7,
  req_buf <- v8, under <- v9, alloc_mem <- v10, issued <- v11,
  completed <- v12, pc <- v13, bad <- v14

\* IOSelect: a callback of the second remote_io issues a request to the first
Access(io, parts) == <<"access", io, parts>>
SelectPrograms ==
  { <<Access("r1", 2), Access("r2", 1), <<"wait", 1>>, Access("r2", 2), <<"wait", 0>>>>,
    <<Access("r1", 1), Access("r1", 1), <<"wait", 1>>, <<"wait", 0>>>> }

Sel == INSTANCE IOSelect WITH
  Remote <- {"r1", "r2"}, Given <- {<<"r1", "m", "r2", "r1">>, <<"m", "r2", "r1">>, <<"m">>},
  Programs <- SelectPrograms, Follow <- ("r1" :> Nil) @@ ("r2" :> <<"r1", 2>>),
  MaxReqs <- 4, BusyWait <- FALSE, NULL <- Nil, ios <- v1, cached <- v2,
  flight <- v3, queue <- v4, left <- v5, of <- v6, issued <- v7,
  completed <- v8, notifying <- v9, activated <- v10, calls <- v11, pc <- v12

\* MergeRequests: reads next to each other, over the end of a RAID block, of pages
\* that others are reading, and of user tasks
Rd(off, n) == <<"read", off, n>>
MergePrograms ==
  { <<Rd(0, 1), Rd(1, 2), Rd(3, 2), Rd(2, 2), <<"wait", 2>>, Rd(1, 3), <<"wait", 9>>>>,
    <<Rd(2, 1), Rd(3, 1), <<"flush">>, Rd(4, 1), <<"compute", 0, 3>>, Rd(5, 1), <<"wait", 9>>>>,
    <<Rd(0, 6), <<"compute", 4, 2>>, <<"wait", 1>>, Rd(2, 2), Rd(4, 1), <<"compute", 1, 2>>,
      <<"wait", 9>>>> }

Mrg == INSTANCE MergeRequests WITH
  Pages <- 0..5, BlockSize <- 4, Programs <- MergePrograms, Exts <- 1..8,
  MaxEvict <- 2, NULL <- Nil, page <- v1, under <- v2, flight <- v3,
  doneq <- v4, num <- v5, lacks <- v6, tasks <- v7, notifying <- v8,
  activated <- v9, calls <- v10, pc <- v11, evicted <- v12

\* GlobalCachedIO: two instances share a page set of two frames over a file of three
\* pages, with RAID blocks of two pages, so every scenario evicts, and most run out of
\* unreferenced frames
Req1(io, n, op, lo, hi, part, sync) ==
  [io |-> io, n |-> n, op |-> op, lo |-> lo, hi |-> hi, part |-> part, sync |-> sync]
Async(io, n, op, lo, hi, part) == Req1(io, n, op, lo, hi, part, FALSE)
Sync(io, n, op, lo, hi, part) == <<Req1(io, n, op, lo, hi, part, TRUE)>>
Instances == {"io1", "io2"}
Issue(a, b) == ("io1" :> a) @@ ("io2" :> b)
CachedScripts ==
  { \* a write and a read in one array against a write of one of the pages read
    Issue(<<<<Async("io1", 1, "WRITE", 0, 0, FALSE), Async("io1", 2, "READ", 1, 2, FALSE)>>>>,
          <<<<Async("io2", 1, "WRITE", 1, 1, FALSE)>>>>),
    \* a read across RAID blocks of more pages than the set has
    Issue(<<<<Async("io1", 1, "WRITE", 0, 0, FALSE)>>>>, <<<<Async("io2", 1, "READ", 0, 2, TRUE)>>>>),
    \* a synchronous write while a user compute holds pages
    Issue(<<Sync("io1", 1, "WRITE", 0, 0, TRUE)>>, <<<<Async("io2", 1, "COMPUTE", 0, 1, FALSE)>>>>),
    \* a synchronous read of several pages while a user compute holds them
    Issue(<<Sync("io1", 1, "READ", 1, 2, FALSE)>>, <<<<Async("io2", 1, "COMPUTE", 0, 1, FALSE)>>>>),
    \* a write that ends within its second page, and a read of that page
    Issue(<<<<Async("io1", 1, "WRITE", 0, 1, TRUE)>>>>, <<Sync("io2", 1, "READ", 1, 1, FALSE)>>),
    \* an array whose rest queues behind a request that cannot finish, and requests
    \* made meanwhile
    Issue(<<<<Async("io1", 1, "READ", 0, 2, FALSE), Async("io1", 2, "WRITE", 1, 1, TRUE)>>,
            <<Async("io1", 3, "WRITE", 0, 2, FALSE)>>, <<Async("io1", 4, "READ", 0, 0, FALSE)>>>>, <<>>),
    \* a synchronous request made while an earlier one is unfinished
    Issue(<<<<Async("io1", 1, "READ", 0, 2, FALSE)>>, Sync("io1", 2, "WRITE", 0, 0, FALSE)>>, <<>>) }

GC == INSTANCE GlobalCachedIO WITH
  Clients <- Instances, Frames <- {"f1", "f2"}, FilePages <- 0..2, Scripts <- CachedScripts,
  BlockPages <- 2, MaxPending <- 2, MaxUnderlying <- 2, None <- Nil, frame <- v1, disk <- v2,
  current <- v3, raced <- v4, misread <- v5, under <- v6, done <- v7, held <- v8, cl <- v9,
  failed <- v10

CacheInit ==
  \/ which = "table" /\ PT!Init /\ Zero16
  \/ which = "cell" /\ Evi!Init /\ Zero7
  \/ which = "queue" /\ Que!Init /\ Zero12
  \/ which = "compute" /\ Cmp!Init /\ Zero14
  \/ which = "select" /\ Sel!Init /\ Zero12
  \/ which = "merge" /\ Mrg!Init /\ Zero12
  \/ which = "cached" /\ GC!Init /\ Zero10

CacheNext ==
  \/ which = "table" /\ PT!Next /\ Keep16
  \/ which = "cell" /\ Evi!Next /\ Keep7
  \/ which = "queue" /\ Que!Next /\ Keep12
  \/ which = "compute" /\ Cmp!Next /\ Keep14
  \/ which = "select" /\ Sel!Next /\ Keep12
  \/ which = "merge" /\ Mrg!Next /\ Keep12
  \/ which = "cached" /\ GC!Next /\ Keep10

CacheFairness ==
  /\ \A t \in Growers : WF_pool(which = "table" /\ v16 = {} /\ PT!Maintain(t) /\ Keep16)
  /\ \A r \in Readers : WF_pool(which = "table" /\ v16 = {} /\ PT!Lookup(r) /\ Keep16)
  /\ \A p \in Producers : WF_pool(which = "queue" /\ v12 = {} /\ Que!Produce(p) /\ Keep12)
  /\ \A c \in Consumers : WF_pool(which = "queue" /\ v12 = {} /\ Que!Consume(c) /\ Keep12)
  /\ WF_pool(which = "queue" /\ v12 = {} /\ Que!wakeup("w1") /\ Keep12)
  /\ WF_pool(which = "compute" /\ Cmp!Next /\ Keep14)
  /\ WF_pool(which = "select" /\ Sel!User /\ Keep12)
  /\ WF_pool(which = "select" /\ Sel!Disks /\ Keep12)
  /\ WF_pool(which = "merge" /\ Mrg!User /\ Keep12)
  /\ WF_pool(which = "merge" /\ Mrg!Disks /\ Keep12)
  /\ \A c \in Instances : WF_pool(which = "cached" /\ ~GC!Aborted /\ GC!Client(c) /\ Keep10)
  /\ \A c \in Instances : SF_pool(which = "cached" /\ ~GC!Aborted /\ GC!Given(c) /\ Keep10)
  /\ WF_pool(which = "cached" /\ ~GC!Aborted /\ GC!Disks /\ Keep10)

ASSUME CacheConstants == 
  PT!TableAssumption /\ Evi!EvictionAssumption /\ Cmp!CompAssumption /\ GC!CachedAssumption

\* While a thread holds a page it found, no eviction, split or merge of the hash table
\* takes the page or its identity away; a shrink does not either, unless the page is
\* found while steal_pages, which has no cell lock, is between its test and its taking.
\* Between two operations every cell has the pages that sanity_check asks for and none
\* is lost.  The only assertion that can fail is that of steal_pages on a dirty page,
\* and no page of a cell that expand could not fill is ever in use when merge waits.
PageKept ==
  which = "table" => PT!PageKept /\ PT!Sane /\ PT!OnlyStealFails /\ PT!MergeUnused

\* No step goes ahead too early: a lookup whose sequence count is unchanged computed
\* the cell that the page has at that moment, whatever it read of level and split
\* while the table was split, and a miss evicts no page that is in use, under any
\* eviction policy.
StepsSafe == [][/\ which = "table" => PT!LookupStep
                /\ which = "cell" => Evi!LeavesUsed]_pool

\* gclock evicts the page with the lowest flush score, although one walks the hand
\* and the other sorts, and predict_evicted_pages finds the same pages.
EvictsLowestScore == which = "cell" => Evi!EvictsLowestScore /\ Evi!PredictionIsScore

\* What was fetched from a queue and what is in it are the entries added, in the
\* order of the adds, through wrap-around, partial adds and expansion; the assertion
\* that all entries of an add fit fails only with the queue full at its limit.
FIFOOrder == which = "queue" => Que!FIFOOrder

\* No work is lost or counted twice.  A user task has a reference for each of its
\* requests and one for its place in the queue, but for the requests that one access
\* puts behind the memory limit after the first: those have none (owed), so a task
\* with such a request is freed that much earlier.  The memory of the requests at the
\* disks is counted exactly and bounded.  The parts of the requests that wait4ios waits
\* for are counted exactly.  A page that is read is in one request, through the merging
\* of flush_requests, which makes none that crosses a RAID block.  And no thread sleeps
\* on requests that it has yet to send.
WorkConserved ==
  /\ which = "compute" => Cmp!RefsExact /\ Cmp!MemoryBounded
  /\ which = "select" => Sel!SelectPendingExact /\ Sel!SleepsOnFlight
  /\ which = "merge" => Mrg!PagesOnce /\ Mrg!MergedInBlock /\ Mrg!UnderlyingExact
                        /\ Mrg!SleepsOnSent

Waiting ==
  \/ which = "table" /\ ~PT!Returned
  \/ which = "queue" /\ ~Que!CallsMade
  \/ which = "compute" /\ ~Cmp!TasksDone
  \/ which = "select" /\ ~Sel!CallsDone
  \/ which = "merge" /\ ~Mrg!WaitsDone

\* Nobody waits for ever: expand, shrink and lookups return unless an assertion of
\* steal_pages ends the program (the sequence lock starves no lookup; the busy wait of
\* merge finds no page in use), every blocking add and fetch ends, every task that lost
\* no reference has its runs and is freed, and wait4ios and a wait4complete that merges
\* requests return.
WaitersReturn == <>[]~Waiting

\* The reference count of a page in the cache is the number of requests that wait on
\* it, are queued with it or hold it, plus one while it is written back: no reference
\* leaks and none is dropped early.
RefExact == which = "cached" => GC!RefExact

\* The assertions of global_cached_io hold in every interleaving, but for three that
\* fail in exactly these cases: a request evicts a page of its own range or the one
\* behind it (global_cached_private.cpp:1236), a synchronous request finds no page at
\* all (1486), a synchronous request was made while an earlier request waited for
\* pages (1516).  cleanup returns with nothing of the instance left.
AssertionsHold == which = "cached" => GC!AssertionsHold

\* The cache never serves stale or lost data, but for pages read from the file while
\* an evicted frame still held their newer data, which no search finds, and the last
\* page of a write of several pages that ends within it, which is filled with the
\* first page of the request (907-908).
Coherent == which = "cached" => GC!Coherent

\* Every request completes and every cleanup returns unless one of the three assertions
\* ends the program, except a synchronous request of several pages that found some of
\* them and then no room (1719-1723): it alone sleeps for ever.
AllReturn == <>[](which = "cached" => GC!Settled)

\* "We are going to write to part of a page, therefore, we need to first read the
\* page." (global_cached_private.cpp:902): what is read into a frame is its page.
PartReadsPage == which = "cached" => GC!PartReadsPage

-----------------------------------------------------------------------------
PoolInit == which \in Systems /\ (StructuresInit \/ StorageInit \/ CacheInit)

PoolNext == StructuresNext \/ StorageNext \/ CacheNext

\* For the runs that check safety only
PoolSteps == PoolInit /\ [][PoolNext]_pool

PoolSpec == PoolSteps /\ StructuresFairness /\ CacheFairness
=============================================================================
