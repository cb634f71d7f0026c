------------------------------- MODULE Engine -------------------------------
(***************************************************************************)
(* A run of a tree program from the parameters to the answers: Params,     *)
(* ComputeEngine.hpp, the constructor and destroy() of BinaryTreeProgram,  *)
(* the roots chosen by examples/kdtree.cpp, NodeView::prep() reading the   *)
(* columns while the trees are built, ProximityQuery and kdnode::distance  *)
(* reading the rows, over the IO objects of MatrixIO.                      *)
(*                                                                         *)
(* The MemoryIO is a singleton every tree of every engine shares; a SyncIO *)
(* belongs to one tree.  What build() does with a column is in KdTree and  *)
(* how the leaves are found is in KdQuery.                                 *)
(***************************************************************************)
EXTENDS MatrixIO, FiniteSetsExt

CONSTANTS
  Files,            \* name -> [M, dim, orient, fvecs]: a matrix and its layout
  ParamSets,        \* the parameters engines are created with
  K,                \* neighbours a query asks for
  MaxEngines,       \* bound: engines created one after the other
  MaxLevel,         \* bound: levels of a tree that are built
  MaxQueries        \* bound: queries asked of an engine

VARIABLES
  memIO,            \* memIOSingleton: <<>> or <<record>>
  files,            \* name -> cells
  params,           \* parameters of the engine that lives
  forest,           \* its trees: sequence of [id, io, split, level, index]
  pc,
  first,            \* parameters the singleton was created with, or NoParams
  engines,          \* engines created so far
  temps,            \* rows and columns this engine has allocated, not deleted
  freed,            \* times the loaded matrix has been deleted
  loads,            \* times a matrix has been loaded
  asked,            \* the sample the query is about, a row of the file
  result,           \* result[t]: the neighbours tree t has evaluated
  queries           \* queries this engine has answered

engVars ==
  <<memIO, files, params, forest, pc, first, engines, temps, freed, loads, asked,
    result, queries>>

NoParams == [fn |-> NoFile, iotype |-> "NONE", orient |-> INVALID, dim |-> <<0, 0>>,
             ntree |-> 0, nthread |-> 0]
NoIO == [fn |-> NoFile]

Cells(f) ==
  IF Files[f].fvecs THEN FvecsLayout(Files[f].M, Files[f].dim[1], Files[f].dim[2])
  ELSE Layout(Files[f].M, Files[f].dim[1], Files[f].dim[2], Files[f].orient)

EngInit ==
  /\ memIO = << >>
  /\ files = [f \in DOMAIN Files |-> Cells(f)]
  /\ params = NoParams /\ first = NoParams
  /\ forest = << >> /\ result = << >>
  /\ pc = "none"
  /\ asked = 0 /\ engines = 0 /\ temps = 0 /\ freed = 0 /\ loads = 0 /\ queries = 0

-----------------------------------------------------------------------------
\* Params(): only the in-memory mode may have threads.
ParamsAllowed(p) == p.iotype = "MEM" \/ p.nthread <= 1

\* The part of BinaryTreeProgram's constructor that configures a MemoryIO.
\* Every tree repeats it on the same object.
ConfigureMem(p) ==
  from_file(
    set_shape(
      set_orientation(
        set_fn(IF memIO = << >> THEN NewMemoryIO ELSE memIO[1], p.fn), p.orient),
      p.dim),
    files, {f \in DOMAIN Files : Files[f].fvecs})

NewTree(p, t) ==
  [id |-> t, split |-> 0, level |-> -1, index |-> << >>,
   io |-> IF p.iotype = "SYNC" THEN NewSyncIO(p.fn, p.dim, p.orient) ELSE NoIO]

\* The assert of main() on the parameters.
MainAssert(p) == p.ntree < p.dim[2]

\* ComputeEngine::create(params), after Params().  IOfactory throws for SEM.
Create(p) ==
  /\ pc = "none"
  /\ engines < MaxEngines
  /\ ParamsAllowed(p)
  /\ p.iotype # "SEM"
  /\ MainAssert(p)
  /\ engines' = engines + 1
  /\ params' = p
  /\ forest' = [t \in 1 .. p.ntree |-> NewTree(p, t - 1)]
  /\ IF p.iotype = "MEM"
       THEN /\ memIO' = <<ConfigureMem(p)>>
            /\ first' = IF memIO = << >> THEN p ELSE first
            /\ loads' = loads + (IF memIO = << >> \/ memIO[1].data = NULL
                                   THEN 1 ELSE 0)
       ELSE UNCHANGED <<memIO, first, loads>>
  /\ pc' = "roots"
  /\ UNCHANGED <<files, temps, freed, asked, result, queries>>

\* cunsigned::inc().
inc(val, max) == IF val = max - 1 THEN 0 ELSE val + 1

\* The t-th root's dimension when the first is g: get() and t - 1 inc()s.
SplitOf(g, t, max) ==
  LET s[i \in 1 .. t] == IF i = 1 THEN g ELSE inc(s[i - 1], max)
  IN  s[t]

\* RandomSplit::generate(): both ends are included.
Draws(nfeatures) == 0 .. nfeatures

\* cunsigned's constructor.
cunsigned_throws(val, max) == max = 0 \/ val >= max

\* The loop of main() over the trees, from the first dimension g.
SetRoots(g) ==
  /\ pc = "roots"
  /\ IF cunsigned_throws(g, params.dim[2])
       THEN pc' = "threw" /\ UNCHANGED forest
       ELSE /\ pc' = "train"
            /\ forest' = [t \in DOMAIN forest |->
                            [forest[t] EXCEPT !.split = SplitOf(g, t, params.dim[2])]]
  /\ UNCHANGED <<memIO, files, params, first, engines, temps, freed, loads, asked,
                 result, queries>>

-----------------------------------------------------------------------------
\* What ioer->shape() and ioer->get_orientation() return.
shape == IF params.iotype = "MEM" THEN memIO[1].dim ELSE params.dim

\* The column a node of the level asks for: set_index() of the root, then
\* kdnode::spawn().
Column(t, level) == (forest[t].split + level) % shape[2]

orientation == IF params.iotype = "MEM" THEN memIO[1].orient ELSE params.orient
GetColCopies ==
  IF params.iotype = "MEM" THEN mem_col_copies(memIO[1])
  ELSE sync_col_copies(forest[1].io)
GetRowCopies ==
  IF params.iotype = "MEM" THEN mem_row_copies(memIO[1])
  ELSE sync_row_copies(forest[1].io)

\* prep() deletes the column of a ROW matrix, distance() the row of any other.
prep_deletes == orientation = ROW
distance_deletes == orientation # ROW

One(b) == IF b THEN 1 ELSE 0

\* The first node of tree t's next level runs prep().  The trees are built in
\* parallel by train(); build() reads the levels in order.
Prep(t) ==
  /\ pc = "train"
  /\ forest[t].level < MaxLevel
  /\ LET level == forest[t].level + 1
         c == Column(t, level)
     IN  IF params.iotype = "MEM"
           THEN forest' = [forest EXCEPT ![t].level = level,
                                         ![t].index = mem_get_col(memIO[1], c)]
           ELSE LET r == sync_get_col(forest[t].io, files[forest[t].io.fn], c)
                IN  forest' = [forest EXCEPT ![t].level = level, ![t].io = r.io,
                                             ![t].index = r.got]
  /\ temps' = temps + One(GetColCopies) - One(prep_deletes)
  /\ UNCHANGED <<memIO, files, params, pc, first, engines, freed, loads, asked,
                 result, queries>>

\* The end of the parallel loop of train().
Trained ==
  /\ pc = "train"
  /\ \A t \in DOMAIN forest : forest[t].level = MaxLevel
  /\ pc' = "ready"
  /\ UNCHANGED <<memIO, files, params, forest, first, engines, temps, freed, loads,
                 asked, result, queries>>

-----------------------------------------------------------------------------
\* The row of sample r as tree t reads it, and its distance from q.
RowRead(t, r) ==
  IF params.iotype = "MEM" THEN mem_get_row(memIO[1], r)
  ELSE sync_get_row(forest[t].io, files[forest[t].io.fn], r).got

Distance(q, row) ==
  FoldSet(LAMBDA i, acc : acc + (q[i] - row[i]) * (q[i] - row[i]), 0, DOMAIN q)

\* The K samples with the smallest distances: what the NNVector of a tree
\* holds when every sample has been evaluated (QueryExact, ImplementsNearest).
Nearest(dist) ==
  {r \in DOMAIN dist :
     Cardinality({s \in DOMAIN dist :
                    dist[s] < dist[r] \/ (dist[s] = dist[r] /\ s < r)}) < K}

SampleRow(r) == [c \in 1 .. params.dim[2] |-> Files[params.fn].M[r, c - 1]]

\* ProximityQuery::run() on tree t: find_neighbors() evaluates every sample.
run(t, q) == Nearest([r \in 0 .. shape[1] - 1 |-> Distance(q, RowRead(t, r))])

\* ComputeEngine::query() with a new ProximityQuery for a sample: one tree after
\* the other, each into the result of its own id.
Query(sample) ==
  /\ pc = "ready"
  /\ asked' = sample
  /\ queries < MaxQueries /\ queries' = queries + 1
  /\ result' = [t \in DOMAIN forest |-> run(t, SampleRow(sample))]
  /\ forest' = IF params.iotype = "MEM" THEN forest
               ELSE [t \in DOMAIN forest |->
                       [forest[t] EXCEPT
                          !.io = sync_get_row(@, files[@.fn], shape[1] - 1).io]]
  /\ temps' = temps + Len(forest) * shape[1]
                        * (One(GetRowCopies) - One(distance_deletes))
  /\ pc' = "answered"
  /\ UNCHANGED <<memIO, files, params, first, engines, freed, loads>>

\* ~ProximityQuery().
QueryDone ==
  /\ pc = "answered"
  /\ result' = << >>
  /\ pc' = "ready"
  /\ UNCHANGED <<memIO, files, params, forest, first, engines, temps, freed, loads,
                 asked, queries>>

\* ~ComputeEngine(): destroy() of every tree, on the shared MemoryIO or on its
\* own SyncIO.
mem_destroy_all(io, ntree) ==
  LET after[t \in 0 .. ntree] ==
        IF t = 0 THEN [io |-> io, freed |-> 0]
        ELSE LET s == after[t - 1]
             IN  [io |-> mem_destroy(s.io),
                  freed |-> s.freed + One(s.io.data # NULL /\ s.io.local)]
  IN  after[ntree]

Destroy ==
  /\ pc = "ready"
  /\ IF params.iotype = "MEM"
       THEN LET d == mem_destroy_all(memIO[1], Len(forest))
            IN  memIO' = <<d.io>> /\ freed' = freed + d.freed
       ELSE UNCHANGED <<memIO, freed>>
  /\ forest' = << >> /\ params' = NoParams
  /\ temps' = 0 /\ queries' = 0
  /\ pc' = "none"
  /\ UNCHANGED <<files, first, engines, loads, asked, result>>

EngNext ==
  \/ \E p \in ParamSets : Create(p)
  \/ pc = "roots" /\ \E g \in Draws(params.dim[2]) : SetRoots(g)
  \/ \E t \in DOMAIN forest : Prep(t)
  \/ Trained
  \/ pc = "ready" /\ \E r \in 0 .. params.dim[1] - 1 : Query(r)
  \/ QueryDone
  \/ Destroy
EngSpec == EngInit /\ [][EngNext]_engVars
-----------------------------------------------------------------------------
\* The parameters whose file the trees read: the singleton keeps those of the first
\* engine that created it
Source == IF params.iotype = "SYNC" THEN params ELSE first

\* The distance of sample q from a row of that file.
RowDistance(q, r) ==
  Distance(SampleRow(q), [c \in 1 .. Source.dim[2] |-> Files[Source.fn].M[r, c - 1]])

(***************************************************************************)
(* Every tree of the forest is built from the columns its nodes ask for    *)
(* and answers with the nearest rows of one file, whatever layout it has,  *)
(* whether the trees share one MemoryIO or each has its SyncIO, and also   *)
(* for an engine created after another has been destroyed (prep(),         *)
(* distance(), get_col(), get_row(), from_file()).  With SyncIO it is the  *)
(* engine's own file; with MemoryIO it is the file of the first engine     *)
(* with one, although another has other parameters, as the setters of the  *)
(* singleton keep what they were given (IO.hpp:194-209).                   *)
(***************************************************************************)
ForestReads ==
  pc # "none" =>
    /\ \A t \in DOMAIN forest :
         forest[t].level >= 0 =>
           forest[t].index =
             [r \in 1 .. Source.dim[1] |->
                Files[Source.fn].M[r - 1, Column(t, forest[t].level)]]
    /\ \A t \in DOMAIN result :
         result[t] = Nearest([r \in 0 .. Source.dim[1] - 1 |-> RowDistance(asked, r)])

(***************************************************************************)
(* "Create the root with no duplicates for split dimension"                *)
(* (kdtree.cpp:334): no two trees of the forest split their root on the    *)
(* same dimension, wherever the draw starts and wraps around.              *)
(***************************************************************************)
RootsDistinct ==
  pc \notin {"none", "roots", "threw"} =>
    \A s, t \in DOMAIN forest : s # t => forest[s].split # forest[t].split

(***************************************************************************)
(* The matrix is deleted once for every time it was loaded, although every *)
(* tree calls destroy() on the shared MemoryIO, and every row or column    *)
(* copied by get_row() or get_col() is deleted by its reader: prep() and   *)
(* distance() decide by the orientation whether to delete, the IO whether  *)
(* to copy.  They disagree on the rows of a ROW matrix read through        *)
(* SyncIO, of which every one that a query evaluates is left allocated,    *)
(* and on nothing else.                                                    *)
(***************************************************************************)
BuffersFreed ==
  /\ freed = loads - One(memIO # << >> /\ memIO[1].data # NULL)
  /\ pc # "none" =>
       temps = One(params.iotype = "SYNC" /\ params.orient = ROW)
                 * queries * Len(forest) * shape[1]
=============================================================================
