------------------------------ MODULE PageTable ------------------------------
(***************************************************************************)
(* The page table of the SA-cache (SAFS/libsafs/associative_cache.{h,cpp}): *)
(* a table of hash cells that grows by linear hashing while other threads  *)
(* look pages up.  expand first fills the cells up to CELL_SIZE pages, then *)
(* doubles the table and splits the cells one by one; shrink takes pages   *)
(* back.  A lookup computes the cell under the sequence lock, without any  *)
(* lock, and then searches it under the cell's lock.                       *)
(*                                                                         *)
(* Grain.  A lookup reads level, split and level again in separate steps;  *)
(* a change of them inside the write lock is one step that advances the    *)
(* sequence number.  Work on cells is one step per cell lock.  add_pages   *)
(* and steal_pages take no cell lock: the pages of a cell change in one    *)
(* step and its map of them is rebuilt in a later one, and steal_pages     *)
(* chooses a page in one step and takes it in the next.  A search that     *)
(* comes in between may miss a page of the cell or be given an entry       *)
(* without memory.  Which unreferenced page a cell evicts is left open     *)
(* (see Eviction).                                                         *)
(***************************************************************************)
EXTENDS Integers, Sequences, FiniteSets, FiniteSetsExt

CONSTANTS
  Frames,           \* the memory pages of the cache's memory_manager
  InitFrames,       \* those the cells hold at the beginning, MinPages per cell
  Threads,          \* threads that expand or shrink the cache
  Readers,          \* threads that look pages up
  Scenarios,        \* records: calls[t], a sequence of <<op, npages>>, and
                    \* lookups[r], a sequence of <<kind, page>>; a reader
                    \* keeps the pages it finds until a <<"drop">>
  init_ncells,
  TableSize,        \* cells_table.size(): arrays the table can ever have
  MinPages,         \* params.get_SA_min_cell_size()
  CELL_MIN_NUM_PAGES,
  CELL_SIZE,
  None,
  Pool              \* the home of a page the memory manager has free

TableAssumption ==
  /\ init_ncells \in Nat \ {0} /\ TableSize \in Nat \ {0}
  /\ MinPages \in 1..CELL_SIZE /\ CELL_MIN_NUM_PAGES \in 1..CELL_SIZE
  /\ InitFrames \in [0 .. init_ncells - 1 -> SUBSET Frames]

VARIABLES
  level, split,       \* linear hashing
  height, cellidx,    \* height and expand_cell_idx: where expand adds pages
  narrays,            \* arrays of cells that exist
  seq,                \* count of table_lock
  expanding,          \* the flag TABLE_EXPANDING
  cache_npages,
  locked,             \* cells whose locks a merge holds while it busy-waits
  home, id, ref,      \* of each frame: its cell, its page, its references
  dirty,              \* the frames with data that is not on disk
  th,                 \* state of the threads in expand or shrink
  rd,                 \* state of the readers
  failed              \* assertions that failed

vars == <<level, split, height, cellidx, narrays, seq, expanding, cache_npages,
          locked, home, id, ref, dirty, th, rd, failed>>
table == <<level, split, height, cellidx, narrays, seq>>

-----------------------------------------------------------------------------
InCell(i) == {f \in Frames : home[f] = i}
get_num_pages(i) == Cardinality(InCell(i))
FreePages == InCell(Pool)

\* Pages without content are all alike
AnyOf(n, S) == CHOOSE T \in kSubset(n, S) : TRUE

\* The pages of a cell that may be evicted, one of the empty ones among them
Evictable(i) ==
  LET free == {f \in InCell(i) : ref[f] = 0}
      empty == {f \in free : id[f] = None}
  IN (free \ empty) \cup AnyOf(Min({1, Cardinality(empty)}), empty)

\* universal_hash of a page for a table of n cells; the property of it that
\* linear hashing needs is that hash(p, 2n) is hash(p, n) or hash(p, n) + n
universal_hash(p, n) == p % n

hash(p, lv) == universal_hash(p, init_ncells * 2^lv)

get_num_cells == 2^level * init_ncells + split

Halves == 2^level * init_ncells

Init ==
  /\ level = 0 /\ split = 0 /\ height = MinPages /\ cellidx = 0
  /\ narrays = 1 /\ seq = 0 /\ expanding = FALSE
  /\ cache_npages = 0
  /\ locked = {}
  /\ home = [f \in Frames |->
               IF \E i \in DOMAIN InitFrames : f \in InitFrames[i]
                 THEN CHOOSE i \in DOMAIN InitFrames : f \in InitFrames[i]
                 ELSE Pool]
  /\ id = [f \in Frames |-> None]
  /\ ref = [f \in Frames |-> 0]
  /\ \E sc \in Scenarios :
       /\ th = [t \in Threads |-> [calls |-> sc.calls[t], pc |-> "idle", n |-> 0,
                                   pages |-> {}, over |-> FALSE, pick |-> None,
                                   gone |-> {}, open |-> {}, then |-> "idle"]]
       /\ rd = [r \in Readers |-> [todo |-> sc.lookups[r], pc |-> "level",
                                   cnt |-> 0, cell |-> 0, held |-> {}]]
  /\ dirty = {}
  /\ failed = {}

Check(name, cond) == failed' = IF cond THEN failed ELSE failed \cup {name}

To(t, s) == th' = [th EXCEPT ![t] = s]

-----------------------------------------------------------------------------
(* expand                                                                    *)

\* Only one thread at a time changes the table
Start(t) ==
  LET s == th[t]
  IN /\ s.pc = "idle" /\ s.calls # <<>>
     /\ IF expanding THEN To(t, [s EXCEPT !.calls = Tail(@)]) /\ UNCHANGED expanding
        ELSE /\ expanding' = TRUE
             /\ To(t, [s EXCEPT !.pc = Head(s.calls)[1], !.n = Head(s.calls)[2],
                                !.over = FALSE, !.calls = Tail(@)])
     /\ UNCHANGED <<table, cache_npages, locked, home, id, ref, dirty, rd, failed>>

\* get_free_pages gives all the pages asked for or none: the manager has only
\* this cache to shrink, which it refuses to do
get_free_pages(t) ==
  LET s == th[t]
  IN /\ s.pc = "expand"
     /\ IF Cardinality(FreePages) < s.n
          THEN /\ To(t, [s EXCEPT !.pc = "idle"])
               /\ expanding' = FALSE
               /\ UNCHANGED home
          ELSE \E take \in {AnyOf(s.n, FreePages)} :
                 /\ home' = [f \in Frames |-> IF f \in take THEN t ELSE home[f]]
                 /\ To(t, [s EXCEPT !.pages = take, !.pc = "loop"])
                 /\ UNCHANGED expanding
     /\ UNCHANGED <<table, cache_npages, locked, id, ref, dirty, rd, failed>>

\* A thread's pages go to a cell as empty pages; rebuild_map comes later
AddPages(t, i, num) ==
  \E add \in {AnyOf(num, th[t].pages)} :
    /\ home' = [f \in Frames |-> IF f \in add THEN i ELSE home[f]]
    /\ id' = [f \in Frames |-> IF f \in add THEN None ELSE id[f]]
    /\ To(t, [th[t] EXCEPT !.pages = @ \ add, !.pc = "rebuild", !.then = "loop",
                           !.open = IF add = {} THEN {} ELSE {i}])

\* One cell of the loop that fills the cells up to CELL_SIZE
Fill(t) ==
  LET s == th[t]
      missing == height - get_num_pages(cellidx)
      wraps == cellidx + 1 >= get_num_cells
  IN /\ s.pc = "loop" /\ split = 0 /\ ~s.over
     /\ height <= CELL_SIZE /\ s.pages # {}
     /\ AddPages(t, cellidx, Max({0, Min({missing, Cardinality(s.pages)})}))
     /\ cellidx' = IF wraps THEN 0 ELSE cellidx + 1
     /\ height' = IF wraps THEN height + 1 ELSE height
     /\ UNCHANGED <<level, split, narrays, seq, expanding, cache_npages, locked,
                    ref, dirty, rd, failed>>

\* rebuild_map, after which the map of the cells names their pages again
Rebuild(t) ==
  LET s == th[t]
  IN /\ s.pc = "rebuild"
     /\ To(t, [s EXCEPT !.pc = s.then, !.open = {}, !.gone = {}])
     /\ UNCHANGED <<table, expanding, cache_npages, locked, home, id, ref, dirty, rd,
                    failed>>

\* All pages are in cells
Filled(t) ==
  /\ th[t].pc = "loop" /\ th[t].pages = {}
  /\ To(t, [th[t] EXCEPT !.pc = "idle"])
  /\ expanding' = FALSE
  /\ cache_npages' = cache_npages + th[t].n
  /\ UNCHANGED <<table, locked, home, id, ref, dirty, rd, failed>>

\* Every cell is full: the table doubles, and the cells are split from here on
Double(t) ==
  LET s == th[t]
  IN /\ s.pc = "loop" /\ ~s.over /\ s.pages # {}
     /\ split > 0 \/ height > CELL_SIZE
     /\ IF split = 0 THEN narrays' = 2 * 2^level /\ seq' = seq + 2
        ELSE UNCHANGED <<narrays, seq>>
     /\ Check("cells_table", split = 0 => 2 * 2^level <= TableSize)
     /\ height' = MinPages + 1
     /\ To(t, [s EXCEPT !.pc = "split"])
     /\ UNCHANGED <<level, split, cellidx, expanding, cache_npages, locked, home,
                    id, ref, dirty, rd>>

\* rehash without the test for references
RehashInUse(t) ==
  LET j == split + Halves
      moved == {f \in InCell(split) : id[f] # None /\ hash(id[f], level + 1) = j}
  IN /\ th[t].pc = "split" /\ split < Halves /\ ~th[t].over
     /\ {split, j} \cap locked = {}
     /\ home' = [f \in Frames |-> IF f \in moved THEN j ELSE home[f]]
     /\ To(t, [th[t] EXCEPT !.pc = "topup"])
     /\ UNCHANGED <<table, expanding, cache_npages, locked, id, ref, dirty, rd, failed>>

\* hash_cell::rehash: pages of the new cell move to it unless they are in use,
\* then empty pages until it has MinPages
Moving(i, j) == {f \in InCell(i) : /\ id[f] # None /\ ref[f] = 0
                                   /\ hash(id[f], level + 1) = j}
Empties(i, num) ==
  LET empty == {f \in InCell(i) : id[f] = None}
  IN AnyOf(Min({num, Cardinality(empty)}), empty)

rehash(t) ==
  LET j == split + Halves
      moved == Moving(split, j)
      need == Max({0, MinPages - Cardinality(moved) - get_num_pages(j)})
  IN /\ th[t].pc = "split" /\ split < Halves /\ ~th[t].over
     /\ {split, j} \cap locked = {}
     /\ \E go \in {moved \cup Empties(split, need)} :
          home' = [f \in Frames |-> IF f \in go THEN j ELSE home[f]]
     /\ To(t, [th[t] EXCEPT !.pc = "topup"])
     /\ UNCHANGED <<table, expanding, cache_npages, locked, id, ref, dirty, rd, failed>>

\* Pages for the cell with too few of them.  num_required is what the cells
\* have above the minimum.
Required(i, j) == Max({get_num_pages(j) - MinPages, 0})
                    + Max({get_num_pages(i) - MinPages, 0})

ToMin(i, left) == Max({0, Min({CELL_MIN_NUM_PAGES - get_num_pages(i), left})})

TopUp(t) ==
  LET s == th[t]
      j == split + Halves
      left == Cardinality(s.pages)
      gives == Required(split, j) <= left
      n1 == IF gives THEN ToMin(split, left) ELSE 0
      n2 == IF gives THEN ToMin(j, left - n1) ELSE 0
      short == \/ get_num_pages(split) + n1 < MinPages
               \/ get_num_pages(j) + n2 < MinPages
  IN /\ s.pc = "topup"
     /\ \E a1 \in {AnyOf(n1, s.pages)} : \E a2 \in {AnyOf(n2, s.pages \ a1)} :
          /\ home' = [f \in Frames |-> IF f \in a1 THEN split
                                       ELSE IF f \in a2 THEN j ELSE home[f]]
          /\ id' = [f \in Frames |-> IF f \in a1 \cup a2 THEN None ELSE id[f]]
          /\ To(t, [s EXCEPT !.pages = @ \ (a1 \cup a2),
                             !.open = {c \in {split, j} : \E f \in a1 \cup a2 : home'[f] = c},
                             !.pc = "rebuild",
                             !.then = IF short THEN "merge" ELSE "advance"])
     /\ UNCHANGED <<table, expanding, cache_npages, locked, ref, dirty, rd, failed>>

\* split++
Advance(t) ==
  /\ th[t].pc = "advance"
  /\ split' = split + 1 /\ seq' = seq + 2
  /\ To(t, [th[t] EXCEPT !.pc = "split"])
  /\ UNCHANGED <<level, height, cellidx, narrays, expanding, cache_npages, locked,
                 home, id, ref, dirty, rd, failed>>

\* Once every cell is split the table has the next level
LevelUp(t) ==
  /\ th[t].pc = "split" /\ (split = Halves \/ th[t].over)
  /\ IF split = Halves THEN split' = 0 /\ level' = level + 1
     ELSE UNCHANGED <<split, level>>
  /\ seq' = seq + 2
  /\ To(t, [th[t] EXCEPT !.pc = "loop"])
  /\ UNCHANGED <<height, cellidx, narrays, expanding, cache_npages, locked,
                 home, id, ref, dirty, rd, failed>>

\* The cell could not be split: merge takes both locks and waits, spinning,
\* until no page of the new cell is referenced
MergeLock(t) ==
  LET j == split + Halves
  IN /\ th[t].pc = "merge" /\ {split, j} \cap locked = {}
     /\ locked' = locked \cup {split, j}
     /\ Check("merge", get_num_pages(split) + get_num_pages(j) <= CELL_SIZE)
     /\ To(t, [th[t] EXCEPT !.pc = "steal"])
     /\ UNCHANGED <<table, expanding, cache_npages, home, id, ref, dirty, rd>>

merge(t) ==
  LET j == split + Halves
  IN /\ th[t].pc = "steal" /\ \A f \in InCell(j) : ref[f] = 0
     /\ home' = [f \in Frames |-> IF home[f] = j THEN split ELSE home[f]]
     /\ locked' = locked \ {split, j}
     /\ To(t, [th[t] EXCEPT !.pc = "split", !.over = TRUE])
     /\ UNCHANGED <<table, expanding, cache_npages, id, ref, dirty, rd, failed>>

\* The pages left over go back to the manager; the cache counts them as its own
GiveBack(t) ==
  LET s == th[t]
  IN /\ s.pc = "loop" /\ s.over /\ s.pages # {}
     /\ home' = [f \in Frames |-> IF f \in s.pages THEN Pool ELSE home[f]]
     /\ cache_npages' = cache_npages + s.n
     /\ expanding' = FALSE
     /\ To(t, [s EXCEPT !.pc = "idle", !.pages = {}])
     /\ UNCHANGED <<table, locked, id, ref, dirty, rd, failed>>

-----------------------------------------------------------------------------
(* shrink of a table that was never split.  Past level 0 the code destroys   *)
(* the array it keeps using (associative_cache.cpp:771-778); not modelled.   *)

\* One cell: while it has pages above height, steal_pages, which takes no lock,
\* chooses a page that nobody uses
Above(i) == get_num_pages(i) > height

StealPick(t) ==
  LET s == th[t]
  IN /\ s.pc = "shrink" /\ level = 0 /\ split = 0 /\ height >= MinPages
     /\ Cardinality(s.pages) < s.n /\ Above(cellidx)
     /\ \E f \in Evictable(cellidx) : To(t, [s EXCEPT !.pick = f, !.pc = "take"])
     /\ UNCHANGED <<table, expanding, cache_npages, locked, home, id, ref, dirty, rd,
                    failed>>

\* It takes the page's memory and resets the entry, whoever has found it meanwhile
StealTake(t) ==
  LET s == th[t]
      f == s.pick
  IN /\ s.pc = "take"
     /\ Check("steal", f \notin dirty)
     /\ home' = [home EXCEPT ![f] = t]
     /\ id' = [id EXCEPT ![f] = None]
     /\ ref' = [ref EXCEPT ![f] = 0]
     /\ dirty' = dirty \ {f}
     /\ To(t, [s EXCEPT !.pages = @ \cup {f}, !.gone = @ \cup {f}, !.pick = None,
                        !.open = {cellidx}, !.pc = "shrink"])
     /\ UNCHANGED <<table, expanding, cache_npages, locked, rd>>

\* No page is left to take from the cell; the loop runs until the height is below
\* the minimum, however many pages it has
StealPages(t) ==
  LET s == th[t]
      i == cellidx
  IN /\ s.pc = "shrink" /\ level = 0 /\ split = 0 /\ height >= MinPages
     /\ Cardinality(s.pages) >= s.n \/ ~Above(i) \/ Evictable(i) = {}
     /\ To(t, [s EXCEPT !.pc = "rebuild", !.then = "shrink"])
     /\ cellidx' = IF i = 0 THEN get_num_cells - 1 ELSE i - 1
     /\ height' = IF i = 0 THEN height - 1 ELSE height
     /\ UNCHANGED <<level, split, narrays, seq, expanding, cache_npages, locked,
                    home, id, ref, dirty, rd, failed>>

\* The caller frees what it got
ShrinkEnd(t) ==
  LET s == th[t]
  IN /\ s.pc = "shrink" /\ level = 0 /\ split = 0 /\ height < MinPages
     /\ home' = [f \in Frames |-> IF f \in s.pages THEN Pool ELSE home[f]]
     /\ cache_npages' = cache_npages - s.n
     /\ expanding' = FALSE
     /\ To(t, [s EXCEPT !.pc = "idle", !.pages = {}])
     /\ UNCHANGED <<table, locked, id, ref, dirty, rd, failed>>

-----------------------------------------------------------------------------
(* Lookups                                                                   *)

Reads(r, s) == rd' = [rd EXCEPT ![r] = s]

\* get_cell_offset: read_lock and hash(), which reads level
ReadLevel(r) ==
  LET s == rd[r]
  IN /\ s.pc = "level" /\ s.todo # <<>> /\ Head(s.todo)[1] # "drop"
     /\ Reads(r, [s EXCEPT !.cnt = seq, !.pc = "split",
                           !.cell = hash(Head(s.todo)[2], level)])
     /\ UNCHANGED <<table, expanding, cache_npages, locked, home, id, ref, dirty, th,
                    failed>>

\* The test against split
ReadSplit(r) ==
  LET s == rd[r]
  IN /\ s.pc = "split"
     /\ Reads(r, [s EXCEPT !.pc = IF s.cell < split THEN "hash1" ELSE "valid"])
     /\ UNCHANGED <<table, expanding, cache_npages, locked, home, id, ref, dirty, th,
                    failed>>

\* hash1 reads level again
ReadHash1(r) ==
  LET s == rd[r]
  IN /\ s.pc = "hash1"
     /\ Reads(r, [s EXCEPT !.pc = "valid",
                           !.cell = hash(Head(s.todo)[2], level + 1)])
     /\ UNCHANGED <<table, expanding, cache_npages, locked, home, id, ref, dirty, th,
                    failed>>

\* A lookup that does not look at the sequence count again
ValidateNothing(r) ==
  /\ rd[r].pc = "valid"
  /\ Reads(r, [rd[r] EXCEPT !.pc = "cell"])
  /\ UNCHANGED <<table, expanding, cache_npages, locked, home, id, ref, dirty, th, failed>>

\* get_cell, read_unlock, and the assertion on the cell
Validate(r) ==
  LET s == rd[r]
      array == s.cell \div init_ncells
  IN /\ s.pc = "valid"
     /\ Reads(r, [s EXCEPT !.pc = IF seq = s.cnt THEN "cell" ELSE "level"])
     /\ Check("get_cell", /\ array < TableSize
                          /\ seq = s.cnt => array < narrays)
     /\ UNCHANGED <<table, expanding, cache_npages, locked, home, id, ref, dirty, th>>

\* hash_cell::search: a hit takes a reference; on a miss a page is evicted for
\* it, or the search fails; the other search only looks.  A search of a cell whose
\* map is not rebuilt yet may not see one of its pages, or evict an entry whose
\* memory has been taken.
Keeps(r, f, late) ==
  LET s == rd[r]
      h == [pg |-> f, page |-> Head(s.todo)[2], cell |-> s.cell, late |-> late,
            write |-> Head(s.todo)[1] = "write"]
  IN Reads(r, [s EXCEPT !.pc = "level", !.todo = Tail(@), !.held = @ \cup {h}])

Found(r, f) ==
  /\ ref' = [ref EXCEPT ![f] = @ + 1]
  /\ Keeps(r, f, \E t \in Threads : th[t].pick = f)

Unseen(i) ==
  {{}} \cup IF \E t \in Threads : i \in th[t].open THEN {{f} : f \in InCell(i)} ELSE {}

Emptied(i) == UNION {th[t].gone : t \in {u \in Threads : i \in th[u].open}}

SearchCell(r) ==
  LET s == rd[r]
      p == Head(s.todo)[2]
      evicts == Head(s.todo)[1] # "peek"
  IN /\ s.pc = "cell" /\ s.cell \notin locked
     /\ \E hidden \in Unseen(s.cell) :
          LET hits == {f \in InCell(s.cell) \ hidden : id[f] = p}
              free == Evictable(s.cell) \ hidden
          IN \/ /\ hits # {} /\ \E f \in hits : Found(r, f)
                /\ UNCHANGED <<id, dirty>>
             \/ /\ hits = {} /\ evicts
                /\ \E f \in free : /\ id' = [id EXCEPT ![f] = p] /\ dirty' = dirty \ {f}
                                    /\ Found(r, f)
             \/ /\ hits = {} /\ evicts /\ \E f \in Emptied(s.cell) : Keeps(r, f, TRUE)
                /\ UNCHANGED <<id, ref, dirty>>
             \/ /\ hits = {} /\ (evicts => free = {})
                /\ Reads(r, [s EXCEPT !.pc = "level", !.todo = Tail(@)])
                /\ UNCHANGED <<id, ref, dirty>>
     /\ UNCHANGED <<table, expanding, cache_npages, locked, home, th, failed>>

\* Whether the entry a reader has is still the page it was given
Kept(h) == id[h.pg] = h.page /\ home[h.pg] = h.cell

\* The user is done with its pages, and has written to some of them
Release(r) ==
  LET s == rd[r]
      kept == {h \in s.held : Kept(h)}
  IN /\ s.pc = "level" /\ s.todo # <<>> /\ Head(s.todo)[1] = "drop"
     /\ ref' = [f \in Frames |-> ref[f] - Cardinality({h \in kept : h.pg = f})]
     /\ dirty' = dirty \cup {h.pg : h \in {g \in kept : g.write}}
     /\ Reads(r, [s EXCEPT !.todo = Tail(@), !.held = {}])
     /\ UNCHANGED <<table, expanding, cache_npages, locked, home, id, th, failed>>

-----------------------------------------------------------------------------
Maintain(t) ==
  \/ Start(t) \/ get_free_pages(t) \/ Fill(t) \/ Rebuild(t) \/ Filled(t) \/ Double(t)
  \/ rehash(t) \/ TopUp(t) \/ Advance(t) \/ LevelUp(t) \/ MergeLock(t) \/ merge(t)
  \/ GiveBack(t) \/ StealPick(t) \/ StealTake(t) \/ StealPages(t) \/ ShrinkEnd(t)

Lookup(r) == \/ ReadLevel(r) \/ ReadSplit(r) \/ ReadHash1(r) \/ Validate(r)
             \/ SearchCell(r) \/ Release(r)

\* A failed assertion ends the process
Next == \/ failed = {} /\ \E t \in Threads : Maintain(t)
        \/ failed = {} /\ \E r \in Readers : Lookup(r)

\* Threads are scheduled, spinlocks included
Fairness == /\ \A t \in Threads : WF_vars(failed = {} /\ Maintain(t))
            /\ \A r \in Readers : WF_vars(failed = {} /\ Lookup(r))

Spec == Init /\ [][Next]_vars /\ Fairness

-----------------------------------------------------------------------------
(* Properties.                                                               *)

\* While a thread holds a page it found, the page keeps its identity and its
\* place: no eviction, split or merge takes a referenced page away, and neither
\* does a shrink, but for a page that its steal_pages, which takes no lock, had
\* already chosen or emptied when the thread found it.
PageKept == \A r \in Readers : \A h \in rd[r].held : Kept(h) \/ h.late

\* The cell a page belongs to
CellOf(p) == IF hash(p, level) < split THEN hash(p, level + 1) ELSE hash(p, level)

\* A lookup whose sequence count is unchanged computed the cell the page has at
\* that moment, whatever it read while the table was being split.
LookupStep ==
  \A r \in Readers :
    rd[r].pc = "valid" /\ rd'[r].pc = "cell" => rd[r].cell = CellOf(Head(rd[r].todo)[2])

\* One assertion can fail, that of steal_pages, whose page may be dirty: merging two
\* cells that could not be split finds room for their pages in one cell, and get_cell
\* finds an array for every index.
OnlyStealFails == failed \subseteq {"steal"}

\* merge spins on the pages of the new cell with both locks held, but never for long:
\* nobody can have found a page in that cell.
MergeUnused ==
  \A t \in Threads : th[t].pc = "steal" => \A f \in InCell(split + Halves) : ref[f] = 0

\* sanity_check: between two operations every cell has at least MinPages and at
\* most CELL_SIZE pages, cells beyond the table have none, and no page was lost.
Sane ==
  ~expanding =>
    /\ \A i \in 0 .. get_num_cells - 1 : get_num_pages(i) \in MinPages..CELL_SIZE
    /\ \A f \in Frames : home[f] = Pool \/ home[f] \in 0 .. get_num_cells - 1

\* Every expand, shrink and lookup returns, also while threads keep pages and look
\* others up, unless the assertion of steal_pages ended the process: the sequence
\* lock starves no lookup and the busy wait of merge ends.
Returned ==
  \/ failed = {"steal"}
  \/ /\ \A t \in Threads : th[t].pc = "idle" /\ th[t].calls = <<>>
     /\ \A r \in Readers : rd[r].todo = <<>>
AllReturn == <>Returned
=============================================================================
