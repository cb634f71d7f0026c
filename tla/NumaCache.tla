------------------------------ MODULE NumaCache -----------------------------
(***************************************************************************)
(* The page cache of a NUMA machine: cache_config.{h,cpp} splits the cache *)
(* among the nodes and says which part a page belongs to, one thread per   *)
(* node makes the part of its node, and NUMA_cache.h passes every call on  *)
(* a page to the page's part.  A part is an associative cache, modelled by *)
(* the pages it holds and those it was told are dirty.                     *)
(*                                                                         *)
(* The parts are listed in the order of an unordered_map, which is any     *)
(* order.                                                                  *)
(***************************************************************************)
EXTENDS Integers, Sequences, FiniteSets, FiniteSetsExt, SequencesExt, Functions

CONSTANTS
  Configs,            \* [kind, size, nodes, files, shift], see below
  Pages,              \* page numbers, below 2^31 (page::offset is an int)
  Batches,            \* sequences of pages that are marked dirty together
  MaxFlush,           \* arguments of flush_dirty_pages
  None

\* kind "even", "test" or "file_map"; the cache size, in pages; the NUMA nodes; the
\* node of each file of the mapper; the shift of file_map_cache_config
NumaCacheAssumption ==
  \A c \in Configs : /\ c.kind \in {"even", "test", "file_map"} /\ c.size \in Nat
                     /\ Len(c.nodes) > 0 /\ Len(c.files) > 0

VARIABLES
  conf,               \* the cache_config
  node_ids,           \* get_node_ids: the keys of part_sizes in some order
  threads,            \* create_cache_thread: "new", "started", "made", "joined"
  made,               \* create_cache_thread::cache
  caches,             \* NUMA_cache::caches
  held, dirty,        \* per part: pages in it, pages it was told are dirty
  home,               \* page |-> parts that calls about it went to (history)
  flushed             \* pages the last flush_dirty_pages wrote, and its argument

numaVars == <<conf, node_ids, threads, made, caches, held, dirty, home, flushed>>

-----------------------------------------------------------------------------
(* cache_config: sizes and places.                                           *)

\* even_cache_config
even_sizes(c) == [n \in Range(c.nodes) |-> c.size \div Len(c.nodes)]

\* test_cache_config
test_sizes(c) == [n \in Range(c.nodes) |-> IF n = 0 THEN c.size ELSE 0]

\* file_map_cache_config: in proportion to the files on the node
file_map_sizes(c) ==
  LET shifted(n) == (n + c.shift) % Len(c.nodes)
      files(n) == Cardinality({i \in DOMAIN c.files : c.files[i] = n})
  IN [m \in {shifted(n) : n \in Range(c.nodes)} |->
        LET n == CHOOSE n \in Range(c.nodes) : shifted(n) = m
        IN (c.size * files(n)) \div Len(c.files)]

part_sizes(c) == CASE c.kind = "even" -> even_sizes(c)
                   [] c.kind = "test" -> test_sizes(c)
                   [] c.kind = "file_map" -> file_map_sizes(c)

\* page2cache; the mapper puts a page per file, round robin
page2cache(c, page) ==
  CASE c.kind = "even" -> page % Cardinality(DOMAIN part_sizes(c))
    [] c.kind = "test" -> 0
    [] c.kind = "file_map" -> c.files[(page % Len(c.files)) + 1] + c.shift

Parts == DOMAIN node_ids
PartOf(page) == page2cache(conf, page) + 1

Init ==
  /\ conf \in Configs
  /\ node_ids \in SetToAllKPermutations(DOMAIN part_sizes(conf))
  /\ Len(node_ids) = Cardinality(DOMAIN part_sizes(conf))
  /\ threads = [i \in Parts |-> "new"]
  /\ made = [i \in Parts |-> None] /\ caches = [i \in Parts |-> None]
  /\ held = [i \in Parts |-> {}] /\ dirty = [i \in Parts |-> {}]
  /\ home = [p \in Pages |-> {}]
  /\ flushed = [pages |-> {}, max |-> 0]

-----------------------------------------------------------------------------
(* create_cache, create_cache_on_node and create_cache_on_nodes: the parts   *)
(* are made by threads that start in order and are joined in order.          *)

StartThread(i) ==
  /\ threads[i] = "new" /\ \A j \in Parts : j < i => threads[j] # "new"
  /\ threads' = [threads EXCEPT ![i] = "started"]
  /\ UNCHANGED <<conf, node_ids, made, caches, held, dirty, home, flushed>>

\* create_cache_thread::run and __create_cache_on_node, on the node of the thread
MakePart(i) ==
  /\ threads[i] = "started"
  /\ threads' = [threads EXCEPT ![i] = "made"]
  /\ made' = [made EXCEPT ![i] = [node |-> node_ids[i], size |-> part_sizes(conf)[node_ids[i]]]]
  /\ UNCHANGED <<conf, node_ids, caches, held, dirty, home, flushed>>

\* The thread is joined and its cache taken over
JoinThread(i) ==
  /\ threads[i] = "made" /\ \A j \in Parts : threads[j] # "new"
  /\ \A j \in Parts : j < i => threads[j] = "joined"
  /\ threads' = [threads EXCEPT ![i] = "joined"]
  /\ caches' = [caches EXCEPT ![i] = made[i]]
  /\ UNCHANGED <<conf, node_ids, made, held, dirty, home, flushed>>

Ready == \A i \in Parts : threads[i] = "joined"

-----------------------------------------------------------------------------
(* NUMA_cache: calls on pages.                                               *)

\* search: the page is there, or takes the room of one that is not dirty.  A part of
\* no pages has no room for it.
search(p) ==
  /\ Ready /\ PartOf(p) \in Parts
  /\ LET i == PartOf(p)
     IN /\ held[i] \cup {p} # held[i] => caches[i].size > 0
        /\ \E out \in {{}} \cup {{q} : q \in held[i] \ dirty[i]} :
             /\ out = {} <=> p \in held[i] \/ Cardinality(held[i]) < caches[i].size
             /\ held' = [held EXCEPT ![i] = (@ \ out) \cup {p}]
        /\ home' = [home EXCEPT ![p] = @ \cup {i}]
  /\ UNCHANGED <<conf, node_ids, threads, made, caches, dirty, flushed>>

Cached(batch) == \A p \in Range(batch) : \E i \in Parts : p \in held[i]

\* The pages of a batch all go to the part of the first one
mark_dirty_pages_First(batch) ==
  /\ Ready /\ Cached(batch)
  /\ LET first == PartOf(batch[1])
     IN /\ dirty' = [dirty EXCEPT ![first] = @ \cup Range(batch)]
        /\ home' = [p \in Pages |-> home[p] \cup {first : x \in {p} \cap Range(batch)}]
  /\ UNCHANGED <<conf, node_ids, threads, made, caches, held, flushed>>

\* mark_dirty_pages: one page at a time, each to its part
mark_dirty_pages(batch) ==
  /\ Ready /\ Cached(batch)
  /\ dirty' = [i \in Parts |-> dirty[i] \cup {p \in Range(batch) : PartOf(p) = i}]
  /\ home' = [p \in Pages |-> home[p] \cup {PartOf(x) : x \in {p} \cap Range(batch)}]
  /\ UNCHANGED <<conf, node_ids, threads, made, caches, held, flushed>>

\* flush_callback: the part learns that the page was written
flush_callback(p) ==
  /\ Ready /\ PartOf(p) \in Parts /\ p \in dirty[PartOf(p)]
  /\ dirty' = [dirty EXCEPT ![PartOf(p)] = @ \ {p}]
  /\ home' = [home EXCEPT ![p] = @ \cup {PartOf(p)}]
  /\ UNCHANGED <<conf, node_ids, threads, made, caches, held, flushed>>

\* Each part may flush an equal share
FlushShare(max) == max \div Len(node_ids)

\* flush_dirty_pages: a part flushes as many of its dirty pages as it may
flush_dirty_pages(max) ==
  /\ Ready /\ flushed.pages = {}
  /\ \E w \in SUBSET UNION Range(dirty) :
       /\ \A i \in Parts : Cardinality(w \cap dirty[i])
                              = Min({FlushShare(max), Cardinality(dirty[i])})
       /\ dirty' = [i \in Parts |-> dirty[i] \ w]
       /\ flushed' = [pages |-> w, max |-> max]
  /\ UNCHANGED <<conf, node_ids, threads, made, caches, held, home>>

NumaNext ==
  \/ \E i \in Parts : StartThread(i) \/ MakePart(i) \/ JoinThread(i)
  \/ \E p \in Pages : search(p) \/ flush_callback(p)
  \/ \E b \in Batches : mark_dirty_pages(b)
  \/ \E m \in MaxFlush : flush_dirty_pages(m)

NumaSpec == Init /\ [][NumaNext]_numaVars

-----------------------------------------------------------------------------
(* Properties.                                                               *)

\* The page has one home: search, mark_dirty_pages and flush_callback pass a page to
\* the same part, so a part is never told of a page it does not hold, and the parts
\* together hold no more pages than the cache has (NUMA_cache.h:59-103,
\* cache_config.h:141-152).
OneHome ==
  /\ \A p \in Pages : Cardinality(home[p]) <= 1
  /\ MapThenSumSet(LAMBDA i : Cardinality(held[i]), Parts) <= conf.size

\* Whatever the order in which the threads finish, caches[i] is the part of the node
\* node_ids[i], with that node's size: the assertion of create_cache_on_nodes
\* (cache_config.cpp:70-88).
PartOnItsNode ==
  \A i \in Parts : caches[i] # None =>
    caches[i] = [node |-> node_ids[i], size |-> part_sizes(conf)[node_ids[i]]]

\* flush_dirty_pages writes no more pages than its caller allows, although every part
\* flushes on its own (NUMA_cache.h:105-112).
FlushBudget == Cardinality(flushed.pages) <= flushed.max
=============================================================================
