------------------------------ MODULE PageFlags -----------------------------
(***************************************************************************)
(* The flags of a page, instruction by instruction.  Most of them change   *)
(* with an atomic operation (thread_safe_page::set_flags_bit, cache.h),    *)
(* but OLD_DIRTY changes through page::set_flag, a load and a store of the *)
(* whole byte, under one lock in hash_cell::search (the lock of the cell)  *)
(* and under another in the completion of an I/O (the lock of the page).   *)
(*                                                                         *)
(* One page of a cell that has only this one: users search for ids that    *)
(* compete for it and read or overwrite it (global_cached_private.cpp),    *)
(* the page is written back when it is evicted dirty and with a neighbour  *)
(* when merge_pages2req picks it, and completers finish the disk I/O.      *)
(***************************************************************************)
EXTENDS Integers, FiniteSets, Sequences

CONSTANTS Users, Completers, PageIds, NoId, Nobody,
          MaxOps, MaxMerges   \* bounds on the calls of a user and on write-backs

Kinds == {"read", "write"}

\* Finitely many users; a thread is a user or a completer, and Nobody is neither
ThreadsApart ==
  /\ IsFiniteSet(Users)
  /\ Users \cap Completers = {} /\ Nobody \notin Users \cup Completers

VARIABLES
  flags,              \* page::flags, the bits that are set
  meant,              \* the flags if every change had been atomic (history)
  id, refcnt,         \* the page id; the reference count
  cell_lock, page_lock,
  reqs,               \* users queued on the page (thread_safe_page::reqs)
  disk,               \* I/O in flight: "read", "write", "merged"; at most one each
  pc, loaded,         \* where a thread is, and what it loaded
  call,               \* what a user is doing: [id, kind, evicted]
  ops, merges         \* calls a user may still make, merged write-backs left

flagVars == <<flags, meant, id, refcnt, cell_lock, page_lock, reqs, disk, pc, loaded, call,
              ops, merges>>

Init ==
  /\ flags = {} /\ meant = {} /\ id = NoId /\ refcnt = 0
  /\ cell_lock = Nobody /\ page_lock = Nobody /\ reqs = {} /\ disk = {}
  /\ pc = [t \in Users \cup Completers |-> "idle"]
  /\ loaded = [t \in Users \cup Completers |-> {}]
  /\ call = [u \in Users |-> [id |-> NoId, kind |-> "read", evicted |-> FALSE]]
  /\ ops = [u \in Users |-> MaxOps] /\ merges = MaxMerges

-----------------------------------------------------------------------------
(* page and thread_safe_page: flags and locks.                               *)

Bit(on, b, f) == IF on THEN f \cup {b} ELSE f \ {b}

\* set_flags_bit: an atomic change of bits, one after the other without a chance for
\* anyone in between to tell
SetBits(on, off) == flags' = (flags \cup on) \ off /\ meant' = (meant \cup on) \ off

data_ready == "DATA_READY" \in flags
is_dirty == "DIRTY" \in flags
is_old_dirty == "OLD_DIRTY" \in flags
is_io_pending == "IO_PENDING" \in flags

\* page::set_flag(OLD_DIRTY): the load, and the store of what was loaded
LoadFlags(t) == loaded' = [loaded EXCEPT ![t] = flags]
StoreOldDirty(t, on) ==
  /\ flags' = Bit(on, "OLD_DIRTY", loaded[t])
  /\ meant' = Bit(on, "OLD_DIRTY", meant)

\* No lock at all
lock_None(t) == UNCHANGED page_lock

\* thread_safe_page::lock: the spin lock is free
lock(t) == page_lock = Nobody /\ page_lock' = t
unlock(t) == page_lock' = Nobody

Goto(t, p) == pc' = [pc EXCEPT ![t] = p]

-----------------------------------------------------------------------------
(* hash_cell::search.                                                        *)

\* search: the lock of the cell
search(u) ==
  /\ pc[u] = "idle" /\ ops[u] > 0 /\ cell_lock = Nobody
  /\ cell_lock' = u
  /\ ops' = [ops EXCEPT ![u] = @ - 1]
  /\ \E p \in PageIds, k \in Kinds :
       call' = [call EXCEPT ![u] = [id |-> p, kind |-> k, evicted |-> FALSE]]
  /\ Goto(u, "search")
  /\ UNCHANGED <<flags, meant, id, refcnt, page_lock, reqs, disk, loaded, merges>>

\* The page is here
SearchHit(u) ==
  /\ pc[u] = "search" /\ id = call[u].id
  /\ refcnt' = refcnt + 1 /\ cell_lock' = Nobody
  /\ Goto(u, "found")
  /\ UNCHANGED <<flags, meant, id, page_lock, reqs, disk, loaded, call, ops, merges>>

\* No page can be evicted: the search fails and the request is tried again later
SearchFails(u) ==
  /\ pc[u] = "search" /\ id # call[u].id /\ refcnt > 0
  /\ cell_lock' = Nobody /\ Goto(u, "idle")
  /\ UNCHANGED <<flags, meant, id, refcnt, page_lock, reqs, disk, loaded, call, ops, merges>>

\* The page is evicted: the flags of its old content are cleared, and a dirty page
\* becomes an old dirty one
Evict(u) ==
  /\ pc[u] = "search" /\ id # call[u].id /\ refcnt = 0
  /\ IF is_dirty /\ ~is_old_dirty
     THEN /\ SetBits({}, {"DATA_READY", "DIRTY"})
          /\ Goto(u, "load_old") /\ UNCHANGED <<id, refcnt, cell_lock, call>>
     ELSE /\ SetBits({}, {"DATA_READY"})
          /\ id' = call[u].id /\ refcnt' = 1 /\ cell_lock' = Nobody
          /\ call' = [call EXCEPT ![u].evicted = TRUE] /\ Goto(u, "found")
  /\ UNCHANGED <<page_lock, reqs, disk, loaded, ops, merges>>

EvictLoad(u) ==
  /\ pc[u] = "load_old" /\ LoadFlags(u) /\ Goto(u, "store_old")
  /\ UNCHANGED <<flags, meant, id, refcnt, cell_lock, page_lock, reqs, disk, call, ops, merges>>

EvictStore(u) ==
  /\ pc[u] = "store_old" /\ StoreOldDirty(u, TRUE)
  /\ id' = call[u].id /\ refcnt' = 1 /\ cell_lock' = Nobody
  /\ call' = [call EXCEPT ![u].evicted = TRUE] /\ Goto(u, "found")
  /\ UNCHANGED <<page_lock, reqs, disk, loaded, ops, merges>>

-----------------------------------------------------------------------------
(* global_cached_io: what follows a search.                                  *)

\* process_user_req looks at is_old_dirty without the lock of the page
Found(u) ==
  /\ pc[u] = "found"
  /\ Goto(u, IF ~is_old_dirty THEN "use" ELSE IF call[u].evicted THEN "write_back" ELSE "wait")
  /\ UNCHANGED <<flags, meant, id, refcnt, cell_lock, page_lock, reqs, disk, loaded, call,
                 ops, merges>>

\* write_dirty_page: only the thread that evicted the page writes it back, with a
\* reference for the write
write_dirty_page(u) ==
  /\ pc[u] = "write_back" /\ page_lock = Nobody
  /\ SetBits({"IO_PENDING"}, {})
  /\ disk' = disk \cup {"write"} /\ reqs' = reqs \cup {u} /\ refcnt' = refcnt + 1
  /\ Goto(u, "queued")
  /\ UNCHANGED <<id, cell_lock, page_lock, loaded, call, ops, merges>>

\* Another thread is writing the page back: the request waits on the page
QueueOnPage(u) ==
  /\ pc[u] = "wait" /\ page_lock = Nobody
  /\ IF is_old_dirty THEN reqs' = reqs \cup {u} /\ Goto(u, "queued")
                     ELSE Goto(u, "use") /\ UNCHANGED reqs
  /\ UNCHANGED <<flags, meant, id, refcnt, cell_lock, page_lock, disk, loaded, call, ops,
                 merges>>

\* __read and __write of a page without its data: the data is waited for, read, for a
\* write of a part of the page too, or overwritten as a whole
UseNotReady(u) ==
  /\ pc[u] = "use" /\ page_lock = Nobody /\ ~data_ready
  /\ IF is_io_pending
     THEN reqs' = reqs \cup {u} /\ Goto(u, "queued")
          /\ UNCHANGED <<flags, meant, refcnt, disk>>
     ELSE \/ /\ SetBits({"IO_PENDING"}, {}) /\ disk' = disk \cup {"read"}
             /\ reqs' = reqs \cup {u} /\ Goto(u, "queued") /\ UNCHANGED refcnt
          \/ /\ call[u].kind = "write"
             /\ SetBits({"DATA_READY", "DIRTY"}, {}) /\ refcnt' = refcnt - 1
             /\ Goto(u, "idle") /\ UNCHANGED <<disk, reqs>>
  /\ UNCHANGED <<id, cell_lock, page_lock, loaded, call, ops, merges>>

\* The data is ready: the lock is released and taken again to copy
UseReady(u) ==
  /\ pc[u] = "use" /\ page_lock = Nobody /\ data_ready
  /\ Goto(u, "copy")
  /\ UNCHANGED <<flags, meant, id, refcnt, cell_lock, page_lock, reqs, disk, loaded, call,
                 ops, merges>>

\* complete_req: a copy under the lock, and a write makes the page dirty
Copy(u) ==
  /\ pc[u] = "copy" /\ page_lock = Nobody
  /\ SetBits(IF call[u].kind = "write" THEN {"DIRTY"} ELSE {}, {})
  /\ refcnt' = refcnt - 1 /\ Goto(u, "idle")
  /\ UNCHANGED <<id, cell_lock, page_lock, reqs, disk, loaded, call, ops, merges>>

\* merge_pages2req: the write-back of a neighbour takes a dirty page along
merge_pages2req ==
  /\ merges > 0 /\ merges' = merges - 1
  /\ cell_lock = Nobody /\ page_lock = Nobody /\ id # NoId
  /\ is_dirty /\ ~is_io_pending
  /\ SetBits({"IO_PENDING"}, {}) /\ disk' = disk \cup {"merged"} /\ refcnt' = refcnt + 1
  /\ UNCHANGED <<id, cell_lock, page_lock, reqs, pc, loaded, call, ops>>

-----------------------------------------------------------------------------
(* Completion of the disk I/O: process_disk_completed_requests and           *)
(* multibuf_completion.                                                      *)

\* The lock, and the bits that change atomically
Complete(c) ==
  /\ pc[c] = "idle" /\ lock(c)
  /\ \E io \in disk :
       /\ disk' = disk \ {io}
       /\ SetBits(IF io = "read" THEN {"DATA_READY"} ELSE {},
                  IF io = "merged" THEN {"DIRTY"} ELSE {})
       /\ Goto(c, IF io = "read" THEN "finish_read" ELSE "load_old")
  /\ UNCHANGED <<id, refcnt, cell_lock, reqs, loaded, call, ops, merges>>

CompleteLoad(c) ==
  /\ pc[c] = "load_old" /\ LoadFlags(c) /\ Goto(c, "store_old")
  /\ UNCHANGED <<flags, meant, id, refcnt, cell_lock, page_lock, reqs, disk, call, ops, merges>>

CompleteStore(c) ==
  /\ pc[c] = "store_old" /\ StoreOldDirty(c, FALSE) /\ Goto(c, "finish_write")
  /\ UNCHANGED <<id, refcnt, cell_lock, page_lock, reqs, disk, loaded, call, ops, merges>>

\* The I/O is no longer pending, the queued requests go on, and a write gives its
\* reference back
Finish(c) ==
  /\ pc[c] \in {"finish_read", "finish_write"}
  /\ SetBits({}, {"IO_PENDING"}) /\ unlock(c)
  /\ refcnt' = IF pc[c] = "finish_write" THEN refcnt - 1 ELSE refcnt
  /\ pc' = [t \in DOMAIN pc |-> IF t \in reqs THEN "use" ELSE IF t = c THEN "idle" ELSE pc[t]]
  /\ reqs' = {}
  /\ UNCHANGED <<id, cell_lock, disk, loaded, call, ops, merges>>

FlagNext ==
  \/ \E u \in Users : search(u) \/ SearchHit(u) \/ SearchFails(u) \/ Evict(u) \/ EvictLoad(u)
                        \/ EvictStore(u) \/ Found(u) \/ write_dirty_page(u) \/ QueueOnPage(u)
                        \/ UseNotReady(u) \/ UseReady(u) \/ Copy(u)
  \/ merge_pages2req
  \/ \E c \in Completers : Complete(c) \/ CompleteLoad(c) \/ CompleteStore(c) \/ Finish(c)

FlagSpec == Init /\ [][FlagNext]_flagVars

-----------------------------------------------------------------------------
(* Properties.                                                               *)

\* No change of a flag is lost, although OLD_DIRTY is written with a plain load and
\* store of the whole byte while others set bits atomically (cache.h:130-137,
\* 227-234; associative_cache.cpp:353-356; global_cached_private.cpp:711-721).
FlagsExact == flags = meant

\* "The two bits exclude each other" (cache.h:47): a page is never dirty and waiting
\* for its old dirty data to be written at once, and a page whose old data still has
\* to be written never has its new data ready.
DirtyExcludes == is_old_dirty => ~is_dirty /\ ~data_ready

\* A page that nobody refers to has no I/O in flight, so that a search may evict it
\* (associative_cache.cpp:347).
EvictedQuiet == refcnt = 0 => ~is_io_pending /\ disk = {}
=============================================================================
