--------------------------- MODULE PageFlagsProofs ---------------------------
(***************************************************************************)
(* PageFlags for any number of users and completers: no change of a flag   *)
(* is lost, and what the code relies on for it.  The plain load and store  *)
(* of OLD_DIRTY runs under one lock in a search and under another in a     *)
(* completion, and the other changes of the byte are made under a third    *)
(* condition, a reference to the page.  What keeps them apart is the       *)
(* reference count, so the invariant counts: RefInv says whose references  *)
(* refcnt holds.                                                           *)
(***************************************************************************)
EXTENDS PageFlags, FiniteSetTheorems, TLAPS

HoldPc == {"found", "write_back", "wait", "use", "queued", "copy"}
UserPc == {"idle", "search", "load_old", "store_old"} \cup HoldPc
WritePc == {"load_old", "store_old", "finish_write"}
CompleterPc == {"idle", "finish_read"} \cup WritePc

\* The users that refer to the page, and whether a write to the disk does
Holders == {u \in Users : pc[u] \in HoldPc}
Writing == "write" \in disk \/ "merged" \in disk \/ \E c \in Completers : pc[c] \in WritePc

Calls == [id : PageIds \cup {NoId}, kind : Kinds, evicted : BOOLEAN]

TypeInv ==
  /\ flags \subseteq {"DATA_READY", "DIRTY", "OLD_DIRTY", "IO_PENDING"}
  /\ refcnt \in Nat
  /\ cell_lock \in Users \cup {Nobody}
  /\ page_lock \in Completers \cup {Nobody}
  /\ disk \subseteq {"read", "write", "merged"}
  /\ pc \in [Users \cup Completers -> UserPc \cup CompleterPc]
  /\ \A u \in Users : pc[u] \in UserPc
  /\ \A c \in Completers : pc[c] \in CompleterPc
  /\ loaded \in [Users \cup Completers ->
                  SUBSET {"DATA_READY", "DIRTY", "OLD_DIRTY", "IO_PENDING"}]
  /\ call \in [Users -> Calls]

\* Who is in a critical section holds the lock
LockInv ==
  /\ \A u \in Users : pc[u] \in {"search", "load_old", "store_old"} <=> cell_lock = u
  /\ \A c \in Completers : pc[c] # "idle" <=> page_lock = c

\* One disk I/O at a time, and IO_PENDING says whether there is one
OneIO ==
  /\ \A x, y \in disk : x = y
  /\ page_lock # Nobody => disk = {}
  /\ "IO_PENDING" \in flags <=> (disk # {} \/ page_lock # Nobody)

RefInv == refcnt = Cardinality(Holders) + IF Writing THEN 1 ELSE 0

\* The requests queued on the page; a read has one
QueueInv ==
  /\ reqs = {u \in Users : pc[u] = "queued"}
  /\ ("read" \in disk \/ \E c \in Completers : pc[c] = "finish_read") => reqs # {}

\* While the old content has to be written nobody uses the page
OldInv ==
  "OLD_DIRTY" \in flags =>
    /\ "DIRTY" \notin flags /\ "DATA_READY" \notin flags
    /\ \A u \in Users : pc[u] \notin {"use", "copy"}
    /\ "read" \notin disk /\ "merged" \notin disk
    /\ \A c \in Completers : pc[c] \notin {"finish_read", "finish_write"}

\* One user evicted the page that is here, and it alone starts the write-back
EvictorInv ==
  /\ \A u \in Users : pc[u] = "search" => ~call[u].evicted
  /\ \A u \in Users : pc[u] = "write_back" => call[u].evicted /\ "OLD_DIRTY" \in flags
  /\ \A u \in Users :
       pc[u] \in {"found", "write_back"} /\ call[u].evicted /\ "OLD_DIRTY" \in flags
         => disk = {} /\ page_lock = Nobody
  /\ \A u, w \in Holders : call[u].evicted /\ call[w].evicted => u = w

\* Between a load and its store the byte does not change
ByteInv ==
  /\ \A u \in Users : pc[u] \in {"load_old", "store_old"} =>
       refcnt = 0 /\ "DIRTY" \notin flags /\ "DATA_READY" \notin flags
  /\ \A t \in Users \cup Completers : pc[t] = "store_old" => loaded[t] = flags

FlagInv ==
  /\ TypeInv /\ LockInv /\ OneIO /\ RefInv /\ QueueInv /\ OldInv /\ EvictorInv /\ ByteInv
  /\ FlagsExact

USE DEF HoldPc, UserPc, WritePc, CompleterPc

-----------------------------------------------------------------------------
\* Holders is finite, and a thread that begins or ceases to refer to the page
\* changes the number of holders by one.
LEMMA HolderCount ==
  ASSUME ThreadsApart
  PROVE  /\ IsFiniteSet(Holders) /\ Cardinality(Holders) \in Nat
         /\ \A u \in Users : u \notin Holders =>
              Cardinality(Holders \cup {u}) = Cardinality(Holders) + 1
         /\ \A u \in Holders : Cardinality(Holders \ {u}) = Cardinality(Holders) - 1
         /\ \A u : Cardinality({u}) = 1
         /\ Cardinality({}) = 0
<1>1. IsFiniteSet(Holders)
  BY FS_Subset DEF ThreadsApart, Holders
<1>2. Cardinality(Holders) \in Nat
  BY <1>1, FS_CardinalityType
<1>3. \A u \in Users : u \notin Holders => Cardinality(Holders \cup {u}) = Cardinality(Holders) + 1
  BY <1>1, FS_AddElement
<1>4. \A u \in Holders : Cardinality(Holders \ {u}) = Cardinality(Holders) - 1
  BY <1>1, FS_RemoveElement
<1>5. \A u : Cardinality({u}) = 1
  BY Zenon, FS_Singleton
<1>6. Cardinality({}) = 0
  BY FS_EmptySet
<1> QED
  BY Zenon, <1>1, <1>2, <1>3, <1>4, <1>5, <1>6

\* A user that refers to the page and a write in flight keep refcnt above zero; at
\* zero, hash_cell::search may evict the page: nothing is in flight.
LEMMA RefFacts ==
  ASSUME ThreadsApart, FlagInv
  PROVE  /\ \A u \in Users : pc[u] \in HoldPc => refcnt > 0
         /\ Writing => refcnt > 0
         /\ refcnt = 0 => Holders = {} /\ disk = {} /\ page_lock = Nobody
<1>1. Cardinality(Holders) \in Nat
  BY HolderCount
<1>2. ASSUME Holders # {} PROVE refcnt > 0
  <2>1. PICK u \in Holders : TRUE
    BY <1>2
  <2>2. Cardinality(Holders \ {u}) \in Nat
    BY HolderCount, FS_Subset, FS_CardinalityType
  <2>3. Cardinality(Holders) > 0
    BY <1>1, <2>2, HolderCount
  <2> QED
    BY <1>1, <2>3 DEF FlagInv, RefInv
<1>3. Writing => refcnt > 0
  BY <1>1 DEF FlagInv, RefInv
<1>4. ASSUME refcnt = 0 PROVE disk = {} /\ page_lock = Nobody
  <2>1. Holders = {} /\ ~Writing
    BY <1>2, <1>3, <1>4
  <2>2. reqs = {}
    BY <2>1 DEF FlagInv, QueueInv, Holders, HoldPc
  <2>3. disk = {}
    BY <2>1, <2>2 DEF FlagInv, QueueInv, TypeInv, Writing
  <2>4. \A c \in Completers : pc[c] = "idle"
    BY <2>1, <2>2 DEF FlagInv, QueueInv, TypeInv, Writing, CompleterPc
  <2> QED
    BY <2>3, <2>4 DEF FlagInv, LockInv, TypeInv
<1> QED
  BY <1>2, <1>3, <1>4 DEF Holders

\* A search that has found refcnt at zero is alone with the page.
LEMMA Alone ==
  ASSUME ThreadsApart, FlagInv, refcnt = 0, NEW u \in Users, cell_lock = u
  PROVE  /\ \A w \in Users : w # u => pc[w] = "idle"
         /\ \A c \in Completers : pc[c] = "idle"
         /\ disk = {} /\ page_lock = Nobody /\ reqs = {} /\ Holders = {} /\ ~Writing
<1>1. Holders = {} /\ disk = {} /\ page_lock = Nobody /\ ~Writing
  BY RefFacts DEF FlagInv, TypeInv
<1>2. \A w \in Users : w # u => pc[w] = "idle"
  BY <1>1 DEF FlagInv, TypeInv, LockInv, Holders
<1>3. \A c \in Completers : pc[c] = "idle"
  BY <1>1, ThreadsApart DEF FlagInv, LockInv, ThreadsApart
<1>4. reqs = {}
  BY <1>1 DEF FlagInv, QueueInv, Holders
<1> QED
  BY <1>1, <1>2, <1>3, <1>4

\* Evicting a page for a user leaves the calls well typed.
LEMMA EvictedCall ==
  ASSUME TypeInv, NEW u \in Users
  PROVE  [call EXCEPT ![u].evicted = TRUE] \in [Users -> Calls]
<1>1. call \in [Users -> Calls] /\ call[u] \in Calls
  BY DEF TypeInv
<1>2. [call[u] EXCEPT !.evicted = TRUE] \in Calls
  BY Zenon, <1>1 DEF Calls
<1> QED
  BY <1>1, <1>2

\* search() takes the lock of the cell.
LEMMA searchStep ==
  ASSUME ThreadsApart, FlagInv, NEW u \in Users, search(u)
  PROVE  FlagInv'
<1>1. TypeInv'
  BY RefFacts DEF FlagInv, ThreadsApart, LockInv, TypeInv, Calls, search, Goto
<1>2. LockInv'
  BY DEF FlagInv, ThreadsApart, TypeInv, LockInv, search, Goto
<1>3. OneIO'
  BY DEF FlagInv, TypeInv, OneIO, search, Goto
<1>4. RefInv'
  <2>1. Holders' = Holders
    BY DEF ThreadsApart, FlagInv, TypeInv, Holders, search, Goto
  <2>2. Writing' = Writing
    BY DEF ThreadsApart, FlagInv, TypeInv, Writing, search, Goto
  <2> QED
    BY <2>1, <2>2, HolderCount DEF FlagInv, RefInv, TypeInv, search, Goto
<1>5. QueueInv'
  BY DEF FlagInv, ThreadsApart, TypeInv, QueueInv, search, Goto
<1>6. OldInv'
  BY DEF FlagInv, ThreadsApart, TypeInv, OldInv, search, Goto
<1>7. EvictorInv'
  BY DEF FlagInv, ThreadsApart, TypeInv, Calls, EvictorInv, Holders, search, Goto
<1>8. ByteInv'
  BY DEF FlagInv, ThreadsApart, TypeInv, ByteInv, search, Goto
<1>9. FlagsExact'
  BY DEF FlagInv, FlagsExact, search, Goto
<1> QED
  BY <1>1, <1>2, <1>3, <1>4, <1>5, <1>6, <1>7, <1>8, <1>9 DEF FlagInv

\* A search that finds the page takes a reference.
LEMMA SearchHitStep ==
  ASSUME ThreadsApart, FlagInv, NEW u \in Users, SearchHit(u)
  PROVE  FlagInv'
<1>1. TypeInv'
  BY DEF FlagInv, TypeInv, Calls, SearchHit, Goto
<1>2. LockInv'
  BY DEF FlagInv, ThreadsApart, TypeInv, LockInv, SearchHit, Goto
<1>3. OneIO'
  BY DEF FlagInv, TypeInv, OneIO, SearchHit, Goto
<1>4. RefInv'
  <2>1. u \notin Holders /\ Holders' = Holders \cup {u}
    BY DEF ThreadsApart, FlagInv, TypeInv, Holders, SearchHit, Goto
  <2>2. Writing' = Writing
    BY DEF ThreadsApart, FlagInv, TypeInv, Writing, SearchHit, Goto
  <2> QED
    BY <2>1, <2>2, HolderCount DEF FlagInv, RefInv, TypeInv, SearchHit, Goto
<1>5. QueueInv'
  BY DEF FlagInv, ThreadsApart, TypeInv, QueueInv, SearchHit, Goto
<1>6. OldInv'
  BY DEF FlagInv, ThreadsApart, TypeInv, OldInv, SearchHit, Goto
<1>7. EvictorInv'
  BY DEF FlagInv, ThreadsApart, TypeInv, Calls, EvictorInv, Holders, SearchHit, Goto
<1>8. ByteInv'
  BY RefFacts DEF FlagInv, LockInv, ThreadsApart, TypeInv, ByteInv, SearchHit, Goto
<1>9. FlagsExact'
  BY DEF FlagInv, FlagsExact, SearchHit, Goto
<1> QED
  BY <1>1, <1>2, <1>3, <1>4, <1>5, <1>6, <1>7, <1>8, <1>9 DEF FlagInv

\* A search that may not evict the page gives up.
LEMMA SearchFailsStep ==
  ASSUME ThreadsApart, FlagInv, NEW u \in Users, SearchFails(u)
  PROVE  FlagInv'
<1>1. TypeInv'
  BY DEF FlagInv, TypeInv, Calls, SearchFails, Goto
<1>2. LockInv'
  BY DEF FlagInv, ThreadsApart, TypeInv, LockInv, SearchFails, Goto
<1>3. OneIO'
  BY DEF FlagInv, TypeInv, OneIO, SearchFails, Goto
<1>4. RefInv'
  <2>1. Holders' = Holders
    BY DEF ThreadsApart, FlagInv, TypeInv, Holders, SearchFails, Goto
  <2>2. Writing' = Writing
    BY DEF ThreadsApart, FlagInv, TypeInv, Writing, SearchFails, Goto
  <2> QED
    BY <2>1, <2>2, HolderCount DEF FlagInv, RefInv, TypeInv, SearchFails, Goto
<1>5. QueueInv'
  BY DEF FlagInv, ThreadsApart, TypeInv, QueueInv, SearchFails, Goto
<1>6. OldInv'
  BY DEF FlagInv, ThreadsApart, TypeInv, OldInv, SearchFails, Goto
<1>7. EvictorInv'
  BY DEF FlagInv, ThreadsApart, TypeInv, Calls, EvictorInv, Holders, SearchFails, Goto
<1>8. ByteInv'
  BY DEF FlagInv, ThreadsApart, TypeInv, ByteInv, SearchFails, Goto
<1>9. FlagsExact'
  BY DEF FlagInv, FlagsExact, SearchFails, Goto
<1> QED
  BY <1>1, <1>2, <1>3, <1>4, <1>5, <1>6, <1>7, <1>8, <1>9 DEF FlagInv

\* A search evicts the page, which nobody refers to.
LEMMA EvictStep ==
  ASSUME ThreadsApart, FlagInv, NEW u \in Users, Evict(u)
  PROVE  FlagInv'
<1>0. /\ cell_lock = u /\ refcnt = 0
      /\ \A w \in Users : w # u => pc[w] = "idle"
      /\ \A c \in Completers : pc[c] = "idle"
      /\ disk = {} /\ page_lock = Nobody /\ reqs = {} /\ Holders = {} /\ ~Writing
  BY Alone DEF FlagInv, LockInv, ByteInv, Evict
<1>1. TypeInv'
  <2>1. call' \in [Users -> Calls]
    BY EvictedCall DEF FlagInv, TypeInv, Evict
  <2>2. refcnt' \in Nat
    BY RefFacts DEF FlagInv, TypeInv, Evict, Goto, SetBits, is_dirty, is_old_dirty
  <2>3. /\ flags' \subseteq {"DATA_READY", "DIRTY", "OLD_DIRTY", "IO_PENDING"}
        /\ disk' \subseteq {"read", "write", "merged"}
    BY DEF FlagInv, TypeInv, Evict, Goto, SetBits, is_dirty, is_old_dirty
  <2>4. /\ pc' \in [Users \cup Completers -> UserPc \cup CompleterPc]
        /\ \A w \in Users : pc'[w] \in UserPc
        /\ \A c \in Completers : pc'[c] \in CompleterPc
    BY DEF ThreadsApart, FlagInv, TypeInv, Evict, Goto, SetBits, is_dirty, is_old_dirty
  <2> QED
    BY <2>1, <2>2, <2>3, <2>4 DEF FlagInv, TypeInv, Evict
<1>2. LockInv'
  BY <1>0 DEF FlagInv, ThreadsApart, TypeInv, LockInv, Evict, Goto, SetBits, is_dirty,
     is_old_dirty
<1>3. OneIO'
  BY <1>0 DEF FlagInv, TypeInv, OneIO, Evict, Goto, SetBits, is_dirty, is_old_dirty
<1>4. RefInv'
  <2>1. Holders' = IF pc'[u] = "found" THEN {u} ELSE {}
    BY <1>0 DEF ThreadsApart, FlagInv, TypeInv, Holders, Evict, Goto, SetBits, is_dirty,
       is_old_dirty
  <2>2. ~Writing'
    BY <1>0 DEF ThreadsApart, FlagInv, TypeInv, Writing, Evict, Goto, SetBits, is_dirty,
       is_old_dirty
  <2> QED
    BY <1>0, <2>1, <2>2, HolderCount DEF FlagInv, RefInv, TypeInv, Evict, Goto, SetBits,
       is_dirty, is_old_dirty
<1>5. QueueInv'
  BY <1>0 DEF FlagInv, ThreadsApart, TypeInv, QueueInv, Evict, Goto, SetBits, is_dirty,
     is_old_dirty
<1>6. OldInv'
  BY <1>0 DEF FlagInv, ThreadsApart, TypeInv, OldInv, Evict, Goto, SetBits, is_dirty,
     is_old_dirty
<1>7. EvictorInv'
  BY <1>0 DEF FlagInv, ThreadsApart, TypeInv, Calls, EvictorInv, Holders, Evict, Goto,
     SetBits, is_dirty, is_old_dirty
<1>8. ByteInv'
  BY <1>0 DEF FlagInv, ThreadsApart, TypeInv, ByteInv, Evict, Goto, SetBits, is_dirty,
     is_old_dirty
<1>9. FlagsExact'
  BY <1>0 DEF FlagInv, FlagsExact, Evict, Goto, SetBits, is_dirty, is_old_dirty
<1> QED
  BY <1>1, <1>2, <1>3, <1>4, <1>5, <1>6, <1>7, <1>8, <1>9 DEF FlagInv

\* A search loads the byte in order to set OLD_DIRTY.
LEMMA EvictLoadStep ==
  ASSUME ThreadsApart, FlagInv, NEW u \in Users, EvictLoad(u)
  PROVE  FlagInv'
<1>1. TypeInv'
  BY DEF FlagInv, TypeInv, Calls, EvictLoad, Goto, LoadFlags
<1>2. LockInv'
  BY DEF FlagInv, ThreadsApart, TypeInv, LockInv, EvictLoad, Goto, LoadFlags
<1>3. OneIO'
  BY DEF FlagInv, TypeInv, OneIO, EvictLoad, Goto, LoadFlags
<1>4. RefInv'
  <2>1. Holders' = Holders
    BY DEF ThreadsApart, FlagInv, TypeInv, Holders, EvictLoad, Goto, LoadFlags
  <2>2. Writing' = Writing
    BY DEF ThreadsApart, FlagInv, TypeInv, Writing, EvictLoad, Goto, LoadFlags
  <2> QED
    BY <2>1, <2>2, HolderCount DEF FlagInv, RefInv, TypeInv, EvictLoad, Goto, LoadFlags
<1>5. QueueInv'
  BY DEF FlagInv, ThreadsApart, TypeInv, QueueInv, EvictLoad, Goto, LoadFlags
<1>6. OldInv'
  BY DEF FlagInv, ThreadsApart, TypeInv, OldInv, EvictLoad, Goto, LoadFlags
<1>7. EvictorInv'
  BY DEF FlagInv, ThreadsApart, TypeInv, Calls, EvictorInv, Holders, EvictLoad, Goto,
     LoadFlags
<1>8. ByteInv'
  BY DEF FlagInv, ThreadsApart, TypeInv, ByteInv, EvictLoad, Goto, LoadFlags
<1>9. FlagsExact'
  BY DEF FlagInv, FlagsExact, EvictLoad, Goto, LoadFlags
<1> QED
  BY <1>1, <1>2, <1>3, <1>4, <1>5, <1>6, <1>7, <1>8, <1>9 DEF FlagInv

\* A search stores the byte with OLD_DIRTY set.
LEMMA EvictStoreStep ==
  ASSUME ThreadsApart, FlagInv, NEW u \in Users, EvictStore(u)
  PROVE  FlagInv'
<1>0. /\ cell_lock = u /\ refcnt = 0
      /\ \A w \in Users : w # u => pc[w] = "idle"
      /\ \A c \in Completers : pc[c] = "idle"
      /\ disk = {} /\ page_lock = Nobody /\ reqs = {} /\ Holders = {} /\ ~Writing
  BY Alone DEF FlagInv, LockInv, ByteInv, EvictStore
<1>1. TypeInv'
  <2>1. call' \in [Users -> Calls]
    BY EvictedCall DEF FlagInv, TypeInv, EvictStore
  <2>2. refcnt' \in Nat
    BY RefFacts DEF FlagInv, TypeInv, EvictStore, Goto, StoreOldDirty, Bit
  <2>3. /\ flags' \subseteq {"DATA_READY", "DIRTY", "OLD_DIRTY", "IO_PENDING"}
        /\ disk' \subseteq {"read", "write", "merged"}
    BY DEF FlagInv, TypeInv, EvictStore, Goto, StoreOldDirty, Bit
  <2>4. /\ pc' \in [Users \cup Completers -> UserPc \cup CompleterPc]
        /\ \A w \in Users : pc'[w] \in UserPc
        /\ \A c \in Completers : pc'[c] \in CompleterPc
    BY DEF ThreadsApart, FlagInv, TypeInv, EvictStore, Goto, StoreOldDirty, Bit
  <2> QED
    BY <2>1, <2>2, <2>3, <2>4 DEF FlagInv, TypeInv, EvictStore
<1>2. LockInv'
  BY <1>0 DEF FlagInv, ThreadsApart, TypeInv, LockInv, EvictStore, Goto, StoreOldDirty,
     Bit
<1>3. OneIO'
  BY <1>0, RefFacts DEF FlagInv, ThreadsApart, LockInv, OldInv, EvictorInv, ByteInv,
     TypeInv, OneIO, EvictStore, Goto, StoreOldDirty, Bit
<1>4. RefInv'
  <2>1. Holders' = {u}
    BY <1>0 DEF ThreadsApart, FlagInv, TypeInv, Holders, EvictStore, Goto,
       StoreOldDirty, Bit
  <2>2. ~Writing'
    BY <1>0 DEF ThreadsApart, FlagInv, TypeInv, Writing, EvictStore, Goto,
       StoreOldDirty, Bit
  <2> QED
    BY <1>0, <2>1, <2>2, HolderCount DEF FlagInv, RefInv, TypeInv, EvictStore, Goto,
       StoreOldDirty, Bit
<1>5. QueueInv'
  BY <1>0 DEF FlagInv, ThreadsApart, TypeInv, QueueInv, EvictStore, Goto, StoreOldDirty,
     Bit
<1>6. OldInv'
  BY <1>0, RefFacts DEF FlagInv, LockInv, OneIO, EvictorInv, ByteInv, ThreadsApart,
     TypeInv, OldInv, EvictStore, Goto, StoreOldDirty, Bit
<1>7. EvictorInv'
  BY <1>0 DEF FlagInv, ThreadsApart, TypeInv, Calls, EvictorInv, Holders, EvictStore,
     Goto, StoreOldDirty, Bit
<1>8. ByteInv'
  BY <1>0 DEF FlagInv, ThreadsApart, TypeInv, ByteInv, EvictStore, Goto, StoreOldDirty,
     Bit
<1>9. FlagsExact'
  BY <1>0, RefFacts DEF FlagInv, ThreadsApart, TypeInv, LockInv, OneIO, OldInv,
     EvictorInv, ByteInv, FlagsExact, EvictStore, Goto, StoreOldDirty, Bit
<1> QED
  BY <1>1, <1>2, <1>3, <1>4, <1>5, <1>6, <1>7, <1>8, <1>9 DEF FlagInv

\* process_user_req() looks at OLD_DIRTY.
LEMMA FoundStep ==
  ASSUME ThreadsApart, FlagInv, NEW u \in Users, Found(u)
  PROVE  FlagInv'
<1>1. TypeInv'
  BY DEF FlagInv, TypeInv, Calls, Found, Goto, is_old_dirty
<1>2. LockInv'
  BY DEF FlagInv, ThreadsApart, TypeInv, LockInv, Found, Goto, is_old_dirty
<1>3. OneIO'
  BY DEF FlagInv, TypeInv, OneIO, Found, Goto, is_old_dirty
<1>4. RefInv'
  <2>1. Holders' = Holders
    BY DEF ThreadsApart, FlagInv, TypeInv, Holders, Found, Goto, is_old_dirty
  <2>2. Writing' = Writing
    BY DEF ThreadsApart, FlagInv, TypeInv, Writing, Found, Goto, is_old_dirty
  <2> QED
    BY <2>1, <2>2, HolderCount DEF FlagInv, RefInv, TypeInv, Found, Goto, is_old_dirty
<1>5. QueueInv'
  BY DEF FlagInv, ThreadsApart, TypeInv, QueueInv, Found, Goto, is_old_dirty
<1>6. OldInv'
  BY DEF FlagInv, ThreadsApart, TypeInv, OldInv, Found, Goto, is_old_dirty
<1>7. EvictorInv'
  BY DEF FlagInv, ThreadsApart, TypeInv, Calls, EvictorInv, Holders, Found, Goto,
     is_old_dirty
<1>8. ByteInv'
  BY DEF FlagInv, ThreadsApart, TypeInv, ByteInv, Found, Goto, is_old_dirty
<1>9. FlagsExact'
  BY DEF FlagInv, FlagsExact, Found, Goto, is_old_dirty
<1> QED
  BY <1>1, <1>2, <1>3, <1>4, <1>5, <1>6, <1>7, <1>8, <1>9 DEF FlagInv

\* write_dirty_page() starts the write-back.
LEMMA write_dirty_pageStep ==
  ASSUME ThreadsApart, FlagInv, NEW u \in Users, write_dirty_page(u)
  PROVE  FlagInv'
<1>1. TypeInv'
  BY DEF FlagInv, TypeInv, Calls, write_dirty_page, Goto, SetBits
<1>2. LockInv'
  BY DEF FlagInv, ThreadsApart, TypeInv, LockInv, write_dirty_page, Goto, SetBits
<1>3. OneIO'
  BY RefFacts DEF FlagInv, ThreadsApart, LockInv, OldInv, EvictorInv, ByteInv, TypeInv,
     OneIO, write_dirty_page, Goto, SetBits
<1>4. RefInv'
  <2>1. Holders' = Holders
    BY DEF ThreadsApart, FlagInv, TypeInv, Holders, write_dirty_page, Goto, SetBits
  <2>2. ~Writing /\ Writing'
    BY RefFacts DEF ThreadsApart, FlagInv, TypeInv, Calls, LockInv, OneIO, QueueInv,
       OldInv, EvictorInv, ByteInv, Holders, Writing, write_dirty_page, Goto, SetBits
  <2> QED
    BY <2>1, <2>2, HolderCount DEF FlagInv, RefInv, TypeInv, write_dirty_page, Goto,
       SetBits
<1>5. QueueInv'
  BY DEF FlagInv, ThreadsApart, TypeInv, QueueInv, write_dirty_page, Goto, SetBits
<1>6. OldInv'
  BY DEF FlagInv, ThreadsApart, TypeInv, OldInv, write_dirty_page, Goto, SetBits
<1>7. EvictorInv'
  BY DEF FlagInv, ThreadsApart, TypeInv, Calls, EvictorInv, Holders, write_dirty_page,
     Goto, SetBits
<1>8. ByteInv'
  BY RefFacts DEF FlagInv, LockInv, ThreadsApart, TypeInv, ByteInv, write_dirty_page,
     Goto, SetBits
<1>9. FlagsExact'
  BY DEF FlagInv, FlagsExact, write_dirty_page, Goto, SetBits
<1> QED
  BY <1>1, <1>2, <1>3, <1>4, <1>5, <1>6, <1>7, <1>8, <1>9 DEF FlagInv

\* A request waits for the write-back of another.
LEMMA QueueOnPageStep ==
  ASSUME ThreadsApart, FlagInv, NEW u \in Users, QueueOnPage(u)
  PROVE  FlagInv'
<1>1. TypeInv'
  BY DEF FlagInv, TypeInv, Calls, QueueOnPage, Goto, is_old_dirty
<1>2. LockInv'
  BY DEF FlagInv, ThreadsApart, TypeInv, LockInv, QueueOnPage, Goto, is_old_dirty
<1>3. OneIO'
  BY DEF FlagInv, TypeInv, OneIO, QueueOnPage, Goto, is_old_dirty
<1>4. RefInv'
  <2>1. Holders' = Holders
    BY DEF ThreadsApart, FlagInv, TypeInv, Holders, QueueOnPage, Goto, is_old_dirty
  <2>2. Writing' = Writing
    BY DEF ThreadsApart, FlagInv, TypeInv, Writing, QueueOnPage, Goto, is_old_dirty
  <2> QED
    BY <2>1, <2>2, HolderCount DEF FlagInv, RefInv, TypeInv, QueueOnPage, Goto,
       is_old_dirty
<1>5. QueueInv'
  BY DEF FlagInv, ThreadsApart, TypeInv, QueueInv, QueueOnPage, Goto, is_old_dirty
<1>6. OldInv'
  BY DEF FlagInv, ThreadsApart, TypeInv, OldInv, QueueOnPage, Goto, is_old_dirty
<1>7. EvictorInv'
  BY DEF FlagInv, ThreadsApart, TypeInv, Calls, EvictorInv, Holders, QueueOnPage, Goto,
     is_old_dirty
<1>8. ByteInv'
  BY DEF FlagInv, ThreadsApart, TypeInv, ByteInv, QueueOnPage, Goto, is_old_dirty
<1>9. FlagsExact'
  BY DEF FlagInv, FlagsExact, QueueOnPage, Goto, is_old_dirty
<1> QED
  BY <1>1, <1>2, <1>3, <1>4, <1>5, <1>6, <1>7, <1>8, <1>9 DEF FlagInv

\* A page without data is read, waited for or overwritten.
LEMMA UseNotReadyStep ==
  ASSUME ThreadsApart, FlagInv, NEW u \in Users, UseNotReady(u)
  PROVE  FlagInv'
<1>1. TypeInv'
  <2>1. call' \in [Users -> Calls]
    BY EvictedCall DEF FlagInv, TypeInv, UseNotReady
  <2>2. refcnt' \in Nat
    BY RefFacts DEF FlagInv, TypeInv, UseNotReady, Goto, SetBits, data_ready, is_io_pending
  <2>3. /\ flags' \subseteq {"DATA_READY", "DIRTY", "OLD_DIRTY", "IO_PENDING"}
        /\ disk' \subseteq {"read", "write", "merged"}
    BY Zenon DEF FlagInv, TypeInv, UseNotReady, Goto, SetBits, data_ready, is_io_pending
  <2>4. /\ pc' \in [Users \cup Completers -> UserPc \cup CompleterPc]
        /\ \A w \in Users : pc'[w] \in UserPc
        /\ \A c \in Completers : pc'[c] \in CompleterPc
    BY DEF ThreadsApart, FlagInv, TypeInv, UseNotReady, Goto, SetBits, data_ready, is_io_pending
  <2> QED
    BY <2>1, <2>2, <2>3, <2>4 DEF FlagInv, TypeInv, UseNotReady
<1>2. LockInv'
  BY DEF FlagInv, ThreadsApart, TypeInv, LockInv, UseNotReady, Goto, SetBits,
     data_ready, is_io_pending
<1>3. OneIO'
  BY ZenonT(60) DEF FlagInv, TypeInv, OneIO, UseNotReady, Goto, SetBits, data_ready, is_io_pending
<1>4. RefInv'
  <2>1. u \in Holders /\ Holders' = IF pc'[u] = "idle" THEN Holders \ {u} ELSE Holders
    BY DEF ThreadsApart, FlagInv, TypeInv, Holders, UseNotReady, Goto, SetBits,
       data_ready, is_io_pending
  <2>2. Writing' = Writing
    BY DEF ThreadsApart, FlagInv, TypeInv, Writing, UseNotReady, Goto, SetBits,
       data_ready, is_io_pending
  <2> QED
    BY <2>1, <2>2, HolderCount DEF FlagInv, RefInv, TypeInv, UseNotReady, Goto, SetBits,
       data_ready, is_io_pending
<1>5. QueueInv'
  BY DEF FlagInv, ThreadsApart, TypeInv, QueueInv, UseNotReady, Goto, SetBits,
     data_ready, is_io_pending
<1>6. OldInv'
  BY DEF FlagInv, ThreadsApart, TypeInv, OldInv, UseNotReady, Goto, SetBits, data_ready,
     is_io_pending
<1>7. EvictorInv'
  BY RefFacts DEF FlagInv, LockInv, OneIO, OldInv, ByteInv, ThreadsApart, TypeInv,
     Calls, EvictorInv, Holders, UseNotReady, Goto, SetBits, data_ready, is_io_pending
<1>8. ByteInv'
  BY RefFacts DEF FlagInv, LockInv, ThreadsApart, TypeInv, ByteInv, UseNotReady, Goto,
     SetBits, data_ready, is_io_pending
<1>9. FlagsExact'
  BY DEF FlagInv, FlagsExact, UseNotReady, Goto, SetBits, data_ready, is_io_pending
<1> QED
  BY <1>1, <1>2, <1>3, <1>4, <1>5, <1>6, <1>7, <1>8, <1>9 DEF FlagInv

\* A page with data is used.
LEMMA UseReadyStep ==
  ASSUME ThreadsApart, FlagInv, NEW u \in Users, UseReady(u)
  PROVE  FlagInv'
<1>1. TypeInv'
  BY DEF FlagInv, TypeInv, Calls, UseReady, Goto, data_ready
<1>2. LockInv'
  BY DEF FlagInv, ThreadsApart, TypeInv, LockInv, UseReady, Goto, data_ready
<1>3. OneIO'
  BY DEF FlagInv, TypeInv, OneIO, UseReady, Goto, data_ready
<1>4. RefInv'
  <2>1. Holders' = Holders
    BY DEF ThreadsApart, FlagInv, TypeInv, Holders, UseReady, Goto, data_ready
  <2>2. Writing' = Writing
    BY DEF ThreadsApart, FlagInv, TypeInv, Writing, UseReady, Goto, data_ready
  <2> QED
    BY <2>1, <2>2, HolderCount DEF FlagInv, RefInv, TypeInv, UseReady, Goto, data_ready
<1>5. QueueInv'
  BY DEF FlagInv, ThreadsApart, TypeInv, QueueInv, UseReady, Goto, data_ready
<1>6. OldInv'
  BY DEF FlagInv, ThreadsApart, TypeInv, OldInv, UseReady, Goto, data_ready
<1>7. EvictorInv'
  BY DEF FlagInv, ThreadsApart, TypeInv, Calls, EvictorInv, Holders, UseReady, Goto,
     data_ready
<1>8. ByteInv'
  BY DEF FlagInv, ThreadsApart, TypeInv, ByteInv, UseReady, Goto, data_ready
<1>9. FlagsExact'
  BY DEF FlagInv, FlagsExact, UseReady, Goto, data_ready
<1> QED
  BY <1>1, <1>2, <1>3, <1>4, <1>5, <1>6, <1>7, <1>8, <1>9 DEF FlagInv

\* complete_req() copies and gives the reference back.
LEMMA CopyStep ==
  ASSUME ThreadsApart, FlagInv, NEW u \in Users, Copy(u)
  PROVE  FlagInv'
<1>1. TypeInv'
  BY RefFacts DEF FlagInv, TypeInv, Calls, Copy, Goto, SetBits
<1>2. LockInv'
  BY DEF FlagInv, ThreadsApart, TypeInv, LockInv, Copy, Goto, SetBits
<1>3. OneIO'
  BY DEF FlagInv, TypeInv, OneIO, Copy, Goto, SetBits
<1>4. RefInv'
  <2>1. u \in Holders /\ Holders' = Holders \ {u}
    BY DEF ThreadsApart, FlagInv, TypeInv, Holders, Copy, Goto, SetBits
  <2>2. Writing' = Writing
    BY DEF ThreadsApart, FlagInv, TypeInv, Writing, Copy, Goto, SetBits
  <2> QED
    BY <2>1, <2>2, HolderCount DEF FlagInv, RefInv, TypeInv, Copy, Goto, SetBits
<1>5. QueueInv'
  BY DEF FlagInv, ThreadsApart, TypeInv, QueueInv, Copy, Goto, SetBits
<1>6. OldInv'
  BY DEF FlagInv, ThreadsApart, TypeInv, OldInv, Copy, Goto, SetBits
<1>7. EvictorInv'
  BY DEF FlagInv, ThreadsApart, TypeInv, Calls, EvictorInv, Holders, Copy, Goto, SetBits
<1>8. ByteInv'
  BY RefFacts DEF FlagInv, LockInv, ThreadsApart, TypeInv, ByteInv, Copy, Goto, SetBits
<1>9. FlagsExact'
  BY DEF FlagInv, FlagsExact, Copy, Goto, SetBits
<1> QED
  BY <1>1, <1>2, <1>3, <1>4, <1>5, <1>6, <1>7, <1>8, <1>9 DEF FlagInv

\* merge_pages2req() takes the page along.
LEMMA merge_pages2reqStep ==
  ASSUME ThreadsApart, FlagInv, merge_pages2req
  PROVE  FlagInv'
<1>1. TypeInv'
  BY DEF FlagInv, TypeInv, Calls, merge_pages2req, SetBits, is_dirty, is_io_pending
<1>2. LockInv'
  BY DEF FlagInv, ThreadsApart, TypeInv, LockInv, merge_pages2req, SetBits, is_dirty,
     is_io_pending
<1>3. OneIO'
  BY DEF FlagInv, TypeInv, OneIO, merge_pages2req, SetBits, is_dirty, is_io_pending
<1>4. RefInv'
  <2>1. Holders' = Holders
    BY DEF ThreadsApart, FlagInv, TypeInv, Holders, merge_pages2req, SetBits, is_dirty,
       is_io_pending
  <2>2. ~Writing /\ Writing'
    BY DEF ThreadsApart, FlagInv, TypeInv, LockInv, OneIO, Writing, merge_pages2req,
       SetBits, is_dirty, is_io_pending
  <2> QED
    BY <2>1, <2>2, HolderCount DEF FlagInv, RefInv, TypeInv, merge_pages2req, SetBits,
       is_dirty, is_io_pending
<1>5. QueueInv'
  BY DEF FlagInv, ThreadsApart, TypeInv, QueueInv, merge_pages2req, SetBits, is_dirty,
     is_io_pending
<1>6. OldInv'
  BY DEF FlagInv, ThreadsApart, TypeInv, OldInv, merge_pages2req, SetBits, is_dirty,
     is_io_pending
<1>7. EvictorInv'
  BY RefFacts DEF FlagInv, LockInv, OneIO, OldInv, ByteInv, ThreadsApart, TypeInv,
     Calls, EvictorInv, Holders, merge_pages2req, SetBits, is_dirty, is_io_pending
<1>8. ByteInv'
  BY RefFacts DEF FlagInv, LockInv, ThreadsApart, TypeInv, ByteInv, merge_pages2req,
     SetBits, is_dirty, is_io_pending
<1>9. FlagsExact'
  BY DEF FlagInv, FlagsExact, merge_pages2req, SetBits, is_dirty, is_io_pending
<1> QED
  BY <1>1, <1>2, <1>3, <1>4, <1>5, <1>6, <1>7, <1>8, <1>9 DEF FlagInv

\* A completer takes an I/O from the disk, under the lock of the page.
LEMMA CompleteStep ==
  ASSUME ThreadsApart, FlagInv, NEW c \in Completers, Complete(c)
  PROVE  FlagInv'
<1>1. TypeInv'
  BY RefFacts DEF FlagInv, ThreadsApart, LockInv, TypeInv, Calls, Complete, Goto,
     SetBits, lock
<1>2. LockInv'
  BY DEF FlagInv, ThreadsApart, TypeInv, LockInv, Complete, Goto, SetBits, lock
<1>3. OneIO'
  BY RefFacts DEF FlagInv, ThreadsApart, LockInv, TypeInv, OneIO, Complete, Goto,
     SetBits, lock
<1>4. RefInv'
  <2>1. Holders' = Holders
    BY DEF ThreadsApart, FlagInv, TypeInv, Holders, Complete, Goto, SetBits, lock
  <2>2. Writing' = Writing
    BY DEF ThreadsApart, FlagInv, TypeInv, Writing, Complete, Goto, SetBits, lock
  <2> QED
    BY <2>1, <2>2, HolderCount DEF FlagInv, RefInv, TypeInv, Complete, Goto, SetBits,
       lock
<1>5. QueueInv'
  BY DEF FlagInv, ThreadsApart, TypeInv, QueueInv, Complete, Goto, SetBits, lock
<1>6. OldInv'
  BY DEF FlagInv, ThreadsApart, TypeInv, OldInv, Complete, Goto, SetBits, lock
<1>7. EvictorInv'
  BY DEF FlagInv, ThreadsApart, TypeInv, Calls, EvictorInv, Holders, Complete, Goto,
     SetBits, lock
<1>8. ByteInv'
  BY RefFacts DEF FlagInv, LockInv, ThreadsApart, TypeInv, ByteInv, Complete, Goto,
     SetBits, lock
<1>9. FlagsExact'
  BY DEF FlagInv, FlagsExact, Complete, Goto, SetBits, lock
<1> QED
  BY <1>1, <1>2, <1>3, <1>4, <1>5, <1>6, <1>7, <1>8, <1>9 DEF FlagInv

\* A completer loads the byte in order to clear OLD_DIRTY.
LEMMA CompleteLoadStep ==
  ASSUME ThreadsApart, FlagInv, NEW c \in Completers, CompleteLoad(c)
  PROVE  FlagInv'
<1>1. TypeInv'
  BY DEF FlagInv, TypeInv, Calls, CompleteLoad, Goto, LoadFlags
<1>2. LockInv'
  BY DEF FlagInv, ThreadsApart, TypeInv, LockInv, CompleteLoad, Goto, LoadFlags
<1>3. OneIO'
  BY DEF FlagInv, TypeInv, OneIO, CompleteLoad, Goto, LoadFlags
<1>4. RefInv'
  <2>1. Holders' = Holders
    BY DEF ThreadsApart, FlagInv, TypeInv, Holders, CompleteLoad, Goto, LoadFlags
  <2>2. Writing' = Writing
    BY DEF ThreadsApart, FlagInv, TypeInv, Writing, CompleteLoad, Goto, LoadFlags
  <2> QED
    BY <2>1, <2>2, HolderCount DEF FlagInv, RefInv, TypeInv, CompleteLoad, Goto,
       LoadFlags
<1>5. QueueInv'
  BY DEF FlagInv, ThreadsApart, TypeInv, QueueInv, CompleteLoad, Goto, LoadFlags
<1>6. OldInv'
  BY DEF FlagInv, ThreadsApart, TypeInv, OldInv, CompleteLoad, Goto, LoadFlags
<1>7. EvictorInv'
  BY DEF FlagInv, ThreadsApart, TypeInv, Calls, EvictorInv, Holders, CompleteLoad, Goto,
     LoadFlags
<1>8. ByteInv'
  BY DEF FlagInv, ThreadsApart, TypeInv, ByteInv, CompleteLoad, Goto, LoadFlags
<1>9. FlagsExact'
  BY DEF FlagInv, FlagsExact, CompleteLoad, Goto, LoadFlags
<1> QED
  BY <1>1, <1>2, <1>3, <1>4, <1>5, <1>6, <1>7, <1>8, <1>9 DEF FlagInv

\* A completer stores the byte with OLD_DIRTY cleared.
LEMMA CompleteStoreStep ==
  ASSUME ThreadsApart, FlagInv, NEW c \in Completers, CompleteStore(c)
  PROVE  FlagInv'
<1>1. TypeInv'
  BY RefFacts DEF FlagInv, ThreadsApart, LockInv, TypeInv, Calls, CompleteStore, Goto,
     StoreOldDirty, Bit
<1>2. LockInv'
  BY DEF FlagInv, ThreadsApart, TypeInv, LockInv, CompleteStore, Goto, StoreOldDirty,
     Bit
<1>3. OneIO'
  BY RefFacts DEF FlagInv, ThreadsApart, LockInv, OldInv, EvictorInv, ByteInv, TypeInv,
     OneIO, CompleteStore, Goto, StoreOldDirty, Bit
<1>4. RefInv'
  <2>1. Holders' = Holders
    BY DEF ThreadsApart, FlagInv, TypeInv, Holders, CompleteStore, Goto, StoreOldDirty,
       Bit
  <2>2. Writing' = Writing
    BY DEF ThreadsApart, FlagInv, TypeInv, Writing, CompleteStore, Goto, StoreOldDirty,
       Bit
  <2> QED
    BY <2>1, <2>2, HolderCount DEF FlagInv, RefInv, TypeInv, CompleteStore, Goto,
       StoreOldDirty, Bit
<1>5. QueueInv'
  BY DEF FlagInv, ThreadsApart, TypeInv, QueueInv, CompleteStore, Goto, StoreOldDirty,
     Bit
<1>6. OldInv'
  BY DEF FlagInv, ThreadsApart, TypeInv, OldInv, CompleteStore, Goto, StoreOldDirty, Bit
<1>7. EvictorInv'
  BY RefFacts DEF FlagInv, LockInv, ThreadsApart, TypeInv, Calls, EvictorInv, Holders,
     CompleteStore, Goto, StoreOldDirty, Bit
<1>8. ByteInv'
  BY RefFacts DEF FlagInv, LockInv, ThreadsApart, TypeInv, ByteInv, CompleteStore, Goto,
     StoreOldDirty, Bit
<1>9. FlagsExact'
  BY RefFacts DEF FlagInv, ThreadsApart, TypeInv, LockInv, OneIO, OldInv, EvictorInv,
     ByteInv, FlagsExact, CompleteStore, Goto, StoreOldDirty, Bit
<1> QED
  BY <1>1, <1>2, <1>3, <1>4, <1>5, <1>6, <1>7, <1>8, <1>9 DEF FlagInv

\* A completer ends the I/O and releases the queued requests.
LEMMA FinishStep ==
  ASSUME ThreadsApart, FlagInv, NEW c \in Completers, Finish(c)
  PROVE  FlagInv'
<1>1. TypeInv'
  BY RefFacts DEF ThreadsApart, FlagInv, TypeInv, Calls, LockInv, OneIO, QueueInv,
     OldInv, EvictorInv, ByteInv, Holders, Writing, Finish, SetBits, unlock
<1>2. LockInv'
  BY RefFacts DEF ThreadsApart, FlagInv, TypeInv, Calls, LockInv, OneIO, QueueInv,
     OldInv, EvictorInv, ByteInv, Holders, Writing, Finish, SetBits, unlock
<1>3. OneIO'
  BY Zenon, RefFacts DEF FlagInv, ThreadsApart, LockInv, TypeInv, OneIO, Finish, SetBits,
     unlock
<1>4. RefInv'
  <2>1. Holders' = Holders
    BY RefFacts DEF ThreadsApart, FlagInv, TypeInv, Calls, LockInv, OneIO, QueueInv,
       OldInv, EvictorInv, ByteInv, Holders, Writing, Finish, SetBits, unlock
  <2>2. (Writing <=> pc[c] = "finish_write") /\ ~Writing'
    BY DEF ThreadsApart, FlagInv, TypeInv, LockInv, OneIO, Writing, Finish, SetBits,
       unlock
  <2>3. refcnt' = Cardinality(Holders')
    <3>1. CASE pc[c] = "finish_write"
      BY <2>1, <2>2, <3>1, HolderCount DEF FlagInv, RefInv, Finish
    <3>2. CASE pc[c] # "finish_write"
      BY <2>1, <2>2, <3>2, HolderCount DEF FlagInv, RefInv, Finish
    <3> QED
      BY <3>1, <3>2
  <2> QED
    BY <2>1, <2>2, <2>3, HolderCount DEF RefInv
<1>5. QueueInv'
  BY ZenonT(60), RefFacts DEF FlagInv, LockInv, OneIO, OldInv, EvictorInv, ByteInv, ThreadsApart,
     TypeInv, QueueInv, Finish, SetBits, unlock
<1>6. OldInv'
  BY DEF FlagInv, ThreadsApart, TypeInv, OldInv, Finish, SetBits, unlock
<1>7. EvictorInv'
  BY RefFacts DEF ThreadsApart, FlagInv, TypeInv, Calls, LockInv, OneIO, QueueInv,
     OldInv, EvictorInv, ByteInv, Holders, Writing, Finish, SetBits, unlock
<1>8. ByteInv'
  BY RefFacts DEF FlagInv, LockInv, ThreadsApart, TypeInv, ByteInv, Finish, SetBits,
     unlock
<1>9. FlagsExact'
  BY DEF FlagInv, FlagsExact, Finish, SetBits, unlock
<1> QED
  BY <1>1, <1>2, <1>3, <1>4, <1>5, <1>6, <1>7, <1>8, <1>9 DEF FlagInv

\* The initial state: nobody refers to the page and no flag is set.
LEMMA InitFlagInv == ASSUME ThreadsApart, Init PROVE FlagInv
<1>1. TypeInv
  BY DEF Init, TypeInv, Calls, Kinds
<1>2. Holders = {} /\ ~Writing
  BY DEF Init, Holders, Writing
<1>3. RefInv
  BY <1>2, HolderCount DEF Init, RefInv
<1>4. LockInv /\ OneIO /\ OldInv /\ FlagsExact
  BY DEF ThreadsApart, Init, LockInv, OneIO, OldInv, FlagsExact
<1>5. QueueInv /\ EvictorInv /\ ByteInv
  BY <1>2 DEF Init, QueueInv, EvictorInv, ByteInv
<1> QED
  BY <1>1, <1>3, <1>4, <1>5 DEF FlagInv

\* Every step of a user, of a completer and of merge_pages2req() keeps the invariant.
LEMMA NextFlagInv == ASSUME ThreadsApart, FlagInv, [FlagNext]_flagVars PROVE FlagInv'
<1>1. CASE UNCHANGED flagVars
  BY <1>1 DEF flagVars, FlagInv, TypeInv, LockInv, OneIO, RefInv, Holders, Writing, QueueInv,
     OldInv, EvictorInv, ByteInv, FlagsExact
<1>2. ASSUME NEW u \in Users,
             \/ search(u) \/ SearchHit(u) \/ SearchFails(u) \/ Evict(u) \/ EvictLoad(u)
             \/ EvictStore(u) \/ Found(u) \/ write_dirty_page(u) \/ QueueOnPage(u)
             \/ UseNotReady(u) \/ UseReady(u) \/ Copy(u)
      PROVE  FlagInv'
  BY <1>2, searchStep, SearchHitStep, SearchFailsStep, EvictStep, EvictLoadStep,
     EvictStoreStep, FoundStep, write_dirty_pageStep, QueueOnPageStep, UseNotReadyStep,
     UseReadyStep, CopyStep
<1>3. CASE merge_pages2req
  BY <1>3, merge_pages2reqStep
<1>4. ASSUME NEW c \in Completers,
             Complete(c) \/ CompleteLoad(c) \/ CompleteStore(c) \/ Finish(c)
      PROVE  FlagInv'
  BY <1>4, CompleteStep, CompleteLoadStep, CompleteStoreStep, FinishStep
<1> QED
  BY <1>1, <1>2, <1>3, <1>4 DEF FlagNext

\* For any number of users and completers and any number of calls, no change of a
\* flag is lost, although page::set_flag loads and stores the whole byte while
\* thread_safe_page::set_flags_bit changes single bits of it.
THEOREM FlagsCorrect == ASSUME ThreadsApart PROVE FlagSpec => []FlagsExact
<1>1. Init => FlagInv
  BY InitFlagInv
<1>2. FlagInv /\ [FlagNext]_flagVars => FlagInv'
  BY NextFlagInv
<1>3. FlagInv => FlagsExact
  BY DEF FlagInv
<1> QED
  BY <1>1, <1>2, <1>3, PTL DEF FlagSpec

\* For any number of users and completers, a page that hash_cell::search finds with no
\* reference has no disk I/O in flight, and a page is never dirty, nor is its data
\* ready, while its old content waits to be written.
THEOREM EvictionSafe == ASSUME ThreadsApart PROVE FlagSpec => [](EvictedQuiet /\ DirtyExcludes)
<1>1. Init => FlagInv
  BY InitFlagInv
<1>2. FlagInv /\ [FlagNext]_flagVars => FlagInv'
  BY NextFlagInv
<1>3. FlagInv => EvictedQuiet /\ DirtyExcludes
  BY RefFacts DEF FlagInv, OneIO, OldInv, EvictedQuiet, DirtyExcludes, is_io_pending,
     is_old_dirty, is_dirty, data_ready
<1> QED
  BY <1>1, <1>2, <1>3, PTL DEF FlagSpec
=============================================================================
