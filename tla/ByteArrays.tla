----------------------------- MODULE ByteArrays -----------------------------
(***************************************************************************)
(* The arrays a user task sees its data through (SAFS/libsafs/cache.h and  *)
(* cache.cpp): bytes [off, off + size) of a file that lie in pages of      *)
(* memory.  The pages come from the page cache or from a file in memory    *)
(* (in_mem_byte_array), from a buffer that begins at a disk block          *)
(* (direct_byte_array), or are those of another array from some byte on    *)
(* (sub_page_byte_array).  A byte of memory is named by the byte of the    *)
(* file it holds.                                                          *)
(***************************************************************************)
EXTENDS Integers, Sequences, SequencesExt

CONSTANTS
  PageSize, BlockSize,       \* PAGE_SIZE, MIN_BLOCK_SIZE
  MaxOff, MaxSize, ElemSizes \* bounds of the arrays and sizes of their elements

ByteArraysAssumption ==
  /\ PageSize \in Nat \ {0} /\ BlockSize \in Nat \ {0} /\ PageSize % BlockSize = 0
  /\ ElemSizes \subseteq Nat \ {0}

VARIABLES
  arr, T, from, to,          \* array, element size, range [from, to) of the iterator
  it, at, more,              \* seq_const_iterator; elements passed; last answer of has_next
  past                       \* the last move_to returned false

arrayVars == <<arr, T, from, to, it, at, more, past>>

ROUND(x, b) == (x \div b) * b
ROUNDUP(x, b) == ((x + b - 1) \div b) * b
Least(x, y) == IF x < y THEN x ELSE y

-----------------------------------------------------------------------------
(* The arrays: where their first byte and their pages are                    *)

in_mem_byte_array(off, size) ==
  [off |-> off, size |-> size, first |-> off % PageSize, buf |-> ROUND(off, PageSize)]
direct_byte_array(off, size) ==
  [off |-> off, size |-> size, first |-> off - ROUND(off, BlockSize), buf |-> ROUND(off, BlockSize)]
\* sub_page_byte_array
SubArray(orig, off) ==
  [off |-> off + orig.off, size |-> orig.size - off, first |-> (off + orig.first) % PageSize,
   buf |-> orig.buf + ((off + orig.first) \div PageSize) * PageSize]
\* The bytes behind get_page(idx)
get_page(a, idx) == a.buf + idx * PageSize

Arrays ==
  LET whole == {in_mem_byte_array(o, s) : o \in 0..MaxOff, s \in 1..MaxSize}
                 \cup {direct_byte_array(o, s) : o \in 0..MaxOff, s \in 1..MaxSize}
  IN whole \cup UNION {{SubArray(a, o) : o \in 0..a.size} : a \in whole}

\* What the iterators assert of the range they are made for
Aligned(a, f, t, size) ==
  /\ t <= a.size /\ f <= t /\ (t - f) % size = 0
  /\ (PageSize - ((a.first + f) % PageSize)) % size = 0 \/ a.first + t < PageSize

-----------------------------------------------------------------------------
(* const_iterator and memcpy                                                 *)

\* operator*, after the iterator has been moved forward by n elements
Deref(a, f, n, size) ==
  LET off == a.first + f + n * size
  IN get_page(a, off \div PageSize) + (off % PageSize)

Bytes(x, n) == [k \in 1..n |-> x + k - 1]
\* memcpy of an element that crosses one page boundary at most
MemcpyTwoPages(a, rel, size) ==
  LET off == a.first + rel
      pg == off \div PageSize
      part1 == Least(size, PageSize - (off % PageSize))
  IN Bytes(get_page(a, pg) + (off % PageSize), part1) \o Bytes(get_page(a, pg + 1), Least(PageSize, size - part1))

memcpy(a, rel, size) ==
  LET off == a.first + rel
      end == off + size
      pg == off \div PageSize
      part1 == PageSize - (off % PageSize)
      mid == end \div PageSize - pg - 1
      pages == FlattenSeq([k \in 1..mid |-> Bytes(get_page(a, pg + k), PageSize)])
  IN IF size = 0 THEN <<>>
     ELSE IF end - ROUND(off, PageSize) > PageSize
       THEN Bytes(get_page(a, pg) + (off % PageSize), part1) \o pages
              \o Bytes(get_page(a, pg + 1 + mid), size - part1 - mid * PageSize)
       ELSE Bytes(get_page(a, pg) + (off % PageSize), size)

-----------------------------------------------------------------------------
(* seq_const_iterator                                                        *)

\* seq_const_page_iterator over bytes [f, t) of page pg
PageIt(pg, f, t) == [pg |-> pg, data |-> f, data_end |-> t]
\* The part of the page at off that is before end
PageFrom(off, end) ==
  PageIt(off \div PageSize, off % PageSize, Least(PageSize, end - ROUND(off, PageSize)))

Init ==
  /\ arr \in Arrays /\ T \in ElemSizes /\ from \in 0..MaxSize /\ to \in 0..MaxSize
  /\ Aligned(arr, from, to, T)
  /\ it = [start |-> arr.first + from, off |-> arr.first + from, end |-> arr.first + to,
           page |-> IF from = to THEN PageIt(0, 0, 0)
                    ELSE PageFrom(arr.first + from, arr.first + to)]
  /\ at = 0 /\ more = "unknown" /\ past = FALSE

\* has_next: goes to the next page when this one is through
has_next ==
  /\ more # "no"
  /\ IF it.page.data < it.page.data_end THEN more' = "yes" /\ UNCHANGED it
     ELSE LET off == ROUNDUP(it.off + 1, PageSize)
          IN /\ more' = IF off < it.end THEN "yes" ELSE "no"
             /\ it' = [it EXCEPT !.off = off,
                                 !.page = IF off < it.end
                                            THEN PageIt(off \div PageSize, 0, Least(PageSize, it.end - off))
                                            ELSE @]
  /\ UNCHANGED <<arr, T, from, to, at, past>>

\* next, as it is used: after has_next
next ==
  /\ more = "yes"
  /\ it' = [it EXCEPT !.page.data = @ + T] /\ at' = at + 1 /\ more' = "unknown"
  /\ UNCHANGED <<arr, T, from, to, past>>

\* move_to: false past the end, and then off is there and the page is the old one
move_to(idx) ==
  LET off == it.start + idx * T
  IN /\ past' = (off >= it.end) /\ more' = "unknown"
     /\ IF off >= it.end
          THEN it' = [it EXCEPT !.off = off] /\ UNCHANGED at
          ELSE it' = [it EXCEPT !.off = off, !.page = PageFrom(off, it.end)] /\ at' = idx
     /\ UNCHANGED <<arr, T, from, to>>

\* idx: a bound, as all places past the end are alike
Next == has_next \/ next \/ (\E idx \in 0..(to - from) \div T : move_to(idx))
ArraySpec == Init /\ [][Next]_arrayVars

get_num_entries_in_page == (it.page.data_end - it.page.data) \div T
get_num_tot_entries == (it.end - it.off) \div T

-----------------------------------------------------------------------------
\* Whatever the array, the sequential iterator, whose has_next moves it from page
\* to page and whose move_to jumps, shows the elements of its range in order and
\* all of them: the next one is the one at its place in the file, none is split
\* between two pages, and has_next is false exactly after the last; but after a
\* move_to that returned false it is false at the end of the page the iterator was on.
IteratorExact ==
  /\ it.page.data < it.page.data_end =>
       /\ get_page(arr, it.page.pg) + it.page.data = arr.off + from + at * T
       /\ it.page.data + T <= it.page.data_end /\ it.page.data_end <= PageSize
  /\ more = "yes" => at < (to - from) \div T
  /\ more = "no" => \/ at = (to - from) \div T
                    \/ past /\ it.page.data = it.page.data_end

\* Random access and memcpy, for every place in the range, give the same bytes as
\* the file has there.
CopiesExact ==
  /\ \A n \in 0..((to - from) \div T - 1) : Deref(arr, from, n, T) = arr.off + from + n * T
  /\ memcpy(arr, from, to - from) = Bytes(arr.off + from, to - from)

\* get_num_tot_entries never says fewer than "the total number of remaining elements",
\* and says their number where the iterator was made, moved to or went to another
\* page; next() leaves it as it is.
RemainingRight ==
  more # "no" /\ ~past =>
    /\ get_num_tot_entries >= (to - from) \div T - at
    /\ it.page.data = it.off % PageSize => get_num_tot_entries = (to - from) \div T - at
=============================================================================
