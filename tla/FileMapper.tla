----------------------------- MODULE FileMapper -----------------------------
(***************************************************************************)
(* How the pages of an SAFS file are spread over the files on the disks    *)
(* (SAFS/libsafs/file_mapper.{h,cpp}): RAID0, RAID5 and hash mapping, and  *)
(* the sizes of the files on the disks.  A mapper is [option, n, block,    *)
(* start]: n files, stripe blocks of so many pages, and rand_start.        *)
(***************************************************************************)
EXTENDS Integers, Sequences, FiniteSets, FiniteSetsExt, TLAPS

CONSTANTS CONST_A, CONST_P          \* of hash_mapper

Options == {"RAID0", "RAID5", "HASH"}
Mapper(option, n, block, start) == [option |-> option, n |-> n, block |-> block, start |-> start]

\* The files of a RAID5 stripe are shifted from stripe to stripe
Shift(m, b) == (b \div m.n) % m.n

\* hash_mapper: blocks of a cycle that file idx holds
cycle_size_in_bucket(m, idx) == CONST_P \div m.n + (IF idx < CONST_P % m.n THEN 1 ELSE 0)

\* map2file: the file of a page
map2file(m, off) ==
  LET b == off \div m.block
  IN CASE m.option = "RAID0" -> (b + m.start) % m.n
       [] m.option = "RAID5" -> ((b % m.n) + Shift(m, b) + m.start) % m.n
       [] m.option = "HASH" -> ((CONST_A * b) % CONST_P) % m.n

\* The block of a file that a block of the SAFS file goes to under hash_mapper
HashBlock(m, b) ==
  (b \div CONST_P) * cycle_size_in_bucket(m, map2file(m, b * m.block))
    + ((CONST_A * b) % CONST_P) \div m.n

\* map: file and page in the file
map(m, off) ==
  LET b == off \div m.block
  IN [idx |-> map2file(m, off),
      off |-> (IF m.option = "HASH" THEN HashBlock(m, b) ELSE b \div m.n) * m.block
                + (off % m.block)]

\* How many blocks from the end get_size_per_disk looks at
SizeWindow(m) == IF m.option = "HASH" THEN CONST_P ELSE 2 * m.n

\* get_size_per_disk: the last pages of the last blocks tell the sizes.  size and
\* the result are in pages.
get_size_per_disk(m, size) ==
  LET last == {(size \div m.block - i) * m.block + m.block - 1 :
                 i \in {i \in 0..SizeWindow(m) - 1 : i * m.block <= size}}
  IN [f \in 0..m.n - 1 |->
        LET here == {map(m, off).off + 1 : off \in {o \in last : map(m, o).idx = f}}
        IN IF here = {} THEN 0 ELSE Max(here)]

-----------------------------------------------------------------------------
(* Properties of the mapping, over the pages of a file of the given size.    *)

\* No two pages of an SAFS file share a place on the disks, and map2file, which
\* picks the I/O thread, names the file that map, which the I/O thread uses,
\* puts the page in.
Injective(m, size) ==
  /\ \A o1, o2 \in 0..size - 1 : map(m, o1) = map(m, o2) => o1 = o2
  /\ \A o \in 0..size - 1 : map(m, o).idx = map2file(m, o) /\ map(m, o).idx \in 0..m.n - 1

\* Every page of the file has its place within the size of the file on the disk,
\* and no file is longer than its pages need by more than a block.
SizesCover(m, size) ==
  LET s == get_size_per_disk(m, size)
      used(f) == {map(m, o).off : o \in {o \in 0..size - 1 : map2file(m, o) = f}}
  IN /\ \A o \in 0..size - 1 : map(m, o).off < s[map(m, o).idx]
     /\ \A f \in 0..m.n - 1 :
          m.option # "HASH" => s[f] <= Max({0} \cup {x + 1 : x \in used(f)}) + m.block
-----------------------------------------------------------------------------
(* RAID0 and RAID5 for every number of files, block size and first file.     *)

\* Quotient and remainder.
LEMMA Division ==
  ASSUME NEW a \in Nat, NEW n \in Nat \ {0}
  PROVE  a \div n \in Nat /\ a % n \in 0..n - 1 /\ a = (a \div n) * n + (a % n)
  BY SMT

\* A number has one quotient and one remainder.
LEMMA OneDivision ==
  ASSUME NEW n \in Nat \ {0}, NEW p \in Nat, NEW q \in Nat,
         NEW r \in 0..n - 1, NEW s \in 0..n - 1, p * n + r = q * n + s
  PROVE  p = q /\ r = s
<1>1. ASSUME NEW x \in Nat, NEW y \in Nat, x < y PROVE x * n + n <= y * n
  <2>1. y = x + 1 + (y - x - 1) /\ y - x - 1 \in Nat
    BY <1>1
  <2>2. y * n = x * n + n + (y - x - 1) * n
    BY <2>1
  <2>3. (y - x - 1) * n >= 0
    BY <2>1
  <2> QED
    BY <2>2, <2>3
<1>2. ~(p < q)
  <2>1. SUFFICES ASSUME p < q PROVE FALSE
    OBVIOUS
  <2>2. p * n + n <= q * n /\ p * n \in Nat /\ q * n \in Nat
    BY <1>1, <2>1
  <2> QED
    BY <2>2
<1>3. ~(q < p)
  <2>1. SUFFICES ASSUME q < p PROVE FALSE
    OBVIOUS
  <2>2. q * n + n <= p * n /\ p * n \in Nat /\ q * n \in Nat
    BY <1>1, <2>1
  <2> QED
    BY <2>2
<1>4. p = q
  BY <1>2, <1>3
<1> QED
  BY <1>4

\* Adding the same amount to two files of a stripe, modulo the number of files,
\* keeps them apart.
LEMMA ShiftApart ==
  ASSUME NEW n \in Nat \ {0}, NEW r \in 0..n - 1, NEW s \in 0..n - 1, NEW c \in Nat,
         (r + c) % n = (s + c) % n
  PROVE  r = s
<1> DEFINE p == (r + c) \div n
           q == (s + c) \div n
           t == (r + c) % n
<1>0. r + c \in Nat /\ s + c \in Nat
  OBVIOUS
<1>1. p \in Nat /\ q \in Nat /\ t \in 0..n - 1
  BY <1>0, Division
<1>2. r + c = p * n + t /\ s + c = q * n + t
  BY <1>0, Division
<1> HIDE DEF p, q, t
<1>3. p * n + s = q * n + r
  <2>1. p * n \in Nat /\ q * n \in Nat
    BY <1>1
  <2> QED
    BY <1>1, <1>2, <2>1
<1> QED
  BY <1>1, <1>3, OneDivision

\* The striped mappers: RAID0 and RAID5 over n files with blocks of so many pages.
Striped ==
  [option : {"RAID0", "RAID5"}, n : Nat \ {0}, block : Nat \ {0}, start : Nat]

\* Two pages that a striped mapper puts at one place of one file are one page.
LEMMA StripedApart ==
  ASSUME NEW m \in Striped, NEW o1 \in Nat, NEW o2 \in Nat, map(m, o1) = map(m, o2)
  PROVE  o1 = o2
<1> DEFINE b1 == o1 \div m.block
           b2 == o2 \div m.block
<1>1. m.n \in Nat \ {0} /\ m.block \in Nat \ {0} /\ m.start \in Nat
      /\ m.option \in {"RAID0", "RAID5"}
  BY DEF Striped
<1>2. b1 \in Nat /\ b2 \in Nat /\ o1 % m.block \in 0..m.block - 1 /\ o2 % m.block \in 0..m.block - 1
  BY <1>1, Division
<1>3. b1 \div m.n \in Nat /\ b2 \div m.n \in Nat
      /\ b1 % m.n \in 0..m.n - 1 /\ b2 % m.n \in 0..m.n - 1
  BY <1>1, <1>2, Division
<1>4. /\ map2file(m, o1) = map2file(m, o2)
      /\ (b1 \div m.n) * m.block + (o1 % m.block) = (b2 \div m.n) * m.block + (o2 % m.block)
  BY <1>1 DEF map
<1>5. b1 \div m.n = b2 \div m.n /\ o1 % m.block = o2 % m.block
  <2> DEFINE p == b1 \div m.n
             q == b2 \div m.n
             r == o1 % m.block
             s == o2 % m.block
  <2>1. p \in Nat /\ q \in Nat /\ r \in 0..m.block - 1 /\ s \in 0..m.block - 1
        /\ p * m.block + r = q * m.block + s
    BY <1>2, <1>3, <1>4
  <2> HIDE DEF p, q, r, s
  <2>2. p = q /\ r = s
    BY <1>1, <2>1, OneDivision
  <2> QED
    BY <2>2 DEF p, q, r, s
<1>6. \A a \in Nat : a % m.n \in 0..m.n - 1 /\ a = (a \div m.n) * m.n + (a % m.n)
  BY <1>1, Division
<1>7. b1 % m.n = b2 % m.n
  <2>1. CASE m.option = "RAID0"
    <3>1. (b1 + m.start) % m.n = (b2 + m.start) % m.n
      BY <1>4, <2>1 DEF map2file
    <3> DEFINE c == (b1 \div m.n) * m.n + m.start
    <3>2. c \in Nat
      BY <1>1, <1>3
    <3>3. b1 + m.start = (b1 % m.n) + c /\ b2 + m.start = (b2 % m.n) + c
      <4>1. b1 = (b1 \div m.n) * m.n + (b1 % m.n) /\ b2 = (b2 \div m.n) * m.n + (b2 % m.n)
        BY <1>1, <1>2, Division
      <4> DEFINE d == (b1 \div m.n) * m.n
      <4>2. d \in Nat /\ b1 = d + (b1 % m.n) /\ b2 = d + (b2 % m.n) /\ c = d + m.start
        BY <1>1, <1>3, <1>5, <4>1
      <4> HIDE DEF d, c
      <4> DEFINE r == b1 % m.n
                 s == b2 % m.n
      <4>3. r \in Nat /\ s \in Nat /\ b1 = d + r /\ b2 = d + s
        BY <1>1, <1>3, <4>2
      <4> HIDE DEF r, s, b1, b2
      <4>4. b1 + m.start = r + c /\ b2 + m.start = s + c
        BY <1>1, <4>2, <4>3
      <4> QED
        BY <4>4 DEF r, s
    <3> HIDE DEF b1, b2, c
    <3> QED
      BY <1>1, <1>3, <3>1, <3>2, <3>3, ShiftApart
  <2>2. CASE m.option = "RAID5"
    <3> DEFINE c == Shift(m, b1) + m.start
    <3>1. Shift(m, b1) = Shift(m, b2) /\ Shift(m, b1) \in Nat
      BY <1>1, <1>3, <1>5, <1>6 DEF Shift
    <3>2. c \in Nat
      BY <1>1, <3>1
    <3>3. ((b1 % m.n) + Shift(m, b1) + m.start) % m.n
            = ((b2 % m.n) + Shift(m, b2) + m.start) % m.n
      BY <1>4, <2>2 DEF map2file
    <3> HIDE DEF b1, b2
    <3>4. ((b1 % m.n) + c) % m.n = ((b2 % m.n) + c) % m.n
      BY <1>1, <1>3, <3>1, <3>3
    <3> HIDE DEF c
    <3> QED
      BY <1>1, <1>3, <3>2, <3>4, ShiftApart
  <2> QED
    BY <1>1, <2>1, <2>2
<1>8. b1 = b2
  <2>1. b1 = (b1 \div m.n) * m.n + (b1 % m.n) /\ b2 = (b2 \div m.n) * m.n + (b2 % m.n)
    BY <1>2, <1>6
  <2> HIDE DEF b1, b2
  <2> QED
    BY <1>5, <1>7, <2>1
<1> QED
  BY <1>1, <1>5, <1>8, Division

\* RAID0 and RAID5 give every page of a file of any size a place of its own, for every
\* number of disks, block size and rand_start, and map2file, by which a request finds
\* its I/O thread, agrees with map, by which the thread finds the file.
THEOREM StripedInjective ==
  ASSUME NEW m \in Striped, NEW size \in Nat
  PROVE  Injective(m, size)
<1>1. \A o1, o2 \in 0..size - 1 : map(m, o1) = map(m, o2) => o1 = o2
  BY StripedApart
<1>2. ASSUME NEW o \in 0..size - 1
      PROVE  map(m, o).idx = map2file(m, o) /\ map(m, o).idx \in 0..m.n - 1
  <2>1. m.n \in Nat \ {0} /\ m.block \in Nat \ {0} /\ m.start \in Nat
        /\ m.option \in {"RAID0", "RAID5"}
    BY DEF Striped
  <2>2. map(m, o).idx = map2file(m, o)
    BY DEF map
  <2> DEFINE b == o \div m.block
  <2>3. \A a \in Nat : a \div m.n \in Nat /\ a % m.n \in 0..m.n - 1
    BY <2>1, Division
  <2>4. b \in Nat
    BY <2>1, Division
  <2> HIDE DEF b
  <2>5. b + m.start \in Nat /\ (b % m.n) + Shift(m, b) + m.start \in Nat
    <3>1. b % m.n \in Nat /\ Shift(m, b) \in Nat
      BY <2>1, <2>3, <2>4 DEF Shift
    <3> QED
      BY <2>1, <2>4, <3>1
  <2>6. CASE m.option = "RAID0"
    <3>1. map2file(m, o) = (b + m.start) % m.n
      BY <2>6 DEF map2file, b
    <3> QED
      BY <2>2, <2>3, <2>5, <3>1
  <2>7. CASE m.option = "RAID5"
    <3>1. map2file(m, o) = ((b % m.n) + Shift(m, b) + m.start) % m.n
      BY <2>7 DEF map2file, b
    <3> QED
      BY <2>2, <2>3, <2>5, <3>1
  <2> QED
    BY <2>1, <2>2, <2>6, <2>7
<1> QED
  BY <1>1, <1>2 DEF Injective
=============================================================================
