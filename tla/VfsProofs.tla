----------------------------- MODULE VfsProofs -----------------------------
(***************************************************************************)
(* Proofs about the virtual file system and the ramdisk, src/src/fs/vfs.c  *)
(* and src/src/fs/ramdisk.c, with the FILEs of src/src/libc/stdio.c, for   *)
(* every size of the tables and of a page and every set of paths: first    *)
(* the ramdisk by itself, then the descriptors on top of it, then that     *)
(* both together implement the store of named files of module FileStore.   *)
(***************************************************************************)
EXTENDS Vfs, FiniteSetTheorems, SequenceTheorems, WellFoundedInduction, TLAPS

(***************************************************************************)
(* Least elements: the scans of the tables stop at the first that fits.    *)
(***************************************************************************)
LEMMA MinimalIsLeast ==
  ASSUME NEW R, IsWellFoundedOn(R, Nat), \A x, y \in Nat : y < x => <<y, x>> \in R,
         NEW S, S \subseteq Nat, S # {}
  PROVE  \E x \in S : \A y \in S : x <= y
<1>1. PICK x \in S : \A y \in S : ~(<<y, x>> \in R)
  BY WFMin
<1>2. ASSUME NEW y \in S PROVE ~(y < x)
  <2>1. x \in Nat /\ y \in Nat
    OBVIOUS
  <2>2. y < x => <<y, x>> \in R
    BY <2>1, Zenon
  <2> QED BY <2>2, <1>1, Zenon
<1>3. \A y \in S : x <= y
  BY <1>2
<1> QED BY <1>3

LEMMA FirstFound ==
  ASSUME NEW S, S \subseteq Nat, S # {}
  PROVE  Min(S) \in S /\ \A y \in S : Min(S) <= y
<1>1. IsWellFoundedOn(OpToRel(<, Nat), Nat)
  BY NatLessThanWellFounded
<1>2. \A x, y \in Nat : y < x => <<y, x>> \in OpToRel(<, Nat)
  BY DEF OpToRel
<1>3. \E x \in S : \A y \in S : x <= y
  BY <1>1, <1>2, MinimalIsLeast, Zenon
<1> QED BY <1>3 DEF Min

LEMMA MinOfTwo ==
  ASSUME NEW a \in Int, NEW b \in Int
  PROVE  Min({a, b}) = IF a <= b THEN a ELSE b
<1>1. \E x \in {a, b} : \A y \in {a, b} : x <= y
  OBVIOUS
<1>2. Min({a, b}) \in {a, b} /\ \A y \in {a, b} : Min({a, b}) <= y
  BY <1>1 DEF Min
<1> QED BY <1>2

LEMMA MaxOfTwo ==
  ASSUME NEW a \in Int, NEW b \in Int
  PROVE  Max({a, b}) = IF a >= b THEN a ELSE b
<1>1. \E x \in {a, b} : \A y \in {a, b} : x >= y
  OBVIOUS
<1>2. Max({a, b}) \in {a, b} /\ \A y \in {a, b} : Max({a, b}) >= y
  BY <1>1 DEF Max
<1> QED BY <1>2

\* The capacity a file grows to has room for what is written.
LEMMA CapacityEnough ==
  ASSUME NEW end \in Nat
  PROVE  NewCap(end) \in Nat /\ NewCap(end) >= end
<1>1. \A n, p \in Nat : p > 0 => ((n + p - 1) \div p) * p >= n /\ (n + p - 1) \div p \in Nat
  OBVIOUS
<1>2. \A q, p \in Nat : q * p \in Nat
  OBVIOUS
<1>3. RdPage \in Nat /\ RdPage > 0
  BY VfsAssumption
<1> QED BY <1>1, <1>2, <1>3 DEF NewCap

-----------------------------------------------------------------------------
(***************************************************************************)
(* Mounted file systems                                                    *)
(***************************************************************************)
Name   == Seq(STRING)
MountT == [path : Name, fs : {"ramdisk", "proc"}]

\* Of the mounts that a path begins with there is a longest one.
LEMMA BestExists ==
  ASSUME mounts \in Seq(MountT), NEW path \in Name,
         NEW at, at = {i \in DOMAIN mounts : IsPrefix(mounts[i].path, path)}, at # {}
  PROVE  Best(at) \in at
<1> DEFINE over(i) == Len(path) - Len(mounts[i].path)
           S == {over(i) : i \in at}
           T == {i \in at : over(i) = Min(S)}
<1>1. at \subseteq Nat /\ \A i \in at : mounts[i] \in MountT
  OBVIOUS
<1>2. \A i \in at : Len(mounts[i].path) \in Nat /\ over(i) \in Nat
  BY <1>1 DEF MountT, Name, IsPrefix
<1>3. S \subseteq Nat /\ S # {}
  BY <1>2
<1>4. Min(S) \in S /\ \A y \in S : Min(S) <= y
  BY <1>3, FirstFound, Zenon
<1>5. T \subseteq Nat /\ T # {}
  BY <1>1, <1>4
<1>6. Min(T) \in T /\ \A y \in T : Min(T) <= y
  BY <1>5, FirstFound, Zenon
<1>7. PICK i \in at : over(i) = Min(S) /\ \A j \in at : over(j) = Min(S) => i <= j
  BY <1>6
<1>8. \A j \in at : over(i) <= over(j)
  BY <1>4, <1>7
<1>9. ASSUME NEW j \in at
      PROVE  \/ Len(mounts[j].path) < Len(mounts[i].path)
             \/ Len(mounts[j].path) = Len(mounts[i].path) /\ i <= j
  <2>1. over(i) <= over(j) /\ (over(j) = over(i) => i <= j)
    BY <1>7, <1>8, <1>9, Zenon
  <2>2. Len(path) \in Nat /\ Len(mounts[i].path) \in Nat /\ Len(mounts[j].path) \in Nat
    BY <1>2, <1>7, <1>9 DEF Name
  <2> QED BY <2>1, <2>2
<1> QED BY <1>7, <1>9, Zenon DEF Best

\* What a path resolves to.
LEMMA Resolved ==
  ASSUME mounts \in Seq(MountT), NEW path \in Name, MountOf(path).fs # "none"
  PROVE  resolve_mount(path).sub \in Name
<1> DEFINE at == {i \in DOMAIN mounts : IsPrefix(mounts[i].path, path)}
           m == MountOf(path)
           sub == SubSeq(path, Len(m.path) + 1, Len(path))
<1>1. at # {} /\ m = mounts[Best(at)]
  BY DEF MountOf, NoMount
<1>2. Best(at) \in at
  BY <1>1, BestExists, Zenon
<1>3. m \in MountT
  BY <1>1, <1>2
<1>4. Len(m.path) \in Nat /\ Len(path) \in Nat
  BY <1>3 DEF MountT, Name
<1>5. \A i \in (Len(m.path) + 1)..Len(path) : path[i] \in STRING
  BY <1>4 DEF Name
<1> HIDE DEF m
<1>6. sub \in Name
  BY <1>4, <1>5, SubSeqProperties DEF Name
<1> HIDE DEF sub
<1>7. Len(sub) > 1 => Tail(sub) \in Name
  BY <1>6 DEF Name
<1>8. resolve_mount(path).sub = IF Len(sub) > 1 /\ Head(sub) = "/" THEN Tail(sub) ELSE sub
  BY DEF resolve_mount, m, sub
<1> QED BY <1>6, <1>7, <1>8

-----------------------------------------------------------------------------
(***************************************************************************)
(* The ramdisk by itself                                                   *)
(***************************************************************************)
RdFds   == 0..(RD_FDS - 1)
Content == Byte \cup {Uninit}
EntryT  == [name : Name, is_dir : BOOLEAN, in_use : BOOLEAN, size : Nat, capacity : Nat, data : Nat]
HeapT   == UNION {[D -> Seq(Content)] : D \in SUBSET (Nat \ {0})}
RdType  == [files : Seq(EntryT), open : [RdFds -> Nat], pos : [RdFds -> Nat], heap : HeapT]

Live(r) == {i \in DOMAIN r.files : r.files[i].in_use}

NamesUnique(r) == \A i, j \in Live(r) : r.files[i].name = r.files[j].name => i = j

\* Entries with bytes have a block each, of the size of their capacity.
BlockOf(r) ==
  \A i \in Live(r) :
    /\ r.files[i].size <= r.files[i].capacity
    /\ r.files[i].data = 0 => r.files[i].capacity = 0
    /\ r.files[i].data # 0 =>
         r.files[i].data \in DOMAIN r.heap /\ Len(r.heap[r.files[i].data]) = r.files[i].capacity

OwnBlocks(r) ==
  \A i, j \in Live(r) : r.files[i].data # 0 /\ r.files[i].data = r.files[j].data => i = j

NoLeak(r) == \A b \in DOMAIN r.heap : \E i \in Live(r) : r.files[i].data = b

Room(r) == Len(r.files) <= RAMDISK_MAX_FILES /\ \A fd \in RdFds : r.open[fd] \in 0..Len(r.files)

RdInv(r) == r \in RdType /\ Room(r) /\ NamesUnique(r) /\ BlockOf(r) /\ OwnBlocks(r) /\ NoLeak(r)

\* The names that exist, where they are found, and the descriptors are as before.
SameNames(r, s) ==
  /\ s.open = r.open /\ Len(s.files) = Len(r.files)
  /\ \A i \in DOMAIN r.files : /\ s.files[i].name = r.files[i].name
                               /\ s.files[i].in_use = r.files[i].in_use
                               /\ s.files[i].is_dir = r.files[i].is_dir

LEMMA DoneFacts ==
  ASSUME NEW x, NEW y, NEW z
  PROVE  Done(x, y, z).rd = x /\ Done(x, y, z).ret = y /\ Done(x, y, z).bytes = z
BY DEF Done

LEMMA FilesDomain ==
  ASSUME NEW r \in RdType
  PROVE  /\ DOMAIN r.files = 1..Len(r.files) /\ Len(r.files) \in Nat
         /\ \A i \in DOMAIN r.files : r.files[i] \in EntryT
BY DEF RdType

\* rd_find gives the one entry of the name, or 0.
LEMMA FindFacts ==
  ASSUME NEW r, r \in RdType, NamesUnique(r), NEW n
  PROVE  /\ rd_find(r, n) \in 0..Len(r.files)
         /\ rd_find(r, n) # 0 => rd_find(r, n) \in Hits(r, n)
         /\ \A i \in Hits(r, n) : rd_find(r, n) = i
<1>1. DOMAIN r.files = 1..Len(r.files) /\ Len(r.files) \in Nat
  BY FilesDomain
<1>2. Hits(r, n) \subseteq Nat /\ Hits(r, n) \subseteq 1..Len(r.files)
  BY <1>1 DEF Hits
<1>3. CASE Hits(r, n) = {}
  BY <1>1, <1>3 DEF rd_find
<1>4. CASE Hits(r, n) # {}
  <2>1. rd_find(r, n) \in Hits(r, n)
    BY <1>2, <1>4, FirstFound DEF rd_find
  <2>2. \A i, j \in Hits(r, n) : i = j
    BY DEF NamesUnique, Live, Hits
  <2> QED BY <2>1, <2>2, <1>2
<1> QED BY <1>3, <1>4

LEMMA SameNamesFind ==
  ASSUME NEW r \in RdType, NEW s \in RdType, SameNames(r, s), NEW n
  PROVE  rd_find(s, n) = rd_find(r, n)
<1>1. DOMAIN s.files = DOMAIN r.files
  BY FilesDomain DEF SameNames
<1>2. Hits(s, n) = Hits(r, n)
  BY <1>1 DEF Hits, SameNames
<1> QED BY <1>2 DEF rd_find

\* Moving a position.
LEMMA MovedInv ==
  ASSUME NEW r, RdInv(r), NEW fd \in RdFds, NEW p \in Nat
  PROVE  /\ RdInv([r EXCEPT !.pos[fd] = p]) /\ SameNames(r, [r EXCEPT !.pos[fd] = p])
<1> DEFINE s == [r EXCEPT !.pos[fd] = p]
<1>1. s \in RdType /\ s.files = r.files /\ s.open = r.open /\ s.heap = r.heap
  BY DEF RdInv, RdType
<1> HIDE DEF s
<1>2. RdInv(s)
  BY <1>1 DEF RdInv, Room, NamesUnique, BlockOf, OwnBlocks, NoLeak, Live
<1>3. SameNames(r, s)
  BY <1>1 DEF SameNames
<1> QED BY <1>2, <1>3 DEF s

LEMMA ReadInv ==
  ASSUME NEW r, RdInv(r), NEW fd \in RdFds, NEW size \in Nat
  PROVE  RdInv(ramdisk_read(r, fd, size).rd) /\ SameNames(r, ramdisk_read(r, fd, size).rd)
<1> DEFINE e == r.files[r.open[fd]]
           pos == r.pos[fd]
           n == Min({size, e.size - pos})
<1>0. RdInv(r) /\ SameNames(r, r)
  BY DEF SameNames
<1>1. CASE r.open[fd] = 0
  BY <1>0, <1>1 DEF ramdisk_read, Fail, Done
<1>2. CASE r.open[fd] # 0 /\ pos >= e.size
  BY <1>0, <1>2 DEF ramdisk_read, Fail, Done
<1>3. CASE r.open[fd] # 0 /\ ~(pos >= e.size)
  <2>1. e \in EntryT /\ pos \in Nat
    BY <1>3, FilesDomain DEF RdInv, Room, RdType
  <2>2. e.size \in Nat /\ e.size - pos \in Nat
    BY <2>1, <1>3 DEF EntryT
  <2>3. n \in Nat
    BY <2>2, MinOfTwo
  <2>4. ramdisk_read(r, fd, size).rd = [r EXCEPT !.pos[fd] = pos + n]
    BY <1>3 DEF ramdisk_read, Done
  <2>5. pos + n \in Nat
    BY <2>1, <2>3
  <2> QED BY <2>4, <2>5, MovedInv
<1> QED BY <1>1, <1>2, <1>3

LEMMA SeekInv ==
  ASSUME NEW r, RdInv(r), NEW fd \in RdFds, NEW offset \in Int, NEW whence \in {"SET", "CUR", "END"}
  PROVE  RdInv(ramdisk_seek(r, fd, offset, whence).rd) /\ SameNames(r, ramdisk_seek(r, fd, offset, whence).rd)
<1> DEFINE size == r.files[r.open[fd]].size
           o == Origin(r, fd, whence)
           p == Clamp(o + offset, size)
<1>0. RdInv(r) /\ SameNames(r, r)
  BY DEF SameNames
<1>1. CASE r.open[fd] = 0
  BY <1>0, <1>1 DEF ramdisk_seek, Fail, Done
<1>2. CASE r.open[fd] # 0
  <2>1. r.files[r.open[fd]] \in EntryT /\ r.pos[fd] \in Nat
    BY <1>2, FilesDomain DEF RdInv, Room, RdType
  <2>2. size \in Nat /\ o \in Int
    BY <2>1 DEF EntryT, Origin
  <2> HIDE DEF size, o
  <2>3. Max({0, o + offset}) \in Nat
    BY <2>2, MaxOfTwo
  <2>4. p \in Nat
    BY <2>2, <2>3, MinOfTwo DEF Clamp
  <2>5. ramdisk_seek(r, fd, offset, whence).rd = [r EXCEPT !.pos[fd] = p]
    BY <1>2 DEF ramdisk_seek, Done, o, size
  <2> QED BY <2>4, <2>5, MovedInv
<1> QED BY <1>1, <1>2

\* Replacing an entry, the heap and the positions.
Replaced(r, i, e, h, pos) == [r EXCEPT !.files = [r.files EXCEPT ![i] = e], !.heap = h, !.pos = pos]

LEMMA EntryReplaced ==
  ASSUME NEW r \in RdType, NEW i \in DOMAIN r.files, NEW e \in EntryT, NEW h \in HeapT, NEW pos \in [RdFds -> Nat],
         NEW s, s = Replaced(r, i, e, h, pos)
  PROVE  /\ s \in RdType /\ s.open = r.open /\ s.heap = h /\ s.pos = pos
         /\ Len(s.files) = Len(r.files) /\ DOMAIN s.files = DOMAIN r.files
         /\ \A j \in DOMAIN r.files : s.files[j] = IF j = i THEN e ELSE r.files[j]
<1> DEFINE f == [r.files EXCEPT ![i] = e]
<1>1. f \in Seq(EntryT) /\ Len(f) = Len(r.files) /\ DOMAIN f = DOMAIN r.files
      /\ \A j \in DOMAIN r.files : f[j] = IF j = i THEN e ELSE r.files[j]
  BY DEF RdType
<1> HIDE DEF f
<1>2. s = [r EXCEPT !.files = f, !.heap = h, !.pos = pos]
  BY DEF f, Replaced
<1>3. s \in RdType /\ s.open = r.open /\ s.heap = h /\ s.pos = pos /\ s.files = f
  BY <1>1, <1>2 DEF RdType
<1> QED BY <1>1, <1>3

LEMMA TruncateInv ==
  ASSUME NEW r, RdInv(r), NEW fd \in RdFds, NEW size \in Nat, size <= r.files[r.open[fd]].capacity
  PROVE  RdInv(ramdisk_truncate(r, fd, size).rd) /\ SameNames(r, ramdisk_truncate(r, fd, size).rd)
<1>0. RdInv(r) /\ SameNames(r, r)
  BY DEF SameNames
<1>1. CASE r.open[fd] = 0
  BY <1>0, <1>1 DEF ramdisk_truncate, Fail, Done
<1>2. CASE r.open[fd] # 0
  <2> DEFINE i == r.open[fd]
             e == [r.files[i] EXCEPT !.size = size]
             s == Replaced(r, i, e, r.heap, r.pos)
  <2>1. r \in RdType /\ i \in DOMAIN r.files /\ r.files[i] \in EntryT /\ r.heap \in HeapT /\ r.pos \in [RdFds -> Nat]
    BY <1>2, FilesDomain DEF RdInv, Room, RdType
  <2>2. e \in EntryT /\ e.size = size /\ e.name = r.files[i].name /\ e.in_use = r.files[i].in_use
        /\ e.is_dir = r.files[i].is_dir /\ e.data = r.files[i].data /\ e.capacity = r.files[i].capacity
    BY <2>1 DEF EntryT
  <2>3. ramdisk_truncate(r, fd, size).rd = s
    BY <1>2, <2>1 DEF ramdisk_truncate, Done, RdType, Replaced
  <2>a. s = Replaced(r, i, e, r.heap, r.pos)
    OBVIOUS
  <2> HIDE DEF e, s, i
  <2>4. /\ s \in RdType /\ s.open = r.open /\ s.heap = r.heap /\ s.pos = r.pos
        /\ Len(s.files) = Len(r.files) /\ DOMAIN s.files = DOMAIN r.files
        /\ \A j \in DOMAIN r.files : s.files[j] = IF j = i THEN e ELSE r.files[j]
    BY <2>1, <2>2, <2>a, EntryReplaced
  <2>5. /\ Live(s) = Live(r)
        /\ \A j \in DOMAIN r.files : /\ s.files[j].name = r.files[j].name
                                     /\ s.files[j].in_use = r.files[j].in_use
                                     /\ s.files[j].is_dir = r.files[j].is_dir
                                     /\ s.files[j].data = r.files[j].data
                                     /\ s.files[j].capacity = r.files[j].capacity
                                     /\ s.files[j].size = IF j = i THEN size ELSE r.files[j].size
    BY <2>2, <2>4 DEF Live
  <2>6. SameNames(r, s)
    BY <2>4, <2>5 DEF SameNames
  <2>7. Room(s) /\ NamesUnique(s)
    BY <2>4, <2>5 DEF RdInv, Room, NamesUnique, Live
  <2>8. BlockOf(s)
    BY <2>4, <2>5 DEF RdInv, BlockOf, Live, i
  <2>9. OwnBlocks(s) /\ NoLeak(s)
    BY <2>4, <2>5 DEF RdInv, OwnBlocks, NoLeak, Live
  <2> QED BY <2>3, <2>4, <2>6, <2>7, <2>8, <2>9 DEF RdInv
<1> QED BY <1>1, <1>2

\* A new entry at the end, for a name that is not there.
LEMMA CreateInv ==
  ASSUME NEW r, RdInv(r), NEW n \in Name, NEW is_dir \in BOOLEAN, ~Full(r), rd_find(r, n) = 0
  PROVE  LET s == rd_create(r, n, is_dir)
         IN /\ RdInv(s) /\ s.open = r.open /\ s.pos = r.pos /\ s.heap = r.heap
            /\ Len(s.files) = Len(r.files) + 1
            /\ \A i \in DOMAIN r.files : s.files[i] = r.files[i]
            /\ s.files[Len(r.files) + 1] = NewEntry(n, is_dir)
            /\ rd_find(s, n) = Len(r.files) + 1
            /\ \A m : rd_find(r, m) # 0 => rd_find(s, m) = rd_find(r, m)
            /\ Live(s) = Live(r) \cup {Len(r.files) + 1}
<1> DEFINE s == rd_create(r, n, is_dir)
           e == NewEntry(n, is_dir)
           k == Len(r.files) + 1
<1>1. e \in EntryT /\ e.name = n /\ e.in_use /\ e.size = 0 /\ e.capacity = 0 /\ e.data = 0
  BY DEF EntryT, NewEntry
<1>2. r \in RdType /\ DOMAIN r.files = 1..Len(r.files) /\ Len(r.files) \in Nat
      /\ (\A i \in DOMAIN r.files : r.files[i] \in EntryT)
  BY FilesDomain DEF RdInv
<1> HIDE DEF e
<1>3. /\ Append(r.files, e) \in Seq(EntryT) /\ Len(Append(r.files, e)) = k
      /\ DOMAIN Append(r.files, e) = DOMAIN r.files \cup {k}
      /\ Append(r.files, e)[k] = e /\ \A i \in DOMAIN r.files : Append(r.files, e)[i] = r.files[i]
  BY <1>1, <1>2 DEF RdType
<1>4. s = [r EXCEPT !.files = Append(r.files, e)]
  BY DEF rd_create, e
<1> HIDE DEF s
<1>5. s \in RdType /\ s.open = r.open /\ s.pos = r.pos /\ s.heap = r.heap /\ s.files = Append(r.files, e)
  BY <1>2, <1>3, <1>4 DEF RdType
<1>6. /\ Len(s.files) = k /\ DOMAIN s.files = DOMAIN r.files \cup {k} /\ s.files[k] = e
      /\ \A i \in DOMAIN r.files : s.files[i] = r.files[i]
  BY <1>3, <1>5
<1> HIDE DEF k
<1>7. k \notin DOMAIN r.files /\ k \in Nat /\ k <= RAMDISK_MAX_FILES
  BY <1>2, VfsAssumption DEF k, Full
<1>8. Live(s) = Live(r) \cup {k}
  BY <1>1, <1>6 DEF Live
<1>9. Hits(r, n) = {}
  BY FindFacts, <1>2 DEF RdInv, Hits
<1>10. Room(s)
  BY <1>2, <1>5, <1>6, <1>7 DEF RdInv, Room, k
<1>11. NamesUnique(s)
  BY <1>1, <1>6, <1>7, <1>8, <1>9 DEF RdInv, NamesUnique, Live, Hits
<1>12. BlockOf(s)
  BY <1>1, <1>5, <1>6, <1>7, <1>8 DEF RdInv, BlockOf, Live
<1>13. OwnBlocks(s) /\ NoLeak(s)
  BY <1>1, <1>5, <1>6, <1>7, <1>8 DEF RdInv, OwnBlocks, NoLeak, Live
<1>14. RdInv(s)
  BY <1>5, <1>10, <1>11, <1>12, <1>13 DEF RdInv
<1>15. k \in Hits(s, n) /\ \A m : Hits(r, m) \subseteq Hits(s, m)
  BY <1>1, <1>6 DEF Hits
<1>16. rd_find(s, n) = k
  BY <1>14, <1>15, FindFacts DEF RdInv
<1>17. ASSUME NEW m, rd_find(r, m) # 0 PROVE rd_find(s, m) = rd_find(r, m)
  <2>1. rd_find(r, m) \in Hits(s, m)
    BY <1>15, <1>17, <1>2, FindFacts DEF RdInv
  <2> QED BY <2>1, <1>14, FindFacts DEF RdInv
<1> QED BY <1>5, <1>6, <1>8, <1>14, <1>16, <1>17 DEF k, s, e

\* The names that paths stand for.
LEMMA SkippedName ==
  ASSUME NEW path \in Name
  PROVE  Skipped(path) \in Name /\ OpenName(path) \in Name
<1> DEFINE S == {k \in 1..(Len(path) + 1) : k \in DOMAIN path => path[k] # "/"}
<1>1. S \subseteq Nat /\ Len(path) \in Nat /\ Len(path) + 1 \in S
  BY DEF Name
<1>2. Min(S) \in S
  BY <1>1, FirstFound
<1>3. Min(S) \in 1..(Len(path) + 1)
  BY <1>2
<1> HIDE DEF S
<1>4. \A k \in 1..(Len(path) + 1) : SubSeq(path, k, Len(path)) \in Name
  BY <1>1 DEF Name
<1>5. Skipped(path) \in Name
  BY <1>3, <1>4 DEF Skipped, S
<1>6. <<".">> \in Name
  BY VfsAssumption DEF Name
<1> QED BY <1>5, <1>6 DEF OpenName

\* What an open may do: make the file, and take a descriptor.
RdOpened(r, n, o) ==
  /\ RdInv(o.rd) /\ o.rd.heap = r.heap
  /\ \A m : rd_find(r, m) # 0 => rd_find(o.rd, m) = rd_find(r, m)
  /\ \/ o.rd.files = r.files
     \/ rd_find(r, n) = 0 /\ ~Full(r) /\ o.rd.files = rd_create(r, n, FALSE).files
  /\ o.ret = -1 => o.rd.open = r.open /\ o.rd.pos = r.pos
  /\ o.ret # -1 => /\ o.ret \in RdFds /\ r.open[o.ret] = 0
                   /\ o.rd.open = [r.open EXCEPT ![o.ret] = rd_find(o.rd, n)]
                   /\ o.rd.pos = [r.pos EXCEPT ![o.ret] = 0]
                   /\ rd_find(o.rd, n) # 0

\* An open file has a descriptor that nobody had, on the entry of its name.
LEMMA OpenInv ==
  ASSUME NEW r, RdInv(r), NEW path \in Name, NEW n, n = OpenName(path),
         NEW o \in {ramdisk_open(r, path, TRUE), ramdisk_open(r, path, FALSE)}
  PROVE  RdOpened(r, n, o)
<1> USE DEF RdOpened
<1>0. n \in Name
  BY SkippedName
<1> DEFINE creates == o = ramdisk_open(r, path, TRUE)
           found == rd_find(r, n)
           made  == found = 0 /\ creates /\ ~Full(r)
           now   == IF made THEN rd_create(r, n, FALSE) ELSE r
           idx   == IF made THEN Len(now.files) ELSE found
           fd    == Min(FreeFds(now))
<1>1. /\ RdInv(now) /\ now.open = r.open /\ now.pos = r.pos /\ now.heap = r.heap
      /\ \A m : rd_find(r, m) # 0 => rd_find(now, m) = rd_find(r, m)
      /\ rd_find(now, n) = idx
      /\ \/ now.files = r.files
         \/ rd_find(r, n) = 0 /\ ~Full(r) /\ now.files = rd_create(r, n, FALSE).files
  <2>1. CASE made
    <3> DEFINE s == rd_create(r, n, FALSE)
    <3>1. /\ RdInv(s) /\ s.open = r.open /\ s.pos = r.pos /\ s.heap = r.heap
          /\ Len(s.files) = Len(r.files) + 1
          /\ rd_find(s, n) = Len(r.files) + 1
          /\ \A m : rd_find(r, m) # 0 => rd_find(s, m) = rd_find(r, m)
      BY <1>0, <2>1, CreateInv
    <3>2. now = s /\ idx = Len(s.files)
      BY <2>1
    <3> HIDE DEF s, now, idx
    <3>3. s.files = rd_create(r, n, FALSE).files
      BY DEF s
    <3> QED BY <2>1, <3>1, <3>2, <3>3
  <2>2. CASE ~made
    <3>1. now = r /\ idx = rd_find(r, n)
      BY <2>2
    <3> HIDE DEF now, idx
    <3> QED BY <3>1
  <2> QED BY <2>1, <2>2
<1>2. o = IF idx = 0 \/ FreeFds(now) = {} THEN Fail(now)
          ELSE Done([now EXCEPT !.open[fd] = idx, !.pos[fd] = 0], fd, <<>>)
  <2>1. CASE creates
    BY <2>1 DEF ramdisk_open
  <2>2. CASE ~creates
    <3>1. o = ramdisk_open(r, path, FALSE)
      BY <2>2
    <3>2. made = FALSE
      BY <2>2
    <3> HIDE DEF creates
    <3> QED BY <2>2, <3>1 DEF ramdisk_open
  <2> QED BY <2>1, <2>2
<1> HIDE DEF now, idx, made, creates
<1>3. CASE idx = 0 \/ FreeFds(now) = {}
  <2>1. o.rd = now /\ o.ret = -1
    BY <1>2, <1>3 DEF Fail, Done
  <2> HIDE DEF found, fd
  <2> QED BY <1>1, <2>1
<1>4. CASE ~(idx = 0 \/ FreeFds(now) = {})
  <2> DEFINE s == [now EXCEPT !.open[fd] = idx, !.pos[fd] = 0]
  <2>1. o.rd = s /\ o.ret = fd
    BY <1>2, <1>4 DEF Done
  <2>2. fd \in FreeFds(now)
    <3>1. FreeFds(now) \subseteq Nat
      BY VfsAssumption DEF FreeFds
    <3> QED BY <3>1, <1>4, FirstFound
  <2>3. fd \in RdFds /\ r.open[fd] = 0 /\ fd # -1
    BY <2>2, <1>1, VfsAssumption DEF FreeFds, RdFds
  <2> HIDE DEF fd
  <2>4. now \in RdType /\ idx \in 0..Len(now.files) /\ Len(now.files) \in Nat
    BY <1>1, FindFacts, FilesDomain DEF RdInv
  <2>5. /\ s \in RdType /\ s.files = now.files /\ s.heap = now.heap
        /\ s.open = [r.open EXCEPT ![fd] = idx] /\ s.pos = [r.pos EXCEPT ![fd] = 0]
    <3> DEFINE op == [r.open EXCEPT ![fd] = idx]
               po == [r.pos EXCEPT ![fd] = 0]
    <3>1. op \in [RdFds -> Nat] /\ po \in [RdFds -> Nat]
      BY <2>3, <2>4, <1>1 DEF RdType
    <3>2. s = [now EXCEPT !.open = op, !.pos = po]
      BY <2>4, <1>1 DEF RdType
    <3> HIDE DEF op, po, s
    <3>3. s \in RdType /\ s.files = now.files /\ s.heap = now.heap /\ s.open = op /\ s.pos = po
      BY <3>1, <3>2, <2>4 DEF RdType
    <3> QED BY <3>3 DEF op, po
  <2> HIDE DEF s
  <2>6. Room(s)
    BY <2>3, <2>4, <2>5, <1>1 DEF RdInv, Room, RdType
  <2>7. RdInv(s)
    BY <2>5, <2>6, <1>1 DEF RdInv, NamesUnique, BlockOf, OwnBlocks, NoLeak, Live
  <2>8. \A m : rd_find(s, m) = rd_find(now, m)
    BY <2>5 DEF rd_find, Hits
  <2>9. rd_find(s, n) = idx /\ \A m : rd_find(r, m) # 0 => rd_find(s, m) = rd_find(r, m)
    BY <2>8, <1>1
  <2> HIDE DEF found
  <2> QED BY <2>1, <2>3, <2>5, <2>7, <2>9, <1>1, <1>4
<1> QED BY <1>3, <1>4

\* Entry i is gone, and its block, if it had one.
LEMMA GoneInv ==
  ASSUME NEW r, RdInv(r), NEW i \in Live(r), NEW h \in HeapT,
         \A b : b \in DOMAIN h <=> b \in DOMAIN r.heap /\ b # r.files[i].data,
         \A b \in DOMAIN h : h[b] = r.heap[b]
  PROVE  LET s == Gone(r, i, h).rd
         IN /\ RdInv(s) /\ s.open = r.open /\ s.pos = r.pos /\ s.heap = h
            /\ DOMAIN s.files = DOMAIN r.files /\ Live(s) = Live(r) \ {i}
            /\ \A j \in Live(s) : s.files[j] = r.files[j]
            /\ \A m : m # r.files[i].name => rd_find(s, m) = rd_find(r, m)
            /\ rd_find(s, r.files[i].name) = 0
<1> DEFINE s == Gone(r, i, h).rd
           e == [r.files[i] EXCEPT !.in_use = FALSE]
<1>1. r \in RdType /\ i \in DOMAIN r.files /\ r.files[i] \in EntryT /\ r.pos \in [RdFds -> Nat]
      /\ r.files[i].in_use
  BY FilesDomain DEF RdInv, Live, RdType
<1>2. e \in EntryT /\ ~e.in_use /\ e.name = r.files[i].name
  BY <1>1 DEF EntryT
<1>3. s = Replaced(r, i, e, h, r.pos)
  BY <1>1 DEF Gone, Done, RdType, Replaced
<1> HIDE DEF s, e
<1>4. /\ s \in RdType /\ s.open = r.open /\ s.heap = h /\ s.pos = r.pos
      /\ Len(s.files) = Len(r.files) /\ DOMAIN s.files = DOMAIN r.files
      /\ \A j \in DOMAIN r.files : s.files[j] = IF j = i THEN e ELSE r.files[j]
  BY <1>1, <1>2, <1>3, EntryReplaced
<1>5. Live(s) = Live(r) \ {i} /\ (\A j \in Live(s) : s.files[j] = r.files[j])
  BY <1>1, <1>2, <1>4 DEF Live
<1>6. Room(s) /\ NamesUnique(s)
  BY <1>4, <1>5 DEF RdInv, Room, NamesUnique
<1>7. \A j \in Live(s) : r.files[j].data # 0 => r.files[j].data # r.files[i].data
  BY <1>5 DEF RdInv, OwnBlocks
<1>8. BlockOf(s)
  BY <1>4, <1>5, <1>7 DEF RdInv, BlockOf
<1>9. OwnBlocks(s)
  BY <1>5 DEF RdInv, OwnBlocks
<1>10. NoLeak(s)
  <2> SUFFICES ASSUME NEW b \in DOMAIN h PROVE \E j \in Live(s) : s.files[j].data = b
    BY <1>4 DEF NoLeak
  <2>1. PICK j \in Live(r) : r.files[j].data = b
    BY DEF RdInv, NoLeak
  <2>2. j # i
    BY <2>1
  <2> QED BY <2>1, <2>2, <1>5
<1>11. RdInv(s)
  BY <1>4, <1>6, <1>8, <1>9, <1>10 DEF RdInv
<1>12. ASSUME NEW m, m # r.files[i].name PROVE rd_find(s, m) = rd_find(r, m)
  <2>1. Hits(s, m) = Hits(r, m)
    BY <1>1, <1>2, <1>4, <1>12 DEF Hits
  <2> QED BY <2>1 DEF rd_find
<1>13. Hits(s, r.files[i].name) = {}
  <2> SUFFICES ASSUME NEW j \in Hits(s, r.files[i].name) PROVE FALSE
    OBVIOUS
  <2>1. j \in Live(s) /\ s.files[j].name = r.files[i].name
    BY DEF Hits, Live
  <2>2. j = i
    BY <2>1, <1>5 DEF RdInv, NamesUnique
  <2> QED BY <2>1, <2>2, <1>5
<1>14. rd_find(s, r.files[i].name) = 0
  BY <1>13 DEF rd_find
<1> QED BY <1>4, <1>5, <1>11, <1>12, <1>14 DEF s

LEMMA ReplaceFacts ==
  ASSUME NEW h \in HeapT, NEW old, NEW new \in Nat, NEW mem \in Seq(Content)
  PROVE  /\ Replace(h, old, new, mem) \in HeapT
         /\ \A b : b \in DOMAIN Replace(h, old, new, mem) <=>
                   (b \in DOMAIN h /\ b # old) \/ (b = new /\ new # 0)
         /\ new # 0 => Replace(h, old, new, mem)[new] = mem
         /\ \A b \in DOMAIN h : b # old /\ b # new => Replace(h, old, new, mem)[b] = h[b]
<1> DEFINE D == (DOMAIN h \ {old}) \cup ({new} \ {0})
           g == [b \in D |-> IF b = new THEN mem ELSE h[b]]
<1>1. DOMAIN h \subseteq Nat \ {0} /\ \A b \in DOMAIN h : h[b] \in Seq(Content)
  BY DEF HeapT
<1>2. D \in SUBSET (Nat \ {0}) /\ g \in [D -> Seq(Content)]
  BY <1>1
<1>3. g \in HeapT
  BY <1>2 DEF HeapT
<1>4. Replace(h, old, new, mem) = g
  BY DEF Replace
<1> QED BY <1>1, <1>3, <1>4

\* The bytes of a live entry are as many as its capacity.
LEMMA MemoryFacts ==
  ASSUME NEW r, RdInv(r), NEW i \in Live(r)
  PROVE  Memory(r, r.files[i]) \in Seq(Content) /\ Len(Memory(r, r.files[i])) = r.files[i].capacity
<1>1. CASE r.files[i].data = 0
  BY <1>1 DEF Memory, RdInv, BlockOf
<1>2. CASE r.files[i].data # 0
  <2>1. r.files[i].data \in DOMAIN r.heap /\ Len(r.heap[r.files[i].data]) = r.files[i].capacity
    BY <1>2 DEF RdInv, BlockOf
  <2>2. \A h \in HeapT : \A b \in DOMAIN h : h[b] \in Seq(Content)
    BY DEF HeapT
  <2>3. r.heap \in HeapT
    BY DEF RdInv, RdType
  <2> QED BY <1>2, <2>1, <2>2, <2>3, Zenon DEF Memory
<1> QED BY <1>1, <1>2

\* What ramdisk_write does when it does not fail.
Written(r, fd, bytes, s) ==
  LET idx == r.open[fd]
      e   == r.files[idx]
      end == r.pos[fd] + Len(bytes)
  IN  \E m \in Seq(Content), d \in Nat, z \in Nat :
        /\ s = Replaced(r, idx, [e EXCEPT !.data = d, !.capacity = Len(m), !.size = z],
                        Replace(r.heap, e.data, d, m), [r.pos EXCEPT ![fd] = end])
        /\ z = (IF end >= e.size THEN end ELSE e.size) /\ z <= Len(m)
        /\ d = e.data \/ (d # 0 /\ d \notin DOMAIN r.heap)
        /\ d = 0 => Len(m) = 0
        /\ \A k \in 1..Len(m) :
             /\ k \in (r.pos[fd] + 1)..end => m[k] = bytes[k - r.pos[fd]]
             /\ k \notin (r.pos[fd] + 1)..end /\ k <= e.size => m[k] = Memory(r, e)[k]

LEMMA WriteFacts ==
  ASSUME NEW r, RdInv(r), NEW fd \in RdFds, NEW bytes \in Seq(Byte), NEW b \in Nat, b \notin DOMAIN r.heap,
         r.open[fd] \in Live(r), NEW w, w = ramdisk_write(r, fd, bytes, b)
  PROVE  (w.rd = r /\ w.ret = -1) \/ (Written(r, fd, bytes, w.rd) /\ w.ret = Len(bytes))
<1> DEFINE idx   == r.open[fd]
           e     == r.files[idx]
           pos   == r.pos[fd]
           end   == pos + Len(bytes)
           grows == end > e.capacity
           mem   == IF ~grows THEN Memory(r, e)
                    ELSE [k \in 1..NewCap(end) |-> IF k <= Kept(e) THEN Memory(r, e)[k] ELSE Uninit]
           m     == [k \in DOMAIN mem |-> IF k \in (pos + 1)..end THEN bytes[k - pos] ELSE mem[k]]
           d     == IF grows THEN b ELSE e.data
           z     == Max({end, e.size})
           po    == [r.pos EXCEPT ![fd] = end]
<1>1. r \in RdType /\ idx \in DOMAIN r.files /\ e \in EntryT /\ idx # 0
  BY FilesDomain DEF RdInv, Live
<1>2. pos \in Nat /\ Len(bytes) \in Nat /\ end \in Nat /\ e.capacity \in Nat /\ e.size \in Nat /\ e.data \in Nat
  BY <1>1 DEF RdType, EntryT
<1>3. Memory(r, e) \in Seq(Content) /\ Len(Memory(r, e)) = e.capacity /\ e.size <= e.capacity
      /\ (e.data = 0 => e.capacity = 0)
  BY MemoryFacts DEF RdInv, BlockOf
<1>4. NewCap(end) \in Nat /\ NewCap(end) >= end
  BY <1>2, CapacityEnough
<1>5. CASE grows /\ b = 0
  <2>1. w = Done(r, -1, <<>>)
    BY <1>5 DEF ramdisk_write, Fail
  <2>2. w.rd = r /\ w.ret = -1
    BY <2>1, DoneFacts
  <2> QED BY <2>2, Zenon
<1>6. CASE ~(grows /\ b = 0)
  <2> DEFINE nx == [r EXCEPT !.heap = Replace(@, e.data, d, m),
                             !.files[idx] = [e EXCEPT !.data = d, !.capacity = Len(mem), !.size = Max({end, @})],
                             !.pos[fd] = end]
  <2>1. w = Done(nx, Len(bytes), <<>>)
    BY <1>1, <1>6 DEF ramdisk_write
  <2>2. w.ret = Len(bytes) /\ w.rd = nx
    <3> HIDE DEF nx
    <3> QED BY <2>1, DoneFacts
  <2>3. z \in Nat /\ z = (IF end >= e.size THEN end ELSE e.size)
    <3>1. end \in Int /\ e.size \in Int
      BY <1>2
    <3>2. z = (IF end >= e.size THEN end ELSE e.size)
      BY <3>1, MaxOfTwo, Zenon
    <3> QED BY <3>2, <1>2
  <2>4. /\ mem \in Seq(Content) /\ Len(mem) \in Nat /\ z <= Len(mem) /\ DOMAIN mem = 1..Len(mem)
        /\ (d = 0 => Len(mem) = 0)
        /\ \A k \in 1..Len(mem) : k <= e.size => mem[k] = Memory(r, e)[k]
    <3>1. CASE grows
      <4>1. mem = [k \in 1..NewCap(end) |-> IF k <= e.size THEN Memory(r, e)[k] ELSE Uninit]
        BY <3>1 DEF Kept
      <4>2. \A k \in 1..NewCap(end) : (IF k <= e.size THEN Memory(r, e)[k] ELSE Uninit) \in Content
        <5> SUFFICES ASSUME NEW k \in 1..NewCap(end), k <= e.size PROVE Memory(r, e)[k] \in Content
          BY DEF Content
        <5>1. k \in 1..Len(Memory(r, e))
          BY <1>2, <1>3, <1>4
        <5> QED BY <5>1, <1>3
      <4>3. mem \in Seq(Content) /\ Len(mem) = NewCap(end) /\ DOMAIN mem = 1..NewCap(end)
        BY <4>1, <4>2, <1>4
      <4>4. \A k \in 1..NewCap(end) : k <= e.size => mem[k] = Memory(r, e)[k]
        BY <4>1
      <4>5. d # 0
        BY <3>1, <1>6
      <4>6. z <= NewCap(end)
        BY <2>3, <1>2, <1>3, <1>4, <3>1
      <4> HIDE DEF mem, d, z
      <4> QED BY <4>3, <4>4, <4>5, <4>6, <1>4
    <3>2. CASE ~grows
      <4>1. mem = Memory(r, e) /\ d = e.data
        BY <3>2
      <4>2. z <= e.capacity
        BY <3>2, <2>3, <1>2, <1>3
      <4> HIDE DEF mem, d, z
      <4> QED BY <4>1, <4>2, <1>3
    <3> QED BY <3>1, <3>2
  <2> HIDE DEF mem
  <2>5. \A k \in DOMAIN mem : (IF k \in (pos + 1)..end THEN bytes[k - pos] ELSE mem[k]) \in Content
    <3> SUFFICES ASSUME NEW k \in DOMAIN mem, k \in (pos + 1)..end PROVE bytes[k - pos] \in Content
      BY <2>4
    <3>1. k - pos \in 1..Len(bytes)
      BY <1>2
    <3> QED BY <3>1 DEF Content
  <2>6. m \in Seq(Content) /\ Len(m) = Len(mem)
        /\ \A k \in 1..Len(mem) : m[k] = IF k \in (pos + 1)..end THEN bytes[k - pos] ELSE mem[k]
    BY <2>4, <2>5
  <2>7. d = e.data \/ (d # 0 /\ d \notin DOMAIN r.heap)
    BY <1>6
  <2>8. d \in Nat
    BY <1>2
  <2>9. w.rd = Replaced(r, idx, [e EXCEPT !.data = d, !.capacity = Len(m), !.size = z],
                        Replace(r.heap, e.data, d, m), po)
    <3> DEFINE h == Replace(r.heap, e.data, d, m)
               e2 == [e EXCEPT !.data = d, !.capacity = Len(m), !.size = z]
    <3>1. w.rd = [r EXCEPT !.heap = h, !.files[idx] = e2, !.pos[fd] = end]
      BY <2>2, <2>6
    <3> HIDE DEF h, e2
    <3> QED BY <3>1, <1>1 DEF Replaced, RdType, h, e2
  <2> HIDE DEF m, d, z
  <2>10. \A k \in 1..Len(m) :
           /\ k \in (pos + 1)..end => m[k] = bytes[k - pos]
           /\ k \notin (pos + 1)..end /\ k <= e.size => m[k] = Memory(r, e)[k]
    BY <2>4, <2>6
  <2>11. z <= Len(m) /\ (d = 0 => Len(m) = 0)
    BY <2>4, <2>6
  <2>12. Written(r, fd, bytes, w.rd)
    BY <2>3, <2>6, <2>7, <2>8, <2>9, <2>10, <2>11 DEF Written
  <2> QED BY <2>2, <2>12
<1> QED BY <1>5, <1>6

LEMMA WrittenInv ==
  ASSUME NEW r, RdInv(r), NEW fd \in RdFds, NEW bytes \in Seq(Byte), r.open[fd] \in Live(r),
         NEW s, Written(r, fd, bytes, s)
  PROVE  RdInv(s) /\ SameNames(r, s)
<1> DEFINE i == r.open[fd]
           e == r.files[i]
           end == r.pos[fd] + Len(bytes)
<1>1. r \in RdType /\ i \in DOMAIN r.files /\ e \in EntryT /\ r.heap \in HeapT /\ e.data \in Nat /\ e.in_use
  BY FilesDomain DEF RdInv, Live, RdType, EntryT
<1>2. end \in Nat /\ [r.pos EXCEPT ![fd] = end] \in [RdFds -> Nat]
  BY <1>1 DEF RdType
<1>3. PICK m \in Seq(Content), d \in Nat, z \in Nat :
        /\ s = Replaced(r, i, [e EXCEPT !.data = d, !.capacity = Len(m), !.size = z],
                        Replace(r.heap, e.data, d, m), [r.pos EXCEPT ![fd] = end])
        /\ z <= Len(m)
        /\ d = e.data \/ (d # 0 /\ d \notin DOMAIN r.heap)
        /\ d = 0 => Len(m) = 0
  BY Zenon DEF Written
<1>a. e = r.files[i]
  OBVIOUS
<1>b. Len(m) \in Nat
  OBVIOUS
<1> HIDE DEF e
<1> DEFINE e2 == [e EXCEPT !.data = d, !.capacity = Len(m), !.size = z]
           h == Replace(r.heap, e.data, d, m)
<1>4. e2 \in EntryT /\ e2.data = d /\ e2.capacity = Len(m) /\ e2.size = z /\ e2.name = e.name
      /\ e2.in_use = e.in_use /\ e2.is_dir = e.is_dir
  BY <1>1, <1>b DEF EntryT
<1>5. /\ h \in HeapT
      /\ \A b : b \in DOMAIN h <=> (b \in DOMAIN r.heap /\ b # e.data) \/ (b = d /\ d # 0)
      /\ d # 0 => h[d] = m
      /\ \A b \in DOMAIN r.heap : b # e.data /\ b # d => h[b] = r.heap[b]
  BY <1>1, ReplaceFacts, Zenon
<1> HIDE DEF e2, h
<1>6. /\ s \in RdType /\ s.open = r.open /\ s.heap = h
      /\ Len(s.files) = Len(r.files) /\ DOMAIN s.files = DOMAIN r.files
      /\ \A j \in DOMAIN r.files : s.files[j] = IF j = i THEN e2 ELSE r.files[j]
  <2>1. s = Replaced(r, i, e2, h, [r.pos EXCEPT ![fd] = end])
    BY <1>3 DEF e2, h
  <2> DEFINE po == [r.pos EXCEPT ![fd] = end]
  <2>2. po \in [RdFds -> Nat] /\ s = Replaced(r, i, e2, h, po)
    BY <2>1, <1>2
  <2> HIDE DEF po, i
  <2> QED BY <2>2, <1>1, <1>4, <1>5, EntryReplaced
<1> HIDE DEF i
<1>7. Live(s) = Live(r) /\ i \in Live(r)
  BY <1>1, <1>4, <1>6, <1>a DEF Live
<1>8. SameNames(r, s)
  BY <1>4, <1>6, <1>a DEF SameNames
<1>9. Room(s) /\ NamesUnique(s)
  <2>1. Room(s)
    BY <1>6 DEF RdInv, Room
  <2>2. \A j \in Live(r) : s.files[j].name = r.files[j].name
    BY <1>4, <1>6, <1>a DEF Live
  <2>3. NamesUnique(s)
    BY <2>2, <1>7 DEF RdInv, NamesUnique
  <2> QED BY <2>1, <2>3
<1>10. ASSUME NEW j \in Live(r), j # i, r.files[j].data # 0
       PROVE  r.files[j].data \in DOMAIN r.heap /\ r.files[j].data # e.data /\ r.files[j].data # d
  <2>1. r.files[j].data \in DOMAIN r.heap
    BY <1>10 DEF RdInv, BlockOf
  <2>2. r.files[j].data # e.data
    BY <1>7, <1>10, <1>a DEF RdInv, OwnBlocks
  <2> QED BY <2>1, <2>2, <1>3
<1>11. BlockOf(s)
  <2> SUFFICES ASSUME NEW j \in Live(r)
               PROVE  /\ s.files[j].size <= s.files[j].capacity
                      /\ s.files[j].data = 0 => s.files[j].capacity = 0
                      /\ s.files[j].data # 0 =>
                           s.files[j].data \in DOMAIN h /\ Len(h[s.files[j].data]) = s.files[j].capacity
    BY <1>6, <1>7 DEF BlockOf
  <2>1. CASE j = i
    <3>1. s.files[j] = e2
      BY <2>1, <1>6, <1>7 DEF Live
    <3> QED BY <3>1, <1>3, <1>4, <1>5
  <2>2. CASE j # i
    <3>1. s.files[j] = r.files[j]
      BY <2>2, <1>6 DEF Live
    <3> QED BY <2>2, <3>1, <1>5, <1>10 DEF RdInv, BlockOf
  <2> QED BY <2>1, <2>2
<1>12. OwnBlocks(s)
  <2> SUFFICES ASSUME NEW j \in Live(r), NEW k \in Live(r), s.files[j].data # 0,
                      s.files[j].data = s.files[k].data, j # k
               PROVE  FALSE
    BY <1>7 DEF OwnBlocks
  <2>1. \A x \in Live(r) : s.files[x].data = IF x = i THEN d ELSE r.files[x].data
    BY <1>4, <1>6 DEF Live
  <2>2. CASE j = i
    BY <2>1, <2>2, <1>10
  <2>3. CASE k = i
    BY <2>1, <2>3, <1>10
  <2>4. CASE j # i /\ k # i
    BY <2>1, <2>4 DEF RdInv, OwnBlocks
  <2> QED BY <2>2, <2>3, <2>4
<1>13. NoLeak(s)
  <2> SUFFICES ASSUME NEW b \in DOMAIN h PROVE \E j \in Live(r) : s.files[j].data = b
    BY <1>6, <1>7 DEF NoLeak
  <2>1. \A x \in Live(r) : s.files[x].data = IF x = i THEN d ELSE r.files[x].data
    BY <1>4, <1>6 DEF Live
  <2>2. CASE b = d
    BY <2>1, <2>2, <1>7
  <2>3. CASE b # d
    <3>1. b \in DOMAIN r.heap /\ b # e.data
      BY <2>3, <1>5
    <3>2. PICK j \in Live(r) : r.files[j].data = b
      BY <3>1 DEF RdInv, NoLeak
    <3>3. j # i
      BY <3>1, <3>2, <1>a
    <3> QED BY <2>1, <3>2, <3>3
  <2> QED BY <2>2, <2>3
<1> QED BY <1>6, <1>8, <1>9, <1>11, <1>12, <1>13 DEF RdInv

LEMMA WriteInv ==
  ASSUME NEW r, RdInv(r), NEW fd \in RdFds, NEW bytes \in Seq(Byte), NEW b \in Nat, b \notin DOMAIN r.heap,
         r.open[fd] \in Live(r)
  PROVE  RdInv(ramdisk_write(r, fd, bytes, b).rd) /\ SameNames(r, ramdisk_write(r, fd, bytes, b).rd)
<1> DEFINE w == ramdisk_write(r, fd, bytes, b)
<1>0. w = ramdisk_write(r, fd, bytes, b)
  OBVIOUS
<1> HIDE DEF w
<1>1. w.rd = r \/ Written(r, fd, bytes, w.rd)
  BY <1>0, WriteFacts
<1>2. SameNames(r, r)
  BY DEF SameNames
<1>3. RdInv(w.rd) /\ SameNames(r, w.rd)
  BY <1>1, <1>2, WrittenInv
<1> QED BY <1>3 DEF w

\* A name and its bytes are removed.
LEMMA UnlinkInv ==
  ASSUME NEW r, RdInv(r), NEW path, NEW n, n = Skipped(path)
  PROVE  LET s == ramdisk_unlink(r, path).rd
             i == rd_find(r, n)
         IN /\ RdInv(s) /\ s.open = r.open /\ s.pos = r.pos /\ DOMAIN s.files = DOMAIN r.files
            /\ i = 0 => s = r
            /\ i # 0 => /\ i \in Live(r) /\ r.files[i].name = n /\ Live(s) = Live(r) \ {i}
                        /\ \A j \in Live(s) : s.files[j] = r.files[j]
                        /\ s.heap = Replace(r.heap, r.files[i].data, 0, <<>>)
            /\ \A m : m # n => rd_find(s, m) = rd_find(r, m)
<1> DEFINE i == rd_find(r, n)
           s == ramdisk_unlink(r, path).rd
           h == Replace(r.heap, r.files[i].data, 0, <<>>)
<1>1. CASE i = 0
  <2>1. s = r
    BY <1>1, DoneFacts DEF ramdisk_unlink, Fail
  <2> HIDE DEF s
  <2> QED BY <1>1, <2>1 DEF s
<1>2. CASE i # 0
  <2>1. i \in Hits(r, n)
    BY <1>2, FindFacts DEF RdInv
  <2>2. i \in Live(r) /\ r.files[i].name = n
    BY <2>1 DEF Hits, Live
  <2>3. s = Gone(r, i, h).rd
    BY <1>2 DEF ramdisk_unlink
  <2>4. r.heap \in HeapT /\ <<>> \in Seq(Content) /\ 0 \in Nat
    BY DEF RdInv, RdType
  <2>5. /\ h \in HeapT /\ \A b : b \in DOMAIN h <=> b \in DOMAIN r.heap /\ b # r.files[i].data
        /\ \A b \in DOMAIN h : h[b] = r.heap[b]
    <3> DEFINE d == r.files[i].data
               no == 0
               nil == <<>>
    <3>1. no \notin DOMAIN r.heap /\ no \in Nat /\ no = 0 /\ h = Replace(r.heap, d, no, nil) /\ nil \in Seq(Content)
      BY <2>4 DEF HeapT
    <3> HIDE DEF d, no, h, nil
    <3>2. /\ Replace(r.heap, d, no, nil) \in HeapT
          /\ \A b : b \in DOMAIN Replace(r.heap, d, no, nil) <=>
                    (b \in DOMAIN r.heap /\ b # d) \/ (b = no /\ no # 0)
          /\ \A b \in DOMAIN r.heap : b # d /\ b # no => Replace(r.heap, d, no, nil)[b] = r.heap[b]
      <4>1. r.heap \in HeapT /\ no \in Nat /\ nil \in Seq(Content)
        BY <2>4, <3>1
      <4> QED BY <4>1, ReplaceFacts, Zenon
    <3> QED BY <3>1, <3>2 DEF d
  <2> HIDE DEF i, h, s
  <2>6. /\ RdInv(s) /\ s.open = r.open /\ s.pos = r.pos /\ s.heap = h
        /\ DOMAIN s.files = DOMAIN r.files /\ Live(s) = Live(r) \ {i}
        /\ \A j \in Live(s) : s.files[j] = r.files[j]
        /\ \A m : m # r.files[i].name => rd_find(s, m) = rd_find(r, m)
    BY <2>2, <2>3, <2>5, GoneInv
  <2> QED BY <1>2, <2>2, <2>6 DEF s, i, h
<1> QED BY <1>1, <1>2

\* A directory without bytes is removed.
LEMMA RmdirInv ==
  ASSUME NEW r, RdInv(r), NEW path, NEW n, n = Skipped(path), \A i \in {rd_find(r, n)} \ {0} : r.files[i].data = 0
  PROVE  LET s == ramdisk_rmdir(r, path).rd
             i == rd_find(r, n)
         IN /\ RdInv(s) /\ s.open = r.open /\ s.pos = r.pos /\ DOMAIN s.files = DOMAIN r.files /\ s.heap = r.heap
            /\ \/ s = r
               \/ /\ i \in Live(r) /\ r.files[i].name = n /\ Live(s) = Live(r) \ {i}
                  /\ \A j \in Live(s) : s.files[j] = r.files[j]
            /\ \A m : m # n => rd_find(s, m) = rd_find(r, m)
<1> DEFINE i == rd_find(r, n)
           s == ramdisk_rmdir(r, path).rd
<1>1. CASE i = 0 \/ ~r.files[i].is_dir
  <2>1. s = r
    BY <1>1, DoneFacts DEF ramdisk_rmdir, Fail
  <2> HIDE DEF s
  <2> QED BY <1>1, <2>1 DEF s
<1>2. CASE ~(i = 0 \/ ~r.files[i].is_dir)
  <2>1. i \in Hits(r, n)
    BY <1>2, FindFacts DEF RdInv
  <2>2. i \in Live(r) /\ r.files[i].name = n /\ r.files[i].data = 0
    BY <2>1, <1>2 DEF Hits, Live
  <2>3. s = Gone(r, i, r.heap).rd
    BY <1>2 DEF ramdisk_rmdir
  <2> DEFINE h == r.heap
  <2>5. /\ h \in HeapT /\ h = r.heap /\ s = Gone(r, i, h).rd
        /\ \A b : b \in DOMAIN h <=> b \in DOMAIN r.heap /\ b # r.files[i].data
    BY <2>2, <2>3 DEF RdInv, RdType, HeapT
  <2> HIDE DEF i, s, h
  <2>6. /\ RdInv(s) /\ s.open = r.open /\ s.pos = r.pos /\ s.heap = r.heap
        /\ DOMAIN s.files = DOMAIN r.files /\ Live(s) = Live(r) \ {i}
        /\ \A j \in Live(s) : s.files[j] = r.files[j]
        /\ \A m : m # r.files[i].name => rd_find(s, m) = rd_find(r, m)
    <3>1. \A b \in DOMAIN h : h[b] = r.heap[b]
      BY <2>5
    <3> QED BY <2>2, <2>5, <3>1, GoneInv
  <2> QED BY <1>2, <2>2, <2>6 DEF s, i
<1> QED BY <1>1, <1>2

\* There is a block for kmalloc to return: the live entries hold fewer than
\* the numbers blocks are given.
LEMMA FreshFacts ==
  ASSUME RdInv(rd)
  PROVE  Fresh \in Nat \ {0} /\ Fresh \notin DOMAIN rd.heap
<1> DEFINE S == 1..(RAMDISK_MAX_FILES + 1)
           T == 1..RAMDISK_MAX_FILES
           F == S \ DOMAIN rd.heap
<1>0. RAMDISK_MAX_FILES \in Nat
  BY VfsAssumption
<1>1. ASSUME F = {} PROVE FALSE
  <2> DEFINE f == [k \in S |-> CHOOSE i \in Live(rd) : rd.files[i].data = k]
  <2>1. \A k \in S : f[k] \in Live(rd) /\ rd.files[f[k]].data = k
    BY <1>1 DEF RdInv, NoLeak
  <2>2. Live(rd) \subseteq T
    BY <1>0, FilesDomain DEF RdInv, Room, Live
  <2>3. f \in [S -> T]
    BY <2>1, <2>2
  <2>4. IsFiniteSet(S) /\ Cardinality(S) = RAMDISK_MAX_FILES + 1
    BY <1>0, FS_Interval
  <2>5. IsFiniteSet(T) /\ Cardinality(T) = RAMDISK_MAX_FILES
    BY <1>0, FS_Interval
  <2>6. Cardinality(T) < Cardinality(S)
    BY <1>0, <2>4, <2>5
  <2> HIDE DEF S, T, f
  <2>7. PICK x \in S, y \in S : x # y /\ f[x] = f[y]
    BY <2>3, <2>4, <2>5, <2>6, FS_PigeonHole
  <2> QED BY <2>1, <2>7
<1>2. F \subseteq Nat /\ F # {}
  BY <1>1
<1>3. Min(F) \in F
  BY <1>2, FirstFound
<1> QED BY <1>3 DEF Fresh

\* What a read returns is a sequence of bytes.
LEMMA ReadBytes ==
  ASSUME NEW r, RdInv(r), NEW fd \in RdFds, NEW size \in Nat, r.open[fd] \in Live(r)
  PROVE  ramdisk_read(r, fd, size).bytes \in Seq(Content)
<1> DEFINE e == r.files[r.open[fd]]
           pos == r.pos[fd]
           n == Min({size, e.size - pos})
<1>1. r.open[fd] # 0 /\ e \in EntryT /\ pos \in Nat
  BY FilesDomain DEF RdInv, RdType, Live
<1>2. CASE pos >= e.size
  BY <1>1, <1>2 DEF ramdisk_read, Done
<1>3. CASE ~(pos >= e.size)
  <2>1. e.size \in Nat /\ e.size - pos \in Nat /\ e.size <= e.capacity
    BY <1>1, <1>3 DEF EntryT, RdInv, BlockOf
  <2>2. n \in Nat /\ n <= e.size - pos
    BY <2>1, MinOfTwo
  <2>3. Memory(r, e) \in Seq(Content) /\ Len(Memory(r, e)) = e.capacity
    BY MemoryFacts
  <2> HIDE DEF n
  <2>4. \A k \in (pos + 1)..(pos + n) : Memory(r, e)[k] \in Content
    <3> SUFFICES ASSUME NEW k \in (pos + 1)..(pos + n) PROVE Memory(r, e)[k] \in Content
      OBVIOUS
    <3>1. k \in 1..e.capacity
      BY <1>1, <2>1, <2>2 DEF EntryT
    <3> QED BY <3>1, <2>3
  <2>5. pos + 1 \in Int /\ pos + n \in Int
    BY <1>1, <2>2
  <2>6. SubSeq(Memory(r, e), pos + 1, pos + n) \in Seq(Content)
    BY <2>4, <2>5, SubSeqProperties
  <2>7. ramdisk_read(r, fd, size).bytes = SubSeq(Memory(r, e), pos + 1, pos + n)
    BY <1>1, <1>3 DEF ramdisk_read, Done, n
  <2> QED BY <2>6, <2>7
<1> QED BY <1>2, <1>3

LEMMA InitInv == RdInv(vfs_init_ramdisk) /\ vfs_init_ramdisk.open = [fd \in RdFds |-> 0]
<1> DEFINE r == vfs_init_ramdisk
           len == Len(StdDirs) + 1
           made == [i \in 1..len |-> NewEntry(IF i = 1 THEN <<"/">> ELSE StdDirs[i - 1], TRUE)]
           n == Min({RAMDISK_MAX_FILES, len})
           f == SubSeq(made, 1, n)
           none == [fd \in RdFds |-> 0]
           h == [b \in {} |-> <<>>]
<1>1. Len(StdDirs) \in Nat /\ len \in Nat /\ RAMDISK_MAX_FILES \in Nat /\ DOMAIN StdDirs = 1..Len(StdDirs)
      /\ (\A i \in 1..Len(StdDirs) : StdDirs[i] \in Name)
  BY VfsAssumption DEF Name
<1>2. n \in Nat /\ n <= RAMDISK_MAX_FILES /\ n <= len
  BY <1>1, MinOfTwo
<1>3. r = [files |-> f, open |-> none, pos |-> none, heap |-> h]
  BY DEF vfs_init_ramdisk, RdFds
<1>4. \A i \in 1..len : (IF i = 1 THEN <<"/">> ELSE StdDirs[i - 1]) \in Name
  <2>1. <<"/">> \in Name
    BY VfsAssumption DEF Name
  <2>2. \A i \in 1..len : i # 1 => i - 1 \in 1..Len(StdDirs)
    BY <1>1
  <2> QED BY <1>1, <2>1, <2>2
<1>5. \A x \in Name : /\ NewEntry(x, TRUE) \in EntryT /\ NewEntry(x, TRUE).name = x /\ NewEntry(x, TRUE).data = 0
                      /\ NewEntry(x, TRUE).size = 0 /\ NewEntry(x, TRUE).capacity = 0
  BY DEF NewEntry, EntryT
<1>6. \A i \in 1..len : /\ made[i] \in EntryT /\ made[i].data = 0 /\ made[i].size = 0 /\ made[i].capacity = 0
                        /\ made[i].name = IF i = 1 THEN <<"/">> ELSE StdDirs[i - 1]
  BY <1>4, <1>5
<1> HIDE DEF n, made, len
<1>7. f \in Seq(EntryT) /\ Len(f) = n /\ \A i \in 1..n : f[i] = made[i]
  <2>1. \A i \in 1..n : made[i] \in EntryT
    BY <1>2, <1>6, <1>1
  <2> QED BY <2>1, <1>2, SubSeqProperties
<1>8. \A i \in 1..n : i \in 1..len
  BY <1>1, <1>2
<1> HIDE DEF f
<1>9. none \in [RdFds -> Nat]
  OBVIOUS
<1>10. h \in HeapT /\ DOMAIN h = {}
  <2>1. h \in [{} -> Seq(Content)] /\ {} \in SUBSET (Nat \ {0})
    OBVIOUS
  <2> QED BY <2>1 DEF HeapT
<1> HIDE DEF h, none, r
<1>11. r \in RdType /\ r.files = f /\ r.open = none /\ r.heap = h
  BY <1>3, <1>7, <1>9, <1>10 DEF RdType
<1>12. DOMAIN r.files = 1..n
  BY <1>7, <1>11
<1>13. Room(r)
  BY <1>2, <1>7, <1>11 DEF Room, none
<1>14. NamesUnique(r)
  <2> SUFFICES ASSUME NEW i \in 1..n, NEW j \in 1..n, made[i].name = made[j].name PROVE i = j
    BY <1>7, <1>11, <1>12 DEF NamesUnique, Live
  <2>1. \A k \in 1..Len(StdDirs) : StdDirs[k] # <<"/">>
    BY <1>1, VfsAssumption DEF Range
  <2>2. \A k, l \in 1..Len(StdDirs) : StdDirs[k] = StdDirs[l] => k = l
    BY <1>1, VfsAssumption DEF IsInjective
  <2>3. \A k \in 1..n : k # 1 => k - 1 \in 1..Len(StdDirs)
    BY <1>1, <1>2 DEF len
  <2>4. \A k \in 1..n : made[k].name = IF k = 1 THEN <<"/">> ELSE StdDirs[k - 1]
    BY <1>6, <1>8
  <2>5. i # 1 /\ j # 1 => i - 1 = j - 1
    BY <2>2, <2>3, <2>4
  <2>6. (i = 1) <=> (j = 1)
    BY <2>1, <2>3, <2>4
  <2> QED BY <2>5, <2>6
<1>15. BlockOf(r) /\ OwnBlocks(r)
  BY <1>6, <1>7, <1>8, <1>11, <1>12 DEF BlockOf, OwnBlocks, Live
<1>16. NoLeak(r)
  BY <1>10, <1>11 DEF NoLeak
<1>17. RdInv(r) /\ r.open = none
  BY <1>11, <1>13, <1>14, <1>15, <1>16 DEF RdInv
<1> QED BY <1>17 DEF r, none

-----------------------------------------------------------------------------
(***************************************************************************)
(* Descriptors over the ramdisk                                            *)
(***************************************************************************)
Owners == {"nobody", "caller", "file", "eof"}
Sub(path)   == OpenName(resolve_mount(path).sub)
Named(path) == Skipped(resolve_mount(path).sub)

Shapes ==
  /\ fd_table = [fd \in Fds |-> fd_table[fd]]
  /\ owner \in [Fds -> Owners]
  /\ mounts \in Seq(MountT)
  /\ \A fd \in InUse : fd_table[fd].path \in Paths

\* OwnPosition, and that what is kept is a descriptor of the ramdisk.
Connected ==
  \A fd \in InUseOnRamdisk :
    /\ fd_table[fd].data \in RdFds
    /\ rd.open[fd_table[fd].data] = OpenEntry(fd_table[fd].path)
    /\ OpenEntry(fd_table[fd].path) # 0
    /\ \A other \in InUseOnRamdisk : other # fd => fd_table[other].data # fd_table[fd].data

VInv == Shapes /\ RdInv(rd) /\ NoFdLost /\ Connected

LEMMA SoundByVInv == VInv => DescriptorsSound
<1> SUFFICES ASSUME VInv PROVE DescriptorsSound
  OBVIOUS
<1>1. rd.open \in [0..(RD_FDS - 1) -> 0..Len(rd.files)] /\ Len(rd.files) <= RAMDISK_MAX_FILES
  BY DEF VInv, RdInv, Room, RdType, RdFds
<1>2. TypeOK
  BY <1>1 DEF VInv, Shapes, TypeOK, Owners
<1>3. OwnPosition
  BY DEF VInv, Connected, OwnPosition
<1> QED BY <1>2, <1>3 DEF VInv, DescriptorsSound

LEMMA SameMounts ==
  ASSUME mounts' = mounts, NEW CONSTANT p
  PROVE  MountOf(p)' = MountOf(p) /\ resolve_mount(p)' = resolve_mount(p)
<1>1. MountOf(p)' = MountOf(p)
  BY DEF MountOf, Best
<1> QED BY <1>1 DEF resolve_mount

\* A descriptor in use is open on a live entry.
LEMMA OpenLive ==
  ASSUME VInv, NEW fd \in Fds, fd \in InUseOnRamdisk
  PROVE  fd_table[fd].data \in RdFds /\ rd.open[fd_table[fd].data] \in Live(rd)
<1> DEFINE n == Sub(fd_table[fd].path)
<1>1. fd_table[fd].data \in RdFds /\ rd.open[fd_table[fd].data] = rd_find(rd, n) /\ rd_find(rd, n) # 0
  BY DEF VInv, Connected, OpenEntry, Sub
<1> HIDE DEF n
<1>2. rd_find(rd, n) \in Hits(rd, n)
  BY <1>1, FindFacts DEF VInv, RdInv
<1> QED BY <1>1, <1>2 DEF Hits, Live

\* A step that leaves the descriptors and what they are open on alone.
LEMMA KeepsVInv ==
  ASSUME VInv, mounts' = mounts, fd_table' = fd_table, RdInv(rd'),
         \A fd \in InUseOnRamdisk : rd'.open[fd_table[fd].data] = rd.open[fd_table[fd].data],
         \A fd \in InUseOnRamdisk :
            rd_find(rd', Sub(fd_table[fd].path)) = rd_find(rd, Sub(fd_table[fd].path)),
         owner' \in [Fds -> Owners],
         \A fd \in Fds : owner'[fd] = "nobody" <=> owner[fd] = "nobody"
  PROVE  VInv'
<1>1. InUse' = InUse /\ \A p : MountOf(p)' = MountOf(p) /\ resolve_mount(p)' = resolve_mount(p)
  BY SameMounts DEF InUse
<1>2. InUseOnRamdisk' = InUseOnRamdisk
  BY <1>1 DEF InUseOnRamdisk, Fs
<1>3. \A fd \in InUseOnRamdisk : OpenEntry(fd_table[fd].path)' = OpenEntry(fd_table[fd].path)
  BY <1>1 DEF OpenEntry, Sub
<1>4. Shapes'
  BY <1>1 DEF VInv, Shapes
<1>5. NoFdLost'
  BY <1>1 DEF VInv, NoFdLost
<1>6. Connected'
  BY <1>2, <1>3 DEF VInv, Connected
<1> QED BY <1>4, <1>5, <1>6 DEF VInv

\* The parts of VInv that reads of a descriptor rest on.
LEMMA ReadingVInv ==
  ASSUME VInv, NEW fd \in Fds, fd \in InUse, NEW size \in Nat, NEW h \in Owners \ {"nobody"}, owner[fd] # "nobody",
         Reading(fd, h, ReadFrom(fd, size))
  PROVE  VInv'
<1>1. rd' = ReadFrom(fd, size).rd /\ fd_table' = fd_table /\ mounts' = mounts /\ owner' = [owner EXCEPT ![fd] = h]
  BY DEF Reading
<1>2. /\ owner' \in [Fds -> Owners]
      /\ \A x \in Fds : owner'[x] = "nobody" <=> owner[x] = "nobody"
  BY <1>1 DEF VInv, Shapes
<1>3. RdInv(rd') /\ SameNames(rd, rd')
  <2>1. CASE Fs(fd) = "ramdisk"
    <3>1. fd_table[fd].data \in RdFds
      BY <2>1, OpenLive DEF InUseOnRamdisk
    <3>2. rd' = ramdisk_read(rd, fd_table[fd].data, size).rd
      BY <1>1, <2>1 DEF ReadFrom
    <3> QED BY <3>1, <3>2, ReadInv DEF VInv
  <2>2. CASE Fs(fd) # "ramdisk"
    <3>1. rd' = rd
      BY <1>1, <2>2, DoneFacts DEF ReadFrom, proc_read
    <3> QED BY <3>1 DEF VInv, SameNames
  <2> QED BY <2>1, <2>2
<1>4. \A n : rd_find(rd', n) = rd_find(rd, n)
  BY <1>3, SameNamesFind DEF VInv, RdInv
<1>5. rd'.open = rd.open
  BY <1>3 DEF SameNames
<1> QED BY <1>1, <1>2, <1>3, <1>4, <1>5, KeepsVInv

\* A change of the ramdisk that keeps its names.
LEMMA ChangedVInv ==
  ASSUME VInv, NEW r, Changed(r), RdInv(r.rd), SameNames(rd, r.rd)
  PROVE  VInv'
<1>1. rd' = r.rd /\ fd_table' = fd_table /\ mounts' = mounts /\ owner' = owner
  BY DEF Changed
<1>2. \A n : rd_find(rd', n) = rd_find(rd, n)
  BY <1>1, SameNamesFind DEF VInv, RdInv
<1>3. rd'.open = rd.open
  BY <1>1 DEF SameNames
<1>4. owner' \in [Fds -> Owners]
  BY <1>1 DEF VInv, Shapes
<1> QED BY <1>1, <1>2, <1>3, <1>4, KeepsVInv

\* What asking the file system of a path to open it does.
LEMMA OpenedFacts ==
  ASSUME VInv, NEW path \in Paths, NEW o \in {Opened(path, TRUE), Opened(path, FALSE)}
  PROVE  /\ RdInv(o.rd)
         /\ \A m : rd_find(rd, m) # 0 => rd_find(o.rd, m) = rd_find(rd, m)
         /\ \A k \in RdFds : rd.open[k] # 0 => o.rd.open[k] = rd.open[k]
         /\ ~(o.ret < 0) => InUse # Fds
         /\ ~(o.ret < 0) /\ MountOf(path).fs = "ramdisk" =>
              /\ o.ret \in RdFds /\ rd.open[o.ret] = 0
              /\ o.rd.open[o.ret] = rd_find(o.rd, Sub(path)) /\ rd_find(o.rd, Sub(path)) # 0
<1> DEFINE sub == Sub(path)
           opens == InUse # Fds /\ resolve_mount(path).fs = "ramdisk"
<1>1. path \in Name /\ resolve_mount(path).fs = MountOf(path).fs
  BY VfsAssumption DEF Name, resolve_mount
<1>2. CASE ~opens
  <2>1. o.rd = rd
    <3>1. \A c \in {TRUE, FALSE} : Opened(path, c).rd = rd
      BY <1>2 DEF Opened, Fail, Done, proc_open
    <3> QED BY <3>1
  <2>2. InUse = Fds => o.ret < 0
    <3> SUFFICES ASSUME InUse = Fds PROVE o.ret = -1
      OBVIOUS
    <3> QED BY DoneFacts DEF Opened, Fail
  <2> QED BY <1>1, <1>2, <2>1, <2>2 DEF VInv
<1>3. CASE opens
  <2> DEFINE rest == resolve_mount(path).sub
  <2>1. o \in {ramdisk_open(rd, rest, TRUE), ramdisk_open(rd, rest, FALSE)}
    BY <1>3 DEF Opened
  <2>2. rest \in Name
    BY <1>1, <1>3, Resolved DEF VInv, Shapes
  <2>7. sub = OpenName(rest)
    BY DEF Sub
  <2> HIDE DEF sub, rest
  <2>0. RdInv(rd)
    BY DEF VInv
  <2>3. /\ RdInv(o.rd)
        /\ \A m : rd_find(rd, m) # 0 => rd_find(o.rd, m) = rd_find(rd, m)
        /\ o.ret = -1 => o.rd.open = rd.open
        /\ o.ret # -1 => /\ o.ret \in RdFds /\ rd.open[o.ret] = 0
                         /\ o.rd.open = [rd.open EXCEPT ![o.ret] = rd_find(o.rd, sub)]
                         /\ rd_find(o.rd, sub) # 0
    <3>1. RdOpened(rd, sub, o)
      BY <2>0, <2>1, <2>2, <2>7, OpenInv
    <3> QED BY <3>1 DEF RdOpened
  <2>4. rd.open \in [RdFds -> Nat]
    BY DEF VInv, RdInv, RdType
  <2>5. CASE o.ret = -1
    BY <2>3, <2>5
  <2>6. CASE o.ret # -1
    <3>1. o.rd.open[o.ret] = rd_find(o.rd, sub) /\ \A k \in RdFds : k # o.ret => o.rd.open[k] = rd.open[k]
      BY <2>3, <2>4, <2>6
    <3> QED BY <1>3, <2>3, <2>6, <3>1 DEF sub
  <2> QED BY <2>5, <2>6
<1> QED BY <1>2, <1>3

\* A step that gives a new descriptor to holder h, or none.
LEMMA HoldingVInv ==
  ASSUME VInv, NEW path \in Paths, NEW h \in {"caller", "file"},
         NEW o \in {Opened(path, TRUE), Opened(path, FALSE)}, mounts' = mounts, rd' = o.rd,
         \/ fd_table' = fd_table /\ owner' = owner
         \/ /\ ~(o.ret < 0)
            /\ fd_table' = [fd_table EXCEPT ![FreeFd] = [path |-> path, data |-> o.ret]]
            /\ owner' = [owner EXCEPT ![FreeFd] = h]
  PROVE  VInv'
<1>1. /\ RdInv(o.rd)
      /\ \A m : rd_find(rd, m) # 0 => rd_find(o.rd, m) = rd_find(rd, m)
      /\ \A k \in RdFds : rd.open[k] # 0 => o.rd.open[k] = rd.open[k]
      /\ ~(o.ret < 0) => InUse # Fds
      /\ ~(o.ret < 0) /\ MountOf(path).fs = "ramdisk" =>
           /\ o.ret \in RdFds /\ rd.open[o.ret] = 0
           /\ o.rd.open[o.ret] = rd_find(o.rd, Sub(path)) /\ rd_find(o.rd, Sub(path)) # 0
  BY OpenedFacts
<1>2. ASSUME NEW fd \in InUseOnRamdisk
      PROVE  /\ rd'.open[fd_table[fd].data] = rd.open[fd_table[fd].data] /\ rd.open[fd_table[fd].data] # 0
             /\ rd_find(rd', Sub(fd_table[fd].path)) = rd_find(rd, Sub(fd_table[fd].path))
  BY <1>1 DEF VInv, Connected, OpenEntry, Sub
<1>3. CASE fd_table' = fd_table /\ owner' = owner
  <2>1. owner' \in [Fds -> Owners]
    BY <1>3 DEF VInv, Shapes
  <2> QED BY <1>1, <1>2, <1>3, <2>1, KeepsVInv
<1>4. CASE /\ ~(o.ret < 0)
           /\ fd_table' = [fd_table EXCEPT ![FreeFd] = [path |-> path, data |-> o.ret]]
           /\ owner' = [owner EXCEPT ![FreeFd] = h]
  <2>1. FreeFd \in Fds \ InUse
    <3>1. Fds \ InUse \subseteq Nat /\ Fds \ InUse # {}
      BY <1>1, <1>4, VfsAssumption DEF Fds, InUse
    <3> QED BY <3>1, FirstFound DEF FreeFd
  <2>2. PICK x \in Fds \ InUse : x = FreeFd
    BY <2>1
  <2>3. [path |-> path, data |-> o.ret] # Closed
    <3>1. o.ret # -1
      BY <1>4
    <3> QED BY <3>1 DEF Closed
  <2>4. /\ fd_table' = [fd \in Fds |-> fd_table'[fd]]
        /\ fd_table'[x] = [path |-> path, data |-> o.ret]
        /\ fd_table'[x].path = path /\ fd_table'[x].data = o.ret
        /\ \A fd \in Fds : fd # x => fd_table'[fd] = fd_table[fd]
    BY <1>4, <2>2 DEF VInv, Shapes
  <2>5. InUse' = InUse \cup {x}
    BY <2>3, <2>4 DEF InUse
  <2>6. /\ owner' \in [Fds -> Owners] /\ owner'[x] # "nobody"
        /\ \A fd \in Fds : fd # x => owner'[fd] = owner[fd]
    BY <1>4, <2>2 DEF VInv, Shapes, Owners
  <2>7. Shapes'
    <3>1. \A fd \in InUse' : fd_table'[fd].path \in Paths
      BY <2>4, <2>5 DEF VInv, Shapes, InUse
    <3> QED BY <2>4, <2>6, <3>1 DEF VInv, Shapes
  <2>8. NoFdLost'
    BY <2>2, <2>5, <2>6 DEF VInv, NoFdLost, InUse
  <2>9. \A p : MountOf(p)' = MountOf(p) /\ resolve_mount(p)' = resolve_mount(p)
    BY SameMounts
  <2>10. \A fd \in Fds : fd \in InUseOnRamdisk' <=>
            fd \in InUseOnRamdisk \/ (fd = x /\ MountOf(path).fs = "ramdisk")
    BY <2>2, <2>4, <2>5, <2>9 DEF InUseOnRamdisk, Fs, InUse
  <2>11. \A p : OpenEntry(p)' = rd_find(rd', Sub(p))
    BY <2>9 DEF OpenEntry, Sub
  <2>12. ASSUME NEW fd \in InUseOnRamdisk
         PROVE  /\ fd # x /\ fd \in Fds /\ fd_table'[fd] = fd_table[fd]
                /\ fd_table[fd].data \in RdFds
                /\ rd'.open[fd_table[fd].data] = rd_find(rd', Sub(fd_table[fd].path))
                /\ rd_find(rd', Sub(fd_table[fd].path)) # 0
                /\ rd.open[fd_table[fd].data] # 0
    <3>1. fd # x /\ fd \in Fds
      BY <2>2 DEF InUseOnRamdisk, InUse
    <3>2. fd_table'[fd] = fd_table[fd]
      BY <2>4, <3>1
    <3>3. /\ fd_table[fd].data \in RdFds
          /\ rd.open[fd_table[fd].data] = rd_find(rd, Sub(fd_table[fd].path))
          /\ rd_find(rd, Sub(fd_table[fd].path)) # 0
      BY DEF VInv, Connected, OpenEntry, Sub
    <3> QED BY <3>1, <3>2, <3>3, <1>2
  <2>13. Connected'
    <3> SUFFICES ASSUME NEW fd \in InUseOnRamdisk'
                 PROVE  /\ fd_table'[fd].data \in RdFds
                        /\ rd'.open[fd_table'[fd].data] = rd_find(rd', Sub(fd_table'[fd].path))
                        /\ rd_find(rd', Sub(fd_table'[fd].path)) # 0
                        /\ \A other \in InUseOnRamdisk' : other # fd => fd_table'[other].data # fd_table'[fd].data
      BY <2>11 DEF Connected
    <3>1. \A y \in InUseOnRamdisk' : y \in Fds
      BY DEF InUseOnRamdisk, InUse, Fds
    <3>2. CASE fd \in InUseOnRamdisk
      <4>1. ASSUME NEW other \in InUseOnRamdisk', other # fd
            PROVE  fd_table'[other].data # fd_table'[fd].data
        <5>1. CASE other \in InUseOnRamdisk
          BY <3>2, <4>1, <5>1, <2>12 DEF VInv, Connected
        <5>2. CASE other = x /\ MountOf(path).fs = "ramdisk"
          <6>1. fd_table'[other].data = o.ret /\ rd.open[o.ret] = 0
            BY <5>2, <2>4, <1>1, <1>4
          <6>2. fd_table'[fd].data = fd_table[fd].data /\ rd.open[fd_table[fd].data] # 0
            BY <3>2, <2>12
          <6> QED BY <6>1, <6>2
        <5> QED BY <4>1, <3>1, <5>1, <5>2, <2>10
      <4> QED BY <3>2, <4>1, <2>12
    <3>3. CASE fd = x /\ MountOf(path).fs = "ramdisk"
      <4>1. /\ fd_table'[fd].data = o.ret /\ fd_table'[fd].path = path /\ o.ret \in RdFds /\ rd.open[o.ret] = 0
            /\ rd'.open[o.ret] = rd_find(rd', Sub(path)) /\ rd_find(rd', Sub(path)) # 0
        BY <3>3, <2>4, <1>1, <1>4
      <4>2. ASSUME NEW other \in InUseOnRamdisk', other # fd
            PROVE  fd_table'[other].data # fd_table'[fd].data
        <5>1. other \in InUseOnRamdisk
          BY <3>1, <3>3, <4>2, <2>10
        <5> QED BY <4>1, <5>1, <2>12
      <4> QED BY <4>1, <4>2
    <3> QED BY <3>1, <3>2, <3>3, <2>10
  <2> QED BY <1>1, <2>7, <2>8, <2>13 DEF VInv
<1> QED BY <1>3, <1>4

LEMMA CloseVInv ==
  ASSUME VInv, NEW fd \in Fds, vfs_close(fd)
  PROVE  VInv'
<1>1. /\ fd \in InUse /\ mounts' = mounts /\ rd' = rd
      /\ fd_table' = [fd_table EXCEPT ![fd] = Closed] /\ owner' = [owner EXCEPT ![fd] = "nobody"]
  BY DEF vfs_close
<1>2. /\ fd_table' = [x \in Fds |-> fd_table'[x]] /\ fd_table'[fd] = Closed
      /\ \A x \in Fds : x # fd => fd_table'[x] = fd_table[x]
  BY <1>1 DEF VInv, Shapes
<1>3. /\ owner' \in [Fds -> Owners] /\ owner'[fd] = "nobody"
      /\ \A x \in Fds : x # fd => owner'[x] = owner[x]
  BY <1>1 DEF VInv, Shapes, Owners
<1>4. InUse' = InUse \ {fd}
  BY <1>2 DEF InUse
<1>5. \A p : MountOf(p)' = MountOf(p) /\ OpenEntry(p)' = OpenEntry(p)
  BY <1>1, SameMounts DEF OpenEntry
<1>6. InUseOnRamdisk' = InUseOnRamdisk \ {fd}
  BY <1>2, <1>4, <1>5 DEF InUseOnRamdisk, Fs, InUse
<1>7. Shapes'
  BY <1>1, <1>2, <1>3, <1>4 DEF VInv, Shapes, InUse
<1>8. NoFdLost'
  BY <1>3, <1>4 DEF VInv, NoFdLost, InUse
<1>9. \A x \in InUseOnRamdisk' : x \in InUseOnRamdisk /\ fd_table'[x] = fd_table[x]
  BY <1>2, <1>6 DEF InUseOnRamdisk, InUse
<1>10. Connected'
  BY <1>1, <1>5, <1>9 DEF VInv, Connected
<1> QED BY <1>1, <1>7, <1>8, <1>10 DEF VInv

LEMMA MountVInv ==
  ASSUME VInv, InUse = {}, vfs_mount(ProcPath, "proc")
  PROVE  VInv'
<1>1. fd_table' = fd_table /\ rd' = rd /\ owner' = owner
  BY DEF vfs_mount
<1>2. mounts' \in Seq(MountT)
  <2>1. [path |-> ProcPath, fs |-> "proc"] \in MountT
    BY VfsAssumption DEF MountT, Name
  <2> QED BY <2>1 DEF vfs_mount, VInv, Shapes
<1>3. InUse' = {}
  BY <1>1 DEF InUse
<1>4. InUseOnRamdisk' = {}
  BY <1>3 DEF InUseOnRamdisk
<1>5. Shapes'
  BY <1>1, <1>2, <1>3 DEF VInv, Shapes
<1>6. NoFdLost'
  BY <1>1, <1>3 DEF VInv, NoFdLost
<1>7. Connected'
  BY <1>4 DEF Connected
<1> QED BY <1>1, <1>5, <1>6, <1>7 DEF VInv

\* The operations on names, within what callers may do.
LEMMA NamesVInv ==
  ASSUME VInv, NEW path \in Paths, NEW r, Changed(r), RdInv(r.rd), r.rd.open = rd.open,
         \A m : m # Named(path) => rd_find(r.rd, m) = rd_find(rd, m),
         Unopened(path) \/ rd_find(r.rd, Named(path)) = rd_find(rd, Named(path)) \/ Entry(path) = 0
  PROVE  VInv'
<1>1. rd' = r.rd /\ fd_table' = fd_table /\ mounts' = mounts /\ owner' = owner
  BY DEF Changed
<1>2. ASSUME NEW fd \in InUseOnRamdisk
      PROVE  rd_find(rd', Sub(fd_table[fd].path)) = rd_find(rd, Sub(fd_table[fd].path))
  <2>1. CASE Sub(fd_table[fd].path) # Named(path)
    BY <1>1, <2>1
  <2>2. CASE Sub(fd_table[fd].path) = Named(path)
    <3>1. Entry(path) = OpenEntry(fd_table[fd].path)
      BY <2>2 DEF Entry, OpenEntry, ramdisk_stat, Sub, Named
    <3>2. rd.open[fd_table[fd].data] = Entry(path) /\ Entry(path) # 0
      BY <3>1 DEF VInv, Connected
    <3>3. Entry(path) \in OpenEntries
      BY <3>2 DEF OpenEntries
    <3> QED BY <1>1, <2>2, <3>2, <3>3 DEF Unopened
  <2> QED BY <2>1, <2>2
<1>3. owner' \in [Fds -> Owners]
  BY <1>1 DEF VInv, Shapes
<1> QED BY <1>1, <1>2, <1>3, KeepsVInv

-----------------------------------------------------------------------------
(***************************************************************************)
(* Every step keeps VInv                                                   *)
(***************************************************************************)
\* What is held is in use.
LEMMA HeldInUse ==
  ASSUME VInv, NEW fd \in Fds, owner[fd] # "nobody"
  PROVE  fd \in InUse /\ owner[fd] \in Owners \ {"nobody"}
BY DEF VInv, NoFdLost, Shapes

\* fgets moves by the bytes up to a newline, or by all that were there.
LEMMA FgetsReads ==
  ASSUME VInv, NEW fd \in Fds, fgets(fd, 3)
  PROVE  /\ fd \in InUse /\ owner[fd] # "nobody"
         /\ \E n \in Nat, h \in Owners \ {"nobody"} : Reading(fd, h, ReadFrom(fd, n))
<1> DEFINE r == ReadFrom(fd, 2)
           stops == {k \in DOMAIN r.bytes : r.bytes[k] = "\n"}
           n == IF stops = {} THEN Len(r.bytes) ELSE Min(stops)
           h == IF stops = {} /\ n < 2 THEN "eof" ELSE owner[fd]
<1>1. IsFile(fd) /\ Fs(fd) = "ramdisk" /\ Reading(fd, h, ReadFrom(fd, n))
  BY DEF fgets
<1>2. fd \in InUse /\ owner[fd] \in Owners \ {"nobody"} /\ owner[fd] # "nobody"
  BY <1>1, HeldInUse DEF IsFile
<1>3. fd \in InUseOnRamdisk
  BY <1>1, <1>2 DEF InUseOnRamdisk
<1>4. r.bytes \in Seq(Content)
  <2>1. fd_table[fd].data \in RdFds /\ rd.open[fd_table[fd].data] \in Live(rd) /\ RdInv(rd)
    BY <1>3, OpenLive DEF VInv
  <2>2. r = ramdisk_read(rd, fd_table[fd].data, 2)
    BY <1>1 DEF ReadFrom
  <2> QED BY <2>1, <2>2, ReadBytes
<1> HIDE DEF r
<1>5. n \in Nat
  <2>1. stops \subseteq Nat /\ Len(r.bytes) \in Nat
    BY <1>4
  <2>2. stops # {} => Min(stops) \in stops
    BY <2>1, FirstFound
  <2> QED BY <2>1, <2>2
<1>6. h \in Owners \ {"nobody"}
  BY <1>2 DEF Owners
<1> HIDE DEF n, h
<1> QED BY <1>1, <1>2, <1>5, <1>6

LEMMA WriteVInv ==
  ASSUME VInv, NEW fd \in Fds, NEW bytes \in Writes, vfs_write(fd, bytes)
  PROVE  VInv'
<1>1. fd \in InUseOnRamdisk
  BY DEF vfs_write, OnRamdisk, InUseOnRamdisk
<1>2. PICK b \in {0, Fresh} : Changed(ramdisk_write(rd, fd_table[fd].data, bytes, b))
  BY DEF vfs_write
<1>3. RdInv(rd)
  BY DEF VInv
<1>4. b \in Nat /\ b \notin DOMAIN rd.heap
  <2>1. 0 \notin DOMAIN rd.heap
    BY <1>3 DEF RdInv, RdType, HeapT
  <2> QED BY <1>2, <1>3, <2>1, FreshFacts
<1>5. fd_table[fd].data \in RdFds /\ rd.open[fd_table[fd].data] \in Live(rd)
  BY <1>1, OpenLive
<1>6. bytes \in Seq(Byte)
  BY VfsAssumption
<1> DEFINE r == ramdisk_write(rd, fd_table[fd].data, bytes, b)
<1>7. RdInv(r.rd) /\ SameNames(rd, r.rd)
  BY <1>3, <1>4, <1>5, <1>6, WriteInv
<1>8. Changed(r)
  BY <1>2
<1> HIDE DEF r
<1> QED BY <1>7, <1>8, ChangedVInv

LEMMA SeekVInv ==
  ASSUME VInv, NEW fd \in Fds, NEW offset \in Int, NEW whence \in {"SET", "CUR", "END"}, vfs_seek(fd, offset, whence)
  PROVE  VInv'
<1> DEFINE r == ramdisk_seek(rd, fd_table[fd].data, offset, whence)
<1>1. fd \in InUseOnRamdisk /\ Changed(r)
  BY DEF vfs_seek, OnRamdisk, InUseOnRamdisk, Apply
<1>2. fd_table[fd].data \in RdFds /\ RdInv(rd)
  BY <1>1, OpenLive DEF VInv
<1>3. RdInv(r.rd) /\ SameNames(rd, r.rd)
  BY <1>2, SeekInv
<1> HIDE DEF r
<1> QED BY <1>1, <1>3, ChangedVInv

LEMMA TruncateVInv ==
  ASSUME VInv, NEW fd \in Fds, 1 <= Capacity(fd), vfs_truncate(fd, 1)
  PROVE  VInv'
<1> DEFINE r == ramdisk_truncate(rd, fd_table[fd].data, 1)
<1>1. fd \in InUseOnRamdisk /\ Changed(r)
  BY DEF vfs_truncate, OnRamdisk, InUseOnRamdisk, Apply
<1>2. fd_table[fd].data \in RdFds /\ RdInv(rd)
  BY <1>1, OpenLive DEF VInv
<1>3. RdInv(r.rd) /\ SameNames(rd, r.rd)
  BY <1>2, TruncateInv DEF Capacity
<1> HIDE DEF r
<1> QED BY <1>1, <1>3, ChangedVInv

LEMMA OnDescriptorVInv ==
  ASSUME VInv, NEW fd \in Fds, OnDescriptor(fd)
  PROVE  VInv'
<1>1. CASE vfs_close(fd)
  BY <1>1, CloseVInv
<1>2. CASE fclose(fd)
  BY <1>2, CloseVInv DEF fclose
<1>3. CASE vfs_read(fd, 3)
  <2>1. fd \in InUse /\ owner[fd] # "nobody" /\ "caller" \in Owners \ {"nobody"}
    BY <1>3, HeldInUse DEF vfs_read, Owners
  <2> QED BY <1>3, <2>1, ReadingVInv DEF vfs_read
<1>4. CASE fread(fd, 1)
  <2> DEFINE h == IF ReadFrom(fd, 1).ret <= 0 THEN "eof" ELSE owner[fd]
  <2>1. IsFile(fd) /\ Reading(fd, h, ReadFrom(fd, 1))
    BY <1>4 DEF fread
  <2>2. fd \in InUse /\ owner[fd] # "nobody" /\ h \in Owners \ {"nobody"}
    BY <2>1, HeldInUse DEF IsFile, Owners
  <2> HIDE DEF h
  <2> QED BY <2>1, <2>2, ReadingVInv
<1>5. CASE fgets(fd, 3)
  BY <1>5, FgetsReads, ReadingVInv
<1>6. CASE \E bytes \in Writes : vfs_write(fd, bytes)
  BY <1>6, WriteVInv
<1>7. CASE \E to \in {<<0, "SET">>, <<-1, "CUR">>, <<1, "END">>} : vfs_seek(fd, to[1], to[2])
  <2>1. PICK to \in {<<0, "SET">>, <<-1, "CUR">>, <<1, "END">>} : vfs_seek(fd, to[1], to[2])
    BY <1>7
  <2>2. to[1] \in Int /\ to[2] \in {"SET", "CUR", "END"}
    OBVIOUS
  <2> QED BY <2>1, <2>2, SeekVInv
<1>8. CASE OnRamdisk(fd) /\ 1 <= Capacity(fd) /\ vfs_truncate(fd, 1)
  BY <1>8, TruncateVInv
<1> QED BY <1>1, <1>2, <1>3, <1>4, <1>5, <1>6, <1>7, <1>8 DEF OnDescriptor

LEMMA UnlinkVInv ==
  ASSUME VInv, NEW path \in Paths, Unopened(path), vfs_unlink(path)
  PROVE  VInv'
<1> DEFINE r == ramdisk_unlink(rd, resolve_mount(path).sub)
<1>1. Changed(r)
  BY DEF vfs_unlink, Apply
<1>2. RdInv(rd)
  BY DEF VInv
<1>3. RdInv(r.rd) /\ r.rd.open = rd.open /\ \A m : m # Named(path) => rd_find(r.rd, m) = rd_find(rd, m)
  BY <1>2, UnlinkInv DEF Named
<1> HIDE DEF r
<1> QED BY <1>1, <1>3, NamesVInv

LEMMA RmdirVInv ==
  ASSUME VInv, NEW path \in Paths, Unopened(path), Vacant(path), vfs_rmdir(path)
  PROVE  VInv'
<1> DEFINE r == ramdisk_rmdir(rd, resolve_mount(path).sub)
<1>1. Changed(r)
  BY DEF vfs_rmdir, Apply
<1>2. RdInv(rd) /\ \A i \in {rd_find(rd, Named(path))} \ {0} : rd.files[i].data = 0
  BY DEF VInv, Vacant, Entry, ramdisk_stat, Named
<1>3. RdInv(r.rd) /\ r.rd.open = rd.open /\ \A m : m # Named(path) => rd_find(r.rd, m) = rd_find(rd, m)
  BY <1>2, RmdirInv DEF Named
<1> HIDE DEF r
<1> QED BY <1>1, <1>3, NamesVInv

LEMMA MkdirVInv ==
  ASSUME VInv, NEW path \in Paths, Entry(path) = 0, vfs_mkdir(path)
  PROVE  VInv'
<1> DEFINE n == Named(path)
           r == ramdisk_mkdir(rd, resolve_mount(path).sub)
<1>1. Changed(r) /\ rd_find(rd, n) = 0 /\ MountOf(path).fs = "ramdisk" /\ RdInv(rd)
  BY DEF vfs_mkdir, NamedOnRamdisk, Apply, Named, Entry, ramdisk_stat, VInv
<1>2. n \in Name
  <2>1. path \in Name
    BY VfsAssumption DEF Name
  <2> QED BY <1>1, <2>1, Resolved, SkippedName DEF VInv, Shapes, Named
<1>3. r.rd = IF Full(rd) THEN rd ELSE rd_create(rd, n, TRUE)
  BY DEF ramdisk_mkdir, Fail, Done, Named
<1> HIDE DEF r, n
<1>4. CASE Full(rd)
  BY <1>1, <1>3, <1>4, ChangedVInv DEF SameNames
<1>5. CASE ~Full(rd)
  <2> DEFINE s == rd_create(rd, n, TRUE)
  <2>1. RdInv(s) /\ s.open = rd.open /\ (\A m : rd_find(rd, m) # 0 => rd_find(s, m) = rd_find(rd, m))
    BY <1>1, <1>2, <1>5, CreateInv
  <2>2. r.rd = s
    BY <1>3, <1>5
  <2> HIDE DEF s
  <2>3. \A fd \in InUseOnRamdisk : rd_find(rd', Sub(fd_table[fd].path)) = rd_find(rd, Sub(fd_table[fd].path))
    BY <1>1, <2>1, <2>2 DEF Changed, VInv, Connected, OpenEntry, Sub
  <2>4. RdInv(rd') /\ rd'.open = rd.open /\ fd_table' = fd_table /\ mounts' = mounts /\ owner' = owner
    BY <1>1, <2>1, <2>2 DEF Changed
  <2>5. owner' \in [Fds -> Owners]
    BY <2>4 DEF VInv, Shapes
  <2> QED BY <2>3, <2>4, <2>5, KeepsVInv
<1> QED BY <1>4, <1>5

LEMMA OnPathVInv ==
  ASSUME VInv, NEW path \in Paths, OnPath(path)
  PROVE  VInv'
<1>1. CASE \E create \in BOOLEAN : path \in NewPaths /\ fopen(path, create)
  <2>1. PICK create \in BOOLEAN : fopen(path, create)
    BY <1>1
  <2>2. PICK o \in {Opened(path, TRUE), Opened(path, FALSE)} :
          /\ rd' = o.rd /\ mounts' = mounts
          /\ fopen_Made(path, o) \/ fopen_Failed(path, o)
    <3>1. create = TRUE \/ create = FALSE
      BY Zenon
    <3> QED BY <2>1, <3>1 DEF fopen
  <2>3. \/ fd_table' = fd_table /\ owner' = owner
        \/ /\ ~(o.ret < 0)
           /\ fd_table' = [fd_table EXCEPT ![FreeFd] = [path |-> path, data |-> o.ret]]
           /\ owner' = [owner EXCEPT ![FreeFd] = "file"]
    BY <2>2 DEF fopen_Made, fopen_Failed, Holding
  <2> QED BY <2>2, <2>3, HoldingVInv
<1>2. CASE \E create \in {FALSE, (path \in NewPaths)} : vfs_open(path, create)
  <2>0. FALSE \in BOOLEAN /\ (path \in NewPaths) \in BOOLEAN
    OBVIOUS
  <2>1. PICK create \in BOOLEAN : vfs_open(path, create)
    BY <1>2, <2>0, Zenon
  <2>2. PICK o \in {Opened(path, TRUE), Opened(path, FALSE)} :
          /\ rd' = o.rd /\ mounts' = mounts /\ fd_table' = Holding(path, o)
          /\ owner' = IF o.ret < 0 THEN owner ELSE [owner EXCEPT ![FreeFd] = "caller"]
    <3>1. create = TRUE \/ create = FALSE
      BY Zenon
    <3> QED BY <2>1, <3>1 DEF vfs_open
  <2>3. \/ fd_table' = fd_table /\ owner' = owner
        \/ /\ ~(o.ret < 0)
           /\ fd_table' = [fd_table EXCEPT ![FreeFd] = [path |-> path, data |-> o.ret]]
           /\ owner' = [owner EXCEPT ![FreeFd] = "caller"]
    BY <2>2 DEF Holding
  <2> QED BY <2>2, <2>3, HoldingVInv
<1>3. CASE Unopened(path) /\ vfs_unlink(path)
  BY <1>3, UnlinkVInv
<1>4. CASE Unopened(path) /\ Vacant(path) /\ vfs_rmdir(path)
  BY <1>4, RmdirVInv
<1>5. CASE path \in NewPaths /\ Entry(path) = 0 /\ vfs_mkdir(path)
  BY <1>5, MkdirVInv
<1> QED BY <1>1, <1>2, <1>3, <1>4, <1>5 DEF OnPath

LEMMA InitVInv == Init => VInv
<1> SUFFICES ASSUME Init PROVE VInv
  OBVIOUS
<1>1. RdInv(rd)
  BY InitInv DEF Init
<1>2. InUse = {}
  BY DEF Init, InUse
<1>3. InUseOnRamdisk = {}
  BY <1>2 DEF InUseOnRamdisk
<1>4. mounts \in Seq(MountT)
  <2>1. [path |-> <<"/">>, fs |-> "ramdisk"] \in MountT
    BY VfsAssumption DEF MountT, Name
  <2> QED BY <2>1 DEF Init
<1>5. Shapes
  BY <1>2, <1>4 DEF Init, Shapes, Owners
<1>6. NoFdLost
  BY <1>2 DEF Init, NoFdLost
<1>7. Connected
  BY <1>3 DEF Connected
<1> QED BY <1>1, <1>5, <1>6, <1>7 DEF VInv

LEMMA StepVInv == VInv /\ [CarefulNext]_vars => VInv'
<1> SUFFICES ASSUME VInv, [CarefulNext]_vars PROVE VInv'
  OBVIOUS
<1>1. CASE \E fd \in Fds : OnDescriptor(fd)
  BY <1>1, OnDescriptorVInv
<1>2. CASE \E path \in Paths : OnPath(path)
  BY <1>2, OnPathVInv
<1>3. CASE InUse = {} /\ vfs_mount(ProcPath, "proc")
  BY <1>3, MountVInv
<1>4. CASE UNCHANGED vars
  <2>1. rd' = rd /\ fd_table' = fd_table /\ mounts' = mounts /\ owner' = owner
    BY <1>4 DEF vars
  <2>2. RdInv(rd') /\ owner' \in [Fds -> Owners]
    BY <2>1 DEF VInv, Shapes
  <2> QED BY <2>1, <2>2, KeepsVInv
<1> QED BY <1>1, <1>2, <1>3, <1>4 DEF CarefulNext

\* VInv holds throughout.
LEMMA VInvAlways == CarefulSpec => []VInv
BY InitVInv, StepVInv, PTL DEF CarefulSpec

\* For every size of the tables, every set of paths and every order of calls
\* of vfs_*, fopen and the rest: a descriptor is in use exactly when someone
\* holds it, and the ramdisk descriptor behind it is its own and open on the
\* live entry that its path resolves to.
THEOREM DescriptorsAlwaysSound == CarefulSpec => []DescriptorsSound
BY VInvAlways, SoundByVInv, PTL

-----------------------------------------------------------------------------
(***************************************************************************)
(* The files, their blocks and the listing                                 *)
(***************************************************************************)
LEMMA RdBlocksOwned == RdInv(rd) => BlocksOwned
<1> SUFFICES ASSUME RdInv(rd) PROVE BlocksOwned
  OBVIOUS
<1> DEFINE live == {i \in DOMAIN rd.files : rd.files[i].in_use /\ rd.files[i].data # 0}
           f == [i \in live |-> rd.files[i].data]
<1>1. live \subseteq Live(rd) /\ live \subseteq 1..Len(rd.files) /\ Len(rd.files) \in Nat
  BY FilesDomain DEF Live, RdInv
<1>2. 0 \notin DOMAIN rd.heap
  BY DEF RdInv, RdType, HeapT
<1>3. \A b : b \in DOMAIN rd.heap <=> \E i \in live : rd.files[i].data = b
  <2>1. ASSUME NEW b \in DOMAIN rd.heap PROVE \E i \in live : rd.files[i].data = b
    BY <1>2, <2>1 DEF RdInv, NoLeak, Live
  <2>2. ASSUME NEW i \in live PROVE rd.files[i].data \in DOMAIN rd.heap
    BY <1>1, <2>2 DEF RdInv, BlockOf
  <2> QED BY <2>1, <2>2
<1>4. DOMAIN rd.heap = {rd.files[i].data : i \in live}
  BY <1>3
<1>5. \A i, j \in live : f[i] = f[j] => i = j
  BY <1>1 DEF RdInv, OwnBlocks
<1>6. IsFiniteSet(live)
  BY <1>1, FS_Interval, FS_Subset
<1>7. f \in [live -> DOMAIN rd.heap] /\ \A b \in DOMAIN rd.heap : \E i \in live : f[i] = b
  BY <1>3
<1> HIDE DEF live, f
<1>8. ExistsBijection(live, DOMAIN rd.heap)
  <2>1. f \in Bijection(live, DOMAIN rd.heap)
    BY <1>5, <1>7 DEF Bijection, Injection, Surjection, IsInjective
  <2> QED BY <2>1 DEF ExistsBijection
<1>9. Cardinality(live) = Cardinality(DOMAIN rd.heap)
  BY <1>6, <1>8, FS_Bijection
<1>10. ASSUME NEW i \in DOMAIN rd.files, rd.files[i].in_use
       PROVE  Len(Memory(rd, rd.files[i])) = rd.files[i].capacity /\ rd.files[i].size <= rd.files[i].capacity
  <2>1. i \in Live(rd)
    BY <1>10 DEF Live
  <2> QED BY <2>1, MemoryFacts DEF RdInv, BlockOf
<1> QED BY <1>4, <1>9, <1>10 DEF BlocksOwned, live

\* The number of live entries before one tells it from the others.
LEMMA ReaddirFinds ==
  ASSUME RdInv(rd), NEW k
  PROVE  /\ ramdisk_readdir(rd, k) # 0 => ramdisk_readdir(rd, k) \in Live(rd)
         /\ \A i \in Live(rd) : k = Cardinality({j \in 1..(i - 1) : rd.files[j].in_use}) =>
              k \in 0..Len(rd.files) /\ ramdisk_readdir(rd, k) = i
<1> DEFINE before(i) == {j \in 1..(i - 1) : rd.files[j].in_use}
           at == {i \in DOMAIN rd.files : rd.files[i].in_use /\ Cardinality(before(i)) = k}
<1>1. DOMAIN rd.files = 1..Len(rd.files) /\ Len(rd.files) \in Nat
  BY FilesDomain DEF RdInv
<1>2. at \subseteq Nat /\ at \subseteq Live(rd)
  BY <1>1 DEF Live
<1>3. ramdisk_readdir(rd, k) = IF at = {} THEN 0 ELSE Min(at)
  BY DEF ramdisk_readdir
<1>4. at # {} => Min(at) \in at
  BY <1>2, FirstFound
<1>5. ASSUME NEW i \in Live(rd)
      PROVE  /\ IsFiniteSet(before(i)) /\ Cardinality(before(i)) \in 0..Len(rd.files)
  <2>1. before(i) \in SUBSET (1..Len(rd.files))
    BY <1>1 DEF Live
  <2>2. IsFiniteSet(1..Len(rd.files)) /\ Cardinality(1..Len(rd.files)) = Len(rd.files)
    BY <1>1, FS_Interval
  <2> HIDE DEF before
  <2>3. IsFiniteSet(before(i)) /\ Cardinality(before(i)) <= Len(rd.files)
    BY <2>1, <2>2, FS_Subset
  <2>4. Cardinality(before(i)) \in Nat
    BY <2>3, FS_CardinalityType
  <2> QED BY <1>1, <2>3, <2>4
<1>6. ASSUME NEW i \in Live(rd), NEW j \in Live(rd), i < j
      PROVE  Cardinality(before(i)) # Cardinality(before(j))
  <2>1. i \in Nat /\ j \in Nat /\ rd.files[i].in_use /\ i > 0
    BY <1>1 DEF Live
  <2>2. before(i) \in SUBSET before(j) /\ i \in before(j) /\ i \notin before(i)
    BY <2>1, <1>6
  <2>3. IsFiniteSet(before(j))
    BY <1>5
  <2> HIDE DEF before
  <2> QED BY <2>2, <2>3, FS_Subset
<1>7. \A i, j \in at : i = j
  <2> SUFFICES ASSUME NEW i \in at, NEW j \in at, i # j PROVE FALSE
    OBVIOUS
  <2>1. i \in Nat /\ j \in Nat /\ i \in Live(rd) /\ j \in Live(rd)
    BY <1>2
  <2>2. Cardinality(before(i)) = Cardinality(before(j))
    OBVIOUS
  <2> HIDE DEF before, at
  <2>3. i < j \/ j < i
    BY <2>1
  <2> QED BY <2>1, <2>2, <2>3, <1>6
<1>8. ASSUME NEW i \in Live(rd), k = Cardinality(before(i))
      PROVE  k \in 0..Len(rd.files) /\ ramdisk_readdir(rd, k) = i
  <2>1. i \in at
    BY <1>8 DEF Live
  <2>2. k \in 0..Len(rd.files)
    BY <1>5, <1>8
  <2> HIDE DEF at
  <2> QED BY <2>1, <2>2, <1>3, <1>4, <1>7
<1> QED BY <1>2, <1>3, <1>4, <1>8

LEMMA RdListingComplete == RdInv(rd) => ListingComplete
<1> SUFFICES ASSUME RdInv(rd) PROVE ListingComplete
  OBVIOUS
<1> DEFINE listed == {ramdisk_readdir(rd, k) : k \in 0..Len(rd.files)} \ {0}
           found == {rd_find(rd, rd.files[i].name) : i \in DOMAIN rd.files} \ {0}
<1>1. ASSUME NEW x \in listed PROVE x \in Live(rd)
  BY ReaddirFinds
<1>2. ASSUME NEW x \in Live(rd) PROVE x \in listed
  <2> DEFINE k == Cardinality({j \in 1..(x - 1) : rd.files[j].in_use})
  <2>1. k \in 0..Len(rd.files) /\ ramdisk_readdir(rd, k) = x
    BY ReaddirFinds
  <2>2. x # 0
    BY FilesDomain DEF Live, RdInv
  <2> HIDE DEF k
  <2> QED BY <2>1, <2>2
<1>3. rd \in RdType /\ NamesUnique(rd)
  BY DEF RdInv
<1>4. ASSUME NEW x \in found PROVE x \in Live(rd)
  <2>1. PICK i \in DOMAIN rd.files : x = rd_find(rd, rd.files[i].name) /\ x # 0
    OBVIOUS
  <2>2. x \in Hits(rd, rd.files[i].name)
    BY <1>3, <2>1, FindFacts
  <2> QED BY <2>2 DEF Hits, Live
<1>5. ASSUME NEW x \in Live(rd) PROVE x \in found
  <2>1. x \in DOMAIN rd.files /\ x \in Hits(rd, rd.files[x].name) /\ x # 0
    BY <1>3, FilesDomain DEF Hits, Live
  <2>2. rd_find(rd, rd.files[x].name) = x
    BY <1>3, <2>1, FindFacts
  <2> QED BY <2>1, <2>2
<1> HIDE DEF listed, found
<1>6. listed = found
  BY <1>1, <1>2, <1>4, <1>5
<1> QED BY <1>6 DEF ListingComplete, listed, found

\* For every size of the tables and of a page, every set of paths and
\* contents, and every order of calls: ramdisk_write, ramdisk_unlink and
\* rmdir neither leak, share nor free twice a block of the heap, a file is
\* never longer than its block, and listing a directory shows each name that
\* can be found, once.
THEOREM FilesAlwaysSound == CarefulSpec => []FilesSound
<1>1. VInv => FilesSound
  BY RdBlocksOwned, RdListingComplete DEF VInv, FilesSound
<1> QED BY <1>1, VInvAlways, PTL

-----------------------------------------------------------------------------
(***************************************************************************)
(* The store that the entries and blocks stand for                         *)
(***************************************************************************)
\* StoreNow, for any state of the ramdisk.
StoreOf(r) ==
  [n \in {r.files[i].name : i \in Live(r)} |-> Stored(r, r.files[CHOOSE i \in Live(r) : r.files[i].name = n])]

LEMMA StoreNowIs == StoreNow = StoreOf(rd)
BY DEF StoreNow, StoreOf, LiveEntries, Live

LEMMA StoreNextIs == StoreNow' = StoreOf(rd')
BY DEF StoreNow, StoreOf, LiveEntries, Live

\* A name that exists has one entry.
LEMMA StoreFacts ==
  ASSUME NEW r, NamesUnique(r)
  PROVE  /\ \A n : n \in DOMAIN StoreOf(r) <=> \E i \in Live(r) : r.files[i].name = n
         /\ \A i \in Live(r) : StoreOf(r)[r.files[i].name] = Stored(r, r.files[i])
<1>1. \A n : n \in DOMAIN StoreOf(r) <=> \E i \in Live(r) : r.files[i].name = n
  BY DEF StoreOf
<1>2. ASSUME NEW i \in Live(r)
      PROVE  StoreOf(r)[r.files[i].name] = Stored(r, r.files[i])
  <2> DEFINE c == CHOOSE j \in Live(r) : r.files[j].name = r.files[i].name
  <2>1. c \in Live(r) /\ r.files[c].name = r.files[i].name
    OBVIOUS
  <2>2. c = i
    BY <2>1 DEF NamesUnique
  <2>3. r.files[i].name \in {r.files[j].name : j \in Live(r)}
    OBVIOUS
  <2>4. StoreOf(r)[r.files[i].name] = Stored(r, r.files[c])
    BY <2>3 DEF StoreOf
  <2> QED BY <2>2, <2>4
<1> QED BY <1>1, <1>2

\* Two stores with the same names and files are the same.
LEMMA SameStore ==
  ASSUME NEW r, NEW s, s.files = r.files, s.heap = r.heap
  PROVE  StoreOf(s) = StoreOf(r)
<1>1. Live(s) = Live(r)
  BY DEF Live
<1>2. \A e : Stored(s, e) = Stored(r, e)
  BY DEF Stored, Memory
<1> QED BY <1>1, <1>2 DEF StoreOf

\* A new entry is a new empty file.
LEMMA CreatedStore ==
  ASSUME NEW r, RdInv(r), NEW n \in Name, NEW is_dir \in BOOLEAN, ~Full(r), rd_find(r, n) = 0,
         NEW s, s.files = rd_create(r, n, is_dir).files, s.heap = r.heap
  PROVE  n \notin DOMAIN StoreOf(r) /\ StoreOf(s) = Store!With(StoreOf(r), n, Store!Empty(is_dir))
<1> DEFINE c == rd_create(r, n, is_dir)
           k == Len(r.files) + 1
<1>1. /\ RdInv(c) /\ c.heap = r.heap /\ Len(c.files) = k
      /\ (\A i \in DOMAIN r.files : c.files[i] = r.files[i])
      /\ c.files[k] = NewEntry(n, is_dir) /\ Live(c) = Live(r) \cup {k}
  BY CreateInv
<1>2. StoreOf(s) = StoreOf(c)
  BY <1>1, SameStore
<1>3. NamesUnique(r) /\ NamesUnique(c) /\ \A i \in Live(r) : r.files[i].name # n
  <2>1. r \in RdType /\ NamesUnique(r) /\ NamesUnique(c)
    BY <1>1 DEF RdInv
  <2>2. \A i \in Hits(r, n) : rd_find(r, n) = i
    BY <2>1, FindFacts
  <2>3. \A i \in Live(r) : i # 0
    BY <2>1, FilesDomain DEF Live
  <2> QED BY <2>1, <2>2, <2>3 DEF Hits, Live
<1>4. /\ \A m : m \in DOMAIN StoreOf(r) <=> \E i \in Live(r) : r.files[i].name = m
      /\ \A i \in Live(r) : StoreOf(r)[r.files[i].name] = Stored(r, r.files[i])
  BY <1>3, StoreFacts
<1>5. /\ \A m : m \in DOMAIN StoreOf(c) <=> \E i \in Live(c) : c.files[i].name = m
      /\ \A i \in Live(c) : StoreOf(c)[c.files[i].name] = Stored(c, c.files[i])
  BY <1>3, StoreFacts
<1>6. c.files[k].name = n /\ Stored(c, c.files[k]) = Store!Empty(is_dir)
  <2>1. c.files[k].name = n /\ c.files[k].is_dir = is_dir /\ c.files[k].size = 0 /\ c.files[k].data = 0
    BY <1>1 DEF NewEntry
  <2>2. SubSeq(<<>>, 1, 0) = <<>>
    OBVIOUS
  <2> HIDE DEF c, k
  <2> QED BY <2>1, <2>2 DEF Stored, Store!Empty, Memory
<1>7. \A i \in Live(r) : c.files[i] = r.files[i] /\ Stored(c, c.files[i]) = Stored(r, r.files[i])
  BY <1>1 DEF Live, Stored, Memory
<1> HIDE DEF c, k
<1>8. \A m : m \in DOMAIN StoreOf(c) <=> m \in DOMAIN StoreOf(r) \/ m = n
  BY <1>1, <1>4, <1>5, <1>6, <1>7
<1>9. \A m \in DOMAIN StoreOf(r) : StoreOf(c)[m] = StoreOf(r)[m] /\ m # n
  BY <1>1, <1>3, <1>4, <1>5, <1>7
<1>10. StoreOf(c)[n] = Store!Empty(is_dir) /\ n \notin DOMAIN StoreOf(r)
  BY <1>1, <1>5, <1>6, <1>3, <1>4
<1>11. StoreOf(c) = [m \in DOMAIN StoreOf(c) |-> StoreOf(c)[m]]
  BY DEF StoreOf
<1>12. DOMAIN StoreOf(c) = DOMAIN StoreOf(r) \cup {n}
  BY <1>8
<1> QED BY <1>2, <1>9, <1>10, <1>11, <1>12 DEF Store!With

\* An entry that is gone is a file less.
LEMMA GoneStore ==
  ASSUME NEW r, RdInv(r), NEW s, RdInv(s), NEW k \in Live(r), Live(s) = Live(r) \ {k},
         \A j \in Live(s) : s.files[j] = r.files[j],
         \A b \in DOMAIN s.heap : s.heap[b] = r.heap[b],
         NEW n, n = r.files[k].name
  PROVE  /\ n \in DOMAIN StoreOf(r) /\ n \notin DOMAIN StoreOf(s)
         /\ StoreOf(s) = Store!Without(StoreOf(r), n)
<1>1. NamesUnique(r) /\ NamesUnique(s) /\ BlockOf(s)
  BY DEF RdInv
<1>2. /\ \A m : m \in DOMAIN StoreOf(r) <=> \E i \in Live(r) : r.files[i].name = m
      /\ \A i \in Live(r) : StoreOf(r)[r.files[i].name] = Stored(r, r.files[i])
  BY <1>1, StoreFacts
<1>3. /\ \A m : m \in DOMAIN StoreOf(s) <=> \E i \in Live(s) : s.files[i].name = m
      /\ \A i \in Live(s) : StoreOf(s)[s.files[i].name] = Stored(s, s.files[i])
  BY <1>1, StoreFacts
<1>4. \A i \in Live(s) : i \in Live(r) /\ i # k /\ s.files[i] = r.files[i] /\ Stored(s, s.files[i]) = Stored(r, r.files[i])
  BY <1>1 DEF BlockOf, Stored, Memory
<1>5. \A i \in Live(r) : i # k => i \in Live(s) /\ r.files[i].name # n
  BY <1>1 DEF NamesUnique
<1>6. \A m : m \in DOMAIN StoreOf(s) <=> m \in DOMAIN StoreOf(r) /\ m # n
  BY <1>2, <1>3, <1>4, <1>5
<1>7. \A m \in DOMAIN StoreOf(s) : StoreOf(s)[m] = StoreOf(r)[m]
  BY <1>2, <1>3, <1>4
<1>8. StoreOf(s) = [m \in DOMAIN StoreOf(s) |-> StoreOf(s)[m]]
  BY DEF StoreOf
<1>9. DOMAIN StoreOf(s) = DOMAIN StoreOf(r) \ {n}
  BY <1>6
<1>10. n \in DOMAIN StoreOf(r)
  BY <1>2
<1> QED BY <1>6, <1>7, <1>8, <1>9, <1>10 DEF Store!Without

\* The bytes of one file change.
OneFileChanged(f, g, n) == g = [f EXCEPT ![n].bytes = g[n].bytes]

LEMMA BytesStore ==
  ASSUME NEW r, RdInv(r), NEW s, RdInv(s), SameNames(r, s), NEW k \in Live(r),
         \A j \in Live(r) : j # k => Stored(s, s.files[j]) = Stored(r, r.files[j]),
         NEW n, n = r.files[k].name
  PROVE  /\ n \in DOMAIN StoreOf(r)
         /\ StoreOf(r)[n] = Stored(r, r.files[k]) /\ StoreOf(s)[n] = Stored(s, s.files[k])
         /\ OneFileChanged(StoreOf(r), StoreOf(s), n)
<1>1. NamesUnique(r) /\ NamesUnique(s)
  BY DEF RdInv
<1>2. /\ \A m : m \in DOMAIN StoreOf(r) <=> \E i \in Live(r) : r.files[i].name = m
      /\ \A i \in Live(r) : StoreOf(r)[r.files[i].name] = Stored(r, r.files[i])
  BY <1>1, StoreFacts
<1>3. /\ \A m : m \in DOMAIN StoreOf(s) <=> \E i \in Live(s) : s.files[i].name = m
      /\ \A i \in Live(s) : StoreOf(s)[s.files[i].name] = Stored(s, s.files[i])
  BY <1>1, StoreFacts
<1>4. Live(s) = Live(r) /\ \A i \in Live(r) : s.files[i].name = r.files[i].name /\ s.files[i].is_dir = r.files[i].is_dir
  BY FilesDomain DEF Live, SameNames, RdInv
<1>5. n \in DOMAIN StoreOf(r) /\ StoreOf(r)[n] = Stored(r, r.files[k]) /\ StoreOf(s)[n] = Stored(s, s.files[k])
  BY <1>2, <1>3, <1>4
<1>6. DOMAIN StoreOf(s) = DOMAIN StoreOf(r)
  BY <1>2, <1>3, <1>4
<1>7. \A m \in DOMAIN StoreOf(r) : m # n => StoreOf(s)[m] = StoreOf(r)[m]
  BY <1>2, <1>3, <1>4
<1>8. /\ StoreOf(s) = [m \in DOMAIN StoreOf(s) |-> StoreOf(s)[m]]
      /\ StoreOf(r) = [m \in DOMAIN StoreOf(r) |-> StoreOf(r)[m]]
  BY DEF StoreOf
<1>9. StoreOf(s)[n] = [StoreOf(r)[n] EXCEPT !.bytes = StoreOf(s)[n].bytes]
  <2>1. PICK d, x : d = r.files[k].is_dir /\ StoreOf(r)[n] = [dir |-> d, bytes |-> x]
    BY <1>5, Zenon DEF Stored
  <2>2. PICK y : StoreOf(s)[n] = [dir |-> s.files[k].is_dir, bytes |-> y]
    BY <1>5, Zenon DEF Stored
  <2>3. s.files[k].is_dir = d
    BY <1>4, <2>1
  <2> QED BY <2>1, <2>2, <2>3
<1>10. StoreOf(s) = [StoreOf(r) EXCEPT ![n].bytes = StoreOf(s)[n].bytes]
  BY <1>5, <1>6, <1>7, <1>8, <1>9
<1> QED BY <1>5, <1>10 DEF OneFileChanged

-----------------------------------------------------------------------------
(***************************************************************************)
(* The handles                                                             *)
(***************************************************************************)
HandleOf(fd) == [name |-> rd.files[rd.open[fd_table[fd].data]].name, pos |-> rd.pos[fd_table[fd].data]]

LEMMA HandlesNowIs ==
  /\ HandlesNow = [fd \in InUseOnRamdisk |-> HandleOf(fd)] /\ DOMAIN HandlesNow = InUseOnRamdisk
  /\ \A fd \in InUseOnRamdisk : HandlesNow[fd] = HandleOf(fd)
BY DEF HandlesNow, HandleOf

\* Which descriptors are on the ramdisk depends on the paths and the mounts.
LEMMA SameUse ==
  ASSUME fd_table' = fd_table, mounts' = mounts
  PROVE  InUseOnRamdisk' = InUseOnRamdisk
<1>1. InUse' = InUse
  BY DEF InUse
<1>2. \A p : MountOf(p)' = MountOf(p)
  BY SameMounts
<1> QED BY <1>1, <1>2 DEF InUseOnRamdisk, Fs

LEMMA SameHandles ==
  ASSUME fd_table' = fd_table, mounts' = mounts,
         \A fd \in InUseOnRamdisk : HandleOf(fd)' = HandleOf(fd)
  PROVE  HandlesNow' = HandlesNow
<1>1. InUseOnRamdisk' = InUseOnRamdisk
  BY SameUse
<1> QED BY <1>1, HandlesNowIs DEF HandlesNow, HandleOf

\* One position moves.
LEMMA MovedHandle ==
  ASSUME VInv, fd_table' = fd_table, mounts' = mounts, SameNames(rd, rd'),
         NEW fd \in InUseOnRamdisk, NEW p, rd'.pos = [rd.pos EXCEPT ![fd_table[fd].data] = p]
  PROVE  HandlesNow' = [HandlesNow EXCEPT ![fd].pos = p] /\ HandlesNow'[fd].pos = p
<1>1. InUseOnRamdisk' = InUseOnRamdisk
  BY SameUse
<1>2. \A x \in InUseOnRamdisk : x \in Fds /\ fd_table[x].data \in RdFds /\ rd.open[fd_table[x].data] \in DOMAIN rd.files
  BY OpenLive DEF Live, InUseOnRamdisk, InUse
<1>3. \A x \in InUseOnRamdisk : HandleOf(x)'.name = HandleOf(x).name
  BY <1>2 DEF HandleOf, SameNames
<1>4. rd.pos \in [RdFds -> Nat]
  BY DEF VInv, RdInv, RdType
<1>5. \A x \in InUseOnRamdisk : HandleOf(x)'.pos = IF x = fd THEN p ELSE HandleOf(x).pos
  BY <1>2, <1>4 DEF HandleOf, VInv, Connected
<1>6. \A x \in InUseOnRamdisk : HandleOf(x)' = [HandleOf(x) EXCEPT !.pos = IF x = fd THEN p ELSE HandleOf(x).pos]
  BY <1>3, <1>5 DEF HandleOf
<1>7. \A x \in InUseOnRamdisk : HandlesNow'[x] = HandleOf(x)'
  BY <1>1, HandlesNowIs DEF HandlesNow, HandleOf
<1>8. HandlesNow' = [x \in InUseOnRamdisk |-> HandlesNow'[x]]
  BY <1>1 DEF HandlesNow
<1>9. ASSUME NEW x \in InUseOnRamdisk, x # fd PROVE HandlesNow'[x] = HandlesNow[x]
  <2>1. PICK n, q : HandleOf(x) = [name |-> n, pos |-> q]
    BY Zenon DEF HandleOf
  <2>2. HandleOf(x)' = [HandleOf(x) EXCEPT !.pos = HandleOf(x).pos]
    BY <1>6, <1>9
  <2>3. HandleOf(x)' = HandleOf(x)
    BY <2>1, <2>2
  <2> QED BY <1>7, <2>3, HandlesNowIs
<1>10. HandlesNow'[fd] = [HandlesNow[fd] EXCEPT !.pos = p] /\ HandlesNow'[fd].pos = p
  BY <1>5, <1>6, <1>7, HandlesNowIs
<1> QED BY <1>8, <1>9, <1>10, HandlesNowIs

-----------------------------------------------------------------------------
(***************************************************************************)
(* Each call is a step of the store                                        *)
(***************************************************************************)
LEMMA ByStep ==
  Store!Step(StoreNow, StoreNow', HandlesNow, HandlesNow') => Store!Next
BY DEF Store!Next

\* A call that changes neither files nor positions.
LEMMA QuietStep ==
  ASSUME got' = <<>>, StoreNow' = StoreNow, HandlesNow' = HandlesNow
  PROVE  Store!Next
<1>1. Store!Step(StoreNow, StoreNow', HandlesNow, HandlesNow')
  BY DEF Store!Step
<1> QED BY <1>1, ByStep

LEMMA StoreKept ==
  ASSUME rd'.files = rd.files, rd'.heap = rd.heap
  PROVE  StoreNow' = StoreNow
<1>1. StoreOf(rd') = StoreOf(rd)
  BY SameStore
<1> QED BY <1>1, StoreNowIs, StoreNextIs

LEMMA CloseStep ==
  ASSUME VInv, NEW fd \in Fds, vfs_close(fd)
  PROVE  Store!Next
<1>1. /\ fd \in InUse /\ mounts' = mounts /\ rd' = rd /\ got' = <<>>
      /\ fd_table' = [fd_table EXCEPT ![fd] = Closed]
  BY DEF vfs_close
<1>2. fd_table'[fd] = Closed /\ \A x \in Fds : x # fd => fd_table'[x] = fd_table[x]
  BY <1>1 DEF VInv, Shapes
<1>3. InUse' = InUse \ {fd}
  BY <1>2 DEF InUse
<1>4. \A p : MountOf(p)' = MountOf(p)
  BY <1>1, SameMounts
<1>5. InUseOnRamdisk' = InUseOnRamdisk \ {fd}
  BY <1>2, <1>3, <1>4 DEF InUseOnRamdisk, Fs, InUse
<1>6. StoreNow' = StoreNow
  BY <1>1, StoreKept
<1>7. HandlesNow' = [x \in InUseOnRamdisk \ {fd} |-> HandlesNow[x]]
  <2>1. \A x \in InUseOnRamdisk \ {fd} : fd_table'[x] = fd_table[x]
    BY <1>2 DEF InUseOnRamdisk, InUse
  <2> QED BY <1>1, <1>5, <2>1 DEF HandlesNow
<1>8. CASE fd \in InUseOnRamdisk
  <2>1. fd \in DOMAIN HandlesNow \ DOMAIN HandlesNow'
    BY <1>7, <1>8, HandlesNowIs
  <2>2. HandlesNow' = Store!Without(HandlesNow, fd)
    BY <1>7, HandlesNowIs DEF Store!Without
  <2>3. Store!Close(HandlesNow, HandlesNow')
    BY <2>1, <2>2 DEF Store!Close
  <2>4. Store!Step(StoreNow, StoreNow', HandlesNow, HandlesNow')
    BY <1>1, <1>6, <2>3 DEF Store!Step
  <2> QED BY <2>4, ByStep
<1>9. CASE fd \notin InUseOnRamdisk
  <2>1. InUseOnRamdisk \ {fd} = InUseOnRamdisk
    BY <1>9
  <2>2. HandlesNow' = HandlesNow
    BY <1>7, <2>1, HandlesNowIs
  <2> QED BY <1>1, <1>6, <2>2, QuietStep
<1> QED BY <1>8, <1>9

\* A read by n bytes.
ReadBy(r, fd, e, n, w) ==
  /\ w.rd = [r EXCEPT !.pos[fd] = r.pos[fd] + n]
  /\ w.bytes = SubSeq(Memory(r, e), r.pos[fd] + 1, r.pos[fd] + n)
  /\ n > 0 => r.pos[fd] + n <= e.size

\* How far a read goes, and what it returns.
LEMMA ReadIs ==
  ASSUME NEW r, RdInv(r), NEW fd \in RdFds, NEW size \in Nat, r.open[fd] \in Live(r),
         NEW w, w = ramdisk_read(r, fd, size), NEW e, e = r.files[r.open[fd]]
  PROVE  \E n \in Nat : ReadBy(r, fd, e, n, w)
<1> DEFINE pos == r.pos[fd]
           n == Min({size, e.size - pos})
<1>1. r.open[fd] # 0 /\ e \in EntryT /\ pos \in Nat /\ r \in RdType
  BY FilesDomain DEF RdInv, RdType, Live
<1>2. e.size \in Nat
  BY <1>1 DEF EntryT
<1>3. CASE pos >= e.size
  <2>1. w.rd = r /\ w.bytes = <<>>
    BY <1>1, <1>3 DEF ramdisk_read, Done
  <2>2. SubSeq(Memory(r, e), pos + 1, pos) = <<>>
    <3>1. Memory(r, e) \in Seq(Content)
      BY MemoryFacts
    <3> QED BY <1>1, <3>1
  <2>3. [r EXCEPT !.pos[fd] = pos] = r
    BY <1>1 DEF RdType
  <2>4. PICK n0 \in Nat : n0 = 0 /\ pos + n0 = pos /\ ~(n0 > 0)
    BY <1>1
  <2>5. ReadBy(r, fd, e, n0, w)
    BY <2>1, <2>2, <2>3, <2>4 DEF ReadBy
  <2> QED BY <2>5
<1>4. CASE ~(pos >= e.size)
  <2>1. n \in Nat /\ n <= e.size - pos
    BY <1>1, <1>2, <1>4, MinOfTwo
  <2>2. w.rd = [r EXCEPT !.pos[fd] = pos + n] /\ w.bytes = SubSeq(Memory(r, e), pos + 1, pos + n)
    BY <1>1, <1>4 DEF ramdisk_read, Done
  <2> HIDE DEF n
  <2>3. ReadBy(r, fd, e, n, w)
    BY <1>1, <1>2, <2>1, <2>2 DEF ReadBy
  <2> QED BY <2>1, <2>3
<1> QED BY <1>3, <1>4

\* A part of the beginning is a part of the whole.
LEMMA PartOfPart ==
  ASSUME NEW mem \in Seq(Content), NEW sz \in Nat, sz <= Len(mem), NEW pos \in Nat, NEW n \in Nat,
         n > 0 => pos + n <= sz, NEW all, all = SubSeq(mem, 1, sz), NEW part, part = SubSeq(mem, pos + 1, pos + n)
  PROVE  Len(part) = n /\ Len(all) = sz /\ part = SubSeq(all, pos + 1, pos + n)
<1>1. Len(all) = sz /\ all \in Seq(Content) /\ \A j \in 1..sz : all[j] = mem[j]
  <2>1. 1 \in 1..(Len(mem) + 1) /\ sz \in 0..Len(mem)
    OBVIOUS
  <2>2. /\ SubSeq(mem, 1, sz) \in Seq(Content) /\ Len(SubSeq(mem, 1, sz)) = IF 1 <= sz THEN sz - 1 + 1 ELSE 0
        /\ \A j \in 1..(sz - 1 + 1) : SubSeq(mem, 1, sz)[j] = mem[1 + j - 1]
    BY <2>1, SubSeqProperties
  <2>3. sz - 1 + 1 = sz /\ (~(1 <= sz) => sz = 0) /\ \A j \in 1..sz : 1 + j - 1 = j
    OBVIOUS
  <2> QED BY <2>2, <2>3
<1>2. CASE n = 0
  <2>1. \A q \in Seq(Content) : SubSeq(q, pos + 1, pos + 0) = <<>>
    OBVIOUS
  <2>2. part = <<>> /\ SubSeq(all, pos + 1, pos + n) = <<>>
    BY <1>1, <1>2, <2>1
  <2> QED BY <1>1, <1>2, <2>2
<1>3. CASE n > 0
  <2>1. Len(part) = n /\ part \in Seq(Content) /\ \A j \in 1..n : part[j] = mem[pos + j]
    BY <1>3
  <2> DEFINE again == SubSeq(all, pos + 1, pos + n)
  <2>2. again \in Seq(Content) /\ Len(again) = n /\ \A j \in 1..n : again[j] = all[pos + j]
    BY <1>1, <1>3
  <2>3. \A j \in 1..n : pos + j \in 1..sz
    BY <1>3
  <2> HIDE DEF again
  <2>4. \A j \in 1..Len(part) : part[j] = again[j]
    BY <1>1, <2>1, <2>2, <2>3
  <2>5. part = again
    BY <2>1, <2>2, <2>4, SeqEqual
  <2> QED BY <1>1, <2>1, <2>5 DEF again
<1> QED BY <1>2, <1>3

\* Bytes that are read are those of the file from the position on.
LEMMA ReadingStep ==
  ASSUME VInv, NEW fd \in Fds, fd \in InUse, NEW size \in Nat, NEW h,
         Reading(fd, h, ReadFrom(fd, size))
  PROVE  Store!Next
<1>1. /\ fd_table' = fd_table /\ mounts' = mounts /\ rd' = ReadFrom(fd, size).rd
      /\ got' = IF Fs(fd) = "ramdisk" THEN ReadFrom(fd, size).bytes ELSE <<>>
  BY DEF Reading
<1>2. CASE Fs(fd) # "ramdisk"
  <2>1. rd' = rd /\ got' = <<>>
    BY <1>1, <1>2, DoneFacts DEF ReadFrom, proc_read
  <2>2. StoreNow' = StoreNow
    BY <2>1, StoreKept
  <2>3. HandlesNow' = HandlesNow
    BY <1>1, <2>1, SameHandles DEF HandleOf
  <2> QED BY <2>1, <2>2, <2>3, QuietStep
<1>3. CASE Fs(fd) = "ramdisk"
  <2> DEFINE d == fd_table[fd].data
             k == rd.open[d]
             e == rd.files[k]
             pos == rd.pos[d]
             all == SubSeq(Memory(rd, e), 1, e.size)
  <2>1. fd \in InUseOnRamdisk /\ d \in RdFds /\ k \in Live(rd) /\ RdInv(rd)
    BY <1>3, OpenLive DEF InUseOnRamdisk, VInv
  <2>2. /\ e \in EntryT /\ pos \in Nat /\ rd.pos \in [RdFds -> Nat] /\ rd \in RdType
        /\ e.size \in Nat /\ e.size <= e.capacity
    <3>1. rd \in RdType /\ k \in DOMAIN rd.files /\ e.size <= e.capacity
      BY <2>1 DEF RdInv, Live, BlockOf
    <3>2. e \in EntryT /\ rd.pos \in [RdFds -> Nat]
      BY <3>1, FilesDomain DEF RdType
    <3> QED BY <2>1, <3>1, <3>2 DEF EntryT
  <2>3. Memory(rd, e) \in Seq(Content) /\ Len(Memory(rd, e)) = e.capacity
    BY <2>1, MemoryFacts
  <2>4. rd' = ramdisk_read(rd, d, size).rd /\ got' = ramdisk_read(rd, d, size).bytes
    BY <1>1, <1>3 DEF ReadFrom
  <2> HIDE DEF e
  <2>0. PICK n \in Nat : ReadBy(rd, d, e, n, ramdisk_read(rd, d, size))
    BY <2>1, ReadIs DEF e
  <2>5. /\ rd' = [rd EXCEPT !.pos[d] = pos + n]
        /\ got' = SubSeq(Memory(rd, e), pos + 1, pos + n)
        /\ n > 0 => pos + n <= e.size
    BY <2>0, <2>4 DEF ReadBy
  <2>6. rd'.files = rd.files /\ rd'.heap = rd.heap /\ rd'.open = rd.open /\ rd'.pos = [rd.pos EXCEPT ![d] = pos + n]
    BY <2>2, <2>5 DEF RdType
  <2>7. StoreNow' = StoreNow
    BY <2>6, StoreKept
  <2>8. HandlesNow' = [HandlesNow EXCEPT ![fd].pos = pos + n]
    <3>1. SameNames(rd, rd')
      BY <2>6 DEF SameNames
    <3> HIDE DEF pos
    <3> QED BY <1>1, <2>1, <2>6, <3>1, MovedHandle
  <2>9. Len(got') = n /\ got' = SubSeq(all, pos + 1, pos + n) /\ (got' # <<>> => pos + n <= Len(all))
    <3>0. PICK mem, sz : mem = Memory(rd, e) /\ sz = e.size /\ all = SubSeq(mem, 1, sz)
      OBVIOUS
    <3> HIDE DEF all, pos
    <3>3. mem \in Seq(Content) /\ sz \in Nat /\ sz <= Len(mem) /\ got' = SubSeq(mem, pos + 1, pos + n) /\ (n > 0 => pos + n <= sz)
      BY <2>2, <2>3, <2>5, <3>0
    <3>4. Len(got') = n /\ Len(all) = sz /\ got' = SubSeq(all, pos + 1, pos + n)
      <4>1. PICK part, at : part = got' /\ at = pos
        OBVIOUS
      <4>2. /\ mem \in Seq(Content) /\ sz \in Nat /\ sz <= Len(mem) /\ at \in Nat /\ n \in Nat
            /\ (n > 0 => at + n <= sz) /\ all = SubSeq(mem, 1, sz) /\ part = SubSeq(mem, at + 1, at + n)
        BY <2>0, <2>2, <3>0, <3>3, <4>1 DEF pos
      <4>3. Len(part) = n /\ Len(all) = sz /\ part = SubSeq(all, at + 1, at + n)
        BY <4>2, PartOfPart
      <4> QED BY <4>1, <4>3
    <3>1. Len(got') = n /\ Len(all) = e.size /\ got' = SubSeq(all, pos + 1, pos + n)
      BY <3>0, <3>4
    <3>2. got' # <<>> => n > 0
      BY <2>5, <2>3, <2>2
    <3> QED BY <2>5, <3>1, <3>2
  <2>10. fd \in DOMAIN HandlesNow /\ HandlesNow[fd].name = e.name /\ HandlesNow[fd].pos = pos
    BY <2>1, HandlesNowIs DEF HandleOf, e
  <2>11. StoreNow[e.name].bytes = all
    <3>1. StoreOf(rd)[e.name] = Stored(rd, e)
      BY <2>1, StoreFacts DEF RdInv, e
    <3>2. Stored(rd, e).bytes = all
      BY DEF Stored
    <3> QED BY <3>1, <3>2, StoreNowIs
  <2> HIDE DEF all, e, pos, d
  <2>12. Store!Read(StoreNow, HandlesNow, HandlesNow', got')
    BY <2>8, <2>9, <2>10, <2>11 DEF Store!Read
  <2>13. Store!Step(StoreNow, StoreNow', HandlesNow, HandlesNow')
    BY <2>7, <2>12 DEF Store!Step
  <2> QED BY <2>13, ByStep
<1> QED BY <1>2, <1>3

\* Where a seek leads.
Sought(r, fd, p, w) == w.rd = [r EXCEPT !.pos[fd] = p]

LEMMA SeekIs ==
  ASSUME NEW r, RdInv(r), NEW fd \in RdFds, NEW offset \in Int, NEW whence \in {"SET", "CUR", "END"},
         r.open[fd] \in Live(r), NEW w, w = ramdisk_seek(r, fd, offset, whence)
  PROVE  \E p \in 0..r.files[r.open[fd]].size : Sought(r, fd, p, w)
<1> DEFINE size == r.files[r.open[fd]].size
           o == Origin(r, fd, whence)
           p == Clamp(o + offset, size)
<1>1. r.open[fd] # 0 /\ r.files[r.open[fd]] \in EntryT /\ r.pos[fd] \in Nat
  BY FilesDomain DEF RdInv, RdType, Live
<1>2. size \in Nat /\ o \in Int
  BY <1>1 DEF EntryT, Origin
<1>3. w.rd = [r EXCEPT !.pos[fd] = p]
  BY <1>1 DEF ramdisk_seek, Done
<1> HIDE DEF size, o
<1>4. Max({0, o + offset}) \in Nat
  BY <1>2, MaxOfTwo
<1>5. p \in 0..size
  <2>1. PICK m \in Nat : m = Max({0, o + offset})
    BY <1>4
  <2>2. p = Min({m, size})
    BY <2>1 DEF Clamp
  <2>4. \A a, b \in Int : Min({a, b}) = IF a <= b THEN a ELSE b
    BY MinOfTwo
  <2>5. m \in Int /\ size \in Int
    BY <1>2
  <2>3. Min({m, size}) = IF m <= size THEN m ELSE size
    BY <2>4, <2>5, Zenon
  <2> HIDE DEF p
  <2> QED BY <1>2, <2>1, <2>2, <2>3
<1> HIDE DEF p
<1>6. Sought(r, fd, p, w)
  BY <1>3 DEF Sought
<1> QED BY <1>5, <1>6 DEF size

LEMMA SeekStep ==
  ASSUME VInv, NEW fd \in Fds, NEW offset \in Int, NEW whence \in {"SET", "CUR", "END"}, vfs_seek(fd, offset, whence)
  PROVE  Store!Next
<1> DEFINE d == fd_table[fd].data
           k == rd.open[d]
           e == rd.files[k]
<1>1. /\ fd \in InUseOnRamdisk /\ rd' = ramdisk_seek(rd, d, offset, whence).rd /\ got' = <<>>
      /\ fd_table' = fd_table /\ mounts' = mounts
  BY DEF vfs_seek, OnRamdisk, InUseOnRamdisk, Apply, Changed
<1>2. d \in RdFds /\ k \in Live(rd) /\ RdInv(rd) /\ rd \in RdType
  BY <1>1, OpenLive DEF VInv, RdInv
<1>0. PICK p \in 0..e.size : Sought(rd, d, p, ramdisk_seek(rd, d, offset, whence))
  BY <1>2, SeekIs
<1>3. rd' = [rd EXCEPT !.pos[d] = p]
  BY <1>0, <1>1 DEF Sought
<1>4. rd'.files = rd.files /\ rd'.heap = rd.heap /\ rd'.open = rd.open /\ rd'.pos = [rd.pos EXCEPT ![d] = p]
  BY <1>2, <1>3 DEF RdType
<1>5. StoreNow' = StoreNow
  BY <1>4, StoreKept
<1>6. HandlesNow' = [HandlesNow EXCEPT ![fd].pos = p] /\ HandlesNow'[fd].pos = p
  <2>1. SameNames(rd, rd')
    BY <1>4 DEF SameNames
  <2> QED BY <1>1, <1>4, <2>1, MovedHandle
<1>7. fd \in DOMAIN HandlesNow /\ HandlesNow[fd].name = e.name
  BY <1>1, HandlesNowIs DEF HandleOf
<1>8. Len(StoreNow[e.name].bytes) = e.size
  <2>1. StoreOf(rd)[e.name] = Stored(rd, e)
    BY <1>2, StoreFacts DEF RdInv
  <2>2. Memory(rd, e) \in Seq(Content) /\ Len(Memory(rd, e)) = e.capacity
    BY <1>2, MemoryFacts
  <2>3. e \in EntryT /\ e.size <= e.capacity
    BY <1>2, FilesDomain DEF RdInv, Live, BlockOf
  <2>4. e.size \in Nat
    BY <2>3 DEF EntryT
  <2> HIDE DEF e
  <2>5. Len(SubSeq(Memory(rd, e), 1, e.size)) = e.size
    BY <2>2, <2>3, <2>4
  <2>6. Stored(rd, e).bytes = SubSeq(Memory(rd, e), 1, e.size)
    BY DEF Stored
  <2> QED BY <2>1, <2>5, <2>6, StoreNowIs
<1>9. fd \in DOMAIN HandlesNow'
  BY <1>6, <1>7
<1> HIDE DEF e, d
<1>10. Store!Seek(StoreNow, HandlesNow, HandlesNow')
  BY <1>0, <1>6, <1>7, <1>8, <1>9 DEF Store!Seek
<1>11. Store!Step(StoreNow, StoreNow', HandlesNow, HandlesNow')
  BY <1>1, <1>5, <1>10 DEF Store!Step
<1> QED BY <1>11, ByStep

\* The entry that is cut, and the others.
LEMMA TruncateIs ==
  ASSUME NEW r, RdInv(r), NEW fd \in RdFds, NEW size \in Nat, r.open[fd] \in Live(r),
         NEW s, s = ramdisk_truncate(r, fd, size).rd, NEW k, k = r.open[fd]
  PROVE  /\ s.heap = r.heap /\ s.pos = r.pos
         /\ \A j \in Live(r) : j # k => s.files[j] = r.files[j]
         /\ s.files[k].data = r.files[k].data /\ s.files[k].size = size
<1> DEFINE e == [r.files[k] EXCEPT !.size = size]
<1>1. r \in RdType /\ k \in DOMAIN r.files /\ k # 0 /\ r.files[k] \in EntryT
  BY FilesDomain DEF RdInv, Live
<1>2. s = [r EXCEPT !.files[k].size = size]
  BY <1>1, DoneFacts DEF ramdisk_truncate
<1>3. s.files = [r.files EXCEPT ![k] = e] /\ s.heap = r.heap /\ s.pos = r.pos
  BY <1>1, <1>2 DEF RdType
<1>4. e.data = r.files[k].data /\ e.size = size
  BY <1>1 DEF EntryT
<1> HIDE DEF e
<1> QED BY <1>1, <1>3, <1>4 DEF Live

LEMMA TruncateStep ==
  ASSUME VInv, VInv', NEW fd \in Fds, 1 <= Capacity(fd), vfs_truncate(fd, 1)
  PROVE  Store!Next
<1> DEFINE d == fd_table[fd].data
           k == rd.open[d]
           n == rd.files[k].name
           old == StoreNow[n].bytes
           new == StoreNow'[n].bytes
<1>1. /\ fd \in InUseOnRamdisk /\ rd' = ramdisk_truncate(rd, d, 1).rd /\ got' = <<>>
      /\ fd_table' = fd_table /\ mounts' = mounts
  BY DEF vfs_truncate, OnRamdisk, InUseOnRamdisk, Apply, Changed
<1>2. d \in RdFds /\ k \in Live(rd) /\ RdInv(rd) /\ RdInv(rd')
  BY <1>1, OpenLive DEF VInv
<1>3. SameNames(rd, rd')
  BY <1>1, <1>2, TruncateInv DEF Capacity
<1>4. /\ rd'.heap = rd.heap /\ rd'.pos = rd.pos
      /\ \A j \in Live(rd) : j # k => rd'.files[j] = rd.files[j]
      /\ rd'.files[k].data = rd.files[k].data /\ rd'.files[k].size = 1
  BY <1>1, <1>2, TruncateIs
<1>5. \A j \in Live(rd) : j # k => Stored(rd', rd'.files[j]) = Stored(rd, rd.files[j])
  BY <1>4 DEF Stored, Memory
<1>6. /\ StoreOf(rd)[n] = Stored(rd, rd.files[k]) /\ StoreOf(rd')[n] = Stored(rd', rd'.files[k])
      /\ OneFileChanged(StoreOf(rd), StoreOf(rd'), n)
  BY <1>2, <1>3, <1>5, BytesStore
<1>7. /\ StoreNow[n] = Stored(rd, rd.files[k]) /\ StoreNow'[n] = Stored(rd', rd'.files[k])
      /\ StoreNow' = [StoreNow EXCEPT ![n].bytes = new]
  BY <1>6, StoreNowIs, StoreNextIs DEF OneFileChanged
<1>8. \A j \in 1..Store!Lesser(Len(new), Len(old)) : new[j] = old[j]
  <2>1. PICK mem, sz, cap : mem = Memory(rd, rd.files[k]) /\ sz = rd.files[k].size /\ cap = rd.files[k].capacity
    OBVIOUS
  <2>2. mem \in Seq(Content) /\ Len(mem) = cap
    BY <1>2, <2>1, MemoryFacts
  <2>3. sz <= cap /\ 1 <= cap
    BY <1>2, <2>1 DEF RdInv, BlockOf, Capacity
  <2>4. sz \in Nat /\ cap \in Nat
    BY <1>2, <2>1, FilesDomain DEF RdInv, Live, EntryT
  <2>5. old = SubSeq(mem, 1, sz) /\ new = SubSeq(mem, 1, 1)
    <3>1. Stored(rd, rd.files[k]).bytes = SubSeq(mem, 1, sz)
      BY <2>1 DEF Stored
    <3>2. Memory(rd', rd'.files[k]) = mem
      BY <1>4, <2>1 DEF Memory
    <3>3. Stored(rd', rd'.files[k]).bytes = SubSeq(mem, 1, 1)
      BY <1>4, <3>2 DEF Stored
    <3> QED BY <1>7, <3>1, <3>3
  <2> HIDE DEF old, new
  <2>6. /\ Len(old) = sz /\ (\A j \in 1..sz : old[j] = mem[j])
        /\ Len(new) = 1 /\ (\A j \in 1..1 : new[j] = mem[j])
    BY <2>2, <2>3, <2>4, <2>5
  <2> QED BY <2>4, <2>6 DEF Store!Lesser
<1>9. HandlesNow' = HandlesNow
  <2>1. \A x \in InUseOnRamdisk : HandleOf(x)' = HandleOf(x)
    <3>1. \A x \in InUseOnRamdisk : rd.open[fd_table[x].data] \in DOMAIN rd.files
      BY OpenLive DEF Live, InUseOnRamdisk, InUse
    <3> QED BY <1>1, <1>3, <1>4, <3>1 DEF HandleOf, SameNames
  <2> QED BY <1>1, <2>1, SameHandles
<1>10. fd \in DOMAIN HandlesNow /\ HandlesNow[fd].name = n
  BY <1>1, HandlesNowIs DEF HandleOf
<1> HIDE DEF n
<1>11. Store!Truncate(StoreNow, StoreNow', HandlesNow)
  BY <1>7, <1>8, <1>10 DEF Store!Truncate
<1>12. Store!Step(StoreNow, StoreNow', HandlesNow, HandlesNow')
  BY <1>1, <1>9, <1>11 DEF Store!Step
<1> QED BY <1>12, ByStep

\* The entry that is written, and the others.
WrittenAs(r, s, fd, e, bytes, m, z) ==
  LET k   == r.open[fd]
      end == r.pos[fd] + Len(bytes)
  IN /\ s.pos = [r.pos EXCEPT ![fd] = end]
     /\ Memory(s, s.files[k]) = m /\ s.files[k].size = z
     /\ z = (IF end >= e.size THEN end ELSE e.size) /\ z <= Len(m)
     /\ \A j \in Live(r) : j # k => Stored(s, s.files[j]) = Stored(r, r.files[j])
     /\ \A x \in 1..Len(m) :
          /\ x \in (r.pos[fd] + 1)..end => m[x] = bytes[x - r.pos[fd]]
          /\ x \notin (r.pos[fd] + 1)..end /\ x <= e.size => m[x] = Memory(r, e)[x]

LEMMA WrittenIs ==
  ASSUME NEW r, RdInv(r), NEW fd \in RdFds, NEW bytes \in Seq(Byte), r.open[fd] \in Live(r),
         NEW s, Written(r, fd, bytes, s), NEW e, e = r.files[r.open[fd]]
  PROVE  \E m \in Seq(Content), z \in Nat : WrittenAs(r, s, fd, e, bytes, m, z)
<1> DEFINE i == r.open[fd]
           end == r.pos[fd] + Len(bytes)
<1>1. r \in RdType /\ i \in DOMAIN r.files /\ e \in EntryT /\ r.heap \in HeapT /\ e.data \in Nat
  BY FilesDomain DEF RdInv, Live, RdType, EntryT
<1>2. end \in Nat /\ [r.pos EXCEPT ![fd] = end] \in [RdFds -> Nat]
  BY <1>1 DEF RdType
<1>3. PICK m \in Seq(Content), d \in Nat, z \in Nat :
        /\ s = Replaced(r, i, [e EXCEPT !.data = d, !.capacity = Len(m), !.size = z],
                        Replace(r.heap, e.data, d, m), [r.pos EXCEPT ![fd] = end])
        /\ z = (IF end >= e.size THEN end ELSE e.size) /\ z <= Len(m)
        /\ d = e.data \/ (d # 0 /\ d \notin DOMAIN r.heap)
        /\ d = 0 => Len(m) = 0
        /\ \A k \in 1..Len(m) :
             /\ k \in (r.pos[fd] + 1)..end => m[k] = bytes[k - r.pos[fd]]
             /\ k \notin (r.pos[fd] + 1)..end /\ k <= e.size => m[k] = Memory(r, e)[k]
  BY Zenon DEF Written
<1> DEFINE e2 == [e EXCEPT !.data = d, !.capacity = Len(m), !.size = z]
           h == Replace(r.heap, e.data, d, m)
           po == [r.pos EXCEPT ![fd] = end]
<1>4. e2 \in EntryT /\ e2.data = d /\ e2.size = z
  <2>1. Len(m) \in Nat
    OBVIOUS
  <2> QED BY <1>1, <2>1 DEF EntryT
<1>5. /\ h \in HeapT
      /\ d # 0 => h[d] = m
      /\ \A b \in DOMAIN r.heap : b # e.data /\ b # d => h[b] = r.heap[b]
  <2>1. PICK was : was = e.data
    OBVIOUS
  <2>2. PICK heap \in HeapT : heap = r.heap
    BY <1>1
  <2>3. d \in Nat /\ m \in Seq(Content) /\ heap \in HeapT
    BY <1>3, <2>2
  <2>4. /\ Replace(heap, was, d, m) \in HeapT
        /\ \A b : b \in DOMAIN Replace(heap, was, d, m) <=> (b \in DOMAIN heap /\ b # was) \/ (b = d /\ d # 0)
        /\ d # 0 => Replace(heap, was, d, m)[d] = m
        /\ \A b \in DOMAIN heap : b # was /\ b # d => Replace(heap, was, d, m)[b] = heap[b]
    BY <2>3, ReplaceFacts, Zenon
  <2> QED BY <2>1, <2>2, <2>4
<1>6. po \in [RdFds -> Nat] /\ s = Replaced(r, i, e2, h, po)
  BY <1>2, <1>3
<1>7. s.pos = po
  BY <1>6, <1>1 DEF Replaced, RdType
<1> HIDE DEF e2, h
<1>8. /\ s.heap = h
      /\ \A j \in DOMAIN r.files : s.files[j] = IF j = i THEN e2 ELSE r.files[j]
  <2> HIDE DEF po, i
  <2> QED BY <1>1, <1>4, <1>5, <1>6, EntryReplaced
<1>9. Memory(s, s.files[i]) = m /\ s.files[i].size = z
  <2>1. s.files[i] = e2
    BY <1>1, <1>8
  <2>2. d = 0 => m = <<>>
    BY <1>3
  <2> QED BY <1>4, <1>5, <1>8, <2>1, <2>2 DEF Memory
<1>10. ASSUME NEW j \in Live(r), j # i PROVE Stored(s, s.files[j]) = Stored(r, r.files[j])
  <2>1. s.files[j] = r.files[j]
    BY <1>8, <1>10 DEF Live
  <2>2. CASE r.files[j].data = 0
    BY <2>1, <2>2 DEF Stored, Memory
  <2>3. CASE r.files[j].data # 0
    <3>1. r.files[j].data \in DOMAIN r.heap
      BY <2>3 DEF RdInv, BlockOf
    <3>2. r.files[j].data # e.data
      BY <2>3, <1>10 DEF RdInv, OwnBlocks
    <3>3. s.heap[r.files[j].data] = r.heap[r.files[j].data]
      BY <1>3, <1>5, <1>8, <3>1, <3>2
    <3> QED BY <2>1, <3>3 DEF Stored, Memory
  <2> QED BY <2>2, <2>3
<1>11. WrittenAs(r, s, fd, e, bytes, m, z)
  BY <1>3, <1>7, <1>9, <1>10 DEF WrittenAs
<1> QED BY <1>11

\* The bytes of a file before and after a write.
Between(old, new, pos, end) ==
  /\ end >= pos
  /\ Len(new) = IF end > Len(old) THEN end ELSE Len(old)
  /\ \A k \in 1..Len(new) : k <= Store!Lesser(pos, Len(old)) \/ k > end => new[k] = old[k]
  /\ \A k \in (pos + 1)..end : new[k] \in Byte

Overwritten(mem, size, m, z, pos, bytes) ==
  /\ mem \in Seq(Content) /\ size \in Nat /\ size <= Len(mem)
  /\ m \in Seq(Content) /\ z \in Nat /\ z <= Len(m)
  /\ pos \in Nat /\ bytes \in Seq(Byte)
  /\ z = IF pos + Len(bytes) >= size THEN pos + Len(bytes) ELSE size
  /\ \A x \in 1..Len(m) :
       /\ x \in (pos + 1)..(pos + Len(bytes)) => m[x] = bytes[x - pos]
       /\ x \notin (pos + 1)..(pos + Len(bytes)) /\ x <= size => m[x] = mem[x]

LEMMA WrittenBytes ==
  ASSUME NEW mem, NEW size, NEW m, NEW z, NEW pos, NEW bytes, Overwritten(mem, size, m, z, pos, bytes),
         NEW old, old = SubSeq(mem, 1, size), NEW new, new = SubSeq(m, 1, z), NEW end, end = pos + Len(bytes)
  PROVE  Between(old, new, pos, end)
<1> USE DEF Overwritten, Between
<1>1. Len(bytes) \in Nat /\ end \in Nat /\ end >= pos
  OBVIOUS
<1>2. Len(old) = size /\ \A j \in 1..size : old[j] = mem[j]
  OBVIOUS
<1>3. Len(new) = z /\ \A j \in 1..z : new[j] = m[j]
  OBVIOUS
<1>4. ASSUME NEW k \in 1..Len(new), k <= Store!Lesser(pos, Len(old)) \/ k > end PROVE new[k] = old[k]
  <2>1. k \in 1..z /\ k \in 1..Len(m)
    BY <1>3
  <2>2. k <= size /\ k \notin (pos + 1)..end
    BY <1>1, <1>2, <1>4, <2>1 DEF Store!Lesser
  <2> QED BY <1>2, <1>3, <2>1, <2>2
<1>5. ASSUME NEW k \in (pos + 1)..end PROVE new[k] \in Byte
  <2>1. k \in 1..z /\ k \in 1..Len(m) /\ k - pos \in 1..Len(bytes)
    BY <1>1
  <2>2. bytes[k - pos] \in Byte
    BY <2>1
  <2>3. new[k] = m[k] /\ m[k] = bytes[k - pos]
    BY <1>3, <2>1
  <2> QED BY <2>2, <2>3
<1>6. Len(new) = IF end > Len(old) THEN end ELSE Len(old)
  BY <1>1, <1>2, <1>3
<1> QED BY <1>1, <1>4, <1>5, <1>6, Zenon

OnePositionMoved(h, i, x) == i = [h EXCEPT ![x].pos = i[x].pos]

LEMMA WriteBy ==
  ASSUME NEW s, NEW t, NEW h, NEW i, NEW x \in DOMAIN h, x \in DOMAIN i,
         Between(s[h[x].name].bytes, t[h[x].name].bytes, h[x].pos, i[x].pos),
         OneFileChanged(s, t, h[x].name), OnePositionMoved(h, i, x)
  PROVE  Store!Write(s, t, h, i)
<1>1. x \in DOMAIN h \cap DOMAIN i
  OBVIOUS
<1> QED BY <1>1 DEF Store!Write, Between, OneFileChanged, OnePositionMoved

LEMMA WriteStep ==
  ASSUME VInv, VInv', NEW fd \in Fds, NEW bytes \in Writes, vfs_write(fd, bytes)
  PROVE  Store!Next
<1> DEFINE d == fd_table[fd].data
           k == rd.open[d]
           e == rd.files[k]
           n == e.name
           pos == rd.pos[d]
           end == pos + Len(bytes)
           old == StoreNow[n].bytes
           new == StoreNow'[n].bytes
<1>1. fd \in InUseOnRamdisk
  BY DEF vfs_write, OnRamdisk, InUseOnRamdisk
<1>2. PICK b \in {0, Fresh} : Changed(ramdisk_write(rd, d, bytes, b))
  BY DEF vfs_write
<1>3. RdInv(rd) /\ RdInv(rd')
  BY DEF VInv
<1>4. b \in Nat /\ b \notin DOMAIN rd.heap
  <2>1. 0 \notin DOMAIN rd.heap
    BY <1>3 DEF RdInv, RdType, HeapT
  <2> QED BY <1>2, <1>3, <2>1, FreshFacts
<1>5. d \in RdFds /\ k \in Live(rd)
  BY <1>1, OpenLive
<1>6. bytes \in Seq(Byte)
  BY VfsAssumption
<1>7. got' = <<>> /\ fd_table' = fd_table /\ mounts' = mounts /\ rd' = ramdisk_write(rd, d, bytes, b).rd
  BY <1>2 DEF Changed
<1>8. rd' = rd \/ Written(rd, d, bytes, rd')
  BY <1>3, <1>4, <1>5, <1>6, <1>7, WriteFacts
<1>9. CASE rd' = rd
  <2>1. StoreNow' = StoreNow
    BY <1>9, StoreKept
  <2>2. HandlesNow' = HandlesNow
    BY <1>7, <1>9, SameHandles DEF HandleOf
  <2> QED BY <1>7, <2>1, <2>2, QuietStep
<1>10. CASE Written(rd, d, bytes, rd')
  <2>1. SameNames(rd, rd')
    BY <1>3, <1>5, <1>6, <1>10, WrittenInv
  <2>2. PICK m \in Seq(Content), z \in Nat : WrittenAs(rd, rd', d, e, bytes, m, z)
    BY <1>3, <1>5, <1>6, <1>10, WrittenIs
  <2>3. /\ rd'.pos = [rd.pos EXCEPT ![d] = end]
        /\ Memory(rd', rd'.files[k]) = m /\ rd'.files[k].size = z
        /\ z = (IF end >= e.size THEN end ELSE e.size) /\ z <= Len(m)
        /\ \A j \in Live(rd) : j # k => Stored(rd', rd'.files[j]) = Stored(rd, rd.files[j])
        /\ \A x \in 1..Len(m) :
             /\ x \in (pos + 1)..end => m[x] = bytes[x - pos]
             /\ x \notin (pos + 1)..end /\ x <= e.size => m[x] = Memory(rd, e)[x]
    BY <2>2 DEF WrittenAs
  <2>4. /\ StoreOf(rd)[n] = Stored(rd, e) /\ StoreOf(rd')[n] = Stored(rd', rd'.files[k])
        /\ OneFileChanged(StoreOf(rd), StoreOf(rd'), n)
    <3>1. \A j \in Live(rd) : j # k => Stored(rd', rd'.files[j]) = Stored(rd, rd.files[j])
      BY <2>3
    <3> QED BY <1>3, <1>5, <2>1, <3>1, BytesStore
  <2>5. OneFileChanged(StoreNow, StoreNow', n)
    BY <2>4, StoreNowIs, StoreNextIs
  <2>6. HandlesNow' = [HandlesNow EXCEPT ![fd].pos = end] /\ HandlesNow'[fd].pos = end
    <3> HIDE DEF end
    <3> QED BY <1>1, <1>7, <2>1, <2>3, MovedHandle
  <2>7. fd \in DOMAIN HandlesNow /\ HandlesNow[fd].name = n /\ HandlesNow[fd].pos = pos
    BY <1>1, HandlesNowIs DEF HandleOf
  <2>8. fd \in DOMAIN HandlesNow'
    BY <2>6, <2>7
  <2>9. Between(old, new, pos, end)
    <3>1. PICK mem, size : mem = Memory(rd, e) /\ size = e.size
      OBVIOUS
    <3>2. mem \in Seq(Content) /\ size <= Len(mem)
      BY <1>3, <1>5, <3>1, MemoryFacts DEF RdInv, BlockOf
    <3>3. size \in Nat /\ pos \in Nat
      BY <1>3, <1>5, <3>1, FilesDomain DEF RdInv, RdType, Live, EntryT
    <3>4. old = SubSeq(mem, 1, size) /\ new = SubSeq(m, 1, z)
      <4>1. Stored(rd, e).bytes = SubSeq(mem, 1, size)
        BY <3>1 DEF Stored
      <4>2. Stored(rd', rd'.files[k]).bytes = SubSeq(m, 1, z)
        BY <2>3 DEF Stored
      <4> QED BY <2>4, <4>1, <4>2, StoreNowIs, StoreNextIs
    <3>5. Overwritten(mem, size, m, z, pos, bytes)
      BY <1>6, <2>2, <2>3, <3>1, <3>2, <3>3 DEF Overwritten
    <3>6. end = pos + Len(bytes)
      OBVIOUS
    <3> HIDE DEF old, new, pos, end, e
    <3> QED BY <3>4, <3>5, <3>6, WrittenBytes
  <2> HIDE DEF old, new, pos, end, n, e
  <2>10. Store!Write(StoreNow, StoreNow', HandlesNow, HandlesNow')
    <3>1. OnePositionMoved(HandlesNow, HandlesNow', fd)
      BY <2>6 DEF OnePositionMoved
    <3>2. n = HandlesNow[fd].name /\ pos = HandlesNow[fd].pos /\ end = HandlesNow'[fd].pos
      BY <2>6, <2>7
    <3>3. old = StoreNow[n].bytes /\ new = StoreNow'[n].bytes
      BY DEF old, new
    <3> QED BY <2>5, <2>7, <2>8, <2>9, <3>1, <3>2, <3>3, WriteBy
  <2>11. Store!Step(StoreNow, StoreNow', HandlesNow, HandlesNow')
    BY <1>7, <2>10 DEF Store!Step
  <2> QED BY <2>11, ByStep
<1> QED BY <1>8, <1>9, <1>10

\* A step that keeps everything.
LEMMA KeptStep ==
  ASSUME got' = <<>>, fd_table' = fd_table, mounts' = mounts, rd' = rd
  PROVE  Store!Next
<1>1. StoreNow' = StoreNow
  BY StoreKept
<1>2. HandlesNow' = HandlesNow
  BY SameHandles DEF HandleOf
<1> QED BY <1>1, <1>2, QuietStep

\* The descriptors in use stand where they stood, in files of the same name.
Undisturbed ==
  \A fd \in InUseOnRamdisk :
    /\ rd'.files[rd'.open[fd_table[fd].data]].name = rd.files[rd.open[fd_table[fd].data]].name
    /\ rd'.pos[fd_table[fd].data] = rd.pos[fd_table[fd].data]

LEMMA UndisturbedHandles ==
  ASSUME fd_table' = fd_table, mounts' = mounts, Undisturbed
  PROVE  HandlesNow' = HandlesNow
<1>1. \A fd \in InUseOnRamdisk : HandleOf(fd)' = HandleOf(fd)
  BY DEF HandleOf, Undisturbed
<1> QED BY <1>1, SameHandles

\* A file that nobody has open disappears.
LEMMA RemoveStep ==
  ASSUME VInv, RdInv(rd'), got' = <<>>, fd_table' = fd_table, mounts' = mounts,
         NEW k \in Live(rd), k \notin OpenEntries, Live(rd') = Live(rd) \ {k},
         \A j \in Live(rd') : rd'.files[j] = rd.files[j],
         \A b \in DOMAIN rd'.heap : rd'.heap[b] = rd.heap[b],
         rd'.open = rd.open, rd'.pos = rd.pos
  PROVE  Store!Next
<1> DEFINE n == rd.files[k].name
<1>1. RdInv(rd)
  BY DEF VInv
<1>2. /\ n \in DOMAIN StoreOf(rd) /\ n \notin DOMAIN StoreOf(rd')
      /\ StoreOf(rd') = Store!Without(StoreOf(rd), n)
  BY <1>1, GoneStore
<1>3. n \in DOMAIN StoreNow \ DOMAIN StoreNow' /\ StoreNow' = Store!Without(StoreNow, n)
  BY <1>2, StoreNowIs, StoreNextIs
<1>4. Store!Remove(StoreNow, StoreNow')
  BY <1>3 DEF Store!Remove
<1>5. Undisturbed
  <2>1. \A fd \in InUseOnRamdisk : rd.open[fd_table[fd].data] \in Live(rd')
    <3>1. \A fd \in InUseOnRamdisk : rd.open[fd_table[fd].data] \in Live(rd)
      BY OpenLive DEF InUseOnRamdisk, InUse
    <3> QED BY <3>1 DEF OpenEntries
  <2> QED BY <2>1 DEF Undisturbed
<1>6. HandlesNow' = HandlesNow
  BY <1>5, UndisturbedHandles
<1>7. Store!Step(StoreNow, StoreNow', HandlesNow, HandlesNow')
  BY <1>4, <1>6 DEF Store!Step
<1> QED BY <1>7, ByStep

LEMMA UnlinkStep ==
  ASSUME VInv, NEW path \in Paths, Unopened(path), vfs_unlink(path)
  PROVE  Store!Next
<1> DEFINE r == ramdisk_unlink(rd, resolve_mount(path).sub)
           i == rd_find(rd, Named(path))
<1>1. rd' = r.rd /\ got' = <<>> /\ fd_table' = fd_table /\ mounts' = mounts
  BY DEF vfs_unlink, Apply, Changed
<1>2. RdInv(rd) /\ rd.heap \in HeapT /\ i \notin OpenEntries
  BY DEF VInv, RdInv, RdType, Unopened, Entry, ramdisk_stat, Named
<1>3. /\ RdInv(r.rd) /\ r.rd.open = rd.open /\ r.rd.pos = rd.pos
      /\ i = 0 => r.rd = rd
      /\ i # 0 => /\ i \in Live(rd) /\ Live(r.rd) = Live(rd) \ {i}
                  /\ \A j \in Live(r.rd) : r.rd.files[j] = rd.files[j]
                  /\ r.rd.heap = Replace(rd.heap, rd.files[i].data, 0, <<>>)
  BY <1>2, UnlinkInv DEF Named
<1> HIDE DEF r, i
<1>4. CASE i = 0
  BY <1>1, <1>3, <1>4, KeptStep
<1>5. CASE i # 0
  <2>1. \A b \in DOMAIN rd'.heap : rd'.heap[b] = rd.heap[b]
    <3>1. 0 \notin DOMAIN rd.heap
      BY <1>2 DEF HeapT
    <3> QED BY <1>1, <1>3, <1>5, <3>1 DEF Replace
  <2> QED BY <1>1, <1>2, <1>3, <1>5, <2>1, RemoveStep
<1> QED BY <1>4, <1>5

LEMMA RmdirStep ==
  ASSUME VInv, NEW path \in Paths, Unopened(path), Vacant(path), vfs_rmdir(path)
  PROVE  Store!Next
<1> DEFINE r == ramdisk_rmdir(rd, resolve_mount(path).sub)
           i == rd_find(rd, Named(path))
<1>1. rd' = r.rd /\ got' = <<>> /\ fd_table' = fd_table /\ mounts' = mounts
  BY DEF vfs_rmdir, Apply, Changed
<1>2. RdInv(rd) /\ i \notin OpenEntries /\ \A x \in {i} \ {0} : rd.files[x].data = 0
  BY DEF VInv, Unopened, Vacant, Entry, ramdisk_stat, Named
<1>3. /\ RdInv(r.rd) /\ r.rd.open = rd.open /\ r.rd.pos = rd.pos /\ r.rd.heap = rd.heap
      /\ \/ r.rd = rd
         \/ /\ i \in Live(rd) /\ Live(r.rd) = Live(rd) \ {i}
            /\ \A j \in Live(r.rd) : r.rd.files[j] = rd.files[j]
  BY <1>2, RmdirInv DEF Named
<1> HIDE DEF r, i
<1>4. CASE r.rd = rd
  BY <1>1, <1>4, KeptStep
<1>5. CASE r.rd # rd
  BY <1>1, <1>2, <1>3, <1>5, RemoveStep
<1> QED BY <1>4, <1>5

\* The entries that were there before another is added.
LEMMA CreatedEntries ==
  ASSUME NEW r, RdInv(r), NEW n \in Name, NEW is_dir \in BOOLEAN, ~Full(r), rd_find(r, n) = 0,
         NEW f, f = rd_create(r, n, is_dir).files
  PROVE  \A i \in DOMAIN r.files : f[i] = r.files[i]
BY CreateInv

\* An empty file appears.
LEMMA MakeStep ==
  ASSUME got' = <<>>, fd_table' = fd_table, mounts' = mounts, Undisturbed, NEW n, NEW is_dir \in BOOLEAN,
         n \notin DOMAIN StoreOf(rd), StoreOf(rd') = Store!With(StoreOf(rd), n, Store!Empty(is_dir))
  PROVE  Store!Next
<1>1. n \in DOMAIN StoreNow' \ DOMAIN StoreNow /\ StoreNow' = Store!With(StoreNow, n, Store!Empty(is_dir))
  <2>1. n \in DOMAIN Store!With(StoreOf(rd), n, Store!Empty(is_dir))
    BY DEF Store!With
  <2> QED BY <2>1, StoreNowIs, StoreNextIs
<1>2. Store!Make(StoreNow, StoreNow')
  BY <1>1, Zenon DEF Store!Make
<1>3. HandlesNow' = HandlesNow
  BY UndisturbedHandles
<1>4. Store!Step(StoreNow, StoreNow', HandlesNow, HandlesNow')
  BY <1>2, <1>3 DEF Store!Step
<1> QED BY <1>4, ByStep

LEMMA MkdirStep ==
  ASSUME VInv, NEW path \in Paths, Entry(path) = 0, vfs_mkdir(path)
  PROVE  Store!Next
<1> DEFINE n == Named(path)
           r == ramdisk_mkdir(rd, resolve_mount(path).sub)
<1>1. /\ rd' = r.rd /\ got' = <<>> /\ fd_table' = fd_table /\ mounts' = mounts
      /\ rd_find(rd, n) = 0 /\ MountOf(path).fs = "ramdisk" /\ RdInv(rd)
  BY DEF vfs_mkdir, NamedOnRamdisk, Apply, Changed, Named, Entry, ramdisk_stat, VInv
<1>2. n \in Name
  <2>1. path \in Name
    BY VfsAssumption DEF Name
  <2> QED BY <1>1, <2>1, Resolved, SkippedName DEF VInv, Shapes, Named
<1>3. r.rd = IF Full(rd) THEN rd ELSE rd_create(rd, n, TRUE)
  BY DEF ramdisk_mkdir, Fail, Done, Named
<1> HIDE DEF r, n
<1>4. CASE Full(rd)
  BY <1>1, <1>3, <1>4, KeptStep
<1>5. CASE ~Full(rd)
  <2>1. rd' = rd_create(rd, n, TRUE)
    BY <1>1, <1>3, <1>5
  <2>2. /\ rd_create(rd, n, TRUE).heap = rd.heap /\ rd_create(rd, n, TRUE).open = rd.open
        /\ rd_create(rd, n, TRUE).pos = rd.pos
        /\ \A i \in DOMAIN rd.files : rd_create(rd, n, TRUE).files[i] = rd.files[i]
    BY <1>1, <1>2, <1>5, CreateInv
  <2>3. n \notin DOMAIN StoreOf(rd) /\ StoreOf(rd') = Store!With(StoreOf(rd), n, Store!Empty(TRUE))
    BY <1>1, <1>2, <1>5, <2>1, <2>2, CreatedStore
  <2>4. Undisturbed
    <3>1. \A fd \in InUseOnRamdisk : rd.open[fd_table[fd].data] \in DOMAIN rd.files
      BY OpenLive DEF InUseOnRamdisk, InUse, Live
    <3> QED BY <2>1, <2>2, <3>1 DEF Undisturbed
  <2> QED BY <1>1, <2>3, <2>4, MakeStep
<1> QED BY <1>4, <1>5

LEMMA MountStep ==
  ASSUME InUse = {}, vfs_mount(ProcPath, "proc")
  PROVE  Store!Next
<1>1. fd_table' = fd_table /\ rd' = rd /\ got' = <<>>
  BY DEF vfs_mount
<1>2. InUseOnRamdisk = {} /\ InUseOnRamdisk' = {}
  BY <1>1 DEF InUseOnRamdisk, InUse
<1>3. HandlesNow' = HandlesNow
  BY <1>2 DEF HandlesNow
<1>4. StoreNow' = StoreNow
  BY <1>1, StoreKept
<1> QED BY <1>1, <1>3, <1>4, QuietStep

\* A descriptor more, at the beginning of the file n.
OpenedBy(h, i, x, n) == x \notin DOMAIN h /\ i = Store!With(h, x, [name |-> n, pos |-> 0])

LEMMA OpenBy ==
  ASSUME NEW s, NEW t, NEW h, NEW i, NEW x, NEW n, OpenedBy(h, i, x, n),
         \/ n \in DOMAIN s /\ t = s
         \/ n \notin DOMAIN s /\ t = Store!With(s, n, Store!Empty(FALSE))
  PROVE  Store!Open(s, t, h, i)
<1>1. x \in DOMAIN i \ DOMAIN h /\ i[x].name = n /\ i = Store!With(h, x, [name |-> n, pos |-> 0])
  BY DEF OpenedBy, Store!With
<1>2. i = Store!With(h, x, [name |-> i[x].name, pos |-> 0])
  BY <1>1
<1>3. t = IF i[x].name \in DOMAIN s THEN s ELSE Store!With(s, i[x].name, Store!Empty(FALSE))
  BY <1>1
<1> QED BY <1>1, <1>2, <1>3, Zenon DEF Store!Open

LEMMA OpenedHandles ==
  ASSUME VInv, NEW path, NEW x \in Fds \ InUse, NEW d, NEW n, NEW entry, entry = [path |-> path, data |-> d],
         entry # Closed, mounts' = mounts, fd_table' = [fd_table EXCEPT ![x] = entry],
         MountOf(path).fs = "ramdisk", rd'.files[rd'.open[d]].name = n, rd'.pos[d] = 0, Undisturbed
  PROVE  OpenedBy(HandlesNow, HandlesNow', x, n)
<1>1. fd_table'[x] = entry /\ \A y \in Fds : y # x => fd_table'[y] = fd_table[y]
  BY DEF VInv, Shapes
<1>2. InUse' = InUse \cup {x} /\ InUse \subseteq Fds
  BY <1>1 DEF InUse
<1>3. \A p : MountOf(p)' = MountOf(p)
  BY SameMounts
<1>4. entry.path = path /\ entry.data = d
  OBVIOUS
<1>5. InUseOnRamdisk' = InUseOnRamdisk \cup {x} /\ x \notin InUseOnRamdisk /\ InUseOnRamdisk \subseteq Fds
  BY <1>1, <1>2, <1>3, <1>4 DEF InUseOnRamdisk, Fs
<1>6. ASSUME NEW y \in InUseOnRamdisk'
      PROVE  HandlesNow'[y] = IF y = x THEN [name |-> n, pos |-> 0] ELSE HandlesNow[y]
  <2>1. HandlesNow'[y] = [name |-> rd'.files[rd'.open[fd_table'[y].data]].name, pos |-> rd'.pos[fd_table'[y].data]]
    BY DEF HandlesNow
  <2>2. CASE y = x
    BY <1>1, <1>4, <2>1, <2>2
  <2>3. CASE y # x
    <3>1. y \in InUseOnRamdisk /\ fd_table'[y] = fd_table[y]
      BY <1>1, <1>5, <2>3
    <3> QED BY <2>1, <2>3, <3>1, HandlesNowIs DEF HandleOf, Undisturbed
  <2> QED BY <2>2, <2>3
<1>7. HandlesNow' = [y \in InUseOnRamdisk' |-> HandlesNow'[y]]
  BY DEF HandlesNow
<1>8. HandlesNow' = Store!With(HandlesNow, x, [name |-> n, pos |-> 0])
  BY <1>5, <1>6, <1>7, HandlesNowIs DEF Store!With
<1> QED BY <1>5, <1>8, HandlesNowIs DEF OpenedBy

\* What an open on the ramdisk does to the store and to the descriptors in use.
LEMMA OpenedStore ==
  ASSUME VInv, NEW n \in Name, NEW o, RdOpened(rd, n, o), rd' = o.rd
  PROVE  /\ \/ StoreOf(rd') = StoreOf(rd) /\ rd'.files = rd.files
            \/ n \notin DOMAIN StoreOf(rd) /\ StoreOf(rd') = Store!With(StoreOf(rd), n, Store!Empty(FALSE))
         /\ Undisturbed
<1>1. RdInv(rd) /\ rd.pos \in [RdFds -> Nat] /\ rd.open \in [RdFds -> Nat]
  BY DEF VInv, RdInv, RdType
<1>2. \/ rd'.files = rd.files
      \/ rd_find(rd, n) = 0 /\ ~Full(rd) /\ rd'.files = rd_create(rd, n, FALSE).files
  BY DEF RdOpened
<1>3. rd'.heap = rd.heap
  BY DEF RdOpened
<1>4. \/ StoreOf(rd') = StoreOf(rd) /\ rd'.files = rd.files
      \/ n \notin DOMAIN StoreOf(rd) /\ StoreOf(rd') = Store!With(StoreOf(rd), n, Store!Empty(FALSE))
  <2>1. CASE rd'.files = rd.files
    BY <1>3, <2>1, SameStore
  <2>2. CASE rd'.files # rd.files
    BY <1>1, <1>2, <1>3, <2>2, CreatedStore
  <2> QED BY <2>1, <2>2
<1>5. \A i \in DOMAIN rd.files : rd'.files[i] = rd.files[i]
  BY <1>1, <1>2, CreatedEntries
<1>6. ASSUME NEW fd \in InUseOnRamdisk
      PROVE  /\ rd'.open[fd_table[fd].data] = rd.open[fd_table[fd].data]
             /\ rd'.pos[fd_table[fd].data] = rd.pos[fd_table[fd].data]
             /\ rd.open[fd_table[fd].data] \in DOMAIN rd.files
  <2>1. fd_table[fd].data \in RdFds /\ rd.open[fd_table[fd].data] \in Live(rd)
    BY OpenLive DEF InUseOnRamdisk, InUse
  <2>2. rd.open[fd_table[fd].data] # 0
    BY <1>1, <2>1, FilesDomain DEF Live, RdInv
  <2>3. CASE o.ret = -1
    BY <2>1, <2>3 DEF RdOpened, Live
  <2>4. CASE o.ret # -1
    <3>1. /\ o.ret \in RdFds /\ rd.open[o.ret] = 0
          /\ rd'.open = [rd.open EXCEPT ![o.ret] = rd_find(o.rd, n)]
          /\ rd'.pos = [rd.pos EXCEPT ![o.ret] = 0]
      BY <2>4 DEF RdOpened
    <3> QED BY <1>1, <2>1, <2>2, <3>1 DEF Live
  <2> QED BY <2>3, <2>4
<1>7. Undisturbed
  BY <1>5, <1>6 DEF Undisturbed
<1> QED BY <1>4, <1>7

\* An open, whether or not its descriptor is kept.
LEMMA OpenStep ==
  ASSUME VInv, NEW path \in Paths, NEW o \in {Opened(path, TRUE), Opened(path, FALSE)},
         got' = <<>>, mounts' = mounts, rd' = o.rd,
         \/ fd_table' = fd_table
         \/ ~(o.ret < 0) /\ fd_table' = [fd_table EXCEPT ![FreeFd] = [path |-> path, data |-> o.ret]]
  PROVE  Store!Next
<1> DEFINE n == Sub(path)
           opens == InUse # Fds /\ resolve_mount(path).fs = "ramdisk"
<1>1. path \in Name /\ resolve_mount(path).fs = MountOf(path).fs
  BY VfsAssumption DEF Name, resolve_mount
<1>2. CASE ~opens
  <2>1. rd' = rd
    <3>1. \A c \in {TRUE, FALSE} : Opened(path, c).rd = rd
      BY <1>2 DEF Opened, Fail, Done, proc_open
    <3> QED BY <3>1
  <2>2. CASE fd_table' = fd_table
    BY <2>1, <2>2, KeptStep
  <2>3. CASE ~(o.ret < 0) /\ fd_table' = [fd_table EXCEPT ![FreeFd] = [path |-> path, data |-> o.ret]]
    <3>1. InUse # Fds
      BY <2>3, OpenedFacts
    <3>2. MountOf(path).fs # "ramdisk"
      BY <1>1, <1>2, <3>1
    <3>3. PICK x \in Fds \ InUse : x = FreeFd
      <4>1. Fds \ InUse \subseteq Nat /\ Fds \ InUse # {}
        BY <3>1, VfsAssumption DEF Fds, InUse
      <4> QED BY <4>1, FirstFound DEF FreeFd
    <3>4. fd_table'[x] = [path |-> path, data |-> o.ret] /\ \A y \in Fds : y # x => fd_table'[y] = fd_table[y]
      BY <2>3, <3>3 DEF VInv, Shapes
    <3>5. fd_table'[x].path = path
      BY <3>4
    <3>6. \A p : MountOf(p)' = MountOf(p)
      BY SameMounts
    <3>7. InUseOnRamdisk' = InUseOnRamdisk
      BY <3>2, <3>3, <3>4, <3>5, <3>6 DEF InUseOnRamdisk, Fs, InUse
    <3>8. \A y \in InUseOnRamdisk : fd_table'[y] = fd_table[y]
      BY <3>3, <3>4 DEF InUseOnRamdisk, InUse
    <3>9. HandlesNow' = HandlesNow
      BY <2>1, <3>7, <3>8 DEF HandlesNow
    <3>10. StoreNow' = StoreNow
      BY <2>1, StoreKept
    <3> QED BY <3>9, <3>10, QuietStep
  <2> QED BY <2>2, <2>3
<1>3. CASE opens
  <2> DEFINE rest == resolve_mount(path).sub
  <2>1. o \in {ramdisk_open(rd, rest, TRUE), ramdisk_open(rd, rest, FALSE)}
    BY <1>3 DEF Opened
  <2>2. rest \in Name
    BY <1>1, <1>3, Resolved DEF VInv, Shapes
  <2>3. n = OpenName(rest) /\ n \in Name
    BY <2>2, SkippedName DEF Sub
  <2> HIDE DEF n, rest
  <2>4. RdInv(rd)
    BY DEF VInv
  <2>5. RdOpened(rd, n, o)
    BY <2>1, <2>2, <2>3, <2>4, OpenInv
  <2>6. /\ \/ StoreOf(rd') = StoreOf(rd) /\ rd'.files = rd.files
           \/ n \notin DOMAIN StoreOf(rd) /\ StoreOf(rd') = Store!With(StoreOf(rd), n, Store!Empty(FALSE))
        /\ Undisturbed
    BY <2>3, <2>5, OpenedStore
  <2>7. CASE fd_table' = fd_table
    <3>1. CASE StoreOf(rd') = StoreOf(rd)
      <4>1. StoreNow' = StoreNow /\ HandlesNow' = HandlesNow
        BY <2>6, <2>7, <3>1, StoreNowIs, StoreNextIs, UndisturbedHandles
      <4> QED BY <4>1, QuietStep
    <3>2. CASE StoreOf(rd') # StoreOf(rd)
      BY <2>6, <2>7, <3>2, MakeStep
    <3> QED BY <3>1, <3>2
  <2>8. CASE ~(o.ret < 0) /\ fd_table' = [fd_table EXCEPT ![FreeFd] = [path |-> path, data |-> o.ret]]
    <3>1. PICK d : d = o.ret /\ d # -1
      BY <2>8
    <3>2. /\ d \in RdFds /\ rd'.open = [rd.open EXCEPT ![d] = rd_find(rd', n)]
          /\ rd'.pos = [rd.pos EXCEPT ![d] = 0] /\ rd_find(rd', n) # 0 /\ RdInv(rd')
      BY <2>5, <3>1 DEF RdOpened
    <3>3. rd'.open[d] = rd_find(rd', n) /\ rd'.pos[d] = 0
      BY <2>4, <3>2 DEF RdInv, RdType
    <3>4. rd_find(rd', n) \in Hits(rd', n)
      BY <3>2, FindFacts DEF RdInv
    <3>5. rd'.files[rd'.open[d]].name = n
      BY <3>3, <3>4 DEF Hits
    <3>6. PICK x \in Fds \ InUse : x = FreeFd
      <4>1. Fds \ InUse \subseteq Nat /\ Fds \ InUse # {}
        BY <1>3, VfsAssumption DEF Fds, InUse
      <4> QED BY <4>1, FirstFound DEF FreeFd
    <3>7. PICK entry : entry = [path |-> path, data |-> d] /\ entry # Closed
      <4>1. [path |-> path, data |-> d] # Closed
        BY <3>1 DEF Closed
      <4> QED BY <4>1
    <3>8. fd_table' = [fd_table EXCEPT ![x] = entry]
      BY <2>8, <3>1, <3>6, <3>7
    <3>9. MountOf(path).fs = "ramdisk"
      BY <1>1, <1>3
    <3>10. OpenedBy(HandlesNow, HandlesNow', x, n)
      BY <2>6, <3>3, <3>5, <3>6, <3>7, <3>8, <3>9, OpenedHandles
    <3>11. \/ n \in DOMAIN StoreNow /\ StoreNow' = StoreNow
           \/ n \notin DOMAIN StoreNow /\ StoreNow' = Store!With(StoreNow, n, Store!Empty(FALSE))
      <4>1. CASE StoreOf(rd') = StoreOf(rd)
        <5>1. n \in DOMAIN StoreOf(rd')
          BY <3>2, <3>4, StoreFacts DEF RdInv, Hits, Live
        <5> QED BY <4>1, <5>1, StoreNowIs, StoreNextIs
      <4>2. CASE StoreOf(rd') # StoreOf(rd)
        BY <2>6, <4>2, StoreNowIs, StoreNextIs
      <4> QED BY <4>1, <4>2
    <3>12. Store!Open(StoreNow, StoreNow', HandlesNow, HandlesNow')
      BY <3>10, <3>11, OpenBy
    <3>13. Store!Step(StoreNow, StoreNow', HandlesNow, HandlesNow')
      BY <3>12 DEF Store!Step
    <3> QED BY <3>13, ByStep
  <2> QED BY <2>7, <2>8
<1> QED BY <1>2, <1>3

LEMMA OnDescriptorStep ==
  ASSUME VInv, VInv', NEW fd \in Fds, OnDescriptor(fd)
  PROVE  Store!Next
<1>1. CASE vfs_close(fd)
  BY <1>1, CloseStep
<1>2. CASE fclose(fd)
  BY <1>2, CloseStep DEF fclose
<1>3. CASE vfs_read(fd, 3)
  <2>1. fd \in InUse
    BY <1>3, HeldInUse DEF vfs_read
  <2> QED BY <1>3, <2>1, ReadingStep DEF vfs_read
<1>4. CASE fread(fd, 1)
  <2>1. PICK h : IsFile(fd) /\ Reading(fd, h, ReadFrom(fd, 1))
    BY <1>4 DEF fread
  <2>2. fd \in InUse
    BY <2>1, HeldInUse DEF IsFile
  <2> QED BY <2>1, <2>2, ReadingStep
<1>5. CASE fgets(fd, 3)
  BY <1>5, FgetsReads, ReadingStep
<1>6. CASE \E bytes \in Writes : vfs_write(fd, bytes)
  BY <1>6, WriteStep
<1>7. CASE \E to \in {<<0, "SET">>, <<-1, "CUR">>, <<1, "END">>} : vfs_seek(fd, to[1], to[2])
  <2>1. PICK to \in {<<0, "SET">>, <<-1, "CUR">>, <<1, "END">>} : vfs_seek(fd, to[1], to[2])
    BY <1>7
  <2>2. to[1] \in Int /\ to[2] \in {"SET", "CUR", "END"}
    OBVIOUS
  <2> QED BY <2>1, <2>2, SeekStep
<1>8. CASE OnRamdisk(fd) /\ 1 <= Capacity(fd) /\ vfs_truncate(fd, 1)
  BY <1>8, TruncateStep
<1> QED BY <1>1, <1>2, <1>3, <1>4, <1>5, <1>6, <1>7, <1>8 DEF OnDescriptor

LEMMA OnPathStep ==
  ASSUME VInv, NEW path \in Paths, OnPath(path)
  PROVE  Store!Next
<1>1. CASE \E create \in BOOLEAN : path \in NewPaths /\ fopen(path, create)
  <2>1. PICK create \in BOOLEAN : fopen(path, create)
    BY <1>1
  <2>2. PICK o \in {Opened(path, TRUE), Opened(path, FALSE)} :
          /\ rd' = o.rd /\ mounts' = mounts /\ got' = <<>>
          /\ fopen_Made(path, o) \/ fopen_Failed(path, o)
    <3>1. create = TRUE \/ create = FALSE
      BY Zenon
    <3> QED BY <2>1, <3>1 DEF fopen
  <2>3. \/ fd_table' = fd_table
        \/ ~(o.ret < 0) /\ fd_table' = [fd_table EXCEPT ![FreeFd] = [path |-> path, data |-> o.ret]]
    BY <2>2 DEF fopen_Made, fopen_Failed, Holding
  <2> QED BY <2>2, <2>3, OpenStep
<1>2. CASE \E create \in {FALSE, (path \in NewPaths)} : vfs_open(path, create)
  <2>0. FALSE \in BOOLEAN /\ (path \in NewPaths) \in BOOLEAN
    OBVIOUS
  <2>1. PICK create \in BOOLEAN : vfs_open(path, create)
    BY <1>2, <2>0, Zenon
  <2>2. PICK o \in {Opened(path, TRUE), Opened(path, FALSE)} :
          rd' = o.rd /\ mounts' = mounts /\ got' = <<>> /\ fd_table' = Holding(path, o)
    <3>1. create = TRUE \/ create = FALSE
      BY Zenon
    <3> QED BY <2>1, <3>1 DEF vfs_open
  <2>3. \/ fd_table' = fd_table
        \/ ~(o.ret < 0) /\ fd_table' = [fd_table EXCEPT ![FreeFd] = [path |-> path, data |-> o.ret]]
    BY <2>2 DEF Holding
  <2> QED BY <2>2, <2>3, OpenStep
<1>3. CASE Unopened(path) /\ vfs_unlink(path)
  BY <1>3, UnlinkStep
<1>4. CASE Unopened(path) /\ Vacant(path) /\ vfs_rmdir(path)
  BY <1>4, RmdirStep
<1>5. CASE path \in NewPaths /\ Entry(path) = 0 /\ vfs_mkdir(path)
  BY <1>5, MkdirStep
<1> QED BY <1>1, <1>2, <1>3, <1>4, <1>5 DEF OnPath

LEMMA StoreStep == VInv /\ VInv' /\ [CarefulNext]_vars => [Store!Next]_(Store!vars)
<1> SUFFICES ASSUME VInv, VInv', [CarefulNext]_vars PROVE [Store!Next]_(Store!vars)
  OBVIOUS
<1>1. CASE \E fd \in Fds : OnDescriptor(fd)
  BY <1>1, OnDescriptorStep
<1>2. CASE \E path \in Paths : OnPath(path)
  BY <1>2, OnPathStep
<1>3. CASE InUse = {} /\ vfs_mount(ProcPath, "proc")
  BY <1>3, MountStep
<1>4. CASE UNCHANGED vars
  <2>1. rd' = rd /\ fd_table' = fd_table /\ mounts' = mounts /\ got' = got
    BY <1>4 DEF vars
  <2>2. StoreNow' = StoreNow
    BY <2>1, StoreKept
  <2>3. HandlesNow' = HandlesNow
    BY <2>1, SameHandles DEF HandleOf
  <2> QED BY <2>1, <2>2, <2>3 DEF Store!vars
<1> QED BY <1>1, <1>2, <1>3, <1>4 DEF CarefulNext

LEMMA StoreInit == Init => Store!Init
<1> SUFFICES ASSUME Init PROVE Store!Init
  OBVIOUS
<1>1. InUseOnRamdisk = {}
  BY DEF Init, InUseOnRamdisk, InUse
<1>2. DOMAIN HandlesNow = {}
  BY <1>1, HandlesNowIs
<1> QED BY <1>2 DEF Init, Store!Init

\* For every size of the tables and of a page, every set of paths and of
\* writes and every order of calls, a caller of vfs_* and of the FILEs that
\* keeps to the rules sees a store of named files: every call of vfs.c and
\* ramdisk.c changes entries, blocks and descriptors as one step of FileStore
\* would, or not at all.
THEOREM FilesImplementStore == CarefulSpec => ImplementsStore
BY VInvAlways, StoreInit, StoreStep, PTL DEF CarefulSpec, ImplementsStore, Store!Spec
=============================================================================
