------------------------------- MODULE Ramdisk -------------------------------
(***************************************************************************)
(* The in-memory file system, src/src/fs/ramdisk.c: a table of entries     *)
(* that only grows, a table of open descriptors, and the heap blocks that  *)
(* hold the bytes.  Each operation takes the state rd and gives what the   *)
(* code makes of it and returns: [rd, ret, bytes].  Entries are counted    *)
(* from 1; index 0 stands for the code's -1, block 0 for NULL.             *)
(* The modes kept per descriptor are never read and are left out.          *)
(***************************************************************************)
EXTENDS Integers, SequencesExt, FiniteSetsExt

CONSTANTS
  RAMDISK_MAX_FILES,  \* entries of rd_files[]
  RD_FDS,             \* descriptors of rd_open_fds[]
  RdPage,             \* the capacity of a file is a multiple of this (4096)
  StdDirs             \* the directories made at boot, in order

Uninit == "?"  \* a byte nobody has written

Done(rd, ret, bytes) == [rd |-> rd, ret |-> ret, bytes |-> bytes]
Fail(rd)             == Done(rd, -1, <<>>)

-----------------------------------------------------------------------------

\* Leading slashes of a path are skipped, and to open nothing is to open ".".
Skipped(path)  == SubSeq(path, Min({k \in 1..(Len(path) + 1) : k \in DOMAIN path => path[k] # "/"}), Len(path))
OpenName(path) == IF Skipped(path) = <<>> THEN <<".">> ELSE Skipped(path)

Hits_Unused(rd, name) == {i \in DOMAIN rd.files : rd.files[i].name = name}

Hits(rd, name) == {i \in DOMAIN rd.files : rd.files[i].in_use /\ rd.files[i].name = name}

rd_find(rd, name) == IF Hits(rd, name) = {} THEN 0 ELSE Min(Hits(rd, name))

Full_OneLate(rd) == Len(rd.files) > RAMDISK_MAX_FILES

Full(rd) == Len(rd.files) >= RAMDISK_MAX_FILES

NewEntry(name, is_dir) ==
  [name |-> name, is_dir |-> is_dir, in_use |-> TRUE, size |-> 0, capacity |-> 0, data |-> 0]

rd_create(rd, name, is_dir) == [rd EXCEPT !.files = Append(@, NewEntry(name, is_dir))]

FreeFds_Any(rd) == 0..(RD_FDS - 1)

FreeFds(rd) == {fd \in 0..(RD_FDS - 1) : rd.open[fd] = 0}

\* The file is created before a descriptor is found for it.
ramdisk_open(rd, path, create) ==
  LET name  == OpenName(path)
      found == rd_find(rd, name)
      made  == found = 0 /\ create /\ ~Full(rd)
      now   == IF made THEN rd_create(rd, name, FALSE) ELSE rd
      idx   == IF made THEN Len(now.files) ELSE found
      fd    == Min(FreeFds(now))
  IN IF idx = 0 \/ FreeFds(now) = {} THEN Fail(now)
     ELSE Done([now EXCEPT !.open[fd] = idx, !.pos[fd] = 0], fd, <<>>)

Memory(rd, e) == IF e.data = 0 THEN <<>> ELSE rd.heap[e.data]

ramdisk_read(rd, fd, size) ==
  LET e   == rd.files[rd.open[fd]]
      pos == rd.pos[fd]
      n   == Min({size, e.size - pos})
  IN IF rd.open[fd] = 0 THEN Fail(rd)
     ELSE IF pos >= e.size THEN Done(rd, 0, <<>>)
     ELSE Done([rd EXCEPT !.pos[fd] = pos + n], n, SubSeq(Memory(rd, e), pos + 1, pos + n))

Replace(heap, old, new, mem) ==
  [b \in (DOMAIN heap \ {old}) \cup ({new} \ {0}) |-> IF b = new THEN mem ELSE heap[b]]

NewCap_RoundedDown(end) == (end \div RdPage) * RdPage

NewCap(end) == ((end + RdPage - 1) \div RdPage) * RdPage

Kept_Nothing(e) == 0

Kept(e) == e.size

\* b is the block kmalloc returns if the file has to grow.
ramdisk_write(rd, fd, bytes, b) ==
  LET idx   == rd.open[fd]
      e     == rd.files[idx]
      pos   == rd.pos[fd]
      end   == pos + Len(bytes)
      grows == end > e.capacity
      mem   == IF ~grows THEN Memory(rd, e)
               ELSE [k \in 1..NewCap(end) |-> IF k <= Kept(e) THEN Memory(rd, e)[k] ELSE Uninit]
      data  == IF grows THEN b ELSE e.data
  IN IF idx = 0 \/ (grows /\ b = 0) THEN Fail(rd)
     ELSE Done([rd EXCEPT
                  !.heap = Replace(@, e.data, data,
                             [k \in DOMAIN mem |-> IF k \in (pos + 1)..end THEN bytes[k - pos] ELSE mem[k]]),
                  !.files[idx] = [e EXCEPT !.data = data, !.capacity = Len(mem), !.size = Max({end, @})],
                  !.pos[fd] = end], Len(bytes), <<>>)

Origin(rd, fd, whence) ==
  CASE whence = "SET" -> 0
    [] whence = "CUR" -> rd.pos[fd]
    [] whence = "END" -> rd.files[rd.open[fd]].size

Clamp(p, size) == Min({Max({0, p}), size})

ramdisk_seek(rd, fd, offset, whence) ==
  LET p == Clamp(Origin(rd, fd, whence) + offset, rd.files[rd.open[fd]].size)
  IN IF rd.open[fd] = 0 THEN Fail(rd) ELSE Done([rd EXCEPT !.pos[fd] = p], p, <<>>)

ramdisk_mkdir(rd, path) ==
  IF Full(rd) THEN Fail(rd) ELSE Done(rd_create(rd, Skipped(path), TRUE), Len(rd.files) + 1, <<>>)

Gone(rd, idx, heap) == Done([rd EXCEPT !.files[idx].in_use = FALSE, !.heap = heap], 0, <<>>)

ramdisk_rmdir(rd, path) ==
  LET idx == rd_find(rd, Skipped(path))
  IN IF idx = 0 \/ ~rd.files[idx].is_dir THEN Fail(rd) ELSE Gone(rd, idx, rd.heap)

\* data keeps pointing to the block that is freed, and so do open descriptors.
ramdisk_unlink(rd, path) ==
  LET idx == rd_find(rd, Skipped(path))
  IN IF idx = 0 THEN Fail(rd) ELSE Gone(rd, idx, Replace(rd.heap, rd.files[idx].data, 0, <<>>))

ramdisk_truncate(rd, fd, size) ==
  IF rd.open[fd] = 0 THEN Fail(rd) ELSE Done([rd EXCEPT !.files[rd.open[fd]].size = size], 0, <<>>)

ramdisk_stat(rd, path) == rd_find(rd, Skipped(path))

ramdisk_readdir(rd, index) ==
  LET at == {i \in DOMAIN rd.files : /\ rd.files[i].in_use
                                     /\ Cardinality({j \in 1..(i - 1) : rd.files[j].in_use}) = index}
  IN IF at = {} THEN 0 ELSE Min(at)

\* The root, and as many of the standard directories as there are entries for.
vfs_init_ramdisk ==
  LET none == [fd \in 0..(RD_FDS - 1) |-> 0]
      made == [i \in 1..(Len(StdDirs) + 1) |-> NewEntry(IF i = 1 THEN <<"/">> ELSE StdDirs[i - 1], TRUE)]
  IN [files |-> SubSeq(made, 1, Min({RAMDISK_MAX_FILES, Len(StdDirs) + 1})),
      open  |-> none, pos |-> none, heap |-> [b \in {} |-> <<>>]]
=============================================================================
