--------------------------------- MODULE Vfs ---------------------------------
(***************************************************************************)
(* The virtual file system, src/src/fs/vfs.c, over the ramdisk and /proc   *)
(* (src/src/fs/proc.c), with the buffered files of src/src/libc/stdio.c    *)
(* and the file calls of src/src/sys/syscall.c on top.                     *)
(*                                                                         *)
(* A path is the sequence of its pieces, a slash being a piece, cut finely *)
(* enough that "is a prefix of" on the pieces is what strncmp says of the  *)
(* characters.  fd_table[].pos is written and never read: left out.        *)
(*                                                                         *)
(* The code trusts its callers in five ways, and so does CarefulSpec: a    *)
(* name is removed only when no descriptor is open on it (ramdisk_unlink   *)
(* frees the bytes) and rmdir finds no bytes in it (they would leak),      *)
(* mkdir is for new names (rd_create looks for no other of the name),      *)
(* truncate stays within the capacity (it moves size only), a file system  *)
(* is mounted while nothing is open (every call resolves the path again),  *)
(* and a descriptor is used through whatever opened it.                    *)
(***************************************************************************)
EXTENDS Ramdisk

CONSTANTS
  VFS_MAX_OPEN, MAX_MOUNTS,
  Paths, NewPaths,       \* the paths used; those that are created, as files or directories
  ProcPath, ProcFiles,   \* where /proc is mounted, and its files: name -> contents
  Writes, MaxWrites      \* what is written at once; bound: how often

Byte == UNION {Range(w) : w \in Writes}

\* Paths are text, and the directories made at boot are different ones.
ASSUME VfsAssumption ==
  /\ {RAMDISK_MAX_FILES, RD_FDS, RdPage, VFS_MAX_OPEN, MAX_MOUNTS} \subseteq Nat \ {0}
  /\ MaxWrites \in Nat
  /\ Paths \cup {<<"/">>, <<".">>, ProcPath} \subseteq Seq(STRING) /\ ProcPath # <<>>
  /\ StdDirs \in Seq(Seq(STRING)) /\ IsInjective(StdDirs) /\ <<"/">> \notin Range(StdDirs)
  /\ Writes \subseteq Seq(Byte)

VARIABLES
  fd_table,  \* descriptor -> [path, data], or Closed
  mounts,    \* sequence of [path, fs]
  rd,        \* the ramdisk
  owner,     \* descriptor -> who holds it: "nobody", "caller", or a FILE: "file", "eof"
  got,       \* the bytes the last call returned from the ramdisk
  writes     \* ghost: successful writes so far

vars == <<fd_table, mounts, rd, owner, got, writes>>

Fds    == 0..(VFS_MAX_OPEN - 1)
Closed == [path |-> <<>>, data |-> -1]
InUse  == {fd \in Fds : fd_table[fd] # Closed}

-----------------------------------------------------------------------------

\* The longest mounted prefix, the first of several as long.
Best(at) == CHOOSE i \in at : \A j \in at : \/ Len(mounts[j].path) < Len(mounts[i].path)
                                            \/ Len(mounts[j].path) = Len(mounts[i].path) /\ i <= j

NoMount == [path |-> <<>>, fs |-> "none"]

MountOf(path) ==
  LET at == {i \in DOMAIN mounts : IsPrefix(mounts[i].path, path)}
  IN IF at = {} THEN NoMount ELSE mounts[Best(at)]

resolve_mount(path) ==
  LET m   == MountOf(path)
      sub == SubSeq(path, Len(m.path) + 1, Len(path))
  IN [fs |-> m.fs, sub |-> IF Len(sub) > 1 /\ Head(sub) = "/" THEN Tail(sub) ELSE sub]

\* The operations of /proc: an id per file, and reads that always start at its beginning.
ProcIds == SetToSeq(DOMAIN ProcFiles)

proc_open(name) == IF name \in DOMAIN ProcFiles
                   THEN Done(rd, CHOOSE id \in DOMAIN ProcIds : ProcIds[id] = name, <<>>) ELSE Fail(rd)

proc_read(id, size) ==
  LET text == IF id \in DOMAIN ProcIds THEN ProcFiles[ProcIds[id]] ELSE <<"unknown">>
      n    == Min({Len(text), size})
  IN Done(rd, n, SubSeq(text, 1, n))

-----------------------------------------------------------------------------

FreeFd == Min(Fds \ InUse)

\* The descriptor is found before the file system is asked, so a full table opens nothing.
Opened(path, create) ==
  LET r == resolve_mount(path)
  IN IF InUse = Fds \/ r.fs = "none" THEN Fail(rd)
     ELSE IF r.fs = "ramdisk" THEN ramdisk_open(rd, r.sub, create) ELSE proc_open(r.sub)

Holding(path, o) == IF o.ret < 0 THEN fd_table ELSE [fd_table EXCEPT ![FreeFd] = [path |-> path, data |-> o.ret]]

vfs_open(path, create) ==
  \E o \in {Opened(path, create)} :
    /\ rd' = o.rd
    /\ fd_table' = Holding(path, o)
    /\ owner' = IF o.ret < 0 THEN owner ELSE [owner EXCEPT ![FreeFd] = "caller"]
    /\ got' = <<>>
    /\ UNCHANGED <<mounts, writes>>

\* The ramdisk's own close is not called: its descriptor is never free again.
vfs_close(fd) ==
  /\ fd \in InUse
  /\ fd_table' = [fd_table EXCEPT ![fd] = Closed]
  /\ owner' = [owner EXCEPT ![fd] = "nobody"]
  /\ got' = <<>>
  /\ UNCHANGED <<mounts, rd, writes>>

Fs(fd) == MountOf(fd_table[fd].path).fs

ReadFrom(fd, size) ==
  IF Fs(fd) = "ramdisk" THEN ramdisk_read(rd, fd_table[fd].data, size) ELSE proc_read(fd_table[fd].data, size)

\* A read by holder h; what /proc returns is a constant and not kept.
Reading(fd, h, r) ==
  /\ rd' = r.rd
  /\ got' = IF Fs(fd) = "ramdisk" THEN r.bytes ELSE <<>>
  /\ owner' = [owner EXCEPT ![fd] = h]
  /\ UNCHANGED <<fd_table, mounts, writes>>

vfs_read(fd, size) == owner[fd] = "caller" /\ Reading(fd, "caller", ReadFrom(fd, size))

\* Of the two file systems only the ramdisk has the remaining operations.
OnRamdisk(fd) == fd \in InUse /\ Fs(fd) = "ramdisk"

Changed(r) == rd' = r.rd /\ got' = <<>> /\ UNCHANGED <<fd_table, mounts, owner>>
Apply(r)   == Changed(r) /\ UNCHANGED writes

Fresh == Min((1..(RAMDISK_MAX_FILES + 1)) \ DOMAIN rd.heap)

vfs_write(fd, bytes) ==
  /\ OnRamdisk(fd)
  /\ writes < MaxWrites
  /\ \E b \in {0, Fresh} : \E r \in {ramdisk_write(rd, fd_table[fd].data, bytes, b)} :
       Changed(r) /\ writes' = IF r.ret < 0 THEN writes ELSE writes + 1

vfs_seek(fd, offset, whence) == OnRamdisk(fd) /\ Apply(ramdisk_seek(rd, fd_table[fd].data, offset, whence))

vfs_truncate(fd, size) == OnRamdisk(fd) /\ Apply(ramdisk_truncate(rd, fd_table[fd].data, size))

NamedOnRamdisk(path) == MountOf(path).fs = "ramdisk"

vfs_mkdir(path)  == NamedOnRamdisk(path) /\ Apply(ramdisk_mkdir(rd, resolve_mount(path).sub))

vfs_rmdir(path)  == NamedOnRamdisk(path) /\ Apply(ramdisk_rmdir(rd, resolve_mount(path).sub))

vfs_unlink(path) == NamedOnRamdisk(path) /\ Apply(ramdisk_unlink(rd, resolve_mount(path).sub))

vfs_mount(path, fs) ==
  /\ mounts' = IF Len(mounts) >= MAX_MOUNTS THEN mounts ELSE Append(mounts, [path |-> path, fs |-> fs])
  /\ got' = <<>>
  /\ UNCHANGED <<fd_table, rd, owner, writes>>

-----------------------------------------------------------------------------
(* Buffered files: a FILE is a descriptor and an end-of-file mark.         *)

IsFile(fd) == owner[fd] \in {"file", "eof"}

fopen_Failed_NotClosed(path, o) == fd_table' = Holding(path, o) /\ owner' = owner

\* No memory for the FILE: the descriptor is closed again.
fopen_Failed(path, o) == fd_table' = fd_table /\ owner' = owner

fopen_Made(path, o) ==
  /\ ~(o.ret < 0)
  /\ fd_table' = Holding(path, o)
  /\ owner' = [owner EXCEPT ![FreeFd] = "file"]

fopen(path, create) ==
  \E o \in {Opened(path, create)} :
    /\ rd' = o.rd
    /\ fopen_Made(path, o) \/ fopen_Failed(path, o)
    /\ got' = <<>>
    /\ UNCHANGED <<mounts, writes>>

fclose(fd) == IsFile(fd) /\ vfs_close(fd)

fread(fd, size) ==
  \E r \in {ReadFrom(fd, size)} : IsFile(fd) /\ Reading(fd, IF r.ret <= 0 THEN "eof" ELSE owner[fd], r)

\* One byte at a time, up to a newline, the room for size - 1 bytes, or the end.
fgets(fd, size) ==
  \E r \in {ReadFrom(fd, size - 1)} :
    LET stops == {k \in DOMAIN r.bytes : r.bytes[k] = "\n"}
        n     == IF stops = {} THEN Len(r.bytes) ELSE Min(stops)
    IN /\ IsFile(fd) /\ Fs(fd) = "ramdisk"
       /\ Reading(fd, IF stops = {} /\ n < size - 1 THEN "eof" ELSE owner[fd], ReadFrom(fd, n))

-----------------------------------------------------------------------------

Init ==
  /\ fd_table = [fd \in Fds |-> Closed]
  /\ mounts = <<[path |-> <<"/">>, fs |-> "ramdisk"]>>
  /\ rd = vfs_init_ramdisk
  /\ owner = [fd \in Fds |-> "nobody"]
  /\ got = <<>>
  /\ writes = 0

\* The entries that descriptors are open on.
InUseOnRamdisk == {fd \in InUse : Fs(fd) = "ramdisk"}
OpenEntries    == {rd.open[fd_table[fd].data] : fd \in InUseOnRamdisk}

OpenEntry(path) == rd_find(rd, OpenName(resolve_mount(path).sub))
Entry(path)     == ramdisk_stat(rd, resolve_mount(path).sub)
Unopened(path)  == Entry(path) \notin OpenEntries
Vacant(path)    == \A e \in {Entry(path)} \ {0} : rd.files[e].data = 0
Capacity(fd)    == rd.files[rd.open[fd_table[fd].data]].capacity

OnDescriptor(fd) ==
  \/ owner[fd] = "caller" /\ vfs_close(fd)
  \/ fclose(fd)
  \/ vfs_read(fd, 3) \/ fread(fd, 1) \/ fgets(fd, 3)
  \/ \E bytes \in Writes : vfs_write(fd, bytes)
  \/ \E to \in {<<0, "SET">>, <<-1, "CUR">>, <<1, "END">>} : vfs_seek(fd, to[1], to[2])
  \/ OnRamdisk(fd) /\ 1 <= Capacity(fd) /\ vfs_truncate(fd, 1)

OnPath(path) ==
  \/ \E create \in BOOLEAN : path \in NewPaths /\ fopen(path, create)
  \/ \E create \in {FALSE, (path \in NewPaths)} : vfs_open(path, create)
  \/ Unopened(path) /\ vfs_unlink(path)
  \/ Unopened(path) /\ Vacant(path) /\ vfs_rmdir(path)
  \/ path \in NewPaths /\ Entry(path) = 0 /\ vfs_mkdir(path)

CarefulNext ==
  \/ \E fd \in Fds : OnDescriptor(fd)
  \/ \E path \in Paths : OnPath(path)
  \/ InUse = {} /\ vfs_mount(ProcPath, "proc")

CarefulSpec == Init /\ [][CarefulNext]_vars

-----------------------------------------------------------------------------

\* Descriptors, owners and the ramdisk's tables hold values of their types.
TypeOK ==
  /\ \A fd \in InUse : fd_table[fd].path \in Paths
  /\ owner \in [Fds -> {"nobody", "caller", "file", "eof"}]
  /\ rd.open \in [0..(RD_FDS - 1) -> 0..Len(rd.files)] /\ Len(rd.files) <= RAMDISK_MAX_FILES

\* A descriptor is in use exactly when a caller or a FILE holds it: a failed
\* vfs_open or fopen leaves none behind.
NoFdLost == InUse = {fd \in Fds : owner[fd] # "nobody"}

\* Two descriptors never share a ramdisk descriptor, hence a position, and
\* each is open on a live entry with the name its path resolves to.
OwnPosition ==
  \A fd \in InUseOnRamdisk :
    /\ rd.open[fd_table[fd].data] = OpenEntry(fd_table[fd].path)
    /\ OpenEntry(fd_table[fd].path) # 0
    /\ \A other \in InUseOnRamdisk \ {fd} : fd_table[other].data # fd_table[fd].data

\* The descriptors in use, the holders and the ramdisk's descriptors belong
\* together one to one, through failed opens, closes and tables that are full.
DescriptorsSound == TypeOK /\ NoFdLost /\ OwnPosition

\* Every live entry with room has a heap block of that size to itself, and
\* every block of the ramdisk belongs to a live entry: ramdisk_write and
\* ramdisk_unlink neither leak, share nor free twice.
BlocksOwned ==
  LET live == {i \in DOMAIN rd.files : rd.files[i].in_use /\ rd.files[i].data # 0}
  IN /\ DOMAIN rd.heap = {rd.files[i].data : i \in live}
     /\ Cardinality(live) = Cardinality(DOMAIN rd.heap)
     /\ \A i \in DOMAIN rd.files : rd.files[i].in_use =>
          /\ Len(Memory(rd, rd.files[i])) = rd.files[i].capacity
          /\ rd.files[i].size <= rd.files[i].capacity

\* Listing a directory with vfs_readdir until it fails yields every name that
\* stat finds, once.
ListingComplete ==
  LET listed == {ramdisk_readdir(rd, k) : k \in 0..Len(rd.files)} \ {0}
  IN listed = {rd_find(rd, rd.files[i].name) : i \in DOMAIN rd.files} \ {0}

\* The files that exist, their blocks and what a listing shows agree.
FilesSound == BlocksOwned /\ ListingComplete

LiveEntries == {i \in DOMAIN rd.files : rd.files[i].in_use}

Stored(r, e) == [dir |-> e.is_dir, bytes |-> SubSeq(Memory(r, e), 1, e.size)]

\* The files by name, and where each descriptor stands in which.
StoreNow ==
  [n \in {rd.files[i].name : i \in LiveEntries} |->
     Stored(rd, rd.files[CHOOSE i \in LiveEntries : rd.files[i].name = n])]

HandlesNow ==
  [fd \in InUseOnRamdisk |->
     [name |-> rd.files[rd.open[fd_table[fd].data]].name, pos |-> rd.pos[fd_table[fd].data]]]

Store == INSTANCE FileStore WITH store <- StoreNow, handle <- HandlesNow

\* Seen through vfs_* and stdio, the tables, blocks and capacities of the
\* ramdisk are a store of named files and handles with positions: reads
\* return what was written last, also after the file had to grow or shrink.
ImplementsStore == Store!Spec
=============================================================================
