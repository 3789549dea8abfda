------------------------------- MODULE Fat16 -------------------------------
(***************************************************************************)
(* fs/fat16.c: reading files and directories by following a chain of       *)
(* clusters through the cached allocation table.  The table is arbitrary:  *)
(* it is read from a disk, and a sector of it that could not be read is    *)
(* whatever memory held.  Each operation reads sector by sector into one   *)
(* buffer from the heap; heap is what became of it.                        *)
(*                                                                         *)
(* The operations may start at any cluster, "root or subdirectory", as the *)
(* static helpers are written.  Their public callers start at cluster 0,   *)
(* which is none, and so find nothing.                                     *)
(***************************************************************************)
EXTENDS Integers, Sequences

CONSTANTS Clusters,           \* cluster numbers, from 2
          SectorsPerCluster,
          EntryAt(_, _),      \* the directory entry in sector s of cluster c
          FatNames,
          ListRoom,           \* names for which a listing has room
          MaxSeen             \* sectors followed of a table with a loop

ASSUME FatAssumption == SectorsPerCluster \in Nat \ {0}

VARIABLES fat,       \* the allocation table
          fat_cache, \* whether there was memory for it
          fop        \* the operation in progress or the last one

fatVars == <<fat, fat_cache, fop>>

EndOfChain == 0
Nothing    == [op |-> "none", cluster |-> EndOfChain, sector |-> 0, todo |-> 0, out |-> 0, seen |-> <<>>,
               name |-> "none", heap |-> "free", stage |-> "done", ret |-> "none"]

fat16_init ==
    /\ fat \in [Clusters -> Clusters \cup {EndOfChain}]
    /\ fat_cache \in BOOLEAN
    /\ fop = Nothing

(* 0xFFFF, the end of a chain, when there is no cache.                     *)
fat16_get_next_cluster_Following(c) == IF c + 1 \in Clusters THEN c + 1 ELSE EndOfChain
fat16_get_next_cluster(c)           == IF fat_cache THEN fat[c] ELSE EndOfChain

(* An operation that starts at cluster c; todo is the number of sectors a  *)
(* read may copy.                                                          *)
Start(op, c, todo, name) ==
    /\ fop.stage = "done"
    /\ fop' = [Nothing EXCEPT !.op = op, !.cluster = c, !.todo = todo, !.name = name, !.stage = "reading"]
    /\ UNCHANGED <<fat, fat_cache>>

fat16_read_cluster_chain(c, max) == Start("read", c, max, "none")
fat16_find_entry(c, name)        == Start("find", c, 0, name)
fat16_list_dir(c)                == Start("list", c, 0, "none")

Ended(f, ret) == [f EXCEPT !.stage = "done", !.ret = ret, !.heap = "free"]

(* The loops end with the chain; a read also when it has enough, a listing *)
(* when at the start of a cluster its output is nearly full.               *)
Finished_ByChain(f) == f.cluster = EndOfChain
Finished(f) == \/ f.cluster = EndOfChain
               \/ f.op = "read" /\ f.todo = 0
               \/ f.op = "list" /\ f.sector = 0 /\ f.out >= ListRoom

(* A read takes its buffer before it looks at the chain, the others take   *)
(* one for every cluster.  Without memory a listing ends with what it has. *)
fat16_TakeBuffer(memory) ==
    /\ fop.stage = "reading" /\ fop.heap = "free" /\ fop.sector = 0
    /\ fop.op = "read" \/ ~Finished(fop)
    /\ fop' = IF memory THEN [fop EXCEPT !.heap = "held"]
                        ELSE Ended(fop, IF fop.op = "list" THEN "ok" ELSE "failed")
    /\ UNCHANGED <<fat, fat_cache>>

fat16_Finish ==
    /\ fop.stage = "reading" /\ Finished(fop)
    /\ fop.op = "read" => fop.heap = "held"
    /\ fop' = Ended(fop, IF fop.op = "find" THEN "failed" ELSE "ok")
    /\ UNCHANGED <<fat, fat_cache>>

AtSector == /\ fop.stage = "reading" /\ ~Finished(fop)
            /\ fop.heap = "held" \/ fop.sector > 0

fat16_read_sector_Failed ==
    /\ AtSector
    /\ fop' = Ended(fop, IF fop.op = "list" THEN "ok" ELSE "failed")
    /\ UNCHANGED <<fat, fat_cache>>

(* The next sector, of this cluster or of the one after it in the chain.   *)
(* A lookup gives its buffer back after every sector, a listing after      *)
(* every cluster.                                                          *)
Kept_ByReads(f) == f.op = "read"
Kept(f)         == f.op = "read" \/ (f.op = "list" /\ f.sector + 1 < SectorsPerCluster)

Advanced(f) ==
    [f EXCEPT !.heap = IF Kept(f) THEN @ ELSE "free",
              !.sector = (@ + 1) % SectorsPerCluster,
              !.cluster = IF f.sector + 1 < SectorsPerCluster THEN @ ELSE fat16_get_next_cluster(@)]

Entry      == EntryAt(fop.cluster, fop.sector)
Hit_Any    == Entry \in FatNames
Hit        == Entry = fop.name

(* Deleted entries, long names and volume labels are passed over.          *)
fat16_read_sector ==
    /\ AtSector /\ Len(fop.seen) < MaxSeen
    /\ LET f == [fop EXCEPT !.seen = Append(@, <<fop.cluster, fop.sector>>),
                            !.todo = IF @ > 0 THEN @ - 1 ELSE 0,
                            !.out = IF fop.op = "list" /\ Entry \in FatNames THEN @ + 1 ELSE @]
       IN fop' = IF f.op # "read" /\ Entry = "end" THEN Ended(f, IF f.op = "find" THEN "failed" ELSE "ok")
                 ELSE IF f.op = "find" /\ Hit THEN Ended(f, "ok")
                 ELSE Advanced(f)
    /\ UNCHANGED <<fat, fat_cache>>

FatNext ==
    \/ \E c \in Clusters \cup {EndOfChain} :
          \/ \E max \in 0..3 : fat16_read_cluster_chain(c, max)
          \/ \E name \in FatNames : fat16_find_entry(c, name)
          \/ fat16_list_dir(c)
    \/ \E memory \in BOOLEAN : fat16_TakeBuffer(memory)
    \/ fat16_Finish \/ fat16_read_sector_Failed \/ fat16_read_sector

FatSpec == fat16_init /\ [][FatNext]_fatVars

-----------------------------------------------------------------------------
(* The sectors read are those of the chain, in its order, each cluster     *)
(* from its first sector to its last.                                      *)
ChainFollowed ==
    \A i \in 1..(Len(fop.seen) - 1) :
       LET c == fop.seen[i][1]
           s == fop.seen[i][2]
       IN  fop.seen[i + 1] = IF s + 1 < SectorsPerCluster THEN <<c, s + 1>> ELSE <<fat[c], 0>>

(* A lookup that succeeds has found the first entry of that name.          *)
FindsFirst ==
    fop.op = "find" /\ fop.ret = "ok" =>
       \A i \in 1..Len(fop.seen) :
          EntryAt(fop.seen[i][1], fop.seen[i][2]) = fop.name <=> i = Len(fop.seen)

(* A read and a listing hold their buffer when they read into it and have *)
(* given it back when they return, whichever way they end.  A lookup does  *)
(* not when a cluster has several sectors: it reads into a buffer that it  *)
(* has freed, and frees it again.                                          *)
BufferHeld ==
    /\ fop.stage = "reading" /\ fop.sector > 0 /\ fop.op # "find" => fop.heap = "held"
    /\ fop.stage = "done" => fop.heap = "free"

(* Operations on a table of any form see the sectors of the chain in order,*)
(* return the entry asked for, and hold their buffer while they need it.   *)
FatSound == ChainFollowed /\ FindsFirst /\ BufferHeld

(* A read comes to an end on a table with a loop: its length is limited.   *)
ReadEnds == fop.op = "read" /\ fop.stage = "reading" ~> fop.stage = "done"
=============================================================================
