----------------------------- MODULE FramePool -----------------------------
(***************************************************************************)
(* What a client of the physical memory manager may rely on: a pool of     *)
(* interchangeable 4 KB page frames of which only the number left is       *)
(* visible.  PhysMem (src/src/mm/pmm.c) is shown to implement this         *)
(* specification, and KHeap (src/src/mm/kmalloc.c), which throws away the  *)
(* addresses pmm_alloc_page returns, is written against it.                *)
(***************************************************************************)
EXTENDS Integers

CONSTANT Capacity        \* frames the pool holds when nothing is allocated

VARIABLE avail           \* frames not handed out

TypeOK == avail \in 0..Capacity

Init == avail = Capacity

\* A successful allocation.
Take == avail > 0 /\ avail' = avail - 1

\* A frame comes back.
Give == avail < Capacity /\ avail' = avail + 1

Next == Take \/ Give

Spec == Init /\ [][Next]_avail

=============================================================================
