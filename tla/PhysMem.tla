------------------------------ MODULE PhysMem ------------------------------
(***************************************************************************)
(* The physical memory manager, src/src/mm/pmm.c: one bit per page frame,  *)
(* first-fit allocation, a running count of the used frames.               *)
(*                                                                         *)
(* A frame's address is its number times PAGE_SIZE, so frames are named by *)
(* their number; frame 0 has address 0, which is also the NULL that a      *)
(* failed allocation returns.                                              *)
(***************************************************************************)
EXTENDS Integers, FiniteSets

CONSTANTS
  BITMAP_BITS,   \* bits in the bitmap (BITMAP_SIZE * 8)
  MemPages,      \* mem_size_bytes / PAGE_SIZE, from the boot loader
  StartPage      \* first frame after _kernel_end

ASSUME BootAssumption ==
  /\ BITMAP_BITS \in Nat
  /\ MemPages \in Nat
  /\ StartPage \in Nat \ {0}
  /\ StartPage <= MemPages      \* the kernel image lies in the memory there is
  /\ StartPage <= BITMAP_BITS   \* ... and in the part the bitmap describes

VARIABLES
  bitmap,        \* the set of frames whose bit is 1 (used)
  used_pages,
  owned          \* ghost: frames handed out and not given back by the caller

vars == <<bitmap, used_pages, owned>>

NULL == 0

total_pages == IF MemPages > BITMAP_BITS THEN BITMAP_BITS ELSE MemPages

Frames == 0..(total_pages - 1)

bitmap_clear_frames == {i \in Frames : i \notin bitmap}

pmm_get_free_pages == total_pages - used_pages

-----------------------------------------------------------------------------

\* Mutant: start_page is rounded down, so the kernel's last frame is free.
pmm_init_RoundedDown ==
  /\ bitmap = (0..(BITMAP_BITS - 1)) \ ((StartPage - 1)..(total_pages - 1))
  /\ used_pages = StartPage - 1

\* Everything is marked used, then the frames behind the kernel are cleared.
pmm_init ==
  /\ bitmap = (0..(BITMAP_BITS - 1)) \ (StartPage..(total_pages - 1))
  /\ used_pages = StartPage

Init == pmm_init /\ owned = {}

\* The scan reaches the first clear bit; the caller owns what is not NULL.
pmm_alloc_page ==
  \E i \in bitmap_clear_frames :
    /\ \A j \in bitmap_clear_frames : i <= j
    /\ bitmap' = bitmap \cup {i}
    /\ used_pages' = used_pages + 1
    /\ owned' = owned \cup ({i} \ {NULL})

\* The scan finds no clear bit and NULL is returned.
pmm_alloc_page_fails ==
  /\ bitmap_clear_frames = {}
  /\ UNCHANGED vars

\* Mutant: used_pages-- is missing.
pmm_free_page_NotCounted(page) ==
  /\ owned' = owned \ {page}
  /\ bitmap' = IF page < total_pages THEN bitmap \ {page} ELSE bitmap
  /\ UNCHANGED used_pages

\* A frame outside the memory, or one that is free already, is ignored.
pmm_free_page(page) ==
  /\ owned' = owned \ {page}
  /\ IF page < total_pages /\ page \in bitmap
       THEN /\ bitmap' = bitmap \ {page}
            /\ used_pages' = used_pages - 1
       ELSE UNCHANGED <<bitmap, used_pages>>

\* Callers that give back only what they were given.
Next ==
  \/ pmm_alloc_page
  \/ pmm_alloc_page_fails
  \/ \E page \in owned : pmm_free_page(page)

Spec == Init /\ [][Next]_vars

\* Callers that pass pmm_free_page any frame number at all: a second time,
\* one of the kernel's own frames, NULL, one past the end of the memory.
AnyNext ==
  \/ pmm_alloc_page
  \/ pmm_alloc_page_fails
  \/ \E page \in 0..BITMAP_BITS : pmm_free_page(page)

AnySpec == Init /\ [][AnyNext]_vars

-----------------------------------------------------------------------------

\* Every variable has the type its C declaration gives it.
TypeOK ==
  /\ bitmap \in SUBSET (0..(BITMAP_BITS - 1))
  /\ used_pages \in 0..total_pages
  /\ owned \in SUBSET Frames

(***************************************************************************)
(* used_pages, which is maintained incrementally, is at all times the      *)
(* number of 1 bits among the frames that exist, so pmm_get_free_pages     *)
(* (the shell's "mem" command) reports the number of frames that can still *)
(* be allocated.  Holds for any argument of pmm_free_page: its test of the *)
(* bit is what makes a double free harmless to the count.                  *)
(***************************************************************************)
AccountingExact ==
  pmm_get_free_pages = Cardinality(bitmap_clear_frames)

(***************************************************************************)
(* Every 1 bit is accounted for: it belongs to the kernel's image, to a    *)
(* frame some caller owns, or to no existing frame.  So an owned frame is  *)
(* never handed out a second time, no frame is lost, and the kernel's own  *)
(* frames and NULL are never handed out.                                   *)
(***************************************************************************)
FramesConserved ==
  /\ bitmap \cap Frames = (0..(StartPage - 1)) \cup owned
  /\ owned \cap (0..(StartPage - 1)) = {}

\* The allocator as a pool of StartPage..total_pages-1 frames.
Pool == INSTANCE FramePool
          WITH Capacity <- total_pages - StartPage,
               avail    <- pmm_get_free_pages

(***************************************************************************)
(* The bitmap allocator implements the frame pool: an allocation succeeds  *)
(* exactly when the count says that a frame is left, and each step changes *)
(* the count by one.                                                       *)
(***************************************************************************)
ImplementsPool == Pool!Spec

=============================================================================
