------------------------------- MODULE KHeap -------------------------------
(***************************************************************************)
(* The kernel heap, src/src/mm/kmalloc.c: a singly-linked list of blocks,  *)
(* first fit, split on allocation, merged with the next block on free,     *)
(* grown page by page from the physical memory manager.                    *)
(*                                                                         *)
(* The heap is a value, so that an operation that calls another (krealloc  *)
(* calls kmalloc and kfree) composes their effects in one step:            *)
(*   blk      header address -> [size, free, next]  (block_t)              *)
(*   head     heap_head                                                    *)
(*   current  heap_current, the address where the heap will grow           *)
(*   avail    frames the physical memory manager has left (FramePool)      *)
(* Sizes and addresses are uint32_t: U32 wraps at Word.                    *)
(***************************************************************************)
EXTENDS Integers

CONSTANTS
  PAGE_SIZE,
  HDR,           \* sizeof(block_t)
  SLACK,         \* the 16 bytes a split must leave beyond its header
  ALIGN,         \* the alignment of kmalloc_aligned
  KHEAP_START,
  Word,          \* 2^32
  Capacity,      \* frames available when kmalloc_init runs
  Requests,      \* the sizes callers ask for
  Counts         \* the element counts passed to kcalloc

ASSUME HeapAssumption ==
  /\ PAGE_SIZE \in Nat /\ HDR \in Nat /\ SLACK \in Nat /\ ALIGN \in Nat \ {0}
  /\ 0 < HDR /\ HDR < PAGE_SIZE /\ ALIGN <= PAGE_SIZE
  /\ KHEAP_START \in Nat \ {0}
  /\ Word \in Nat
  /\ Capacity \in Nat
  /\ Counts \subseteq Nat
  \* The heap cannot outgrow the address space (at most 128 MB of frames) ...
  /\ KHEAP_START + Capacity * PAGE_SIZE < Word
  \* ... and no request comes within a page or so of 2^32.
  /\ Requests \subseteq Nat
  /\ \A s \in Requests : s + HDR + SLACK + PAGE_SIZE < Word

VARIABLES
  heap,
  live           \* ghost: payload address -> bytes its holder asked for

vars == <<heap, live>>

NULL == 0

U32(x) == x % Word

-----------------------------------------------------------------------------

Headers(h) == DOMAIN h.blk

Fits(h, b, size) == h.blk[b].free /\ h.blk[b].size >= size

\* The heap with other blocks; with block b's free flag set to free; after
\* every frame was used up.
WithBlocks(h, blk) ==
  [blk |-> blk, head |-> h.head, current |-> h.current, avail |-> h.avail]
Mark(h, b, free) ==
  WithBlocks(h, [h.blk EXCEPT ![b] = [size |-> h.blk[b].size, free |-> free,
                                      next |-> h.blk[b].next]])
Drained(h) ==
  [blk |-> h.blk, head |-> h.head, current |-> h.current, avail |-> 0]

\* Mutant: the size is not compared, any free block will do.
find_free_SizeIgnored(h, size) ==
  {b \in Headers(h) : /\ h.blk[b].free
                      /\ \A c \in Headers(h) : h.blk[c].free => b <= c}

\* The walk along next meets headers in ascending order (see Tiled), so the
\* first block that fits is the lowest one.  Empty when there is none.
find_free(h, size) ==
  {b \in Headers(h) : /\ Fits(h, b, size)
                      /\ \A c \in Headers(h) : Fits(h, c, size) => b <= c}

\* needed and pages of expand_heap.
PagesFor(size) == U32(U32(HDR + size) + PAGE_SIZE - 1) \div PAGE_SIZE

\* The frames were obtained: one new block at heap_current, linked in behind
\* the block that was last.
expand_heap(h, size) ==
  LET bytes == PagesFor(size) * PAGE_SIZE
      new   == h.current
  IN [blk |-> [x \in Headers(h) \cup {new} |->
                 IF x = new
                   THEN [size |-> U32(bytes - HDR), free |-> TRUE, next |-> NULL]
                   ELSE [size |-> h.blk[x].size, free |-> h.blk[x].free,
                         next |-> IF h.blk[x].next = NULL THEN new
                                                          ELSE h.blk[x].next]],
      head    |-> IF h.head = NULL THEN new ELSE h.head,
      current |-> h.current + bytes,
      avail   |-> h.avail - PagesFor(size)]

\* Mutant: the split-off block's own header is not subtracted.
take_HeaderNotCounted(h, b, size) ==
  LET split == U32(b + HDR + size)
      rest  == [size |-> U32(h.blk[b].size - size),
                free |-> TRUE,
                next |-> h.blk[b].next]
  IN IF h.blk[b].size > U32(size + HDR + SLACK)
       THEN WithBlocks(h, [x \in Headers(h) \cup {split} |->
               IF x = split THEN rest
               ELSE IF x = b THEN [size |-> size, free |-> FALSE, next |-> split]
               ELSE h.blk[x]])
       ELSE Mark(h, b, FALSE)

\* The rest of kmalloc once a free block b is found: split it when what is
\* left is worth a block, and mark it allocated.
take(h, b, size) ==
  LET split == U32(b + HDR + size)
      rest  == [size |-> U32(h.blk[b].size - size - HDR),
                free |-> TRUE,
                next |-> h.blk[b].next]
  IN IF h.blk[b].size > U32(size + HDR + SLACK)
       THEN WithBlocks(h, [x \in Headers(h) \cup {split} |->
               IF x = split THEN rest
               ELSE IF x = b THEN [size |-> size, free |-> FALSE, next |-> split]
               ELSE h.blk[x]])
       ELSE Mark(h, b, FALSE)

\* Frames taken before the loop in expand_heap runs dry are not given back.
kmalloc(h, size) ==
  IF size = 0
    THEN [heap |-> h, ptr |-> NULL]
  ELSE IF find_free(h, size) # {}
    THEN LET b == CHOOSE b \in find_free(h, size) : TRUE
         IN  [heap |-> take(h, b, size), ptr |-> b + HDR]
  ELSE IF PagesFor(size) > h.avail
    THEN [heap |-> Drained(h), ptr |-> NULL]
  ELSE [heap |-> take(expand_heap(h, size), h.current, size),
        ptr  |-> h.current + HDR]

\* Mutant: the next block is absorbed whether or not it is free.
free_block_AlwaysMerges(h, b) ==
  LET n == h.blk[b].next
  IN IF n # NULL
       THEN WithBlocks(h, [x \in Headers(h) \ {n} |->
               IF x = b
                 THEN [size |-> U32(h.blk[b].size + HDR + h.blk[n].size),
                       free |-> TRUE,
                       next |-> h.blk[n].next]
                 ELSE h.blk[x]])
       ELSE Mark(h, b, TRUE)

\* The freed block absorbs its successor when that one is free, and only that.
free_block(h, b) ==
  LET n == h.blk[b].next
  IN IF n # NULL /\ h.blk[n].free
       THEN WithBlocks(h, [x \in Headers(h) \ {n} |->
               IF x = b
                 THEN [size |-> U32(h.blk[b].size + HDR + h.blk[n].size),
                       free |-> TRUE,
                       next |-> h.blk[n].next]
                 ELSE h.blk[x]])
       ELSE Mark(h, b, TRUE)

kfree(h, ptr) == free_block(h, ptr - HDR)

-----------------------------------------------------------------------------

\* Ghost bookkeeping: ptr's holder asked for size bytes; ptr was given back.
Hold(l, ptr, size) ==
  IF ptr = NULL THEN l
  ELSE [p \in DOMAIN l \cup {ptr} |-> IF p = ptr THEN size ELSE l[p]]

Drop(l, ptr) == [p \in DOMAIN l \ {ptr} |-> l[p]]

\* kmalloc_init.
Init ==
  /\ heap = [blk |-> [x \in {} |-> NULL], head |-> NULL,
             current |-> KHEAP_START, avail |-> Capacity]
  /\ live = [p \in {} |-> 0]

Malloc(size) ==
  LET r == kmalloc(heap, size)
  IN  heap' = r.heap /\ live' = Hold(live, r.ptr, size)

\* The rounded size reaches kmalloc.
AlignedSize(size) == (U32(size + ALIGN - 1) \div ALIGN) * ALIGN

kmalloc_aligned(size) ==
  LET r == kmalloc(heap, AlignedSize(size))
  IN  heap' = r.heap /\ live' = Hold(live, r.ptr, size)

\* The product is computed in 32 bits.
kcalloc(count, size) ==
  LET r == kmalloc(heap, U32(count * size))
  IN  heap' = r.heap /\ live' = Hold(live, r.ptr, count * size)

Free(ptr) ==
  /\ heap' = kfree(heap, ptr)
  /\ live' = Drop(live, ptr)

\* A block that is large enough is kept; otherwise the old one is freed only
\* once the new one exists.
krealloc(ptr, size) ==
  IF ptr = NULL THEN Malloc(size)
  ELSE IF size = 0 THEN Free(ptr)
  ELSE IF heap.blk[ptr - HDR].size >= size
    THEN live' = Hold(live, ptr, size) /\ UNCHANGED heap
  ELSE LET r == kmalloc(heap, size)
       IN IF r.ptr = NULL
            THEN heap' = r.heap /\ UNCHANGED live
            ELSE /\ heap' = kfree(r.heap, ptr)
                 /\ live' = Hold(Drop(live, ptr), r.ptr, size)

\* Callers that free and resize only what they hold.
Next ==
  \/ \E size \in Requests : Malloc(size)
  \/ \E size \in Requests : AlignedSize(size) \in Requests /\ kmalloc_aligned(size)
  \/ \E count \in Counts, size \in Requests :
       count * size \in Requests /\ kcalloc(count, size)
  \/ \E ptr \in DOMAIN live \cup {NULL}, size \in Requests : krealloc(ptr, size)
  \/ \E ptr \in DOMAIN live : Free(ptr)

Spec == Init /\ [][Next]_vars

-----------------------------------------------------------------------------

End(h, b) == b + HDR + h.blk[b].size

Block == [size : Nat, free : BOOLEAN, next : Nat]

TypedHeap(h) ==
  /\ h.blk \in [Headers(h) -> Block]
  /\ Headers(h) \subseteq Nat
  /\ h.head \in Nat
  /\ h.current \in Nat
  /\ h.avail \in 0..Capacity

\* Every field has the type its C declaration gives it, and the physical
\* memory manager is never asked for more than it has.
TypeOK ==
  /\ TypedHeap(heap)
  /\ DOMAIN live \subseteq Nat
  /\ live \in [DOMAIN live -> Nat]

(***************************************************************************)
(* The blocks tile the heap: the first starts at KHEAP_START, each one is  *)
(* followed immediately by the block its next pointer names, the last ends *)
(* at heap_current, and no two overlap.  Hence the list is in address      *)
(* order, its neighbours are neighbours in memory (what makes kfree's      *)
(* merge correct), and no byte of the heap is ever lost.                   *)
(***************************************************************************)
TiledHeap(h) ==
  /\ h.head = IF Headers(h) = {} THEN NULL ELSE KHEAP_START
  /\ IF Headers(h) = {} THEN h.current = KHEAP_START
     ELSE KHEAP_START \in Headers(h)
  /\ \A b \in Headers(h) :
       /\ KHEAP_START <= b
       /\ End(h, b) <= h.current
       /\ h.blk[b].next = IF End(h, b) = h.current THEN NULL ELSE End(h, b)
       /\ End(h, b) # h.current => End(h, b) \in Headers(h)
  /\ \A b, c \in Headers(h) : b < c => End(h, b) <= c

Tiled == TiledHeap(heap)

(***************************************************************************)
(* The allocated blocks are exactly the ones somebody holds, and each is   *)
(* at least as large as its holder asked for.  With Tiled: no two holders  *)
(* overlap, and no block is lost or handed out twice.                      *)
(***************************************************************************)
Allocated(h) == {b \in Headers(h) : ~h.blk[b].free}

HoldersServed ==
  /\ Allocated(heap) = {p - HDR : p \in DOMAIN live}
  /\ \A p \in DOMAIN live : live[p] <= heap.blk[p - HDR].size

(***************************************************************************)
(* While a block is held, no call made for another block moves its header  *)
(* or changes its extent: what kmalloc returned stays valid until it is    *)
(* given back.                                                             *)
(***************************************************************************)
HeldBlocksStable ==
  [][\A p \in DOMAIN live \cap DOMAIN live' :
       /\ p - HDR \in Headers(heap) \cap Headers(heap')
       /\ heap'.blk[p - HDR].size = heap.blk[p - HDR].size]_vars

(***************************************************************************)
(* Every page of heap address space was paid for with a frame; the         *)
(* surplus is what failed expansions took and never returned.              *)
(***************************************************************************)
PaidHeap(h) == h.current - KHEAP_START <= (Capacity - h.avail) * PAGE_SIZE

PagesPaidFor == PaidHeap(heap)

=============================================================================
