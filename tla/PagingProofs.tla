---------------------------- MODULE PagingProofs ----------------------------
(***************************************************************************)
(* Proofs about the physical memory manager, src/src/mm/pmm.c, and the     *)
(* virtual memory manager on top of it, src/src/mm/vmm.c, for every size   *)
(* of the memory, of the bitmap, of the kernel image, of a directory and   *)
(* of a table.                                                             *)
(***************************************************************************)
EXTENDS Paging, FiniteSetTheorems, TLAPS

(***************************************************************************)
(* The physical memory manager                                             *)
(***************************************************************************)

\* The frames that exist form an interval that contains the kernel's frames.
LEMMA FramesFacts ==
  /\ total_pages \in Nat
  /\ StartPage <= total_pages
  /\ total_pages <= BITMAP_BITS
  /\ IsFiniteSet(Frames)
  /\ Cardinality(Frames) = total_pages
<1>1. /\ total_pages \in Nat
      /\ StartPage <= total_pages
      /\ total_pages <= BITMAP_BITS
  BY BootAssumption DEF total_pages
<1>2. /\ IsFiniteSet(Frames)
      /\ Cardinality(Frames) = total_pages
  BY <1>1, FS_Interval DEF Frames
<1> QED BY <1>1, <1>2

\* The clear bits are finitely many, at most one per frame.
LEMMA ClearFacts ==
  /\ IsFiniteSet(bitmap_clear_frames)
  /\ Cardinality(bitmap_clear_frames) \in 0..total_pages
<1>1. bitmap_clear_frames \subseteq Frames
  BY DEF bitmap_clear_frames
<1>2. /\ IsFiniteSet(bitmap_clear_frames)
      /\ Cardinality(bitmap_clear_frames) <= total_pages
  BY <1>1, FramesFacts, FS_Subset
<1> QED BY <1>2, FramesFacts, FS_CardinalityType

\* What every operation preserves, whatever is passed to pmm_free_page.
Counted == TypeOK /\ AccountingExact

LEMMA InitCounted == Init => Counted
<1> SUFFICES ASSUME Init PROVE Counted
  OBVIOUS
<1>1. bitmap_clear_frames = StartPage..(total_pages - 1)
  BY FramesFacts, BootAssumption
  DEF Init, pmm_init, bitmap_clear_frames, Frames
<1>2. Cardinality(bitmap_clear_frames) = total_pages - StartPage
  <2>1. CASE StartPage = total_pages
    <3>1. bitmap_clear_frames = {}
      BY <1>1, <2>1, FramesFacts
    <3> QED BY <3>1, <2>1, FS_EmptySet, FramesFacts
  <2>2. CASE StartPage < total_pages
    BY <1>1, <2>2, FS_Interval, FramesFacts, BootAssumption
  <2> QED BY <2>1, <2>2, FramesFacts, BootAssumption
<1>3. AccountingExact
  BY <1>2 DEF AccountingExact, pmm_get_free_pages, Init, pmm_init
<1>4. TypeOK
  BY FramesFacts, BootAssumption DEF TypeOK, Init, pmm_init, Frames
<1> QED BY <1>3, <1>4 DEF Counted

\* An allocation moves one frame from the clear bits to the set ones.
LEMMA AllocCounted ==
  ASSUME Counted, pmm_alloc_page
  PROVE  Counted' /\ pmm_get_free_pages' = pmm_get_free_pages - 1
                  /\ pmm_get_free_pages > 0
<1>1. PICK i \in bitmap_clear_frames :
        /\ bitmap' = bitmap \cup {i}
        /\ used_pages' = used_pages + 1
        /\ owned' = owned \cup ({i} \ {NULL})
  BY DEF pmm_alloc_page
<1>2. i \in Frames /\ i \in 0..(BITMAP_BITS - 1)
  BY <1>1, FramesFacts, BootAssumption DEF bitmap_clear_frames, Frames
<1>3. bitmap_clear_frames' = bitmap_clear_frames \ {i}
  BY <1>1 DEF bitmap_clear_frames, Frames, total_pages
<1>4. /\ Cardinality(bitmap_clear_frames)' = Cardinality(bitmap_clear_frames) - 1
      /\ Cardinality(bitmap_clear_frames) > 0
  <2>1. Cardinality(bitmap_clear_frames \ {i}) = Cardinality(bitmap_clear_frames) - 1
    BY <1>1, ClearFacts, FS_RemoveElement
  <2>2. bitmap_clear_frames # {}
    BY <1>1
  <2>3. Cardinality(bitmap_clear_frames) # 0
    BY <2>2, ClearFacts, FS_EmptySet
  <2> QED BY <1>3, <2>1, <2>3, ClearFacts
<1>5. /\ pmm_get_free_pages' = pmm_get_free_pages - 1
      /\ pmm_get_free_pages > 0
      /\ AccountingExact'
  BY <1>1, <1>4, FramesFacts
  DEF Counted, TypeOK, AccountingExact, pmm_get_free_pages, total_pages
<1>6. TypeOK'
  <2>1. used_pages' \in 0..total_pages
    BY <1>1, <1>5, FramesFacts DEF Counted, TypeOK, pmm_get_free_pages
  <2>2. bitmap' \in SUBSET (0..(BITMAP_BITS - 1)) /\ owned' \in SUBSET Frames
    BY <1>1, <1>2 DEF Counted, TypeOK
  <2> QED BY <2>1, <2>2 DEF TypeOK, Frames, total_pages
<1> QED BY <1>5, <1>6 DEF Counted

\* Freeing any frame number clears at most one bit and counts it exactly.
LEMMA FreeCounted ==
  ASSUME Counted, NEW page \in Nat, pmm_free_page(page)
  PROVE  /\ Counted'
         /\ page \in bitmap \cap Frames =>
              /\ bitmap' = bitmap \ {page}
              /\ pmm_get_free_pages' = pmm_get_free_pages + 1
         /\ page \notin bitmap \cap Frames => UNCHANGED <<bitmap, used_pages>>
<1>1. CASE page \in bitmap \cap Frames
  <2>1. /\ bitmap' = bitmap \ {page}
        /\ used_pages' = used_pages - 1
        /\ owned' = owned \ {page}
    BY <1>1, FramesFacts DEF pmm_free_page, Frames
  <2>2. bitmap_clear_frames' = bitmap_clear_frames \cup {page}
    BY <1>1, <2>1 DEF bitmap_clear_frames, Frames, total_pages
  <2>3. page \notin bitmap_clear_frames
    BY <1>1 DEF bitmap_clear_frames
  <2>4. Cardinality(bitmap_clear_frames)' = Cardinality(bitmap_clear_frames) + 1
    BY <2>2, <2>3, ClearFacts, FS_AddElement
  <2>5. /\ pmm_get_free_pages' = pmm_get_free_pages + 1
        /\ AccountingExact'
    BY <2>1, <2>4, FramesFacts
    DEF Counted, TypeOK, AccountingExact, pmm_get_free_pages, total_pages
  <2>6. Cardinality(bitmap_clear_frames)' <= total_pages
    <3>1. bitmap_clear_frames \cup {page} \subseteq Frames
      BY <1>1 DEF bitmap_clear_frames
    <3> QED BY <3>1, <2>2, FramesFacts, FS_Subset
  <2>7. used_pages' \in 0..total_pages
    BY <2>1, <2>4, <2>6, ClearFacts, FramesFacts
    DEF Counted, TypeOK, AccountingExact, pmm_get_free_pages
  <2>8. TypeOK'
    BY <2>1, <2>7 DEF Counted, TypeOK, Frames, total_pages
  <2> QED BY <1>1, <2>1, <2>5, <2>8 DEF Counted
<1>2. CASE page \notin bitmap \cap Frames
  <2>1. UNCHANGED <<bitmap, used_pages>> /\ owned' = owned \ {page}
    BY <1>2, FramesFacts DEF pmm_free_page, Frames
  <2>2. bitmap_clear_frames' = bitmap_clear_frames
    BY <2>1 DEF bitmap_clear_frames, Frames, total_pages
  <2> QED
    BY <1>2, <2>1, <2>2
    DEF Counted, TypeOK, AccountingExact, pmm_get_free_pages, Frames, total_pages
<1> QED BY <1>1, <1>2

\* Steps that change nothing.
LEMMA IdleCounted == ASSUME Counted, UNCHANGED vars PROVE Counted'
BY DEF Counted, TypeOK, AccountingExact, pmm_get_free_pages,
       bitmap_clear_frames, Frames, total_pages, vars

(***************************************************************************)
(* However pmm_free_page is called, the count of used frames is the number *)
(* of bits set and the free count reported is the number of frames left.   *)
(***************************************************************************)
THEOREM AccountingAlways == AnySpec => []AccountingExact
<1>1. Counted /\ [AnyNext]_vars => Counted'
  <2> SUFFICES ASSUME Counted, [AnyNext]_vars PROVE Counted'
    OBVIOUS
  <2>1. CASE pmm_alloc_page
    BY <2>1, AllocCounted
  <2>2. CASE pmm_alloc_page_fails
    BY <2>2, IdleCounted DEF pmm_alloc_page_fails
  <2>3. ASSUME NEW page \in 0..BITMAP_BITS, pmm_free_page(page)
        PROVE  Counted'
    <3>1. page \in Nat
      BY <2>3, BootAssumption
    <3> QED BY <3>1, <2>3, FreeCounted
  <2>4. CASE UNCHANGED vars
    BY <2>4, IdleCounted
  <2> QED BY <2>1, <2>2, <2>3, <2>4 DEF AnyNext
<1>2. Counted => AccountingExact
  BY DEF Counted
<1> QED BY InitCounted, <1>1, <1>2, PTL DEF AnySpec

-----------------------------------------------------------------------------
(***************************************************************************)
(* The inductive invariant for callers that free only what they own.       *)
(* FramesConserved alone is inductive but says nothing of the count;       *)
(* together with Counted it also fixes how many frames are left.           *)
(***************************************************************************)
IInv == Counted /\ FramesConserved

LEMMA InitIInv == Init => IInv
<1> SUFFICES ASSUME Init PROVE IInv
  OBVIOUS
<1>1. FramesConserved
  BY FramesFacts, BootAssumption DEF Init, pmm_init, FramesConserved, Frames
<1> QED BY <1>1, InitCounted DEF IInv

\* An allocated frame was neither owned nor one of the kernel's.
LEMMA AllocIInv == ASSUME IInv, pmm_alloc_page PROVE IInv'
<1>1. PICK i \in bitmap_clear_frames :
        /\ bitmap' = bitmap \cup {i}
        /\ owned' = owned \cup ({i} \ {NULL})
  BY DEF pmm_alloc_page
<1>2. i \in Frames /\ i \notin bitmap
  BY <1>1 DEF bitmap_clear_frames
<1>3. i \notin 0..(StartPage - 1) /\ i \notin owned
  BY <1>2 DEF IInv, FramesConserved
<1>4. i # NULL
  BY <1>3, BootAssumption DEF NULL
<1>5. FramesConserved'
  BY <1>1, <1>2, <1>3, <1>4 DEF IInv, FramesConserved, Frames, total_pages
<1> QED BY <1>5, AllocCounted DEF IInv

\* An owner's frame goes back and is the only one that does.
LEMMA FreeIInv ==
  ASSUME IInv, NEW page \in owned, pmm_free_page(page)
  PROVE  /\ IInv'
         /\ pmm_get_free_pages' = pmm_get_free_pages + 1
         /\ pmm_get_free_pages < total_pages - StartPage
<1>1. page \in bitmap \cap Frames /\ page \in Nat
  BY FramesFacts DEF IInv, Counted, TypeOK, FramesConserved, Frames
<1>2. /\ bitmap' = bitmap \ {page}
      /\ owned' = owned \ {page}
      /\ pmm_get_free_pages' = pmm_get_free_pages + 1
      /\ Counted'
  BY <1>1, FreeCounted DEF IInv, pmm_free_page
<1>3. FramesConserved'
  BY <1>1, <1>2 DEF IInv, FramesConserved, Frames, total_pages
<1>4. pmm_get_free_pages < total_pages - StartPage
  \* The clear frames are among the frames behind the kernel, without page.
  <2> DEFINE Room == (StartPage..(total_pages - 1)) \ {page}
  <2>1. page \in StartPage..(total_pages - 1)
    BY <1>1, BootAssumption, FramesFacts DEF IInv, FramesConserved, Frames
  <2>2. /\ IsFiniteSet(StartPage..(total_pages - 1))
        /\ Cardinality(StartPage..(total_pages - 1)) = total_pages - StartPage
    BY <2>1, FS_Interval, FramesFacts, BootAssumption
  <2>3. /\ IsFiniteSet(Room)
        /\ Cardinality(Room) = total_pages - StartPage - 1
    BY <2>1, <2>2, FS_RemoveElement
  <2>4. bitmap_clear_frames \subseteq Room
    BY <1>1, FramesFacts, BootAssumption
    DEF IInv, FramesConserved, bitmap_clear_frames, Frames
  <2>5. Cardinality(bitmap_clear_frames) <= Cardinality(Room)
    BY <2>3, <2>4, FS_Subset
  <2> QED
    BY <2>3, <2>5, ClearFacts, FramesFacts, BootAssumption
    DEF IInv, Counted, AccountingExact
<1> QED BY <1>2, <1>3, <1>4 DEF IInv

LEMMA IdleIInv == ASSUME IInv, UNCHANGED vars PROVE IInv'
BY IdleCounted DEF IInv, FramesConserved, Frames, total_pages, vars

LEMMA StepIInv == IInv /\ [Next]_vars => IInv'
<1> SUFFICES ASSUME IInv, [Next]_vars PROVE IInv'
  OBVIOUS
<1>1. CASE pmm_alloc_page
  BY <1>1, AllocIInv
<1>2. CASE pmm_alloc_page_fails
  BY <1>2, IdleIInv DEF pmm_alloc_page_fails
<1>3. ASSUME NEW page \in owned, pmm_free_page(page) PROVE IInv'
  BY <1>3, FreeIInv
<1>4. CASE UNCHANGED vars
  BY <1>4, IdleIInv
<1> QED BY <1>1, <1>2, <1>3, <1>4 DEF Next

(***************************************************************************)
(* The variables of pmm.c keep their types: in particular used_pages never *)
(* leaves 0..total_pages, so the unsigned subtraction in                   *)
(* pmm_get_free_pages never wraps.                                         *)
(***************************************************************************)
THEOREM Typed == Spec => []TypeOK
<1>1. IInv => TypeOK
  BY DEF IInv, Counted
<1> QED BY InitIInv, StepIInv, <1>1, PTL DEF Spec

(***************************************************************************)
(* No frame is handed out twice, none is lost, and neither the kernel's    *)
(* own frames nor NULL are ever handed out, as long as callers give back   *)
(* only frames they own.                                                   *)
(***************************************************************************)
THEOREM Conserved == Spec => []FramesConserved
<1>1. IInv => FramesConserved
  BY DEF IInv
<1> QED BY InitIInv, StepIInv, <1>1, PTL DEF Spec

(***************************************************************************)
(* The bitmap allocator implements the abstract pool that the kernel heap  *)
(* is specified over.                                                      *)
(***************************************************************************)
THEOREM RefinesPool == Spec => ImplementsPool
<1>1. Init => Pool!Init
  BY FramesFacts, BootAssumption
  DEF Init, pmm_init, Pool!Init, pmm_get_free_pages
<1>2. IInv /\ [Next]_vars => [Pool!Next]_pmm_get_free_pages
  <2> SUFFICES ASSUME IInv, [Next]_vars
               PROVE  [Pool!Next]_pmm_get_free_pages
    OBVIOUS
  <2>1. CASE pmm_alloc_page
    BY <2>1, AllocCounted DEF IInv, Pool!Next, Pool!Take
  <2>2. CASE pmm_alloc_page_fails
    BY <2>2 DEF pmm_alloc_page_fails, vars, pmm_get_free_pages, total_pages
  <2>3. ASSUME NEW page \in owned, pmm_free_page(page)
        PROVE  [Pool!Next]_pmm_get_free_pages
    BY <2>3, FreeIInv DEF Pool!Next, Pool!Give
  <2>4. CASE UNCHANGED vars
    BY <2>4 DEF vars, pmm_get_free_pages, total_pages
  <2> QED BY <2>1, <2>2, <2>3, <2>4 DEF Next
<1> QED
  BY InitIInv, StepIInv, <1>1, <1>2, PTL DEF Spec, ImplementsPool, Pool!Spec

-----------------------------------------------------------------------------
(***************************************************************************)
(* The virtual memory manager is a caller of pmm.c that keeps the rules,   *)
(* its frames keep their roles, the kernel's region is mapped in every     *)
(* space, and a step changes one page of one space at most.                *)
(*                                                                         *)
(* SpacesSound is not inductive.  That mapping a page leaves the other     *)
(* spaces and the kernel's region alone rests on which tables are shared:  *)
(* the one at index 0 by all directories, any other by none.               *)
(***************************************************************************)

Dirs == DOMAIN page_dir
Tabs == DOMAIN page_tab

Shapes ==
  /\ page_dir \in [Dirs -> [Di -> Nat]]
  /\ page_tab \in [Tabs -> [Ti -> Nat]]
  /\ kernel_dir \in Nat

\* What entries point to are the tables, and each is pointed to.
Linked ==
  /\ \A d \in Dirs, di \in Di : page_dir[d][di] # NULL => page_dir[d][di] \in Tabs
  /\ \A t \in Tabs : \E d \in Dirs, di \in Di : page_dir[d][di] = t

\* A frame that is owned has one role.
Roles ==
  /\ owned = Dirs \cup Tabs \cup data
  /\ Dirs \cap Tabs = {} /\ Dirs \cap data = {} /\ Tabs \cap data = {}

\* What there is before and while vmm_init runs, and the kernel's directory.
Stages ==
  /\ kernel_dir = NULL => Dirs = {} /\ data = {}
  /\ kernel_dir # NULL => /\ kernel_dir \in Dirs
                          /\ \A di \in Di \ {0} : page_dir[kernel_dir][di] = NULL
  /\ kernel_dir # NULL /\ ~Present(kernel_dir, 0) => Dirs = {kernel_dir} /\ data = {}

\* The table of the kernel's region is in every directory and maps one to one.
KernelShared ==
  Booted =>
    /\ \A d \in Dirs : page_dir[d][0] = page_dir[kernel_dir][0]
    /\ \A ti \in Ti : page_tab[page_dir[kernel_dir][0]][ti] = ti

\* Any other table is in one entry of one directory.
Private ==
  \A d, e \in Dirs, di \in Di \ {0}, ei \in Di :
    page_dir[d][di] # NULL /\ page_dir[d][di] = page_dir[e][ei] => d = e /\ di = ei

PInv == IInv /\ Shapes /\ Linked /\ Roles /\ Stages /\ KernelShared /\ Private

-----------------------------------------------------------------------------
(***************************************************************************)
(* Lemmas about the operators                                              *)
(***************************************************************************)

LEMMA IndexFacts ==
  /\ 0 \in Di /\ Di \subseteq Nat /\ Ti \subseteq Nat
  /\ \A v \in Pages : v[1] \in Di /\ v[2] \in Ti /\ v = <<v[1], v[2]>>
  /\ \A v \in UserPages : v \in Pages /\ v[1] \in Di \ {0} /\ v[2] \in Ti
BY PagingAssumption DEF Di, Ti, Pages, UserPages

\* pmm_alloc_page hands out NewFrame, which nobody has and which is not NULL.
LEMMA AllocFacts ==
  ASSUME IInv, pmm_alloc_page
  PROVE  /\ IInv' /\ owned' = owned \cup {NewFrame}
         /\ NewFrame \in Nat /\ NewFrame # NULL /\ NewFrame \notin owned
<1>1. PICK i \in bitmap_clear_frames :
        /\ \A j \in bitmap_clear_frames : i <= j
        /\ owned' = owned \cup ({i} \ {NULL})
  BY DEF pmm_alloc_page
<1>2. bitmap_clear_frames \subseteq Nat /\ i \in Frames /\ i \notin bitmap
  BY <1>1, FramesFacts DEF bitmap_clear_frames, Frames
<1>3. NewFrame \in bitmap_clear_frames /\ \A j \in bitmap_clear_frames : NewFrame <= j
  BY <1>1 DEF NewFrame
<1>4. i = NewFrame
  <2>1. i <= NewFrame /\ NewFrame <= i /\ i \in Nat /\ NewFrame \in Nat
    BY <1>1, <1>2, <1>3
  <2> QED BY <2>1
<1>5. i \notin 0..(StartPage - 1) /\ i \notin owned
  BY <1>2 DEF IInv, FramesConserved
<1>6. i # NULL
  BY <1>5, BootAssumption DEF NULL
<1>7. i \in Nat
  BY <1>2
<1> QED BY <1>1, <1>4, <1>5, <1>6, <1>7, AllocIInv

\* NULL is nobody's frame.
LEMMA OwnedFacts ==
  ASSUME IInv
  PROVE  NULL \notin owned /\ owned \subseteq Nat
<1>1. NULL \in 0..(StartPage - 1)
  BY BootAssumption DEF NULL
<1> QED BY <1>1, FramesFacts DEF IInv, Counted, TypeOK, FramesConserved, Frames

-----------------------------------------------------------------------------

LEMMA InitPInv == PagingInit => PInv
<1> SUFFICES ASSUME PagingInit PROVE PInv
  OBVIOUS
<1>1. IInv /\ owned = {}
  BY InitIInv DEF PagingInit, Init
<1>2. Dirs = {} /\ Tabs = {} /\ kernel_dir = NULL /\ data = {}
  BY DEF PagingInit, Dirs, Tabs
<1>3. Shapes
  <2>1. page_dir = [x \in {} |-> 0] /\ page_tab = [x \in {} |-> 0]
    BY DEF PagingInit
  <2> QED BY <1>2, <2>1 DEF Shapes, NULL
<1> QED BY <1>1, <1>2, <1>3 DEF PInv, Linked, Roles, Stages, KernelShared, Private, Booted

LEMMA InitDirKeeps == ASSUME PInv, vmm_init_dir PROVE PInv'
<1> DEFINE n == NewFrame
           zero == [di \in Di |-> NULL]
<1>1. /\ IInv' /\ owned' = owned \cup {n} /\ n \in Nat /\ n # NULL /\ n \notin owned
  BY AllocFacts DEF PInv, vmm_init_dir
<1>2. /\ kernel_dir = NULL /\ kernel_dir' = n /\ page_dir' = Put(page_dir, n, zero)
      /\ page_tab' = page_tab /\ data' = data
  BY DEF vmm_init_dir
<1> HIDE DEF n
<1>3. Dirs = {} /\ data = {} /\ Tabs = {}
  BY <1>2 DEF PInv, Stages, Linked
<1>4. zero \in [Di -> Nat]
  BY DEF NULL
<1>5. Dirs' = {n} /\ page_dir' \in [Dirs' -> [Di -> Nat]] /\ page_dir'[n] = zero
  <2>1. page_dir \in [Dirs -> [Di -> Nat]]
    BY DEF PInv, Shapes
  <2> HIDE DEF zero
  <2>2. /\ DOMAIN Put(page_dir, n, zero) = Dirs \cup {n}
        /\ Put(page_dir, n, zero) \in [Dirs \cup {n} -> [Di -> Nat]]
        /\ Put(page_dir, n, zero)[n] = zero
        /\ \A y \in Dirs : y # n => Put(page_dir, n, zero)[y] = page_dir[y]
    BY <1>4, <2>1 DEF Put
  <2>3. Dirs' = {n}
    BY <1>2, <1>3, <2>2 DEF Dirs
  <2> QED BY <1>2, <1>3, <2>2, <2>3
<1>6. Tabs' = {} /\ Shapes'
  BY <1>1, <1>2, <1>3, <1>5 DEF PInv, Shapes, Tabs
<1>7. \A di \in Di : page_dir'[n][di] = NULL
  BY <1>5
<1> HIDE DEF zero
<1>8. Linked' /\ Private'
  BY <1>5, <1>6, <1>7 DEF Linked, Private
<1>9. Roles'
  BY <1>1, <1>2, <1>3, <1>5, <1>6 DEF PInv, Roles
<1>10. Stages' /\ KernelShared'
  <2>1. 0 \in Di
    BY IndexFacts
  <2> QED BY <2>1, <1>1, <1>2, <1>3, <1>5, <1>7 DEF Stages, KernelShared, Booted, Present
<1> QED BY <1>1, <1>6, <1>8, <1>9, <1>10 DEF PInv

LEMMA InitMapKeeps == ASSUME PInv, vmm_init_map PROVE PInv'
<1> DEFINE n == NewFrame
           k == kernel_dir
           id == [ti \in Ti |-> ti]
<1>0. 0 \in Di /\ Ti \subseteq Nat
  BY IndexFacts
<1>1. /\ IInv' /\ owned' = owned \cup {n} /\ n \in Nat /\ n # NULL /\ n \notin owned
  BY AllocFacts DEF PInv, vmm_init_map
<1>2. /\ k # NULL /\ k' = k /\ page_dir' = [page_dir EXCEPT ![k][0] = n]
      /\ page_tab' = Put(page_tab, n, id) /\ data' = data /\ page_dir[k][0] = NULL
  BY DEF vmm_init_map, Present
<1> HIDE DEF n
<1>3. /\ Dirs = {k} /\ data = {}
      /\ \A di \in Di \ {0} : page_dir[k][di] = NULL
  BY <1>2 DEF PInv, Stages, Present
<1>4. NULL \notin owned /\ Tabs \subseteq owned
  BY OwnedFacts DEF PInv, Roles
<1>5. Tabs = {}
  BY <1>2, <1>3, <1>4 DEF PInv, Linked
<1>6. /\ Dirs' = {k} /\ page_dir' \in [Dirs' -> [Di -> Nat]] /\ page_dir'[k][0] = n
      /\ \A di \in Di \ {0} : page_dir'[k][di] = NULL
  BY <1>0, <1>1, <1>2, <1>3 DEF PInv, Shapes, Dirs
<1>7. Tabs' = {n} /\ page_tab' \in [Tabs' -> [Ti -> Nat]] /\ page_tab'[n] = id
  <2>1. id \in [Ti -> Nat]
    BY <1>0
  <2> HIDE DEF id
  <2>2. page_tab \in [Tabs -> [Ti -> Nat]]
    BY DEF PInv, Shapes
  <2>3. /\ DOMAIN Put(page_tab, n, id) = Tabs \cup {n}
        /\ Put(page_tab, n, id) \in [Tabs \cup {n} -> [Ti -> Nat]]
        /\ Put(page_tab, n, id)[n] = id
        /\ \A y \in Tabs : y # n => Put(page_tab, n, id)[y] = page_tab[y]
    BY <2>1, <2>2 DEF Put
  <2>4. Tabs' = {n}
    BY <1>2, <1>5, <2>3 DEF Tabs
  <2> QED BY <1>2, <1>5, <2>3, <2>4
<1>8. Shapes'
  BY <1>2, <1>6, <1>7 DEF PInv, Shapes
<1>9. Linked' /\ Private'
  BY <1>0, <1>1, <1>6, <1>7 DEF Linked, Private
<1>10. Roles'
  BY <1>1, <1>2, <1>3, <1>5, <1>6, <1>7 DEF PInv, Roles
<1>11. Stages'
  BY <1>1, <1>2, <1>3, <1>6 DEF Stages, Present
<1>12. KernelShared'
  BY <1>2, <1>6, <1>7 DEF KernelShared
<1> QED BY <1>1, <1>8, <1>9, <1>10, <1>11, <1>12 DEF PInv

\* Once booted, there is one table in every directory's entry 0.
LEMMA BootedFacts ==
  ASSUME PInv, Booted
  PROVE  /\ kernel_dir \in Dirs /\ kernel_dir # NULL /\ page_dir[kernel_dir][0] # NULL
         /\ page_dir[kernel_dir][0] \in Tabs
         /\ \A d \in Dirs, di \in Di \ {0} : page_dir[d][di] # page_dir[kernel_dir][0]
BY IndexFacts DEF PInv, Booted, Present, Stages, Linked, Private

LEMMA CreateDirKeeps ==
  ASSUME PInv, Booted, pmm_alloc_page, page_dir' = Put(page_dir, NewFrame, Shared),
         UNCHANGED <<page_tab, kernel_dir, data>>
  PROVE  PInv'
<1> DEFINE n == NewFrame
           k == kernel_dir
<1>0. 0 \in Di
  BY IndexFacts
<1>1. /\ IInv' /\ owned' = owned \cup {n} /\ n \in Nat /\ n # NULL /\ n \notin owned
  BY AllocFacts DEF PInv
<1> HIDE DEF n
<1>2. page_dir' = Put(page_dir, n, Shared) /\ k \in Dirs /\ Shared = page_dir[k]
  BY BootedFacts DEF n, Shared
<1>3. n \notin Dirs /\ n \notin Tabs /\ n \notin data
  BY <1>1 DEF PInv, Roles
<1>4. /\ Dirs' = Dirs \cup {n} /\ page_dir' \in [Dirs' -> [Di -> Nat]]
      /\ page_dir'[n] = page_dir[k]
      /\ \A d \in Dirs : page_dir'[d] = page_dir[d]
  <2>1. page_dir \in [Dirs -> [Di -> Nat]] /\ Shared \in [Di -> Nat]
    BY <1>2 DEF PInv, Shapes
  <2>2. /\ DOMAIN Put(page_dir, n, Shared) = Dirs \cup {n}
        /\ Put(page_dir, n, Shared) \in [Dirs \cup {n} -> [Di -> Nat]]
        /\ Put(page_dir, n, Shared)[n] = Shared
        /\ \A y \in Dirs : y # n => Put(page_dir, n, Shared)[y] = page_dir[y]
    BY <2>1 DEF Put
  <2>3. Dirs' = Dirs \cup {n}
    BY <1>2, <2>2 DEF Dirs
  <2> QED BY <1>2, <1>3, <2>2, <2>3
<1>5. Tabs' = Tabs
  BY DEF Tabs
<1>6. Shapes'
  BY <1>4, <1>5 DEF PInv, Shapes
<1>7. Linked'
  BY <1>2, <1>4, <1>5 DEF PInv, Linked
<1>8. Roles'
  BY <1>1, <1>3, <1>4, <1>5 DEF PInv, Roles
<1>9. Stages'
  BY <1>0, <1>2, <1>4, BootedFacts DEF PInv, Stages, Present
<1>10. KernelShared'
  <2>1. Booted
    OBVIOUS
  <2> QED BY <2>1, <1>2, <1>4 DEF PInv, KernelShared
<1>11. Private'
  <2> SUFFICES ASSUME NEW d \in Dirs', NEW e \in Dirs', NEW di \in Di \ {0}, NEW ei \in Di,
                      page_dir'[d][di] # NULL, page_dir'[d][di] = page_dir'[e][ei]
               PROVE  d = e /\ di = ei
    BY DEF Private
  <2>1. \A x \in Di \ {0} : page_dir[k][x] = NULL
    BY BootedFacts DEF PInv, Stages
  <2>2. d # n /\ d \in Dirs
    BY <1>4, <2>1
  <2>3. CASE e = n
    \* The new directory holds the kernel's table only, which d has at 0.
    <3>1. page_dir[d][di] = page_dir[k][ei] /\ page_dir[d][di] # NULL
      BY <1>4, <2>2, <2>3
    <3>2. ei = 0
      BY <2>1, <3>1
    <3> QED BY <3>1, <3>2, <2>2, BootedFacts
  <2>4. CASE e # n
    BY <1>4, <2>2, <2>4 DEF PInv, Private
  <2> QED BY <2>3, <2>4
<1> QED BY <1>1, <1>6, <1>7, <1>8, <1>9, <1>10, <1>11 DEF PInv

\* A step that leaves directories and tables as they are.
LEMMA SameSpaces ==
  ASSUME PInv, IInv', UNCHANGED <<page_dir, page_tab, kernel_dir>>, Roles',
         Booted \/ data' = data
  PROVE  PInv'
<1>1. Dirs' = Dirs /\ Tabs' = Tabs
  BY DEF Dirs, Tabs
<1>2. Stages'
  BY <1>1 DEF PInv, Stages, Booted, Present
<1> QED BY <1>1, <1>2 DEF PInv, Shapes, Linked, KernelShared, Private, Booted, Present

LEMMA AllocDataKeeps == ASSUME PInv, Booted, AllocData PROVE PInv'
<1>1. /\ IInv' /\ owned' = owned \cup {NewFrame} /\ NewFrame \notin owned
  BY AllocFacts DEF PInv, AllocData
<1>2. data' = data \cup {NewFrame} /\ UNCHANGED <<page_dir, page_tab, kernel_dir>>
  BY DEF AllocData
<1>3. Roles'
  BY <1>1, <1>2 DEF PInv, Roles, Dirs, Tabs
<1> QED BY <1>1, <1>2, <1>3, SameSpaces

LEMMA FreeDataKeeps == ASSUME PInv, NEW f \in data, FreeData(f) PROVE PInv'
<1>1. f \in owned /\ pmm_free_page(f) /\ owned' = owned \ {f}
  BY DEF PInv, Roles, FreeData, pmm_free_page
<1>2. data' = data \ {f} /\ UNCHANGED <<page_dir, page_tab, kernel_dir>>
  BY DEF FreeData
<1>3. IInv'
  BY <1>1, FreeIInv DEF PInv
<1>4. Roles'
  BY <1>1, <1>2 DEF PInv, Roles, Dirs, Tabs
<1>5. Booted
  BY DEF PInv, Stages, Booted
<1> QED BY <1>2, <1>3, <1>4, <1>5, SameSpaces

\* A caller that owns a frame, or a space beside the kernel's, runs after vmm_init.
LEMMA UserBooted ==
  ASSUME PInv, NEW d \in Dirs \ {kernel_dir}
  PROVE  Booted
BY DEF PInv, Stages, Booted

\* One entry of a table is written: mapping into a table there is, and unmapping.
LEMMA WriteEntryKeeps ==
  ASSUME PInv, NEW d \in Dirs \ {kernel_dir}, NEW v \in UserPages, NEW phys \in Nat,
         Present(d, v[1]),
         page_tab' = [page_tab EXCEPT ![page_dir[d][v[1]]][v[2]] = phys],
         UNCHANGED <<page_dir, kernel_dir, data>>, UNCHANGED vars
  PROVE  PInv'
<1> DEFINE t == page_dir[d][v[1]]
<1>1. v[1] \in Di \ {0} /\ v[2] \in Ti
  BY IndexFacts
<1>2. t \in Tabs /\ t # page_dir[kernel_dir][0] /\ Booted
  BY <1>1, UserBooted, BootedFacts DEF PInv, Linked, Present
<1>3. page_tab' = [page_tab EXCEPT ![t][v[2]] = phys]
  OBVIOUS
<1> HIDE DEF t
<1>4. /\ Tabs' = Tabs /\ page_tab' \in [Tabs -> [Ti -> Nat]]
      /\ \A u \in Tabs : u # t => page_tab'[u] = page_tab[u]
  <2>1. page_tab \in [Tabs -> [Ti -> Nat]]
    BY DEF PInv, Shapes
  <2>2. [page_tab[t] EXCEPT ![v[2]] = phys] \in [Ti -> Nat]
    BY <2>1, <1>2
  <2>3. page_tab' = [page_tab EXCEPT ![t] = [page_tab[t] EXCEPT ![v[2]] = phys]]
    BY <1>3
  <2>4. page_tab' \in [Tabs -> [Ti -> Nat]] /\ \A u \in Tabs : u # t => page_tab'[u] = page_tab[u]
    BY <2>1, <2>2, <2>3, <1>2
  <2>5. DOMAIN page_tab' = Tabs
    BY <2>4
  <2> QED BY <2>4, <2>5 DEF Tabs
<1>5. Dirs' = Dirs /\ owned' = owned
  BY DEF Dirs, vars
<1>6. IInv'
  BY IdleIInv DEF PInv
<1>7. Shapes' /\ Linked' /\ Roles' /\ Stages' /\ Private'
  BY <1>4, <1>5 DEF PInv, Shapes, Linked, Roles, Stages, Private, Present
<1>8. KernelShared'
  BY <1>2, <1>4, <1>5, BootedFacts DEF PInv, KernelShared
<1> QED BY <1>6, <1>7, <1>8 DEF PInv

\* A table is made for the page.
LEMMA NewTableKeeps ==
  ASSUME PInv, NEW d \in Dirs \ {kernel_dir}, NEW v \in UserPages, NEW phys \in Nat,
         ~Present(d, v[1]), pmm_alloc_page,
         page_dir' = [page_dir EXCEPT ![d][v[1]] = NewFrame],
         page_tab' = Put(page_tab, NewFrame, [ZeroTable EXCEPT ![v[2]] = phys]),
         UNCHANGED <<kernel_dir, data>>
  PROVE  PInv'
<1> DEFINE n == NewFrame
           tab == [ZeroTable EXCEPT ![v[2]] = phys]
<1>0. v[1] \in Di \ {0} /\ v[2] \in Ti /\ 0 \in Di
  BY IndexFacts
<1>1. /\ IInv' /\ owned' = owned \cup {n} /\ n \in Nat /\ n # NULL /\ n \notin owned
  BY AllocFacts DEF PInv
<1>2. tab \in [Ti -> Nat]
  BY DEF ZeroTable, NULL
<1>3. page_dir' = [page_dir EXCEPT ![d][v[1]] = n] /\ page_tab' = Put(page_tab, n, tab)
  OBVIOUS
<1> HIDE DEF n, tab
<1>4. n \notin Dirs /\ n \notin Tabs /\ n \notin data
  BY <1>1 DEF PInv, Roles
<1>5. /\ Dirs' = Dirs /\ page_dir' \in [Dirs -> [Di -> Nat]] /\ page_dir'[d][v[1]] = n
      /\ \A e \in Dirs, ei \in Di : ~(e = d /\ ei = v[1]) => page_dir'[e][ei] = page_dir[e][ei]
  BY <1>0, <1>1, <1>3 DEF PInv, Shapes, Dirs
<1>6. /\ Tabs' = Tabs \cup {n} /\ page_tab' \in [Tabs' -> [Ti -> Nat]]
      /\ \A u \in Tabs : page_tab'[u] = page_tab[u]
  <2>1. page_tab \in [Tabs -> [Ti -> Nat]]
    BY DEF PInv, Shapes
  <2>2. /\ DOMAIN Put(page_tab, n, tab) = Tabs \cup {n}
        /\ Put(page_tab, n, tab) \in [Tabs \cup {n} -> [Ti -> Nat]]
        /\ Put(page_tab, n, tab)[n] = tab
        /\ \A y \in Tabs : y # n => Put(page_tab, n, tab)[y] = page_tab[y]
    BY <1>2, <2>1 DEF Put
  <2>3. Tabs' = Tabs \cup {n}
    BY <1>3, <2>2 DEF Tabs
  <2> QED BY <1>3, <1>4, <2>2, <2>3
<1>7. Shapes'
  BY <1>5, <1>6 DEF PInv, Shapes
<1>8. Linked'
  <2>1. page_dir[d][v[1]] = NULL /\ NULL \notin Tabs
    BY OwnedFacts DEF Present, PInv, Roles
  <2>2. ASSUME NEW e \in Dirs, NEW ei \in Di, page_dir'[e][ei] # NULL
        PROVE  page_dir'[e][ei] \in Tabs'
    BY <2>2, <1>5, <1>6 DEF PInv, Linked
  <2>3. ASSUME NEW t \in Tabs'
        PROVE  \E e \in Dirs, ei \in Di : page_dir'[e][ei] = t
    <3>1. CASE t = n
      BY <3>1, <1>0, <1>5
    <3>2. CASE t # n
      <4>1. PICK e \in Dirs, ei \in Di : page_dir[e][ei] = t
        BY <3>2, <1>6 DEF PInv, Linked
      <4>2. ~(e = d /\ ei = v[1])
        BY <4>1, <3>2, <2>1, <1>6
      <4> QED BY <4>1, <4>2, <1>5
    <3> QED BY <3>1, <3>2
  <2> QED BY <2>2, <2>3, <1>5 DEF Linked
<1>9. Roles'
  BY <1>1, <1>4, <1>5, <1>6 DEF PInv, Roles
<1>10. Booted /\ kernel_dir \in Dirs /\ d # kernel_dir
  BY UserBooted, BootedFacts
<1>11. \A ei \in Di : page_dir'[kernel_dir][ei] = page_dir[kernel_dir][ei]
  BY <1>5, <1>10
<1>12. Stages'
  BY <1>0, <1>5, <1>10, <1>11 DEF PInv, Stages, Booted, Present
<1>13. KernelShared'
  <2>1. \A e \in Dirs : page_dir'[e][0] = page_dir[e][0]
    BY <1>0, <1>5
  <2> QED BY <2>1, <1>0, <1>5, <1>6, <1>10, <1>11, BootedFacts DEF PInv, KernelShared
<1>14. Private'
  <2> SUFFICES ASSUME NEW e \in Dirs, NEW g \in Dirs, NEW ei \in Di \ {0}, NEW gi \in Di,
                      page_dir'[e][ei] # NULL, page_dir'[e][ei] = page_dir'[g][gi]
               PROVE  e = g /\ ei = gi
    BY <1>5 DEF Private
  <2>1. \A x \in Dirs, xi \in Di : page_dir[x][xi] # n
    BY <1>1, <1>4 DEF PInv, Linked
  <2>2. CASE e = d /\ ei = v[1]
    BY <2>1, <2>2, <1>5
  <2>3. CASE ~(e = d /\ ei = v[1]) /\ g = d /\ gi = v[1]
    BY <2>1, <2>3, <1>5
  <2>4. CASE ~(e = d /\ ei = v[1]) /\ ~(g = d /\ gi = v[1])
    BY <2>4, <1>5 DEF PInv, Private
  <2> QED BY <2>2, <2>3, <2>4
<1> QED BY <1>1, <1>7, <1>8, <1>9, <1>12, <1>13, <1>14 DEF PInv

LEMMA StutterKeeps == ASSUME PInv, UNCHANGED <<vars, pvars>> PROVE PInv'
<1>1. IInv' /\ UNCHANGED <<page_dir, page_tab, kernel_dir, data, owned>>
  BY IdleIInv DEF PInv, vars, pvars
<1>2. Roles'
  BY <1>1 DEF PInv, Roles, Dirs, Tabs
<1> QED BY <1>1, <1>2, SameSpaces

LEMMA StepPInv == PInv /\ [PagingNext]_<<vars, pvars>> => PInv'
<1> SUFFICES ASSUME PInv, [PagingNext]_<<vars, pvars>> PROVE PInv'
  OBVIOUS
<1>1. CASE vmm_init_dir
  BY <1>1, InitDirKeeps
<1>2. CASE vmm_init_map
  BY <1>2, InitMapKeeps
<1>3. CASE Booted /\ vmm_create_dir
  BY <1>3, CreateDirKeeps, StutterKeeps DEF vmm_create_dir, pmm_alloc_page_fails
<1>4. CASE Booted /\ AllocData
  BY <1>4, AllocDataKeeps
<1>5. CASE \E f \in data : FreeData(f)
  BY <1>5, FreeDataKeeps
<1>6. ASSUME NEW d \in Dirs \ {kernel_dir}, NEW v \in UserPages, vmm_unmap_page(d, v)
      PROVE  PInv'
  <2>1. NULL \in Nat
    BY DEF NULL
  <2> QED BY <1>6, <2>1, WriteEntryKeeps DEF vmm_unmap_page, Untouched
<1>7. ASSUME NEW d \in Dirs \ {kernel_dir}, NEW v \in UserPages, NEW f \in data,
             vmm_map_page(d, v, f)
      PROVE  PInv'
  <2>1. f \in Nat
    BY OwnedFacts DEF PInv, Roles
  <2>2. CASE Present(d, v[1])
    BY <1>7, <2>1, <2>2, WriteEntryKeeps DEF vmm_map_page, Untouched
  <2>3. CASE ~Present(d, v[1])
    BY <1>7, <2>1, <2>3, NewTableKeeps, StutterKeeps DEF vmm_map_page, pmm_alloc_page_fails
  <2> QED BY <2>2, <2>3
<1>8. CASE UNCHANGED <<vars, pvars>>
  BY <1>8, StutterKeeps
<1> QED BY <1>1, <1>2, <1>3, <1>4, <1>5, <1>6, <1>7, <1>8 DEF PagingNext, Dirs

LEMMA PagingInvariance == PagingSpec => []PInv
BY InitPInv, StepPInv, PTL DEF PagingSpec

-----------------------------------------------------------------------------
(***************************************************************************)
(* Frames                                                                  *)
(***************************************************************************)

(***************************************************************************)
(* vmm.c and its callers are clients of pmm.c that give back only what     *)
(* they own: every step is one of PhysMem's, or none.                      *)
(***************************************************************************)
THEOREM PagingIsClient == PagingSpec => Spec
<1>1. PInv /\ [PagingNext]_<<vars, pvars>> => [Next]_vars
  <2> SUFFICES ASSUME PInv, [PagingNext]_<<vars, pvars>> PROVE [Next]_vars
    OBVIOUS
  <2>1. CASE vmm_init_dir \/ vmm_init_map \/ AllocData
    BY <2>1 DEF vmm_init_dir, vmm_init_map, AllocData, Next
  <2>2. CASE vmm_create_dir
    BY <2>2 DEF vmm_create_dir, Next
  <2>3. CASE \E f \in data : FreeData(f)
    BY <2>3 DEF PInv, Roles, FreeData, Next
  <2>4. CASE \E d \in DOMAIN page_dir \ {kernel_dir}, v \in UserPages :
               vmm_unmap_page(d, v) \/ \E f \in data : vmm_map_page(d, v, f)
    BY <2>4 DEF vmm_unmap_page, vmm_map_page, Untouched, Next
  <2>5. CASE UNCHANGED <<vars, pvars>>
    BY <2>5
  <2> QED BY <2>1, <2>2, <2>3, <2>4, <2>5 DEF PagingNext
<1>2. PagingInit => Init
  BY DEF PagingInit
<1> QED BY <1>1, <1>2, PagingInvariance, PTL DEF PagingSpec, Spec

(***************************************************************************)
(* So paging loses and doubles no frame, the count of the free ones stays  *)
(* exact, and the pool is all of pmm.c that can be seen through it.        *)
(***************************************************************************)
THEOREM PagingConserves ==
  PagingSpec => [](FramesConserved /\ AccountingExact) /\ ImplementsPool
<1>1. IInv => FramesConserved /\ AccountingExact
  BY DEF IInv, Counted
<1>2. PInv => IInv
  BY DEF PInv
<1> QED BY <1>1, <1>2, PagingInvariance, PagingIsClient, RefinesPool, PTL

\* The sizes of three finite sets that are apart add up.
LEMMA ThreeApart ==
  ASSUME NEW A, NEW B, NEW C, IsFiniteSet(A), IsFiniteSet(B), IsFiniteSet(C),
         A \cap B = {}, A \cap C = {}, B \cap C = {}
  PROVE  Cardinality(A \cup B \cup C) = Cardinality(A) + Cardinality(B) + Cardinality(C)
<1>1. /\ IsFiniteSet(A \cup B)
      /\ Cardinality(A \cup B) = Cardinality(A) + Cardinality(B) - Cardinality(A \cap B)
  BY FS_Union
<1>2. /\ Cardinality(A \cup B \cup C)
           = Cardinality(A \cup B) + Cardinality(C) - Cardinality((A \cup B) \cap C)
  BY <1>1, FS_Union
<1>3. Cardinality(A \cap B) = 0 /\ Cardinality((A \cup B) \cap C) = 0
  <2>1. A \cap B = {} /\ (A \cup B) \cap C = {}
    OBVIOUS
  <2> QED BY <2>1, FS_EmptySet
<1>4. Cardinality(A) \in Nat /\ Cardinality(B) \in Nat /\ Cardinality(C) \in Nat
  BY FS_CardinalityType
<1> QED BY <1>1, <1>2, <1>3, <1>4

LEMMA PlacedFollows == PInv => FramesPlaced
<1> SUFFICES ASSUME PInv PROVE FramesPlaced
  OBVIOUS
<1> DEFINE tables == {page_dir[d][di] : d \in DOMAIN page_dir, di \in Di} \ {NULL}
<1>1. NULL \notin owned /\ Tabs \subseteq owned /\ Dirs \subseteq owned /\ data \subseteq owned
  BY OwnedFacts DEF PInv, Roles
<1>2. Tabs = tables
  <2>1. Tabs \subseteq tables
    BY <1>1 DEF PInv, Linked, Dirs
  <2>2. tables \subseteq Tabs
    BY DEF PInv, Linked, Dirs
  <2> QED BY <2>1, <2>2
<1>3. owned = Dirs \cup Tabs \cup data
      /\ Dirs \cap Tabs = {} /\ Dirs \cap data = {} /\ Tabs \cap data = {}
  BY DEF PInv, Roles
<1>4. IsFiniteSet(owned)
  BY FramesFacts, FS_Subset DEF PInv, IInv, Counted, TypeOK
<1>5. IsFiniteSet(Dirs) /\ IsFiniteSet(Tabs) /\ IsFiniteSet(data)
  BY <1>1, <1>4, FS_Subset
<1>6. Cardinality(owned) = Cardinality(Dirs) + Cardinality(Tabs) + Cardinality(data)
  BY <1>3, <1>5, ThreeApart
<1> QED BY <1>2, <1>3, <1>6 DEF FramesPlaced, Dirs, Tabs

LEMMA KernelFollows == PInv => KernelEverywhere
<1> SUFFICES ASSUME PInv, Booted, NEW d \in DOMAIN page_dir, NEW ti \in Ti
             PROVE  vmm_get_phys(d, <<0, ti>>) = ti
  BY DEF KernelEverywhere
<1>1. page_dir[d][0] = page_dir[kernel_dir][0]
      /\ page_tab[page_dir[kernel_dir][0]][ti] = ti
  BY DEF PInv, KernelShared, Dirs
<1> QED BY <1>1, BootedFacts DEF vmm_get_phys

(***************************************************************************)
(* A frame that is handed out is a directory, a table some entry points to *)
(* or a caller's, one of the three only; and whatever has been mapped and  *)
(* unmapped, vmm_switch_dir may load any directory: the kernel's region is *)
(* mapped in it one to one.                                                *)
(***************************************************************************)
THEOREM SpacesAlwaysSound == PagingSpec => []SpacesSound
<1>1. PInv => SpacesSound
  BY PlacedFollows, KernelFollows DEF SpacesSound
<1> QED BY <1>1, PagingInvariance, PTL

-----------------------------------------------------------------------------
(***************************************************************************)
(* Independence of the spaces                                              *)
(***************************************************************************)

OneAtMost ==
  /\ Cardinality({d \in DOMAIN page_dir : Differing(d) # {}}) <= 1
  /\ \A d \in DOMAIN page_dir : Cardinality(Differing(d)) <= 1
  /\ \A d \in DOMAIN page_dir' \ DOMAIN page_dir : View(d)' = View(kernel_dir)

LEMMA AtMostOne ==
  ASSUME NEW S, NEW x, S \subseteq {x}
  PROVE  Cardinality(S) <= 1
<1>1. IsFiniteSet({x}) /\ Cardinality({x}) = 1
  BY FS_Singleton
<1> QED BY <1>1, FS_Subset

\* It is enough that one page of one space is the only one to change.
LEMMA OnePage ==
  ASSUME NEW d0, NEW v0,
         \A d \in Dirs, v \in Pages :
           ~(d = d0 /\ v = v0) => vmm_get_phys(d, v)' = vmm_get_phys(d, v),
         \A d \in Dirs' \ Dirs, v \in Pages : vmm_get_phys(d, v)' = vmm_get_phys(kernel_dir, v)
  PROVE  OneAtMost
<1>1. \A d \in Dirs : Differing(d) = {v \in Pages : vmm_get_phys(d, v) # vmm_get_phys(d, v)'}
  BY DEF Differing, View
<1>2. \A d \in Dirs : Differing(d) \subseteq {v0} /\ (Differing(d) # {} => d = d0)
  BY <1>1
<1>3. {d \in Dirs : Differing(d) # {}} \subseteq {d0}
  BY <1>2
<1>4. Cardinality({d \in Dirs : Differing(d) # {}}) <= 1
  BY <1>3, AtMostOne
<1>5. \A d \in Dirs : Cardinality(Differing(d)) <= 1
  BY <1>2, AtMostOne
<1>6. \A d \in Dirs' \ Dirs : View(d)' = View(kernel_dir)
  BY DEF View
<1> QED BY <1>4, <1>5, <1>6 DEF OneAtMost, Dirs

LEMMA SamePages ==
  ASSUME UNCHANGED <<page_dir, page_tab>>
  PROVE  OneAtMost
<1>1. \A d, v : vmm_get_phys(d, v)' = vmm_get_phys(d, v)
  BY DEF vmm_get_phys
<1>2. Dirs' = Dirs
  BY DEF Dirs
<1> QED BY <1>1, <1>2, OnePage

LEMMA CreateDirIndependent ==
  ASSUME PInv, Booted, pmm_alloc_page, page_dir' = Put(page_dir, NewFrame, Shared),
         UNCHANGED <<page_tab, kernel_dir, data>>
  PROVE  OneAtMost
<1>1. PICK n \in Nat : n = NewFrame /\ n \notin owned
  BY AllocFacts DEF PInv
<1>2. page_dir' = Put(page_dir, n, Shared) /\ Shared = page_dir[kernel_dir] /\ n \notin Dirs
  BY <1>1 DEF Shared, PInv, Roles
<1>3. /\ Dirs' = Dirs \cup {n} /\ page_dir'[n] = page_dir[kernel_dir]
      /\ \A d \in Dirs : page_dir'[d] = page_dir[d]
  BY <1>2 DEF Put, Dirs
<1>4. \A d \in Dirs, v \in Pages : vmm_get_phys(d, v)' = vmm_get_phys(d, v)
  BY <1>3 DEF vmm_get_phys
<1>5. ASSUME NEW v \in Pages
      PROVE  vmm_get_phys(n, v)' = vmm_get_phys(kernel_dir, v)
  <2>1. page_dir'[n][v[1]] = page_dir[kernel_dir][v[1]] /\ page_tab' = page_tab
    BY <1>3
  <2> QED BY <2>1 DEF vmm_get_phys
<1>6. \A d \in Dirs' \ Dirs : d = n
  BY <1>3
<1> QED BY <1>4, <1>5, <1>6, OnePage

LEMMA WriteEntryIndependent ==
  ASSUME PInv, NEW d \in Dirs \ {kernel_dir}, NEW v \in UserPages, NEW phys \in Nat,
         Present(d, v[1]),
         page_tab' = [page_tab EXCEPT ![page_dir[d][v[1]]][v[2]] = phys],
         UNCHANGED <<page_dir, kernel_dir, data>>, UNCHANGED vars
  PROVE  OneAtMost
<1> DEFINE t == page_dir[d][v[1]]
<1>1. v \in Pages /\ v[1] \in Di \ {0} /\ v[2] \in Ti /\ v = <<v[1], v[2]>>
  BY IndexFacts
<1>2. t \in Tabs /\ t # NULL
  BY <1>1 DEF PInv, Linked, Present
<1>3. page_tab' = [page_tab EXCEPT ![t][v[2]] = phys] /\ page_dir' = page_dir /\ Dirs' = Dirs
  BY DEF Dirs
<1>4. \A u \in Tabs, ti \in Ti : ~(u = t /\ ti = v[2]) => page_tab'[u][ti] = page_tab[u][ti]
  <2> HIDE DEF t
  <2>1. page_tab \in [Tabs -> [Ti -> Nat]]
    BY DEF PInv, Shapes
  <2> QED BY <2>1, <1>1, <1>2, <1>3
<1>5. ASSUME NEW e \in Dirs, NEW w \in Pages, ~(e = d /\ w = v)
      PROVE  vmm_get_phys(e, w)' = vmm_get_phys(e, w)
  <2>1. w[1] \in Di /\ w[2] \in Ti /\ w = <<w[1], w[2]>>
    BY IndexFacts
  <2>2. CASE page_dir[e][w[1]] = NULL
    BY <2>2, <1>3 DEF vmm_get_phys
  <2>3. CASE page_dir[e][w[1]] # NULL
    <3>1. page_dir[e][w[1]] \in Tabs
      BY <2>1, <2>3 DEF PInv, Linked
    <3>2. ~(page_dir[e][w[1]] = t /\ w[2] = v[2])
      <4> SUFFICES ASSUME page_dir[e][w[1]] = t, w[2] = v[2] PROVE FALSE
        OBVIOUS
      <4>1. d = e /\ v[1] = w[1]
        BY <1>1, <1>2, <2>1 DEF PInv, Private
      <4> QED BY <4>1, <1>1, <1>5, <2>1
    <3>3. page_tab'[page_dir[e][w[1]]][w[2]] = page_tab[page_dir[e][w[1]]][w[2]]
      BY <3>1, <3>2, <2>1, <1>4
    <3> QED BY <3>3, <2>3, <1>3 DEF vmm_get_phys
  <2> QED BY <2>2, <2>3
<1> QED BY <1>3, <1>5, OnePage

LEMMA NewTableIndependent ==
  ASSUME PInv, NEW d \in Dirs \ {kernel_dir}, NEW v \in UserPages, NEW phys \in Nat,
         ~Present(d, v[1]), pmm_alloc_page,
         page_dir' = [page_dir EXCEPT ![d][v[1]] = NewFrame],
         page_tab' = Put(page_tab, NewFrame, [ZeroTable EXCEPT ![v[2]] = phys]),
         UNCHANGED <<kernel_dir, data>>
  PROVE  OneAtMost
<1> DEFINE n == NewFrame
           tab == [ZeroTable EXCEPT ![v[2]] = phys]
<1>0. v \in Pages /\ v[1] \in Di \ {0} /\ v[2] \in Ti /\ v = <<v[1], v[2]>>
  BY IndexFacts
<1>1. n \in Nat /\ n # NULL /\ n \notin owned
  BY AllocFacts DEF PInv
<1>2. \A ti \in Ti : ti # v[2] => tab[ti] = NULL
  BY DEF ZeroTable
<1>3. page_dir' = [page_dir EXCEPT ![d][v[1]] = n] /\ page_tab' = Put(page_tab, n, tab)
      /\ page_dir[d][v[1]] = NULL
  BY DEF Present
<1> HIDE DEF n, tab
<1>4. n \notin Tabs
  BY <1>1 DEF PInv, Roles
<1>5. /\ Dirs' = Dirs /\ page_dir'[d][v[1]] = n
      /\ \A e \in Dirs, ei \in Di : ~(e = d /\ ei = v[1]) => page_dir'[e][ei] = page_dir[e][ei]
  BY <1>0, <1>1, <1>3 DEF PInv, Shapes, Dirs
<1>6. page_tab'[n] = tab /\ \A u \in Tabs : page_tab'[u] = page_tab[u]
  BY <1>3, <1>4 DEF Put, Tabs
<1>7. ASSUME NEW e \in Dirs, NEW w \in Pages, ~(e = d /\ w = v)
      PROVE  vmm_get_phys(e, w)' = vmm_get_phys(e, w)
  <2>1. w[1] \in Di /\ w[2] \in Ti /\ w = <<w[1], w[2]>>
    BY IndexFacts
  <2>2. CASE e = d /\ w[1] = v[1]
    \* The other pages of the new table were not mapped and are not.
    <3>1. w[2] # v[2]
      BY <1>0, <1>7, <2>1, <2>2
    <3>2. vmm_get_phys(e, w) = NULL
      BY <1>3, <2>2 DEF vmm_get_phys
    <3>3. vmm_get_phys(e, w)' = tab[w[2]]
      BY <1>1, <1>5, <1>6, <2>2 DEF vmm_get_phys
    <3> QED BY <3>1, <3>2, <3>3, <2>1, <1>2
  <2>3. CASE ~(e = d /\ w[1] = v[1])
    <3>1. page_dir'[e][w[1]] = page_dir[e][w[1]]
      BY <2>1, <2>3, <1>5
    <3>2. page_dir[e][w[1]] # NULL => page_dir[e][w[1]] \in Tabs
      BY <2>1 DEF PInv, Linked
    <3>3. CASE page_dir[e][w[1]] = NULL
      BY <3>1, <3>3 DEF vmm_get_phys
    <3>4. CASE page_dir[e][w[1]] # NULL
      <4>1. page_tab'[page_dir[e][w[1]]] = page_tab[page_dir[e][w[1]]]
        BY <3>2, <3>4, <1>6
      <4> QED BY ONLY <4>1, <3>1, <3>4 DEF vmm_get_phys
    <3> QED BY <3>3, <3>4
  <2> QED BY <2>2, <2>3
<1> QED BY <1>5, <1>7, OnePage

(***************************************************************************)
(* Although directories share tables, mapping and unmapping change one     *)
(* page of one space at most, and vmm_create_dir begins a space as the     *)
(* kernel's.                                                               *)
(***************************************************************************)
THEOREM SpacesStayIndependent == PagingSpec => SpacesIndependent
<1>1. PInv /\ [PagingNext]_<<vars, pvars>> => [Booted => OneAtMost]_<<vars, pvars>>
  <2> SUFFICES ASSUME PInv, PagingNext, Booted PROVE OneAtMost
    OBVIOUS
  <2>1. CASE vmm_init_dir \/ vmm_init_map
    BY <2>1 DEF vmm_init_dir, vmm_init_map, Booted
  <2>2. CASE vmm_create_dir
    <3>1. CASE pmm_alloc_page_fails /\ UNCHANGED pvars
      BY <3>1, SamePages DEF pvars
    <3> QED BY <2>2, <3>1, CreateDirIndependent DEF vmm_create_dir
  <2>3. CASE AllocData \/ \E f \in data : FreeData(f)
    BY <2>3, SamePages DEF AllocData, FreeData
  <2>4. ASSUME NEW d \in Dirs \ {kernel_dir}, NEW v \in UserPages, vmm_unmap_page(d, v)
        PROVE  OneAtMost
    <3>1. NULL \in Nat
      BY DEF NULL
    <3> QED BY <2>4, <3>1, WriteEntryIndependent DEF vmm_unmap_page, Untouched
  <2>5. ASSUME NEW d \in Dirs \ {kernel_dir}, NEW v \in UserPages, NEW f \in data,
               vmm_map_page(d, v, f)
        PROVE  OneAtMost
    <3>1. f \in Nat
      BY OwnedFacts DEF PInv, Roles
    <3>2. CASE Present(d, v[1])
      BY <2>5, <3>1, <3>2, WriteEntryIndependent DEF vmm_map_page, Untouched
    <3>3. CASE ~Present(d, v[1]) /\ UNCHANGED pvars
      BY <3>3, SamePages DEF pvars
    <3> QED BY <2>5, <3>1, <3>2, <3>3, NewTableIndependent DEF vmm_map_page
  <2> QED BY <2>1, <2>2, <2>3, <2>4, <2>5 DEF PagingNext, Dirs
<1>2. SpacesIndependent <=> [][Booted => OneAtMost]_<<vars, pvars>>
  BY DEF SpacesIndependent, OneAtMost
<1> QED BY <1>1, <1>2, PagingInvariance, PTL DEF PagingSpec

=============================================================================
