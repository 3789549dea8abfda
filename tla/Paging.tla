------------------------------- MODULE Paging -------------------------------
(***************************************************************************)
(* The virtual memory manager, src/src/mm/vmm.c, over the frames of        *)
(* PhysMem: two levels of tables, each table a frame of its own, each step *)
(* at most one allocation.  A virtual page is the pair of its directory    *)
(* and its table index.  The kernel maps only its own region, index 0 of   *)
(* the directory, and that at boot; processes map above it                 *)
(* (process_create).  A frame that is mapped is not given back: nothing in *)
(* the code takes a process's space apart.  Flags and the TLB are left out.*)
(***************************************************************************)
EXTENDS PhysMem

CONSTANTS DirSize, TabSize   \* entries of a directory and of a table (1024)

ASSUME PagingAssumption == DirSize \in Nat \ {0, 1} /\ TabSize \in Nat \ {0}

VARIABLES
  page_dir,    \* frame of a directory -> index -> frame of a table, or NULL
  page_tab,    \* frame of a table -> index -> frame mapped, or NULL
  kernel_dir,
  data         \* ghost: frames that callers have allocated for themselves

pvars == <<page_dir, page_tab, kernel_dir, data>>

Di == 0..(DirSize - 1)
Ti == 0..(TabSize - 1)
Pages == Di \X Ti
Put(f, x, v) == [y \in DOMAIN f \cup {x} |-> IF y = x THEN v ELSE f[y]]

\* The frame that pmm_alloc_page returns in this step.
NewFrame == CHOOSE i \in bitmap_clear_frames : \A j \in bitmap_clear_frames : i <= j

Untouched == UNCHANGED vars

vmm_get_phys(dir, v) == IF page_dir[dir][v[1]] = NULL THEN NULL ELSE page_tab[page_dir[dir][v[1]]][v[2]]

-----------------------------------------------------------------------------

ZeroTable_Stale == [ti \in Ti |-> StartPage]

ZeroTable == [ti \in Ti |-> NULL]

Present_Ignored(dir, di) == FALSE

Present(dir, di) == page_dir[dir][di] # NULL

\* get_or_create_table, then the entry; without memory nothing is mapped and nobody told.
vmm_map_page(dir, v, phys) ==
  \/ /\ Present(dir, v[1])
     /\ page_tab' = [page_tab EXCEPT ![page_dir[dir][v[1]]][v[2]] = phys]
     /\ UNCHANGED <<page_dir, kernel_dir, data>> /\ Untouched
  \/ /\ ~Present(dir, v[1])
     /\ pmm_alloc_page
     /\ page_dir' = [page_dir EXCEPT ![dir][v[1]] = NewFrame]
     /\ page_tab' = Put(page_tab, NewFrame, [ZeroTable EXCEPT ![v[2]] = phys])
     /\ UNCHANGED <<kernel_dir, data>>
  \/ ~Present(dir, v[1]) /\ pmm_alloc_page_fails /\ UNCHANGED pvars

vmm_unmap_page(dir, v) ==
  /\ Present(dir, v[1])
  /\ page_tab' = [page_tab EXCEPT ![page_dir[dir][v[1]]][v[2]] = NULL]
  /\ UNCHANGED <<page_dir, kernel_dir, data>> /\ Untouched

\* vmm_init: the directory, then the table of the identity map of the kernel's region.
vmm_init_dir ==
  /\ kernel_dir = NULL
  /\ pmm_alloc_page
  /\ kernel_dir' = NewFrame
  /\ page_dir' = Put(page_dir, NewFrame, [di \in Di |-> NULL])
  /\ UNCHANGED <<page_tab, data>>

vmm_init_map ==
  /\ kernel_dir # NULL /\ ~Present(kernel_dir, 0)
  /\ pmm_alloc_page
  /\ page_dir' = [page_dir EXCEPT ![kernel_dir][0] = NewFrame]
  /\ page_tab' = Put(page_tab, NewFrame, [ti \in Ti |-> ti])
  /\ UNCHANGED <<kernel_dir, data>>

Booted == kernel_dir # NULL /\ Present(kernel_dir, 0)

Shared_Nothing == [di \in Di |-> NULL]

\* The tables of the kernel are shared, not copied.
Shared == page_dir[kernel_dir]

vmm_create_dir ==
  \/ pmm_alloc_page /\ page_dir' = Put(page_dir, NewFrame, Shared) /\ UNCHANGED <<page_tab, kernel_dir, data>>
  \/ pmm_alloc_page_fails /\ UNCHANGED pvars

-----------------------------------------------------------------------------

\* The callers: frames for a stack or a page of their own.
AllocData == pmm_alloc_page /\ data' = data \cup {NewFrame} /\ UNCHANGED <<page_dir, page_tab, kernel_dir>>

Mapped == {vmm_get_phys(d, v) : d \in DOMAIN page_dir, v \in Pages}

FreeData(f) == f \notin Mapped /\ pmm_free_page(f) /\ data' = data \ {f} /\ UNCHANGED <<page_dir, page_tab, kernel_dir>>

PagingInit == Init /\ page_dir = <<>> /\ page_tab = <<>> /\ kernel_dir = NULL /\ data = {}

UserPages == {v \in Pages : v[1] > 0}

PagingNext ==
  \/ vmm_init_dir
  \/ vmm_init_map
  \/ Booted /\ (vmm_create_dir \/ AllocData)
  \/ \E f \in data : FreeData(f)
  \/ \E d \in DOMAIN page_dir \ {kernel_dir}, v \in UserPages :
       vmm_unmap_page(d, v) \/ \E f \in data : vmm_map_page(d, v, f)

PagingSpec == PagingInit /\ [][PagingNext]_<<vars, pvars>>

-----------------------------------------------------------------------------

\* Every frame handed out is in one role for good: a directory, a table that
\* one entry at least points to, or a caller's; none is leaked or has two roles.
FramesPlaced ==
  LET tables == {page_dir[d][di] : d \in DOMAIN page_dir, di \in Di} \ {NULL}
  IN /\ DOMAIN page_tab = tables
     /\ owned = DOMAIN page_dir \cup tables \cup data
     /\ Cardinality(owned) = Cardinality(DOMAIN page_dir) + Cardinality(tables) + Cardinality(data)

\* The kernel's region is mapped in every directory, one to one, so that it
\* may be loaded by vmm_switch_dir at any time.
KernelEverywhere ==
  Booted => \A d \in DOMAIN page_dir, ti \in Ti : vmm_get_phys(d, <<0, ti>>) = ti

\* Frames are never lost or in two roles, and every address space the frames
\* make up can be loaded.
SpacesSound == FramesPlaced /\ KernelEverywhere

View(d) == [v \in Pages |-> vmm_get_phys(d, v)]

Differing(d) == {v \in Pages : View(d)[v] # View(d)'[v]}

\* A step changes what one page means in one address space at most, although
\* the directories share tables; a new space begins as the kernel's.
SpacesIndependent ==
  [][Booted =>
       /\ Cardinality({d \in DOMAIN page_dir : Differing(d) # {}}) <= 1
       /\ \A d \in DOMAIN page_dir : Cardinality(Differing(d)) <= 1
       /\ \A d \in DOMAIN page_dir' \ DOMAIN page_dir : View(d)' = View(kernel_dir)]_<<vars, pvars>>
=============================================================================
