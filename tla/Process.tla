------------------------------ MODULE Process ------------------------------
(***************************************************************************)
(* The process table and the scheduler, src/src/kernel/process.c, with the *)
(* page directories of src/src/mm/vmm.c they hand around.                  *)
(*                                                                         *)
(* A register set (proc_regs_t, and the regs_t of the interrupted code) is *)
(* abstracted to what tells executions apart: whose execution it           *)
(* continues, which exec image it runs and how far that has got.  A page   *)
(* directory is abstracted to whose it is, whether it maps the user stack, *)
(* and whether fork's second vmm_create_dir made it.  Names, priorities,   *)
(* file descriptors and tick counts decide nothing and are left out; the   *)
(* states PROC_READY and PROC_ZOMBIE are never assigned.                   *)
(***************************************************************************)
EXTENDS Integers, FiniteSets

CONSTANTS
  MAX_PROCS,     \* slots of procs[]
  MaxPid,        \* bound: pids 1..MaxPid are ever given out
  MaxAt,         \* bound: how far an execution is followed
  MaxExec,       \* bound: execs per process
  FramesAtBoot   \* frames left when process_init runs

ASSUME ProcessAssumption ==
  /\ MAX_PROCS \in Nat \ {0}
  /\ MaxPid \in Nat \ {0}
  /\ MaxAt \in Nat
  /\ MaxExec \in Nat
  /\ FramesAtBoot \in Nat

VARIABLES
  procs,             \* slot -> [pid, state, dir, regs]
  next_pid,
  current_proc_idx,
  proc_count,
  cpu,               \* the registers of the code the timer will interrupt
  cr3,               \* the page directory in use
  avail,             \* frames left in the physical memory manager
  images,            \* ghost: pid -> number of its latest exec
  waits              \* ghost: slot -> ticks spent runnable and passed over

table == <<procs, next_pid, current_proc_idx, proc_count>>
vars  == <<table, cpu, cr3, avail, images, waits>>

Slots == 0..(MAX_PROCS - 1)
Pids  == 1..MaxPid

NoDir     == [of |-> 0, stack |-> FALSE, forked |-> FALSE]   \* NULL
KernelDir == [of |-> -1, stack |-> FALSE, forked |-> FALSE]

Fresh(pid, image) == [of |-> pid, image |-> image, at |-> 0]

Used(i)     == procs[i].state # "UNUSED"
Runnable(i) == procs[i].state = "RUNNING"

-----------------------------------------------------------------------------

FreeSlots == {i \in Slots : ~Used(i)}

FirstFree == CHOOSE i \in FreeSlots : \A j \in FreeSlots : i <= j

CanCreate == proc_count < MAX_PROCS /\ FreeSlots # {}

(***************************************************************************)
(* process_create asks for four frames in turn: the directory, the kernel  *)
(* stack, the user stack and, in vmm_map_page, the table that maps it.     *)
(* None of the failures is reported: what could not be had is missing.     *)
(***************************************************************************)
FramesPerProcess == 4

Left(frames, n) == IF frames > n THEN frames - n ELSE 0

Proc(pid, dir, regs) == [pid |-> pid, state |-> "RUNNING", dir |-> dir, regs |-> regs]

NewDir(pid) ==
  IF avail = 0 THEN NoDir
  ELSE [of |-> pid, stack |-> avail >= FramesPerProcess, forked |-> FALSE]

NewProc(pid) == Proc(pid, NewDir(pid), Fresh(pid, 0))

process_create ==
  /\ CanCreate
  /\ next_pid \in Pids
  /\ procs' = [procs EXCEPT ![FirstFree] = NewProc(next_pid)]
  /\ next_pid' = next_pid + 1
  /\ proc_count' = proc_count + 1
  /\ avail' = Left(avail, FramesPerProcess)
  /\ UNCHANGED <<current_proc_idx, cpu, cr3, images, waits>>

process_exit_StateIgnored(pid) ==
  \E i \in Slots :
    /\ procs[i].pid = pid
    /\ procs' = [procs EXCEPT ![i].state = "UNUSED", ![i].pid = 0]
    /\ proc_count' = proc_count - 1
    /\ waits' = [waits EXCEPT ![i] = 0]
    /\ UNCHANGED <<next_pid, current_proc_idx, cpu, cr3, avail, images>>

\* Nothing is freed, current_proc_idx stays, the interrupted code goes on.
process_exit(pid) ==
  \E i \in Slots :
    /\ procs[i].pid = pid /\ Used(i)
    /\ procs' = [procs EXCEPT ![i].state = "UNUSED", ![i].pid = 0]
    /\ proc_count' = proc_count - 1
    /\ waits' = [waits EXCEPT ![i] = 0]
    /\ UNCHANGED <<next_pid, current_proc_idx, cpu, cr3, avail, images>>

process_fork_DirShared(parent_pid) ==
  /\ CanCreate
  /\ next_pid \in Pids
  /\ \E p \in Slots :
       /\ procs[p].pid = parent_pid
       /\ procs' = [procs EXCEPT ![FirstFree] =
                       Proc(next_pid, procs[p].dir, [procs[p].regs EXCEPT !.of = next_pid])]
       /\ images' = [images EXCEPT ![next_pid] = procs[p].regs.image]
  /\ avail' = Left(avail, FramesPerProcess)
  /\ next_pid' = next_pid + 1
  /\ proc_count' = proc_count + 1
  /\ UNCHANGED <<current_proc_idx, cpu, cr3, waits>>

(***************************************************************************)
(* The child is created, then gets the registers saved for the parent (not *)
(* the ones it is running with) and a second page directory in place of    *)
(* the one in which its user stack was mapped.                             *)
(***************************************************************************)
process_fork(parent_pid) ==
  /\ CanCreate
  /\ next_pid \in Pids
  /\ \E p \in Slots :
       /\ procs[p].pid = parent_pid
       /\ LET spare == Left(avail, FramesPerProcess)
              dir   == IF spare = 0 THEN NoDir
                       ELSE [of |-> next_pid, stack |-> FALSE, forked |-> TRUE]
              regs  == [procs[p].regs EXCEPT !.of = next_pid]
          IN /\ procs' = [procs EXCEPT ![FirstFree] = Proc(next_pid, dir, regs)]
             /\ avail' = Left(spare, 1)
             /\ images' = [images EXCEPT ![next_pid] = procs[p].regs.image]
  /\ next_pid' = next_pid + 1
  /\ proc_count' = proc_count + 1
  /\ UNCHANGED <<current_proc_idx, cpu, cr3, waits>>

process_exec_StateOnly(pid) ==
  /\ images[pid] < MaxExec
  /\ \E i \in Slots :
       /\ procs[i].pid = pid
       /\ procs' = [procs EXCEPT ![i].state = "RUNNING"]
  /\ images' = [images EXCEPT ![pid] = @ + 1]
  /\ UNCHANGED <<next_pid, current_proc_idx, proc_count, cpu, cr3, avail, waits>>

\* New registers in the table; what the CPU holds is not touched.
process_exec(pid) ==
  /\ images[pid] < MaxExec
  /\ \E i \in Slots :
       /\ procs[i].pid = pid
       /\ procs' = [procs EXCEPT ![i].regs = Fresh(pid, images[pid] + 1),
                                 ![i].state = "RUNNING"]
  /\ images' = [images EXCEPT ![pid] = @ + 1]
  /\ UNCHANGED <<next_pid, current_proc_idx, proc_count, cpu, cr3, avail, waits>>

\* The loop ends one slot early, and leaves next there.
NextSlot_OneShort(i) ==
  LET ahead == {k \in 1..(MAX_PROCS - 1) : Runnable((i + k) % MAX_PROCS)}
  IN  (i + (IF ahead = {} THEN MAX_PROCS - 1
            ELSE CHOOSE k \in ahead : \A j \in ahead : k <= j)) % MAX_PROCS

\* The scan starts at the first slot every time.
NextSlot_FromZero(i) ==
  LET ready == {k \in Slots : Runnable(k)}
  IN  IF ready = {} THEN i ELSE CHOOSE k \in ready : \A j \in ready : k <= j

\* The scan starts behind i and comes back to i last, runnable or not.
NextSlot(i) ==
  LET ahead == {k \in 1..MAX_PROCS : Runnable((i + k) % MAX_PROCS)}
  IN  IF ahead = {} THEN i
      ELSE (i + CHOOSE k \in ahead : \A j \in ahead : k <= j) % MAX_PROCS

\* The registers are saved after current_proc_idx has moved on.
process_scheduler_SavedLate ==
  /\ proc_count # 0
  /\ LET next  == NextSlot(current_proc_idx)
         saved == [procs EXCEPT ![next].regs = cpu]
     IN /\ procs' = saved
        /\ cr3' = IF procs[next].dir # procs[current_proc_idx].dir
                  THEN procs[next].dir ELSE cr3
        /\ current_proc_idx' = next
        /\ cpu' = saved[next].regs
        /\ UNCHANGED <<next_pid, proc_count, avail, images, waits>>

process_scheduler_NotSaved ==
  /\ proc_count # 0
  /\ LET next == NextSlot(current_proc_idx)
     IN /\ cr3' = IF procs[next].dir # procs[current_proc_idx].dir
                  THEN procs[next].dir ELSE cr3
        /\ current_proc_idx' = next
        /\ cpu' = procs[next].regs
        /\ UNCHANGED <<procs, next_pid, proc_count, avail, images, waits>>

\* The directory of the process that is left is loaded again.
process_scheduler_OldDir ==
  /\ proc_count # 0
  /\ LET next  == NextSlot(current_proc_idx)
         saved == [procs EXCEPT ![current_proc_idx].regs = cpu]
     IN /\ procs' = saved
        /\ current_proc_idx' = next
        /\ cpu' = saved[next].regs
        /\ cr3' = IF procs[next].dir # procs[current_proc_idx].dir
                  THEN procs[current_proc_idx].dir ELSE cr3
        /\ UNCHANGED <<next_pid, proc_count, avail, images, waits>>

\* Save, pick, switch directory if the two table entries differ, restore.
process_scheduler ==
  IF proc_count = 0 THEN UNCHANGED vars
  ELSE LET cur   == current_proc_idx
           next  == NextSlot(cur)
           saved == [procs EXCEPT ![cur].regs = cpu]
       IN /\ procs' = saved
          /\ cr3' = IF procs[next].dir # procs[cur].dir THEN procs[next].dir ELSE cr3
          /\ current_proc_idx' = next
          /\ cpu' = saved[next].regs
          /\ waits' = [i \in Slots |-> IF Runnable(i) /\ i # next THEN waits[i] + 1 ELSE 0]
          /\ UNCHANGED <<next_pid, proc_count, avail, images>>

\* The interrupted code makes progress.
Run ==
  /\ cpu.at < MaxAt
  /\ cpu' = [cpu EXCEPT !.at = @ + 1]
  /\ UNCHANGED <<table, cr3, avail, images, waits>>

-----------------------------------------------------------------------------

\* process_init: slot 0 is the idle process.  The boot code that goes on
\* running is what the first tick saves there.
Init ==
  LET unused == [pid |-> 0, state |-> "UNUSED", dir |-> NoDir, regs |-> Fresh(0, 0)]
      idle   == [pid   |-> 1, state |-> "RUNNING",
                 dir   |-> [of |-> 1, stack |-> TRUE, forked |-> FALSE],
                 regs  |-> Fresh(1, 0)]
  IN /\ procs = [i \in Slots |-> IF i = 0 THEN idle ELSE unused]
     /\ next_pid = 2
     /\ current_proc_idx = 0
     /\ proc_count = 1
     /\ cpu = Fresh(1, 0)
     /\ cr3 = KernelDir
     /\ avail = FramesAtBoot
     /\ images = [p \in Pids |-> 0]
     /\ waits = [i \in Slots |-> 0]

Current == procs[current_proc_idx].pid

\* Calls name processes by pids that were given out (possibly long ago).
Next ==
  \/ process_create
  \/ \E pid \in Pids : process_exit(pid)
  \/ \E pid \in Pids : process_fork(pid)
  \/ \E pid \in Pids : process_exec(pid)
  \/ process_scheduler
  \/ Run

Spec == Init /\ [][Next]_vars

\* No process ends, forks or replaces itself; others may do it to it.
PeerNext ==
  \/ process_create
  \/ \E pid \in Pids \ {Current} : process_exit(pid)
  \/ \E pid \in Pids \ {Current} : process_fork(pid)
  \/ \E pid \in Pids \ {Current} : process_exec(pid)
  \/ process_scheduler
  \/ Run

PeerSpec == Init /\ [][PeerNext]_vars

-----------------------------------------------------------------------------

Dir     == [of : {-1, 0} \cup Pids, stack : BOOLEAN, forked : BOOLEAN]
Context == [of : {0} \cup Pids, image : 0..MaxExec, at : 0..MaxAt]

\* Every variable has the type its C declaration gives it.
TypeOK ==
  /\ procs \in [Slots -> [pid : {0} \cup Pids, state : {"UNUSED", "RUNNING", "SLEEPING"},
                          dir : Dir, regs : Context]]
  /\ next_pid \in 1..(MaxPid + 1)
  /\ current_proc_idx \in Slots
  /\ proc_count \in 0..MAX_PROCS
  /\ cpu \in Context
  /\ cr3 \in Dir
  /\ avail \in 0..FramesAtBoot
  /\ images \in [Pids -> 0..MaxExec]
  /\ waits \in [Slots -> Nat]

(***************************************************************************)
(* proc_count, which every operation adjusts by hand and process_create    *)
(* trusts, is the number of slots in use.                                  *)
(***************************************************************************)
CountExact == proc_count = Cardinality({i \in Slots : Used(i)})

(***************************************************************************)
(* A pid names at most one slot, now and ever after: the live pids are     *)
(* distinct, older than next_pid, and a free slot answers to none of them  *)
(* (fork and exec look pids up without testing the state).                 *)
(***************************************************************************)
PidsUnique ==
  /\ \A i \in Slots : Used(i) => procs[i].pid \in 1..(next_pid - 1)
  /\ \A i \in Slots : ~Used(i) => procs[i].pid = 0
  /\ \A i, j \in Slots : Used(i) /\ Used(j) /\ i # j => procs[i].pid # procs[j].pid

(***************************************************************************)
(* When some process can run, the tick leaves a process current that can.  *)
(***************************************************************************)
PicksRunnable ==
  [][process_scheduler /\ (\E i \in Slots : Runnable(i))
       => procs[current_proc_idx'].state = "RUNNING"]_vars

(***************************************************************************)
(* Round robin bounds the wait: a process that stays runnable is passed    *)
(* over by fewer than MAX_PROCS ticks, whatever is created, ended or       *)
(* stopped between them.                                                   *)
(***************************************************************************)
BoundedWait == \A i \in Slots : waits[i] < MAX_PROCS

(***************************************************************************)
(* The registers kept for a process are that process's own: in its slot    *)
(* while it waits, and then of the program it exec'ed last, in the CPU     *)
(* while it is current.                                                    *)
(***************************************************************************)
OwnContext ==
  \A i \in Slots : Used(i) =>
    IF i = current_proc_idx
    THEN cpu.of = procs[i].pid
    ELSE procs[i].regs.of = procs[i].pid /\ procs[i].regs.image = images[procs[i].pid]

Regs(i) == IF i = current_proc_idx THEN cpu ELSE procs[i].regs

(***************************************************************************)
(* No switch takes a process back: where it has got to is kept, through    *)
(* any number of ticks, for as long as it lives and is not exec'ed.        *)
(***************************************************************************)
NoWorkLost ==
  [][\A i \in Slots : Used(i) /\ procs'[i].pid = procs[i].pid
                                 /\ images'[procs[i].pid] = images[procs[i].pid]
       => Regs(i)'.at >= Regs(i).at]_vars

(***************************************************************************)
(* The directory in use is the current process's (or still the kernel's,   *)
(* until the first switch between two processes).                          *)
(***************************************************************************)
SpaceLoaded ==
  Used(current_proc_idx) => cr3 \in {KernelDir, procs[current_proc_idx].dir}

(***************************************************************************)
(* README: "64 concurrent processes with independent page directories".    *)
(***************************************************************************)
IndependentDirectories ==
  \A i, j \in Slots : Used(i) /\ Used(j) =>
    /\ procs[i].dir # NoDir
    /\ i # j => procs[i].dir # procs[j].dir

(***************************************************************************)
(* Every process has a directory to itself, and runs in it: vmm_switch_dir *)
(* is called whenever the tick changes processes that differ in it.        *)
(***************************************************************************)
OwnSpace == SpaceLoaded /\ IndependentDirectories

=============================================================================
