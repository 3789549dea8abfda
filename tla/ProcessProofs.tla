--------------------------- MODULE ProcessProofs ---------------------------
(***************************************************************************)
(* Proofs about the process table, the scheduler and the signals, for any  *)
(* number of slots, pids, frames and signals.                              *)
(***************************************************************************)
EXTENDS Signals, FiniteSetTheorems, WellFoundedInduction, TLAPS

-----------------------------------------------------------------------------
\* The scans of the table pick a least number.

LEMMA MinimalIsLeast ==
  ASSUME NEW R, IsWellFoundedOn(R, Nat), \A x, y \in Nat : y < x => <<y, x>> \in R,
         NEW S, S \subseteq Nat, S # {}
  PROVE  \E x \in S : \A y \in S : x <= y
<1>1. PICK x \in S : \A y \in S : ~(<<y, x>> \in R)
  BY WFMin
<1>2. ASSUME NEW y \in S PROVE ~(y < x)
  <2>1. x \in Nat /\ y \in Nat
    OBVIOUS
  <2>2. y < x => <<y, x>> \in R
    BY <2>1, Zenon
  <2> QED BY <2>2, <1>1, Zenon
<1>3. \A y \in S : x <= y
  BY <1>2
<1> QED BY <1>3

LEMMA LeastExists ==
  ASSUME NEW S, S \subseteq Nat, S # {}
  PROVE  \E x \in S : \A y \in S : x <= y
<1>1. IsWellFoundedOn(OpToRel(<, Nat), Nat)
  BY NatLessThanWellFounded
<1>2. \A x, y \in Nat : y < x => <<y, x>> \in OpToRel(<, Nat)
  BY DEF OpToRel
<1> QED BY <1>1, <1>2, MinimalIsLeast, Zenon

\* The slot process_create takes is in the table and free.
LEMMA FirstFreeFacts ==
  ASSUME FreeSlots # {}
  PROVE  FirstFree \in Slots /\ ~Used(FirstFree)
<1>1. FreeSlots \subseteq Nat
  BY ProcessAssumption DEF FreeSlots, Slots
<1>2. \E i \in FreeSlots : \A j \in FreeSlots : i <= j
  BY <1>1, LeastExists
<1>3. FirstFree \in FreeSlots
  BY <1>2 DEF FirstFree
<1> QED BY <1>3 DEF FreeSlots

-----------------------------------------------------------------------------
(***************************************************************************)
(* How far the scan that starts behind the current slot has to go to reach *)
(* slot i: 1..MAX_PROCS, the current slot itself coming last.              *)
(***************************************************************************)
Ahead(i) == IF i > current_proc_idx THEN i - current_proc_idx
            ELSE i - current_proc_idx + MAX_PROCS

(***************************************************************************)
(* Why the wait is bounded: every tick a slot waits brings the scan nearer *)
(* to it.                                                                  *)
(***************************************************************************)
Rotation == \A i \in Slots : waits[i] + Ahead(i) <= MAX_PROCS

UsedSlots == {i \in Slots : Used(i)}

Inv == TypeOK /\ CountExact /\ PidsUnique /\ Rotation

\* What NextSlot returns: the runnable slot that is nearest, if there is one.
LEMMA NextSlotFacts ==
  ASSUME current_proc_idx \in Slots, NEW n, n = NextSlot(current_proc_idx)
  PROVE  /\ n \in Slots
         /\ \A i \in Slots : Runnable(i) => Ahead(n) <= Ahead(i) /\ Runnable(n)
         /\ Runnable(n) \/ n = current_proc_idx
<1> DEFINE cur == current_proc_idx
           ahead == {k \in 1..MAX_PROCS : Runnable((cur + k) % MAX_PROCS)}
<1>0. MAX_PROCS \in Nat \ {0} /\ cur \in 0..(MAX_PROCS - 1)
  BY ProcessAssumption DEF Slots
<1>1. \A k \in 1..MAX_PROCS : /\ (cur + k) % MAX_PROCS \in Slots
                              /\ Ahead((cur + k) % MAX_PROCS) = k
  <2> SUFFICES ASSUME NEW k \in 1..MAX_PROCS
               PROVE  /\ (cur + k) % MAX_PROCS \in Slots
                      /\ Ahead((cur + k) % MAX_PROCS) = k
    OBVIOUS
  <2>1. (cur + k) % MAX_PROCS = IF cur + k < MAX_PROCS THEN cur + k ELSE cur + k - MAX_PROCS
    BY <1>0
  <2> QED BY <2>1, <1>0 DEF Ahead, Slots
<1>2. \A i \in Slots : Ahead(i) \in 1..MAX_PROCS /\ (cur + Ahead(i)) % MAX_PROCS = i
  <2> SUFFICES ASSUME NEW i \in Slots
               PROVE  Ahead(i) \in 1..MAX_PROCS /\ (cur + Ahead(i)) % MAX_PROCS = i
    OBVIOUS
  <2>1. Ahead(i) \in 1..MAX_PROCS
    BY <1>0 DEF Ahead, Slots
  <2>2. CASE i > cur
    BY <2>2, <1>0 DEF Ahead, Slots
  <2>3. CASE ~(i > cur)
    <3>1. cur + Ahead(i) = i + MAX_PROCS
      BY <2>3, <1>0 DEF Ahead, Slots
    <3>2. (i + MAX_PROCS) % MAX_PROCS = i
      BY <1>0 DEF Slots
    <3> QED BY <2>1, <3>1, <3>2
  <2> QED BY <2>1, <2>2, <2>3
<1>3. CASE ahead = {}
  <2>1. n = cur
    BY <1>3 DEF NextSlot
  <2>2. \A i \in Slots : ~Runnable(i)
    BY <1>2, <1>3
  <2> QED BY <2>1, <2>2
<1>4. CASE ahead # {}
  <2>1. ahead \subseteq Nat
    BY <1>0
  <2>2. \E k \in ahead : \A j \in ahead : k <= j
    BY <1>4, <2>1, LeastExists
  <2> DEFINE k == CHOOSE x \in ahead : \A j \in ahead : x <= j
  <2>3. k \in ahead /\ \A j \in ahead : k <= j
    BY <2>2
  <2>4. n = (cur + k) % MAX_PROCS
    BY <1>4 DEF NextSlot
  <2> HIDE DEF k
  <2>5. n \in Slots /\ Ahead(n) = k /\ Runnable(n)
    BY <2>3, <2>4, <1>1
  <2>6. \A i \in Slots : Runnable(i) => Ahead(i) \in ahead
    BY <1>2
  <2> QED BY <2>3, <2>5, <2>6
<1> QED BY <1>3, <1>4

-----------------------------------------------------------------------------
\* The slots in use are finitely many; one more or one less is counted so.

LEMMA UsedFacts ==
  ASSUME TypeOK
  PROVE  /\ IsFiniteSet(Slots) /\ Cardinality(Slots) = MAX_PROCS
         /\ \A S \in SUBSET Slots : /\ IsFiniteSet(S)
                                    /\ Cardinality(S) \in 0..MAX_PROCS
<1>1. IsFiniteSet(Slots) /\ Cardinality(Slots) = MAX_PROCS
  BY ProcessAssumption, FS_Interval DEF Slots
<1>2. ASSUME NEW S \in SUBSET Slots
      PROVE  IsFiniteSet(S) /\ Cardinality(S) \in 0..MAX_PROCS
  <2>1. IsFiniteSet(S) /\ Cardinality(S) <= Cardinality(Slots)
    BY <1>1, FS_Subset
  <2>2. Cardinality(S) \in Nat
    BY <2>1, FS_CardinalityType
  <2> QED BY <1>1, <2>1, <2>2, ProcessAssumption
<1> QED BY <1>1, <1>2

Slot == [pid : {0} \cup Pids, state : {"UNUSED", "RUNNING", "SLEEPING"},
         dir : Dir, regs : Context]

(***************************************************************************)
(* A new process, however its registers and directory came about, keeps    *)
(* what the table promises.                                                *)
(***************************************************************************)
LEMMA EnterTable ==
  ASSUME Inv, CanCreate, next_pid \in Pids,
         NEW p \in Slot, p.pid = next_pid, p.state = "RUNNING",
         procs' = [procs EXCEPT ![FirstFree] = p],
         next_pid' = next_pid + 1, proc_count' = proc_count + 1,
         UNCHANGED <<current_proc_idx, waits>>
  PROVE  /\ procs' \in [Slots -> Slot]
         /\ next_pid' \in 1..(MaxPid + 1)
         /\ proc_count' \in 0..MAX_PROCS
         /\ CountExact' /\ PidsUnique' /\ Rotation'
<1> DEFINE f == FirstFree
<1>1. f \in Slots /\ ~Used(f)
  BY FirstFreeFacts DEF CanCreate
<1> HIDE DEF f
<1>2. procs \in [Slots -> Slot] /\ procs' = [procs EXCEPT ![f] = p]
  BY DEF Inv, TypeOK, Slot, f
<1>3. procs' \in [Slots -> Slot]
  BY <1>1, <1>2
<1>4. next_pid' \in 1..(MaxPid + 1)
  BY ProcessAssumption DEF Pids
<1>5. UsedSlots' = UsedSlots \cup {f} /\ f \notin UsedSlots
  BY <1>1, <1>2 DEF UsedSlots, Used
<1>6. IsFiniteSet(UsedSlots) /\ proc_count = Cardinality(UsedSlots)
  BY UsedFacts DEF Inv, CountExact, UsedSlots
<1>7. Cardinality(UsedSlots') = Cardinality(UsedSlots) + 1
  BY <1>5, <1>6, FS_AddElement
<1>8. CountExact'
  BY <1>6, <1>7 DEF CountExact, UsedSlots
<1>9. proc_count' \in 0..MAX_PROCS
  BY ProcessAssumption DEF Inv, TypeOK, CanCreate
<1>10. PidsUnique'
  <2>1. next_pid \in Nat /\ PidsUnique
    BY DEF Inv, TypeOK
  <2>2. \A i \in Slots : procs'[i] = IF i = f THEN p ELSE procs[i]
    BY <1>1, <1>2
  <2>3. \A i \in Slots : Used(i)' => procs'[i].pid \in 1..(next_pid' - 1)
    BY <2>1, <2>2 DEF PidsUnique, Used, Pids
  <2>4. \A i \in Slots : ~Used(i)' => procs'[i].pid = 0
    BY <2>1, <2>2 DEF PidsUnique, Used
  <2>5. ASSUME NEW i \in Slots, NEW j \in Slots, Used(i)', Used(j)', i # j
        PROVE  procs'[i].pid # procs'[j].pid
    BY <2>1, <2>2, <2>5 DEF PidsUnique, Used
  <2> QED BY <2>3, <2>4, <2>5 DEF PidsUnique
<1>11. Rotation'
  BY DEF Inv, Rotation, Ahead
<1> QED BY <1>3, <1>4, <1>8, <1>9, <1>10, <1>11

LEMMA CreateInv == ASSUME Inv, process_create PROVE Inv'
<1>1. NewProc(next_pid) \in Slot /\ NewProc(next_pid).pid = next_pid
        /\ NewProc(next_pid).state = "RUNNING"
  BY ProcessAssumption DEF process_create, NewProc, Proc, NewDir, Slot, Dir, Context, NoDir, Fresh
<1>2. /\ procs' \in [Slots -> Slot]
      /\ next_pid' \in 1..(MaxPid + 1)
      /\ proc_count' \in 0..MAX_PROCS
      /\ CountExact' /\ PidsUnique' /\ Rotation'
  BY <1>1, EnterTable DEF process_create
<1>3. avail' \in 0..FramesAtBoot
  BY ProcessAssumption DEF process_create, Left, FramesPerProcess, Inv, TypeOK
<1>4. TypeOK'
  BY <1>2, <1>3 DEF process_create, Inv, TypeOK, Slot
<1> QED BY <1>2, <1>4 DEF Inv

LEMMA ForkInv ==
  ASSUME Inv, NEW pid \in Pids, process_fork(pid)
  PROVE  Inv'
<1> DEFINE spare == Left(avail, FramesPerProcess)
<1>1. PICK q \in Slots :
        /\ procs' = [procs EXCEPT ![FirstFree] =
             Proc(next_pid,
                  IF spare = 0 THEN NoDir
                  ELSE [of |-> next_pid, stack |-> FALSE, forked |-> TRUE],
                  [procs[q].regs EXCEPT !.of = next_pid])]
        /\ avail' = Left(spare, 1)
        /\ images' = [images EXCEPT ![next_pid] = procs[q].regs.image]
  BY DEF process_fork
<1>2. next_pid \in Pids /\ CanCreate /\ next_pid' = next_pid + 1
        /\ proc_count' = proc_count + 1 /\ UNCHANGED <<current_proc_idx, cpu, cr3, waits>>
  BY DEF process_fork
<1>3. spare \in 0..FramesAtBoot /\ avail' \in 0..FramesAtBoot
  BY <1>1, ProcessAssumption DEF Left, FramesPerProcess, Inv, TypeOK
<1> HIDE DEF spare
<1>4. procs[q].regs \in Context /\ procs[q].regs.image \in 0..MaxExec
  BY DEF Inv, TypeOK, Context
<1>5. PICK d \in Dir : d = IF spare = 0 THEN NoDir
                          ELSE [of |-> next_pid, stack |-> FALSE, forked |-> TRUE]
  <2>1. NoDir \in Dir
    BY DEF Dir, NoDir
  <2>2. [of |-> next_pid, stack |-> FALSE, forked |-> TRUE] \in Dir
    BY <1>2 DEF Dir
  <2> QED BY <2>1, <2>2
<1>6. PICK r \in Context : r = [procs[q].regs EXCEPT !.of = next_pid]
  BY <1>2, <1>4 DEF Context
<1>7. PICK p \in Slot : p = Proc(next_pid, d, r) /\ p.pid = next_pid /\ p.state = "RUNNING"
  <2> DEFINE new == Proc(next_pid, d, r)
  <2>1. new \in Slot
    BY <1>2 DEF Proc, Slot
  <2>2. new.pid = next_pid /\ new.state = "RUNNING"
    BY DEF Proc
  <2> HIDE DEF new
  <2> QED BY <2>1, <2>2 DEF new
<1>8. procs' = [procs EXCEPT ![FirstFree] = p]
  BY <1>1, <1>5, <1>6, <1>7
<1>9. /\ procs' \in [Slots -> Slot]
      /\ next_pid' \in 1..(MaxPid + 1)
      /\ proc_count' \in 0..MAX_PROCS
      /\ CountExact' /\ PidsUnique' /\ Rotation'
  BY <1>2, <1>7, <1>8, EnterTable
<1>10. images' \in [Pids -> 0..MaxExec]
  BY <1>1, <1>2, <1>4 DEF Inv, TypeOK
<1>11. TypeOK'
  BY <1>2, <1>3, <1>9, <1>10 DEF Inv, TypeOK, Slot
<1> QED BY <1>9, <1>11 DEF Inv

LEMMA ExitInv ==
  ASSUME Inv, NEW pid, process_exit(pid)
  PROVE  Inv'
<1>1. PICK x \in Slots :
        /\ Used(x)
        /\ procs' = [procs EXCEPT ![x].state = "UNUSED", ![x].pid = 0]
        /\ proc_count' = proc_count - 1
        /\ waits' = [waits EXCEPT ![x] = 0]
        /\ UNCHANGED <<next_pid, current_proc_idx, cpu, cr3, avail, images>>
  BY DEF process_exit
<1>2. procs \in [Slots -> Slot] /\ procs' \in [Slots -> Slot]
  BY <1>1 DEF Inv, TypeOK, Slot
<1>3. /\ \A i \in Slots : i # x => procs'[i] = procs[i]
      /\ procs'[x].state = "UNUSED" /\ procs'[x].pid = 0
  BY <1>1, <1>2 DEF Slot
<1>4. UsedSlots' = UsedSlots \ {x} /\ x \in UsedSlots
  BY <1>1, <1>3 DEF UsedSlots, Used
<1>5. IsFiniteSet(UsedSlots) /\ proc_count = Cardinality(UsedSlots)
  BY UsedFacts DEF Inv, CountExact, UsedSlots
<1>6. Cardinality(UsedSlots') = proc_count - 1
  BY <1>4, <1>5, FS_RemoveElement
<1>7. CountExact'
  BY <1>1, <1>6 DEF CountExact, UsedSlots
<1>8. proc_count' \in 0..MAX_PROCS
  <2>1. UsedSlots' \in SUBSET Slots
    BY DEF UsedSlots
  <2> QED BY <1>1, <1>6, <2>1, UsedFacts DEF Inv
<1>9. PidsUnique'
  <2>1. PidsUnique /\ next_pid' = next_pid
    BY <1>1 DEF Inv
  <2> QED BY <1>3, <2>1 DEF PidsUnique, Used
<1>10. Rotation' /\ waits' \in [Slots -> Nat]
  <2>1. \A i \in Slots : Ahead(i)' = Ahead(i) /\ Ahead(i) \in Int /\ Ahead(i) <= MAX_PROCS
    <3>1. current_proc_idx' = current_proc_idx /\ current_proc_idx \in Slots
      BY <1>1 DEF Inv, TypeOK
    <3> QED BY <3>1, ProcessAssumption DEF Ahead, Slots
  <2>2. waits \in [Slots -> Nat] /\ Rotation
    BY DEF Inv, TypeOK
  <2> QED BY <1>1, <2>1, <2>2, ProcessAssumption DEF Rotation
<1>11. TypeOK'
  BY <1>1, <1>2, <1>8, <1>10 DEF Inv, TypeOK, Slot
<1> QED BY <1>7, <1>9, <1>10, <1>11 DEF Inv

\* A step that changes neither pids nor who is in use changes no count.
LEMMA SameUse ==
  ASSUME Inv, \A i \in Slots : procs'[i].pid = procs[i].pid /\ (Used(i)' <=> Used(i)),
         UNCHANGED <<next_pid, proc_count>>
  PROVE  CountExact' /\ PidsUnique'
<1>1. {i \in Slots : Used(i)}' = {i \in Slots : Used(i)}
  BY Zenon
<1>2. CountExact'
  BY <1>1 DEF Inv, CountExact
<1>3. PidsUnique'
  BY DEF Inv, PidsUnique
<1> QED BY <1>2, <1>3

LEMMA ExecInv ==
  ASSUME Inv, NEW pid \in Pids, process_exec(pid)
  PROVE  Inv'
<1>1. PICK x \in Slots :
        /\ procs[x].pid = pid
        /\ procs' = [procs EXCEPT ![x].regs = Fresh(pid, images[pid] + 1),
                                  ![x].state = "RUNNING"]
  BY DEF process_exec
<1>2. /\ images[pid] < MaxExec /\ images' = [images EXCEPT ![pid] = @ + 1]
      /\ UNCHANGED <<next_pid, current_proc_idx, proc_count, cpu, cr3, avail, waits>>
  BY DEF process_exec
<1>3. procs \in [Slots -> Slot] /\ images \in [Pids -> 0..MaxExec]
  BY DEF Inv, TypeOK, Slot
<1>4. images[pid] + 1 \in 0..MaxExec /\ images' \in [Pids -> 0..MaxExec]
  BY <1>2, <1>3, ProcessAssumption
<1>5. PICK r \in Context : r = Fresh(pid, images[pid] + 1)
  <2>1. \A m \in 0..MaxExec : Fresh(pid, m) \in Context
    BY ProcessAssumption DEF Fresh, Context
  <2> QED BY <1>4, <2>1
<1>6. procs' = [procs EXCEPT ![x].regs = r, ![x].state = "RUNNING"]
  BY <1>1, <1>5
<1>7. procs' \in [Slots -> Slot]
  BY <1>3, <1>6 DEF Slot
<1>8. Used(x)
  \* A free slot answers to pid 0, and pid is not 0.
  BY <1>1 DEF Inv, PidsUnique, Pids
<1>9. \A i \in Slots : procs'[i].pid = procs[i].pid /\ (Used(i)' <=> Used(i))
  BY <1>3, <1>6, <1>8 DEF Slot, Used
<1>10. CountExact' /\ PidsUnique'
  BY <1>2, <1>9, SameUse
<1>11. Rotation'
  BY <1>2 DEF Inv, Rotation, Ahead
<1>12. TypeOK'
  BY <1>2, <1>4, <1>7 DEF Inv, TypeOK, Slot
<1> QED BY <1>10, <1>11, <1>12 DEF Inv

LEMMA SchedulerInv == ASSUME Inv, process_scheduler PROVE Inv'
<1>1. CASE proc_count = 0
  BY <1>1 DEF process_scheduler, vars, table, Inv, TypeOK, CountExact, PidsUnique, Rotation,
              Ahead, Used
<1>2. CASE proc_count # 0
  <2> DEFINE cur == current_proc_idx
             n == NextSlot(cur)
             saved == [procs EXCEPT ![cur].regs = cpu]
  <2>1. /\ procs' = saved
        /\ cr3' = IF procs[n].dir # procs[cur].dir THEN procs[n].dir ELSE cr3
        /\ current_proc_idx' = n
        /\ cpu' = saved[n].regs
        /\ waits' = [i \in Slots |-> IF Runnable(i) /\ i # n THEN waits[i] + 1 ELSE 0]
        /\ UNCHANGED <<next_pid, proc_count, avail, images>>
    BY <1>2 DEF process_scheduler
  <2>2. /\ n \in Slots
        /\ \A i \in Slots : Runnable(i) => Ahead(n) <= Ahead(i) /\ Runnable(n)
    BY NextSlotFacts DEF Inv, TypeOK
  <2>3. procs \in [Slots -> Slot] /\ cur \in Slots /\ cpu \in Context /\ cr3 \in Dir
          /\ waits \in [Slots -> Nat]
    BY DEF Inv, TypeOK, Slot
  <2> HIDE DEF n
  <2>4. /\ saved \in [Slots -> Slot]
        /\ \A i \in Slots : saved[i].pid = procs[i].pid /\ saved[i].state = procs[i].state
    BY <2>3 DEF Slot
  <2>5. CountExact' /\ PidsUnique'
    BY <2>1, <2>4, SameUse DEF Used
  <2>6. Rotation' /\ waits' \in [Slots -> Nat]
    <3>1. waits' \in [Slots -> Nat]
      BY <2>1, <2>3
    <3>2. ASSUME NEW i \in Slots PROVE waits'[i] + Ahead(i)' <= MAX_PROCS
      <4>1. Ahead(i)' = IF i > n THEN i - n ELSE i - n + MAX_PROCS
        BY <2>1 DEF Ahead
      <4>2. waits[i] + Ahead(i) <= MAX_PROCS
        BY DEF Inv, Rotation
      <4>3. CASE Runnable(i) /\ i # n
        <5>1. waits'[i] = waits[i] + 1 /\ waits[i] \in Nat
          BY <4>3, <2>1, <2>3
        <5>2. Ahead(n) <= Ahead(i)
          BY <4>3, <2>2
        <5>3. Ahead(i)' + 1 <= Ahead(i)
          BY <4>1, <4>3, <5>2, <2>2, <2>3, ProcessAssumption DEF Ahead, Slots
        <5>4. Ahead(i) \in Int /\ Ahead(i)' \in Int
          BY <4>1, <2>2, <2>3, ProcessAssumption DEF Ahead, Slots
        <5> QED BY <4>2, <5>1, <5>3, <5>4, ProcessAssumption
      <4>4. CASE ~(Runnable(i) /\ i # n)
        <5>1. waits'[i] = 0
          BY <4>4, <2>1
        <5> QED BY <4>1, <5>1, <2>2, ProcessAssumption DEF Slots
      <4> QED BY <4>3, <4>4
    <3> QED BY <3>1, <3>2 DEF Rotation
  <2>7. cr3' \in Dir /\ cpu' \in Context
    BY <2>1, <2>2, <2>3, <2>4 DEF Slot
  <2>8. TypeOK'
    BY <2>1, <2>2, <2>4, <2>6, <2>7 DEF Inv, TypeOK, Slot
  <2> QED BY <2>5, <2>6, <2>8 DEF Inv
<1> QED BY <1>1, <1>2

LEMMA RunInv == ASSUME Inv, Run PROVE Inv'
<1>1. cpu' \in Context
  BY ProcessAssumption DEF Run, Inv, TypeOK, Context
<1>2. TypeOK'
  BY <1>1 DEF Run, table, Inv, TypeOK
<1> QED BY <1>2 DEF Run, table, Inv, CountExact, PidsUnique, Rotation, Ahead, Used

LEMMA InitInv == Init => Inv
<1> SUFFICES ASSUME Init PROVE Inv
  OBVIOUS
<1>1. 0 \in Slots /\ 1 \in Pids
  BY ProcessAssumption DEF Slots, Pids
<1>2. /\ procs \in [Slots -> Slot]
      /\ \A i \in Slots : /\ Used(i) <=> (i = 0)
                          /\ procs[i].pid = IF i = 0 THEN 1 ELSE 0
  BY <1>1, ProcessAssumption DEF Init, Slot, Dir, Context, NoDir, Fresh, Used
<1>3. TypeOK
  BY <1>1, <1>2, ProcessAssumption DEF Init, TypeOK, Slot, Dir, Context, KernelDir, Fresh
<1>4. CountExact
  <2>1. 0 \in Slots /\ \A i \in Slots : Used(i) <=> i = 0
    BY <1>1, <1>2, Zenon
  <2>2. {j \in Slots : Used(j)} = {0}
    BY <2>1, Zenon
  <2> QED BY <2>2, FS_Singleton DEF Init, CountExact
<1>5. PidsUnique
  BY <1>2 DEF Init, PidsUnique
<1>6. Rotation
  BY ProcessAssumption DEF Init, Rotation, Ahead, Slots
<1> QED BY <1>3, <1>4, <1>5, <1>6 DEF Inv

LEMMA StepInv == Inv /\ [Next]_vars => Inv'
<1> SUFFICES ASSUME Inv, [Next]_vars PROVE Inv'
  OBVIOUS
<1>1. CASE process_create
  BY <1>1, CreateInv
<1>2. CASE \E pid \in Pids : process_exit(pid)
  BY <1>2, ExitInv
<1>3. CASE \E pid \in Pids : process_fork(pid)
  BY <1>3, ForkInv
<1>4. CASE \E pid \in Pids : process_exec(pid)
  BY <1>4, ExecInv
<1>5. CASE process_scheduler
  BY <1>5, SchedulerInv
<1>6. CASE Run
  BY <1>6, RunInv
<1>7. CASE UNCHANGED vars
  BY <1>7 DEF vars, table, Inv, TypeOK, CountExact, PidsUnique, Rotation, Ahead, Used
<1> QED BY <1>1, <1>2, <1>3, <1>4, <1>5, <1>6, <1>7 DEF Next

LEMMA RotationBounds == Inv => BoundedWait
<1> SUFFICES ASSUME Inv, NEW i \in Slots PROVE waits[i] < MAX_PROCS
  BY DEF BoundedWait
<1>1. waits[i] \in Nat /\ waits[i] + Ahead(i) <= MAX_PROCS
  BY DEF Inv, TypeOK, Rotation
<1>2. Ahead(i) \in Int /\ Ahead(i) >= 1
  BY ProcessAssumption DEF Inv, TypeOK, Ahead, Slots
<1> QED BY <1>1, <1>2, ProcessAssumption

LEMMA TickPick ==
  ASSUME Inv, vars' # vars, process_scheduler, \E i \in Slots : Runnable(i)
  PROVE  procs[current_proc_idx'].state = "RUNNING"
<1>1. current_proc_idx' = NextSlot(current_proc_idx)
  BY DEF process_scheduler
<1>2. current_proc_idx \in Slots
  BY DEF Inv, TypeOK
<1> QED BY <1>1, <1>2, NextSlotFacts DEF Runnable

LEMMA Invariance == Spec => []Inv
BY InitInv, StepInv, PTL DEF Spec

-----------------------------------------------------------------------------

(***************************************************************************)
(* The variables of process.c keep their types: no operation drives        *)
(* proc_count below 0 or above MAX_PROCS, or current_proc_idx out of the   *)
(* table.                                                                  *)
(***************************************************************************)
THEOREM TableTyped == Spec => []TypeOK
<1>1. Inv => TypeOK
  BY DEF Inv
<1> QED BY <1>1, Invariance, PTL

(***************************************************************************)
(* proc_count is the number of slots in use after any calls.               *)
(***************************************************************************)
THEOREM TableCounted == Spec => []CountExact
<1>1. Inv => CountExact
  BY DEF Inv
<1> QED BY <1>1, Invariance, PTL

(***************************************************************************)
(* A pid names at most one slot, and a free slot answers to none, however  *)
(* often slots are reused.                                                 *)
(***************************************************************************)
THEOREM TablePids == Spec => []PidsUnique
<1>1. Inv => PidsUnique
  BY DEF Inv
<1> QED BY <1>1, Invariance, PTL

(***************************************************************************)
(* process_scheduler passes a runnable process over fewer than MAX_PROCS   *)
(* times in a row.                                                         *)
(***************************************************************************)
THEOREM WaitBounded == Spec => []BoundedWait
BY RotationBounds, Invariance, PTL

(***************************************************************************)
(* While some process can run, a tick never leaves the processor with one  *)
(* that cannot.                                                            *)
(***************************************************************************)
THEOREM TickPicksRunnable == Spec => PicksRunnable
<1> DEFINE Pick == process_scheduler /\ (\E i \in Slots : Runnable(i))
                    => procs[current_proc_idx'].state = "RUNNING"
<1>1. Inv /\ [Next]_vars => [Pick]_vars
  BY TickPick DEF Pick
<1> QED BY <1>1, Invariance, PTL DEF Spec, PicksRunnable

-----------------------------------------------------------------------------
(***************************************************************************)
(* The contexts, while no process ends, forks or replaces itself           *)
(* (PeerSpec).  OwnContext is not inductive: what the tick saves is the    *)
(* CPU's context, so that one must run the current process's latest image  *)
(* too, the current slot must stay in use, and a pid that was not given    *)
(* out yet must not have an image.                                         *)
(***************************************************************************)

CpuOwned ==
  /\ Used(current_proc_idx)
  /\ cpu.of = procs[current_proc_idx].pid
  /\ cpu.image = images[procs[current_proc_idx].pid]

SavedOwned ==
  \A i \in Slots : Used(i) /\ i # current_proc_idx =>
    procs[i].regs.of = procs[i].pid /\ procs[i].regs.image = images[procs[i].pid]

NoImageYet == \A p \in Pids : p >= next_pid => images[p] = 0

Settled == CpuOwned /\ SavedOwned /\ NoImageYet /\ SpaceLoaded

\* A live pid is one of Pids, and was given out.
LEMMA LivePid ==
  ASSUME Inv, NEW i \in Slots, Used(i)
  PROVE  procs[i].pid \in Pids /\ procs[i].pid < next_pid
<1>1. procs[i].pid \in 1..(next_pid - 1) /\ next_pid \in 1..(MaxPid + 1)
  BY DEF Inv, TypeOK, PidsUnique
<1> QED BY <1>1, ProcessAssumption DEF Pids

LEMMA EnterSettled ==
  ASSUME Inv, Settled, CanCreate, next_pid \in Pids,
         NEW p \in Slot, p.pid = next_pid, p.regs.of = next_pid,
         p.regs.image = images'[next_pid],
         procs' = [procs EXCEPT ![FirstFree] = p],
         \A q \in Pids : q # next_pid => images'[q] = images[q],
         next_pid' = next_pid + 1, UNCHANGED <<current_proc_idx, cpu, cr3>>
  PROVE  Settled'
<1> DEFINE f == FirstFree
<1>1. f \in Slots /\ ~Used(f)
  BY FirstFreeFacts DEF CanCreate
<1> HIDE DEF f
<1>2. procs \in [Slots -> Slot] /\ procs' = [procs EXCEPT ![f] = p] /\ current_proc_idx \in Slots
      /\ next_pid \in Nat
  BY DEF Inv, TypeOK, Slot, f
<1>3. \A i \in Slots : procs'[i] = IF i = f THEN p ELSE procs[i]
  BY <1>1, <1>2
<1>4. current_proc_idx # f /\ procs'[current_proc_idx] = procs[current_proc_idx]
  BY <1>1, <1>2, <1>3 DEF Settled, CpuOwned
<1>5. \A i \in Slots : Used(i) => procs[i].pid # next_pid /\ procs[i].pid \in Pids
                                    /\ images'[procs[i].pid] = images[procs[i].pid]
  BY <1>2, LivePid DEF Pids
<1>6. CpuOwned'
  BY <1>2, <1>4, <1>5 DEF Settled, CpuOwned, Used
<1>7. SavedOwned'
  BY <1>2, <1>3, <1>5 DEF Settled, SavedOwned, Used
<1>8. NoImageYet'
  BY <1>2 DEF Settled, NoImageYet, Pids
<1>9. SpaceLoaded'
  BY <1>4 DEF Settled, SpaceLoaded, CpuOwned, Used
<1> QED BY <1>6, <1>7, <1>8, <1>9 DEF Settled

LEMMA CreateSettled == ASSUME Inv, Settled, process_create PROVE Settled'
<1>1. next_pid \in Pids /\ images[next_pid] = 0 /\ images' = images
  BY DEF process_create, Settled, NoImageYet, Pids
<1>2. /\ NewProc(next_pid) \in Slot /\ NewProc(next_pid).pid = next_pid
      /\ NewProc(next_pid).regs.of = next_pid /\ NewProc(next_pid).regs.image = 0
  BY <1>1, ProcessAssumption DEF NewProc, Proc, NewDir, Slot, Dir, Context, NoDir, Fresh
<1> QED BY <1>1, <1>2, EnterSettled DEF process_create

\* The registers the child is given are the parent's under the child's pid.
LEMMA RegsGiven ==
  ASSUME NEW regs \in Context, NEW pid \in Pids
  PROVE  \E r \in Context : /\ r = [regs EXCEPT !.of = pid]
                            /\ r.of = pid /\ r.image = regs.image /\ r.at = regs.at
<1> DEFINE r == [regs EXCEPT !.of = pid]
<1>1. r \in Context
  BY DEF Context
<1>2. r.of = pid /\ r.image = regs.image /\ r.at = regs.at
  BY DEF Context
<1> HIDE DEF r
<1>3. \E x \in Context : x = r
  BY <1>1
<1> QED BY <1>2, <1>3 DEF r

LEMMA ForkSettled ==
  ASSUME Inv, Settled, NEW pid \in Pids, process_fork(pid)
  PROVE  Settled'
<1> DEFINE spare == Left(avail, FramesPerProcess)
           dir == IF spare = 0 THEN NoDir
                  ELSE [of |-> next_pid, stack |-> FALSE, forked |-> TRUE]
<1>1. PICK q \in Slots :
        /\ procs' = [procs EXCEPT ![FirstFree] =
             Proc(next_pid, dir, [procs[q].regs EXCEPT !.of = next_pid])]
        /\ images' = [images EXCEPT ![next_pid] = procs[q].regs.image]
  BY DEF process_fork
<1>2. next_pid \in Pids /\ CanCreate /\ next_pid' = next_pid + 1
        /\ UNCHANGED <<current_proc_idx, cpu, cr3>>
  BY DEF process_fork
<1>3. dir \in Dir
  BY <1>2 DEF Dir, NoDir
<1> HIDE DEF dir
<1>4. procs[q].regs \in Context /\ images \in [Pids -> 0..MaxExec]
  BY DEF Inv, TypeOK
<1>5. PICK r \in Context : /\ r = [procs[q].regs EXCEPT !.of = next_pid]
                           /\ r.of = next_pid /\ r.image = procs[q].regs.image
  BY <1>2, <1>4, RegsGiven
<1>6. PICK p \in Slot : p = Proc(next_pid, dir, r) /\ p.pid = next_pid /\ p.regs = r
  <2> DEFINE new == Proc(next_pid, dir, r)
  <2>1. new \in Slot
    BY <1>2, <1>3 DEF Proc, Slot
  <2>2. new.pid = next_pid /\ new.regs = r
    BY DEF Proc
  <2> HIDE DEF new
  <2> QED BY <2>1, <2>2 DEF new
<1>7. procs' = [procs EXCEPT ![FirstFree] = p]
  BY <1>1, <1>5, <1>6
<1>8. /\ images'[next_pid] = r.image
      /\ \A x \in Pids : x # next_pid => images'[x] = images[x]
  BY <1>1, <1>2, <1>4, <1>5
<1>9. p.regs.of = next_pid /\ p.regs.image = images'[next_pid]
  BY <1>5, <1>6, <1>8
<1> QED BY <1>2, <1>6, <1>7, <1>8, <1>9, EnterSettled

LEMMA ExitSettled ==
  ASSUME Inv, Settled, NEW pid \in Pids \ {Current}, process_exit(pid)
  PROVE  Settled'
<1>1. PICK x \in Slots :
        /\ procs[x].pid = pid
        /\ procs' = [procs EXCEPT ![x].state = "UNUSED", ![x].pid = 0]
        /\ UNCHANGED <<next_pid, current_proc_idx, cpu, cr3, avail, images>>
  BY DEF process_exit
<1>2. procs \in [Slots -> Slot] /\ current_proc_idx \in Slots /\ x # current_proc_idx
  BY <1>1 DEF Inv, TypeOK, Slot, Current
<1>3. /\ \A i \in Slots : i # x => procs'[i] = procs[i]
      /\ procs'[x].state = "UNUSED"
  BY <1>1, <1>2 DEF Slot
<1> QED BY <1>1, <1>2, <1>3 DEF Settled, CpuOwned, SavedOwned, NoImageYet, SpaceLoaded, Used

LEMMA ExecSettled ==
  ASSUME Inv, Settled, NEW pid \in Pids \ {Current}, process_exec(pid)
  PROVE  Settled'
<1>1. PICK x \in Slots :
        /\ procs[x].pid = pid
        /\ procs' = [procs EXCEPT ![x].regs = Fresh(pid, images[pid] + 1),
                                  ![x].state = "RUNNING"]
  BY DEF process_exec
<1>2. /\ images' = [images EXCEPT ![pid] = @ + 1] /\ images \in [Pids -> 0..MaxExec]
      /\ UNCHANGED <<next_pid, current_proc_idx, cpu, cr3>>
  BY DEF process_exec, Inv, TypeOK
<1>3. procs \in [Slots -> Slot] /\ current_proc_idx \in Slots /\ x # current_proc_idx
  BY <1>1 DEF Inv, TypeOK, Slot, Current
<1>4. Used(x)
  BY <1>1 DEF Inv, PidsUnique, Pids
<1>5. /\ \A i \in Slots : i # x => procs'[i] = procs[i]
      /\ procs'[x].pid = pid /\ procs'[x].regs = Fresh(pid, images[pid] + 1)
  BY <1>1, <1>3 DEF Slot
<1>6. \A i \in Slots : Used(i) /\ i # x => /\ procs[i].pid \in Pids /\ procs[i].pid # pid
                                           /\ images'[procs[i].pid] = images[procs[i].pid]
  <2> SUFFICES ASSUME NEW i \in Slots, Used(i), i # x
               PROVE  /\ procs[i].pid \in Pids /\ procs[i].pid # pid
                      /\ images'[procs[i].pid] = images[procs[i].pid]
    OBVIOUS
  <2>1. procs[i].pid \in Pids
    BY LivePid
  <2>2. procs[i].pid # procs[x].pid
    BY <1>4 DEF Inv, PidsUnique
  <2> QED BY <2>1, <2>2, <1>1, <1>2
<1>7. images'[pid] = images[pid] + 1
  BY <1>2
<1>8. CpuOwned'
  BY <1>2, <1>3, <1>5, <1>6 DEF Settled, CpuOwned, Used
<1>9. SavedOwned'
  <2>1. procs'[x].regs.of = pid /\ procs'[x].regs.image = images'[pid]
    BY <1>5, <1>7 DEF Fresh
  <2> QED BY <2>1, <1>2, <1>5, <1>6 DEF Settled, SavedOwned, Used
<1>10. NoImageYet'
  <2>1. pid < next_pid /\ next_pid \in Nat
    BY <1>1, <1>4, LivePid DEF Inv, TypeOK
  <2>2. \A p \in Pids : p >= next_pid => images'[p] = images[p]
    BY <1>2, <2>1 DEF Pids
  <2> QED BY <1>2, <2>2 DEF Settled, NoImageYet
<1>11. SpaceLoaded'
  BY <1>2, <1>3, <1>5 DEF Settled, SpaceLoaded, CpuOwned, Used
<1> QED BY <1>8, <1>9, <1>10, <1>11 DEF Settled

LEMMA SchedulerSettled == ASSUME Inv, Settled, process_scheduler PROVE Settled'
<1>1. CASE proc_count = 0
  BY <1>1 DEF process_scheduler, vars, table, Settled, CpuOwned, SavedOwned, NoImageYet,
              SpaceLoaded, Used
<1>2. CASE proc_count # 0
  <2> DEFINE cur == current_proc_idx
             n == NextSlot(cur)
             saved == [procs EXCEPT ![cur].regs = cpu]
  <2>1. /\ procs' = saved
        /\ cr3' = IF procs[n].dir # procs[cur].dir THEN procs[n].dir ELSE cr3
        /\ current_proc_idx' = n
        /\ cpu' = saved[n].regs
        /\ UNCHANGED <<next_pid, proc_count, avail, images>>
    BY <1>2 DEF process_scheduler
  <2>2. n \in Slots /\ (Runnable(n) \/ n = cur)
    BY NextSlotFacts DEF Inv, TypeOK
  <2>3. procs \in [Slots -> Slot] /\ cur \in Slots
    BY DEF Inv, TypeOK, Slot
  <2> HIDE DEF n
  <2>4. /\ Used(n) /\ Used(cur)
        /\ cpu.of = procs[cur].pid /\ cpu.image = images[procs[cur].pid]
    BY <2>2 DEF Settled, CpuOwned, Used, Runnable
  <2>5. \A i \in Slots : /\ saved[i].pid = procs[i].pid /\ saved[i].state = procs[i].state
                         /\ saved[i].dir = procs[i].dir
                         /\ saved[i].regs = IF i = cur THEN cpu ELSE procs[i].regs
    BY <2>3 DEF Slot
  <2>6. \A i \in Slots : Used(i) => saved[i].regs.of = procs[i].pid
                                      /\ saved[i].regs.image = images[procs[i].pid]
    BY <2>4, <2>5 DEF Settled, SavedOwned
  <2> HIDE DEF saved
  <2>7. CpuOwned'
    BY <2>1, <2>2, <2>4, <2>5, <2>6 DEF CpuOwned, Used
  <2>8. SavedOwned'
    BY <2>1, <2>5, <2>6 DEF SavedOwned, Used
  <2>9. NoImageYet'
    BY <2>1 DEF Settled, NoImageYet
  <2>10. SpaceLoaded'
    BY <2>1, <2>2, <2>3, <2>4, <2>5 DEF Settled, SpaceLoaded
  <2> QED BY <2>7, <2>8, <2>9, <2>10 DEF Settled
<1> QED BY <1>1, <1>2

LEMMA RunSettled == ASSUME Inv, Settled, Run PROVE Settled'
<1>1. cpu'.of = cpu.of /\ cpu'.image = cpu.image
  BY DEF Run, Inv, TypeOK, Context
<1> QED BY <1>1 DEF Run, table, Settled, CpuOwned, SavedOwned, NoImageYet, SpaceLoaded, Used

LEMMA InitSettled == Init => Settled
<1> SUFFICES ASSUME Init PROVE Settled
  OBVIOUS
<1>1. 0 \in Slots /\ 1 \in Pids
  BY ProcessAssumption DEF Slots, Pids
<1>2. /\ procs[0].pid = 1 /\ procs[0].state = "RUNNING"
      /\ \A i \in Slots : i # 0 => procs[i].state = "UNUSED"
      /\ current_proc_idx = 0 /\ cpu = Fresh(1, 0) /\ cr3 = KernelDir
      /\ images = [p \in Pids |-> 0]
  BY <1>1 DEF Init
<1> QED BY <1>1, <1>2 DEF Settled, CpuOwned, SavedOwned, NoImageYet, SpaceLoaded, Used, Fresh

LEMMA PeerStep == Inv /\ Settled /\ [PeerNext]_vars => Settled'
<1> SUFFICES ASSUME Inv, Settled, [PeerNext]_vars PROVE Settled'
  OBVIOUS
<1>1. CASE process_create
  BY <1>1, CreateSettled
<1>2. CASE \E pid \in Pids \ {Current} : process_exit(pid)
  BY <1>2, ExitSettled
<1>3. CASE \E pid \in Pids \ {Current} : process_fork(pid)
  BY <1>3, ForkSettled
<1>4. CASE \E pid \in Pids \ {Current} : process_exec(pid)
  BY <1>4, ExecSettled
<1>5. CASE process_scheduler
  BY <1>5, SchedulerSettled
<1>6. CASE Run
  BY <1>6, RunSettled
<1>7. CASE UNCHANGED vars
  BY <1>7 DEF vars, table, Settled, CpuOwned, SavedOwned, NoImageYet, SpaceLoaded, Used
<1> QED BY <1>1, <1>2, <1>3, <1>4, <1>5, <1>6, <1>7 DEF PeerNext

\* What every process may do includes what a peer may do.
LEMMA PeersAreProcesses == PeerSpec => Spec
<1>1. [PeerNext]_vars => [Next]_vars
  BY DEF PeerNext, Next
<1> QED BY <1>1, PTL DEF PeerSpec, Spec

LEMMA PeerInvariance == PeerSpec => [](Inv /\ Settled)
<1>1. PeerSpec => []Inv
  BY PeersAreProcesses, Invariance, PTL
<1> QED BY <1>1, InitSettled, PeerStep, PTL DEF PeerSpec

(***************************************************************************)
(* However the ticks fall between the calls of process.c, the registers    *)
(* kept for a process are its own, of the program it exec'ed last, as long *)
(* as no process ends, forks or replaces itself.                           *)
(***************************************************************************)
THEOREM ContextsOwned == PeerSpec => []OwnContext
<1>1. Settled => OwnContext
  BY DEF Settled, CpuOwned, SavedOwned, OwnContext
<1> QED BY <1>1, PeerInvariance, PTL

(***************************************************************************)
(* Directories.  A process that was created while there were frames left   *)
(* has a directory that was made for its pid, and pids are unique.         *)
(***************************************************************************)

FramesPerFork == FramesPerProcess + 1

\* Frames for all the processes the bound of the model allows.
EnoughFrames == FramesAtBoot >= FramesPerFork * (MaxPid - 1)

Provisioned == avail >= FramesPerFork * (MaxPid + 1 - next_pid)

OwnDirectories == \A i \in Slots : Used(i) => procs[i].dir.of = procs[i].pid

LEMMA EnterOwnDir ==
  ASSUME Inv, OwnDirectories, CanCreate, NEW p \in Slot, p.dir.of = p.pid,
         procs' = [procs EXCEPT ![FirstFree] = p]
  PROVE  OwnDirectories'
<1> DEFINE f == FirstFree
<1>1. f \in Slots
  BY FirstFreeFacts DEF CanCreate
<1> HIDE DEF f
<1>2. procs \in [Slots -> Slot] /\ procs' = [procs EXCEPT ![f] = p]
  BY DEF Inv, TypeOK, Slot, f
<1>3. \A i \in Slots : procs'[i] = IF i = f THEN p ELSE procs[i]
  BY <1>1, <1>2
<1> QED BY <1>3 DEF OwnDirectories, Used

LEMMA CreateProvisioned ==
  ASSUME Inv, Provisioned, OwnDirectories, process_create
  PROVE  Provisioned' /\ OwnDirectories'
<1>1. /\ next_pid \in Pids /\ next_pid' = next_pid + 1 /\ avail \in Nat
      /\ avail' = Left(avail, FramesPerProcess) /\ CanCreate
      /\ procs' = [procs EXCEPT ![FirstFree] = NewProc(next_pid)]
  BY DEF process_create, Inv, TypeOK
<1>2. avail >= 5 /\ avail' = avail - 4
  BY <1>1, ProcessAssumption DEF Provisioned, FramesPerFork, FramesPerProcess, Left, Pids
<1>3. Provisioned'
  BY <1>1, <1>2, ProcessAssumption DEF Provisioned, FramesPerFork, FramesPerProcess, Pids
<1>4. NewDir(next_pid) = [of |-> next_pid, stack |-> avail >= FramesPerProcess, forked |-> FALSE]
  BY <1>2 DEF NewDir
<1>5. /\ NewProc(next_pid) \in Slot
      /\ NewProc(next_pid).dir.of = NewProc(next_pid).pid
  BY <1>1, <1>4, ProcessAssumption DEF NewProc, Proc, Slot, Dir, Context, Fresh
<1>6. OwnDirectories'
  BY <1>1, <1>5, EnterOwnDir
<1> QED BY <1>3, <1>6

LEMMA ForkProvisioned ==
  ASSUME Inv, Provisioned, OwnDirectories, NEW pid \in Pids, process_fork(pid)
  PROVE  Provisioned' /\ OwnDirectories'
<1> DEFINE spare == Left(avail, FramesPerProcess)
           dir == IF spare = 0 THEN NoDir
                  ELSE [of |-> next_pid, stack |-> FALSE, forked |-> TRUE]
<1>1. PICK q \in Slots :
        /\ procs' = [procs EXCEPT ![FirstFree] =
             Proc(next_pid, dir, [procs[q].regs EXCEPT !.of = next_pid])]
        /\ avail' = Left(spare, 1)
  BY DEF process_fork
<1>2. next_pid \in Pids /\ CanCreate /\ next_pid' = next_pid + 1 /\ avail \in Nat
  BY DEF process_fork, Inv, TypeOK
<1>3. avail >= 5 /\ spare = avail - 4 /\ avail' = avail - 5
  BY <1>1, <1>2, ProcessAssumption DEF Provisioned, FramesPerFork, FramesPerProcess, Left, Pids
<1>4. Provisioned'
  BY <1>2, <1>3, ProcessAssumption DEF Provisioned, FramesPerFork, FramesPerProcess, Pids
<1>5. dir = [of |-> next_pid, stack |-> FALSE, forked |-> TRUE]
  BY <1>2, <1>3
<1> HIDE DEF dir
<1>6. dir \in Dir /\ dir.of = next_pid
  BY <1>2, <1>5 DEF Dir
<1>7. procs[q].regs \in Context
  BY DEF Inv, TypeOK
<1>8. PICK r \in Context : r = [procs[q].regs EXCEPT !.of = next_pid]
  BY <1>2, <1>7, RegsGiven
<1>9. PICK p \in Slot : p = Proc(next_pid, dir, r) /\ p.pid = next_pid /\ p.dir = dir
  <2> DEFINE new == Proc(next_pid, dir, r)
  <2>1. new \in Slot
    BY <1>2, <1>6 DEF Proc, Slot
  <2>2. new.pid = next_pid /\ new.dir = dir
    BY DEF Proc
  <2> HIDE DEF new
  <2> QED BY <2>1, <2>2 DEF new
<1>10. procs' = [procs EXCEPT ![FirstFree] = p] /\ p.dir.of = p.pid
  BY <1>1, <1>6, <1>8, <1>9
<1>11. OwnDirectories'
  BY <1>2, <1>10, EnterOwnDir
<1> QED BY <1>4, <1>11

\* The other operations make no process and take no frame.
LEMMA KeepsProvisioned ==
  ASSUME Inv, Provisioned, OwnDirectories, UNCHANGED <<next_pid, avail>>,
         \A i \in Slots : Used(i)' => /\ Used(i) /\ procs'[i].pid = procs[i].pid
                                      /\ procs'[i].dir = procs[i].dir
  PROVE  Provisioned' /\ OwnDirectories'
BY DEF Provisioned, OwnDirectories

LEMMA StepProvisioned ==
  Inv /\ Provisioned /\ OwnDirectories /\ [Next]_vars => Provisioned' /\ OwnDirectories'
<1> SUFFICES ASSUME Inv, Provisioned, OwnDirectories, [Next]_vars
             PROVE  Provisioned' /\ OwnDirectories'
  OBVIOUS
<1>0. procs \in [Slots -> Slot] /\ current_proc_idx \in Slots
  BY DEF Inv, TypeOK, Slot
<1>1. CASE process_create
  BY <1>1, CreateProvisioned
<1>2. CASE \E pid \in Pids : process_exit(pid)
  <2>1. PICK x \in Slots :
          /\ procs' = [procs EXCEPT ![x].state = "UNUSED", ![x].pid = 0]
          /\ UNCHANGED <<next_pid, avail>>
    BY <1>2 DEF process_exit
  <2> QED BY <2>1, <1>0, KeepsProvisioned DEF Used, Slot
<1>3. CASE \E pid \in Pids : process_fork(pid)
  BY <1>3, ForkProvisioned
<1>4. CASE \E pid \in Pids : process_exec(pid)
  <2>1. PICK pid \in Pids : process_exec(pid)
    BY <1>4
  <2>2. PICK x \in Slots :
          /\ procs[x].pid = pid
          /\ procs' = [procs EXCEPT ![x].regs = Fresh(pid, images[pid] + 1),
                                    ![x].state = "RUNNING"]
          /\ UNCHANGED <<next_pid, avail>>
    BY <2>1 DEF process_exec
  <2>3. Used(x)
    BY <2>2 DEF Inv, PidsUnique, Pids
  <2>4. \A i \in Slots : procs'[i].pid = procs[i].pid /\ procs'[i].dir = procs[i].dir
                           /\ (i # x => procs'[i] = procs[i])
    BY <2>2, <1>0 DEF Slot
  <2> QED BY <2>2, <2>3, <2>4, KeepsProvisioned DEF Used
<1>5. CASE process_scheduler
  <2>1. CASE proc_count = 0
    BY <1>5, <2>1, KeepsProvisioned DEF process_scheduler, vars, table, Used
  <2>2. CASE proc_count # 0
    <3>1. procs' = [procs EXCEPT ![current_proc_idx].regs = cpu] /\ UNCHANGED <<next_pid, avail>>
      BY <1>5, <2>2 DEF process_scheduler
    <3> QED BY <3>1, <1>0, KeepsProvisioned DEF Used, Slot
  <2> QED BY <2>1, <2>2
<1>6. CASE Run
  BY <1>6, KeepsProvisioned DEF Run, table, Used
<1>7. CASE UNCHANGED vars
  BY <1>7, KeepsProvisioned DEF vars, table, Used
<1> QED BY <1>1, <1>2, <1>3, <1>4, <1>5, <1>6, <1>7 DEF Next

LEMMA InitProvisioned == EnoughFrames /\ Init => Provisioned /\ OwnDirectories
<1> SUFFICES ASSUME EnoughFrames, Init PROVE Provisioned /\ OwnDirectories
  OBVIOUS
<1>1. 0 \in Slots
  BY ProcessAssumption DEF Slots
<1>2. /\ procs[0].pid = 1 /\ procs[0].dir.of = 1
      /\ \A i \in Slots : i # 0 => procs[i].state = "UNUSED"
      /\ avail = FramesAtBoot /\ next_pid = 2
  BY <1>1 DEF Init
<1> QED
  BY <1>2, ProcessAssumption
  DEF EnoughFrames, Provisioned, OwnDirectories, FramesPerFork, FramesPerProcess, Used

\* Directories made for different pids differ, and differ from NULL.
LEMMA OwnAreIndependent == Inv /\ OwnDirectories => IndependentDirectories
<1> SUFFICES ASSUME Inv, OwnDirectories, NEW i \in Slots, NEW j \in Slots, Used(i), Used(j)
             PROVE  /\ procs[i].dir # NoDir
                    /\ i # j => procs[i].dir # procs[j].dir
  BY DEF IndependentDirectories
<1>1. procs[i].dir.of = procs[i].pid /\ procs[j].dir.of = procs[j].pid
  BY DEF OwnDirectories
<1>2. procs[i].pid \in Pids
  BY LivePid
<1>3. procs[i].dir # NoDir
  BY <1>1, <1>2 DEF NoDir, Pids
<1>4. i # j => procs[i].pid # procs[j].pid
  BY DEF Inv, PidsUnique
<1> QED BY <1>1, <1>3, <1>4

(***************************************************************************)
(* While physical memory lasts, no two processes share a page directory    *)
(* and none is without, and the directory loaded is the current process's: *)
(* vmm_create_dir is asked for every process, and vmm_switch_dir called    *)
(* whenever a tick changes the directory.  Without the hypothesis on the   *)
(* frames it is false: process_create does not look at the result of       *)
(* vmm_create_dir.                                                         *)
(***************************************************************************)
THEOREM SpacesOwned == EnoughFrames /\ PeerSpec => []OwnSpace
<1>1. EnoughFrames /\ Init /\ [][Next]_vars => [](Inv /\ Provisioned /\ OwnDirectories)
  BY Invariance, InitProvisioned, StepProvisioned, PTL DEF Spec
<1>2. EnoughFrames /\ PeerSpec => [](Inv /\ Provisioned /\ OwnDirectories)
  BY <1>1, PeersAreProcesses, PTL DEF Spec
<1>3. Inv /\ OwnDirectories /\ Settled => OwnSpace
  BY OwnAreIndependent DEF Settled, OwnSpace
<1> QED BY <1>2, <1>3, PeerInvariance, PTL

-----------------------------------------------------------------------------

(***************************************************************************)
(* A tick that saves one process's registers and restores another's takes  *)
(* no process back, whoever ended, was created or replaced in between.     *)
(***************************************************************************)
THEOREM WorkKept == Spec => NoWorkLost
<1> DEFINE Kept(i) == Used(i) /\ procs'[i].pid = procs[i].pid
                              /\ images'[procs[i].pid] = images[procs[i].pid]
                        => Regs(i)'.at >= Regs(i).at
           AllKept == \A i \in Slots : Kept(i)
<1>1. Inv /\ [Next]_vars => [AllKept]_vars
  <2> SUFFICES ASSUME Inv, [Next]_vars, NEW i \in Slots, Used(i),
                      procs'[i].pid = procs[i].pid,
                      images'[procs[i].pid] = images[procs[i].pid]
               PROVE  Regs(i)'.at >= Regs(i).at
    OBVIOUS
  <2>0. /\ procs \in [Slots -> Slot] /\ current_proc_idx \in Slots /\ cpu \in Context
        /\ images \in [Pids -> 0..MaxExec]
    BY DEF Inv, TypeOK, Slot
  <2>1. Regs(i) \in Context /\ Regs(i).at \in Int
    BY <2>0 DEF Regs, Slot, Context
  <2>2. ASSUME Regs(i)' = Regs(i) PROVE Regs(i)'.at >= Regs(i).at
    BY <2>1, <2>2
  <2>3. ASSUME CanCreate, UNCHANGED <<current_proc_idx, cpu>>, NEW p,
               procs' = [procs EXCEPT ![FirstFree] = p]
        PROVE  Regs(i)' = Regs(i)
    <3> DEFINE f == FirstFree
    <3>1. f # i
      BY <2>3, FirstFreeFacts DEF CanCreate
    <3> HIDE DEF f
    <3>2. procs' = [procs EXCEPT ![f] = p]
      BY <2>3 DEF f
    <3>3. procs'[i] = procs[i]
      BY <3>1, <3>2, <2>0
    <3> QED BY <2>3, <3>3 DEF Regs
  <2>4. CASE process_create
    BY <2>2, <2>3, <2>4 DEF process_create
  <2>5. CASE \E pid \in Pids : process_exit(pid)
    <3>1. PICK x \in Slots :
            /\ procs' = [procs EXCEPT ![x].state = "UNUSED", ![x].pid = 0]
            /\ UNCHANGED <<current_proc_idx, cpu>>
      BY <2>5 DEF process_exit
    <3>2. procs'[i].regs = procs[i].regs
      BY <3>1, <2>0 DEF Slot
    <3> QED BY <3>1, <3>2, <2>2 DEF Regs
  <2>6. CASE \E pid \in Pids : process_fork(pid)
    BY <2>2, <2>3, <2>6 DEF process_fork
  <2>7. CASE \E pid \in Pids : process_exec(pid)
    <3>1. PICK pid \in Pids : process_exec(pid)
      BY <2>7
    <3>2. PICK x \in Slots :
            /\ procs[x].pid = pid
            /\ procs' = [procs EXCEPT ![x].regs = Fresh(pid, images[pid] + 1),
                                      ![x].state = "RUNNING"]
      BY <3>1 DEF process_exec
    <3>3. images' = [images EXCEPT ![pid] = @ + 1] /\ UNCHANGED <<current_proc_idx, cpu>>
      BY <3>1 DEF process_exec
    <3>4. images'[pid] = images[pid] + 1 /\ images[pid] \in Int
      BY <3>3, <2>0
    <3>5. i # x
      BY <3>2, <3>4
    <3>6. procs'[i] = procs[i]
      BY <3>2, <3>5, <2>0
    <3> QED BY <3>3, <3>6, <2>2 DEF Regs
  <2>8. CASE process_scheduler
    <3>1. CASE proc_count = 0
      BY <2>8, <3>1, <2>2 DEF process_scheduler, vars, table, Regs
    <3>2. CASE proc_count # 0
      <4> DEFINE n == NextSlot(current_proc_idx)
                 saved == [procs EXCEPT ![current_proc_idx].regs = cpu]
      <4>1. procs' = saved /\ current_proc_idx' = n /\ cpu' = saved[n].regs
        BY <2>8, <3>2 DEF process_scheduler
      <4> HIDE DEF n
      <4>2. saved[i].regs = Regs(i)
        BY <2>0 DEF Regs, Slot
      <4> HIDE DEF saved
      <4>3. Regs(i)' = saved[i].regs
        BY <4>1 DEF Regs
      <4> QED BY <4>2, <4>3, <2>2
    <3> QED BY <3>1, <3>2
  <2>9. CASE Run
    <3>1. cpu'.at = cpu.at + 1 /\ UNCHANGED <<procs, current_proc_idx>>
      BY <2>9, <2>0 DEF Run, table, Context
    <3>2. cpu.at \in Int
      BY <2>0 DEF Context
    <3> QED BY <3>1, <3>2, <2>1 DEF Regs
  <2>10. CASE UNCHANGED vars
    BY <2>10, <2>2 DEF vars, table, Regs
  <2> QED BY <2>4, <2>5, <2>6, <2>7, <2>8, <2>9, <2>10 DEF Next
<1>2. NoWorkLost <=> [][AllKept]_vars
  BY DEF NoWorkLost
<1> HIDE DEF AllKept
<1> QED BY Invariance, <1>1, <1>2, PTL DEF Spec

-----------------------------------------------------------------------------
(***************************************************************************)
(* Signals on top of the table: kill, stop and continue change the table   *)
(* too, so what was proved of the table is proved again of both together.  *)
(***************************************************************************)

SigInv == Inv /\ NoSignalLost

Entry == [pending : SUBSET Sigs, mask : SUBSET Sigs, handlers : [Sigs -> Handlers]]

LEMMA LowestFacts ==
  ASSUME NEW S \in SUBSET Sigs, S # {}
  PROVE  Lowest(S) \in S /\ Lowest(S) \in Sigs
<1>1. S \subseteq Nat
  BY SignalsAssumption
<1>2. \E s \in S : \A t \in S : s <= t
  BY <1>1, LeastExists
<1> QED BY <1>2 DEF Lowest

\* Stop and continue touch a slot in use only, so no count changes.
LEMMA BecomeInv ==
  ASSUME Inv, NEW pid, NEW state \in {"RUNNING", "SLEEPING"}, Become(pid, state)
  PROVE  Inv'
<1>1. /\ procs' = [i \in Slots |-> IF i \in process_get(pid)
                                   THEN [procs[i] EXCEPT !.state = state] ELSE procs[i]]
      /\ UNCHANGED <<next_pid, current_proc_idx, proc_count, cpu, cr3, avail, images, waits>>
  BY DEF Become
<1>2. procs \in [Slots -> Slot]
  BY DEF Inv, TypeOK, Slot
<1>3. procs' \in [Slots -> Slot]
  BY <1>1, <1>2 DEF Slot
<1>4. \A i \in Slots : procs'[i].pid = procs[i].pid /\ (Used(i)' <=> Used(i))
  BY <1>1, <1>2 DEF Slot, process_get, Used
<1>5. CountExact' /\ PidsUnique'
  BY <1>1, <1>4, SameUse
<1>6. Rotation'
  BY <1>1 DEF Inv, Rotation, Ahead
<1>7. TypeOK'
  BY <1>1, <1>3 DEF Inv, TypeOK, Slot
<1> QED BY <1>5, <1>6, <1>7 DEF Inv

LEMMA SameTable == ASSUME Inv, UNCHANGED vars PROVE Inv'
BY DEF vars, table, Inv, TypeOK, CountExact, PidsUnique, Rotation, Ahead, Used

LEMMA KillInv == ASSUME Inv, NEW pid, Exit(pid) PROVE Inv'
BY ExitInv, SameTable DEF Exit

\* The parts of NoSignalLost that a step has to keep.
LEMMA NoSignalLostParts ==
  ASSUME TypeOK', signals' \in [Entries -> Entry],
         delivery' \in [pid : Entries, todo : SUBSET Sigs, running : {0} \cup Sigs],
         owed' \subseteq Entries \X Sigs, calls' \in 0..MaxCalls,
         \A o \in owed' : o[2] \in signals'[o[1]].pending
  PROVE  NoSignalLost'
BY DEF NoSignalLost, SigTypeOK, Entry

LEMMA SendSigInv ==
  ASSUME SigInv, NEW pid \in Entries, NEW s \in Sigs, signal_send(pid, s), Counted
  PROVE  SigInv'
<1>1. /\ signals \in [Entries -> Entry] /\ owed \subseteq Entries \X Sigs
      /\ delivery' \in [pid : Entries, todo : SUBSET Sigs, running : {0} \cup Sigs]
      /\ \A o \in owed : o[2] \in signals[o[1]].pending
  BY DEF SigInv, NoSignalLost, SigTypeOK, Entry, signal_send
<1>2. Inv'
  <2>1. \/ Exit(pid) \/ Become(pid, "SLEEPING") \/ Become(pid, "RUNNING") \/ UNCHANGED vars
    BY DEF signal_send
  <2> QED BY <2>1, KillInv, BecomeInv, SameTable DEF SigInv
<1>3. /\ signals' = [signals EXCEPT ![pid].pending = @ \cup {s}]
      /\ owed' = owed \cup {<<pid, s>>}
  BY DEF signal_send
<1>4. signals' \in [Entries -> Entry]
  BY <1>1, <1>3 DEF Entry
<1>5. \A e \in Entries : signals[e].pending \subseteq signals'[e].pending
  BY <1>1, <1>3 DEF Entry
<1>6. s \in signals'[pid].pending
  BY <1>1, <1>3 DEF Entry
<1>7. owed' \subseteq Entries \X Sigs
  BY <1>1, <1>3
<1>8. \A o \in owed' : o[2] \in signals'[o[1]].pending
  BY <1>1, <1>3, <1>5, <1>6
<1>9. calls' \in 0..MaxCalls
  BY SignalsAssumption DEF Counted, SigInv, NoSignalLost, SigTypeOK
<1>10. NoSignalLost'
  BY <1>1, <1>2, <1>4, <1>7, <1>8, <1>9, NoSignalLostParts DEF Inv
<1> QED BY <1>2, <1>10 DEF SigInv

\* The caller's handlers and mask say nothing about what is pending.
LEMMA SetSigInv ==
  ASSUME SigInv, UNCHANGED <<vars, delivery, owed>>, Counted,
         signals' \in [Entries -> Entry],
         \A e \in Entries : signals'[e].pending = signals[e].pending
  PROVE  SigInv'
<1>1. Inv'
  BY SameTable DEF SigInv
<1>2. calls' \in 0..MaxCalls
  BY SignalsAssumption DEF Counted, SigInv, NoSignalLost, SigTypeOK
<1>3. /\ owed \subseteq Entries \X Sigs
      /\ delivery' \in [pid : Entries, todo : SUBSET Sigs, running : {0} \cup Sigs]
      /\ \A o \in owed : o[2] \in signals[o[1]].pending
  BY DEF SigInv, NoSignalLost, SigTypeOK
<1>4. \A o \in owed' : o[2] \in signals'[o[1]].pending
  BY <1>3
<1>5. NoSignalLost'
  BY <1>1, <1>2, <1>3, <1>4, NoSignalLostParts DEF Inv
<1> QED BY <1>1, <1>5 DEF SigInv

\* The bit and the debt are cleared together.
LEMMA DeliverSigInv ==
  ASSUME SigInv, deliver_signal, UNCHANGED calls
  PROVE  SigInv'
<1> DEFINE pid == delivery.pid
           s   == Lowest(delivery.todo)
           h   == signals[pid].handlers[s]
<1>1. /\ signals \in [Entries -> Entry] /\ owed \subseteq Entries \X Sigs
      /\ delivery \in [pid : Entries, todo : SUBSET Sigs, running : {0} \cup Sigs]
      /\ \A o \in owed : o[2] \in signals[o[1]].pending
      /\ calls' \in 0..MaxCalls
  BY DEF SigInv, NoSignalLost, SigTypeOK, Entry
<1>2. pid \in Entries /\ s \in Sigs
  BY <1>1, LowestFacts DEF deliver_signal
<1>3. /\ signals' = [signals EXCEPT ![pid].pending = @ \ {s}]
      /\ owed' = owed \ {<<pid, s>>}
      /\ delivery' = After([delivery EXCEPT !.todo = @ \ {s},
                                            !.running = IF h = "user" THEN s ELSE 0])
      /\ Exit(pid) \/ UNCHANGED vars
  BY DEF deliver_signal
<1>4. Inv'
  BY <1>3, KillInv, SameTable DEF SigInv
<1> HIDE DEF h, s
<1>5. delivery' \in [pid : Entries, todo : SUBSET Sigs, running : {0} \cup Sigs]
  <2> DEFINE run == IF h = "user" THEN s ELSE 0
             d == [delivery EXCEPT !.todo = @ \ {s}, !.running = run]
  <2>1. run \in {0} \cup Sigs
    BY <1>2
  <2> HIDE DEF run
  <2>2. d \in [pid : Entries, todo : SUBSET Sigs, running : {0} \cup Sigs]
    BY <1>1, <2>1
  <2>3. Idle \in [pid : Entries, todo : SUBSET Sigs, running : {0} \cup Sigs]
    BY ProcessAssumption DEF Idle, Entries
  <2>4. delivery' = After(d)
    BY <1>3 DEF run
  <2> HIDE DEF d
  <2> QED BY <2>2, <2>3, <2>4 DEF After
<1> HIDE DEF pid
<1>6. /\ signals' \in [Entries -> Entry]
      /\ signals'[pid].pending = signals[pid].pending \ {s}
      /\ \A e \in Entries : e # pid => signals'[e] = signals[e]
  BY <1>1, <1>2, <1>3 DEF Entry
<1>7. ASSUME NEW o \in owed' PROVE o[2] \in signals'[o[1]].pending
  <2>1. o \in owed /\ o # <<pid, s>> /\ o[1] \in Entries /\ o = <<o[1], o[2]>>
    BY <1>1, <1>3
  <2>2. o[2] \in signals[o[1]].pending
    BY <2>1, <1>1
  <2>3. CASE o[1] = pid
    <3>1. o[2] # s
      BY <2>1, <2>3
    <3> QED BY <2>2, <2>3, <3>1, <1>6
  <2>4. CASE o[1] # pid
    BY <2>1, <2>2, <2>4, <1>6
  <2> QED BY <2>3, <2>4
<1>8. owed' \subseteq Entries \X Sigs
  BY <1>1, <1>3
<1>9. NoSignalLost'
  BY <1>1, <1>4, <1>5, <1>6, <1>7, <1>8, NoSignalLostParts DEF Inv
<1> QED BY <1>4, <1>9 DEF SigInv

\* Neither the start of a delivery nor the end of a handler changes a signal.
LEMMA SameSignals ==
  ASSUME SigInv, Inv', UNCHANGED <<signals, owed, calls>>,
         delivery' \in [pid : Entries, todo : SUBSET Sigs, running : {0} \cup Sigs]
  PROVE  SigInv'
BY DEF SigInv, NoSignalLost, SigTypeOK, Inv

LEMMA SigStep == SigInv /\ [SigNext]_allvars => SigInv'
<1> SUFFICES ASSUME SigInv, [SigNext]_allvars PROVE SigInv'
  OBVIOUS
<1>0. /\ signals \in [Entries -> Entry] /\ Inv
      /\ delivery \in [pid : Entries, todo : SUBSET Sigs, running : {0} \cup Sigs]
  BY DEF SigInv, NoSignalLost, SigTypeOK, Entry
<1>1. CASE Next /\ UNCHANGED sigvars
  <2>1. Inv'
    BY <1>0, <1>1, StepInv
  <2>2. UNCHANGED <<signals, owed, calls, delivery>>
    BY <1>1 DEF sigvars
  <2> QED BY <2>1, <2>2, <1>0, SameSignals
<1>2. CASE \E pid \in Entries, s \in Sigs : signal_send(pid, s) /\ Counted
  BY <1>2, SendSigInv
<1>3. CASE \E s \in Sigs, h \in Handlers : signal_handler_set(s, h) /\ Counted
  <2>1. PICK s \in Sigs, h \in Handlers : signal_handler_set(s, h) /\ Counted
    BY <1>3
  <2>2. /\ Current \in Entries /\ UNCHANGED <<vars, delivery, owed>>
        /\ signals' = [signals EXCEPT ![Current].handlers[s] = h]
    BY <2>1 DEF signal_handler_set
  <2>3. /\ signals' \in [Entries -> Entry]
        /\ \A e \in Entries : signals'[e].pending = signals[e].pending
    BY <1>0, <2>2 DEF Entry
  <2> QED BY <2>1, <2>2, <2>3, SetSigInv
<1>4. CASE \E s \in Sigs, how \in {"SIG_BLOCK", "SIG_UNBLOCK", "SIG_SETMASK"} :
             signal_mask_set(how, s) /\ Counted
  <2>1. PICK s \in Sigs, how \in {"SIG_BLOCK", "SIG_UNBLOCK", "SIG_SETMASK"} :
               signal_mask_set(how, s) /\ Counted
    BY <1>4
  <2>2. /\ Current \in Entries /\ UNCHANGED <<vars, delivery, owed>>
        /\ signals' = [signals EXCEPT ![Current].mask = NewMask(how, @, s)]
    BY <2>1 DEF signal_mask_set
  <2>3. NewMask(how, signals[Current].mask, s) \in SUBSET Sigs
    BY <1>0, <2>2 DEF NewMask, Entry
  <2>4. /\ signals' \in [Entries -> Entry]
        /\ \A e \in Entries : signals'[e].pending = signals[e].pending
    BY <1>0, <2>2, <2>3 DEF Entry
  <2> QED BY <2>1, <2>2, <2>4, SetSigInv
<1>5. CASE \E pid \in Entries : deliver_begin(pid) /\ UNCHANGED calls
  <2>1. PICK pid \in Entries : deliver_begin(pid)
    BY <1>5
  <2>2. /\ delivery' = [pid |-> pid, todo |-> signals[pid].pending \ signals[pid].mask,
                        running |-> 0]
        /\ UNCHANGED <<vars, signals, owed>>
    BY <2>1 DEF deliver_begin
  <2>3. delivery' \in [pid : Entries, todo : SUBSET Sigs, running : {0} \cup Sigs]
    BY <1>0, <2>2 DEF Entry
  <2>4. Inv'
    BY <1>0, <2>2, SameTable
  <2> QED BY <1>5, <2>2, <2>3, <2>4, SameSignals
<1>6. CASE deliver_signal /\ UNCHANGED calls
  BY <1>6, DeliverSigInv
<1>7. CASE handler_returns /\ UNCHANGED calls
  <2> DEFINE d == [delivery EXCEPT !.running = 0]
  <2>1. delivery' = After(d) /\ UNCHANGED <<vars, signals, owed>>
    BY <1>7 DEF handler_returns
  <2>2. d \in [pid : Entries, todo : SUBSET Sigs, running : {0} \cup Sigs]
    BY <1>0
  <2>3. Idle \in [pid : Entries, todo : SUBSET Sigs, running : {0} \cup Sigs]
    BY ProcessAssumption DEF Idle, Entries
  <2> HIDE DEF d
  <2>4. delivery' \in [pid : Entries, todo : SUBSET Sigs, running : {0} \cup Sigs]
    BY <2>1, <2>2, <2>3 DEF After
  <2>5. Inv'
    BY <1>0, <2>1, SameTable
  <2> QED BY <1>7, <2>1, <2>4, <2>5, SameSignals
<1>8. CASE UNCHANGED allvars
  <2>1. UNCHANGED vars /\ UNCHANGED <<signals, owed, calls, delivery>>
    BY <1>8 DEF allvars, sigvars
  <2>2. Inv'
    BY <1>0, <2>1, SameTable
  <2> QED BY <1>0, <2>1, <2>2, SameSignals
<1> QED BY <1>1, <1>2, <1>3, <1>4, <1>5, <1>6, <1>7, <1>8 DEF SigNext

LEMMA SigInitInv == SigInit => SigInv
<1> SUFFICES ASSUME SigInit PROVE SigInv
  OBVIOUS
<1>1. Inv
  BY InitInv DEF SigInit
<1>2. /\ signals = [p \in Entries |-> [pending |-> {}, mask |-> {},
                                       handlers |-> [s \in Sigs |-> "SIG_DFL"]]]
      /\ delivery = Idle /\ owed = {} /\ calls = 0
  BY DEF SigInit
<1>3. signals \in [Entries -> [pending : SUBSET Sigs, mask : SUBSET Sigs,
                               handlers : [Sigs -> Handlers]]]
  BY <1>2 DEF Handlers
<1>4. delivery \in [pid : Entries, todo : SUBSET Sigs, running : {0} \cup Sigs]
  BY <1>2, ProcessAssumption DEF Idle, Entries
<1>5. owed \subseteq Entries \X Sigs /\ calls \in 0..MaxCalls
  BY <1>2, SignalsAssumption
<1> QED BY <1>1, <1>2, <1>3, <1>4, <1>5 DEF SigInv, NoSignalLost, SigTypeOK, Inv

LEMMA SigInvariance == SigSpec => []SigInv
BY SigInitInv, SigStep, PTL DEF SigSpec

(***************************************************************************)
(* signal_deliver loses no signal: one that is sent while its handler runs *)
(* stays pending, whatever else the handlers do.                           *)
(***************************************************************************)
THEOREM SignalsKept == SigSpec => []NoSignalLost
<1>1. SigInv => NoSignalLost
  BY DEF SigInv
<1> QED BY <1>1, SigInvariance, PTL

(***************************************************************************)
(* The count of the processes and the bound on their wait survive kill,    *)
(* stop and continue, sent to live pids, dead ones and pids never given.   *)
(***************************************************************************)
THEOREM SignalsKeepTable == SigSpec => [](CountExact /\ PidsUnique /\ BoundedWait)
<1>1. SigInv => CountExact /\ PidsUnique /\ BoundedWait
  BY RotationBounds DEF SigInv, Inv
<1> QED BY <1>1, SigInvariance, PTL

(***************************************************************************)
(* ... and a tick still picks a process that can run, a stopped one never. *)
(***************************************************************************)
THEOREM SignalsPickRunnable == SigSpec => PicksRunnable
<1> DEFINE Pick == process_scheduler /\ (\E i \in Slots : Runnable(i))
                    => procs[current_proc_idx'].state = "RUNNING"
<1>1. SigInv /\ [SigNext]_allvars => [Pick]_vars
  BY TickPick DEF SigInv, Pick
<1>2. PicksRunnable <=> [][Pick]_vars
  BY DEF PicksRunnable
<1> HIDE DEF Pick
<1> QED BY <1>1, <1>2, SigInvariance, PTL DEF SigSpec

=============================================================================
