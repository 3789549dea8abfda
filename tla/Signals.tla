------------------------------ MODULE Signals ------------------------------
(***************************************************************************)
(* Signals, src/src/sys/signal.c, on top of the process table.             *)
(*                                                                         *)
(* The state of signals is an array of MAX_PROCS entries that is indexed   *)
(* by PID, while the process table is indexed by slot.  Delivery calls the *)
(* handlers from the middle of its loop; a handler is arbitrary code, so   *)
(* every other operation may happen before it returns.  One delivery is    *)
(* under way at a time.  signal_init has no caller: the entries are the    *)
(* zeroes of .bss, which mean no signal, no mask and SIG_DFL.              *)
(***************************************************************************)
EXTENDS Process

CONSTANTS
  Sigs,       \* the signal numbers in play
  MaxCalls    \* bound: calls of the signal operations

ASSUME SignalsAssumption == Sigs \subseteq 1..31 /\ MaxCalls \in Nat

VARIABLES
  signals,    \* pid -> [pending, mask, handlers]
  delivery,   \* the loop of signal_deliver: its pid, its snapshot, its handler
  owed,       \* ghost: <<pid, signum>> sent and not yet dispatched
  calls       \* ghost: the number of calls so far

sigvars == <<signals, delivery, owed, calls>>
allvars == <<vars, sigvars>>

SIGINT  == 2
SIGQUIT == 3
SIGKILL == 9
SIGSEGV == 11
SIGTERM == 15
SIGCONT == 18
SIGSTOP == 19

Fatal    == {SIGINT, SIGQUIT, SIGKILL, SIGSEGV, SIGTERM}
Handlers == {"SIG_DFL", "SIG_IGN", "user"}
Entries  == 0..(MAX_PROCS - 1)

Idle == [pid |-> 0, todo |-> {}, running |-> 0]

Counted == calls < MaxCalls /\ calls' = calls + 1

process_get_StateIgnored(pid) == {i \in Slots : procs[i].pid = pid}

\* process_get: the slot that a live process with this pid has.
process_get(pid) == {i \in Slots : procs[i].pid = pid /\ Used(i)}

Become(pid, state) ==
  /\ procs' = [i \in Slots |-> IF i \in process_get(pid)
                               THEN [procs[i] EXCEPT !.state = state] ELSE procs[i]]
  /\ UNCHANGED <<next_pid, current_proc_idx, proc_count, cpu, cr3, avail, images, waits>>

\* process_exit does nothing when no live process has the pid.
Exit(pid) ==
  \/ process_exit(pid)
  \/ process_get(pid) = {} /\ UNCHANGED vars

-----------------------------------------------------------------------------

signal_send(pid, signum) ==
  /\ pid \in Entries
  /\ signals' = [signals EXCEPT ![pid].pending = @ \cup {signum}]
  /\ CASE signum = SIGKILL -> Exit(pid)
       [] signum = SIGSTOP -> Become(pid, "SLEEPING")
       [] signum = SIGCONT -> Become(pid, "RUNNING")
       [] OTHER            -> UNCHANGED vars
  /\ owed' = owed \cup {<<pid, signum>>}
  /\ UNCHANGED delivery

\* The caller's own entry, if its pid has one.
signal_handler_set(signum, handler) ==
  /\ Current \in Entries
  /\ signals' = [signals EXCEPT ![Current].handlers[signum] = handler]
  /\ UNCHANGED <<vars, delivery, owed>>

NewMask(how, mask, signum) ==
  CASE how = "SIG_BLOCK"   -> mask \cup {signum}
    [] how = "SIG_UNBLOCK" -> mask \ {signum}
    [] how = "SIG_SETMASK" -> {signum}

signal_mask_set(how, signum) ==
  /\ Current \in Entries
  /\ signals' = [signals EXCEPT ![Current].mask = NewMask(how, @, signum)]
  /\ UNCHANGED <<vars, delivery, owed>>

-----------------------------------------------------------------------------
\* signal_deliver: the unmasked pending signals are read once, at the start.

deliver_begin(pid) ==
  /\ delivery = Idle
  /\ pid \in Entries
  /\ signals[pid].pending \ signals[pid].mask # {}
  /\ delivery' = [pid |-> pid, todo |-> signals[pid].pending \ signals[pid].mask,
                  running |-> 0]
  /\ UNCHANGED <<vars, signals, owed>>

Lowest(S) == CHOOSE s \in S : \A t \in S : s <= t

After(d) == IF d.todo = {} /\ d.running = 0 THEN Idle ELSE d

\* One turn of the loop: the bit is cleared before the handler is called.
deliver_signal ==
  /\ delivery.todo # {} /\ delivery.running = 0
  /\ LET pid == delivery.pid
         i   == Lowest(delivery.todo)
         h   == signals[pid].handlers[i]
     IN /\ signals' = [signals EXCEPT ![pid].pending = @ \ {i}]
        /\ owed' = owed \ {<<pid, i>>}
        /\ delivery' = After([delivery EXCEPT !.todo = @ \ {i},
                                              !.running = IF h = "user" THEN i ELSE 0])
        /\ IF h = "SIG_DFL" /\ i \in Fatal THEN Exit(pid) ELSE UNCHANGED vars

handler_returns_ClearsLate ==
  /\ delivery.running # 0
  /\ signals' = [signals EXCEPT ![delivery.pid].pending = @ \ {delivery.running}]
  /\ delivery' = After([delivery EXCEPT !.running = 0])
  /\ UNCHANGED <<vars, owed>>

handler_returns ==
  /\ delivery.running # 0
  /\ delivery' = After([delivery EXCEPT !.running = 0])
  /\ UNCHANGED <<vars, signals, owed>>

-----------------------------------------------------------------------------

SigInit ==
  /\ Init
  /\ signals = [p \in Entries |-> [pending |-> {}, mask |-> {},
                                   handlers |-> [s \in Sigs |-> "SIG_DFL"]]]
  /\ delivery = Idle
  /\ owed = {}
  /\ calls = 0

SigNext ==
  \/ Next /\ UNCHANGED sigvars
  \/ \E pid \in Entries, s \in Sigs : signal_send(pid, s) /\ Counted
  \/ \E s \in Sigs, h \in Handlers : signal_handler_set(s, h) /\ Counted
  \/ \E s \in Sigs, how \in {"SIG_BLOCK", "SIG_UNBLOCK", "SIG_SETMASK"} :
       signal_mask_set(how, s) /\ Counted
  \/ \E pid \in Entries : deliver_begin(pid) /\ UNCHANGED calls
  \/ deliver_signal /\ UNCHANGED calls
  \/ handler_returns /\ UNCHANGED calls

SigSpec == SigInit /\ [][SigNext]_allvars

-----------------------------------------------------------------------------

\* The types of the signal table and of the delivery loop.
SigTypeOK ==
  /\ TypeOK
  /\ signals \in [Entries -> [pending : SUBSET Sigs, mask : SUBSET Sigs,
                              handlers : [Sigs -> Handlers]]]
  /\ delivery \in [pid : Entries, todo : SUBSET Sigs, running : {0} \cup Sigs]
  /\ owed \subseteq Entries \X Sigs
  /\ calls \in 0..MaxCalls

(***************************************************************************)
(* signal_deliver loses nothing: what is sent after the handler for it was *)
(* started (even from inside the handler) stays pending for a later        *)
(* delivery.                                                               *)
(***************************************************************************)
NoSignalLost == SigTypeOK /\ \A o \in owed : o[2] \in signals[o[1]].pending

=============================================================================
