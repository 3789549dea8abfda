------------------------------ MODULE Keyboard ------------------------------
(***************************************************************************)
(* The keyboard driver, src/src/drivers/keyboard.c: the interrupt handler  *)
(* that fills the ring, and the two consumers that empty it with           *)
(* interrupts on, kb_getchar (the shell) and handle_keyboard (the          *)
(* compositor).  The gates are interrupt gates, so a handler runs to the   *)
(* end; between any two accesses of a consumer an interrupt may come.      *)
(*                                                                         *)
(* A scancode is a key and whether it goes down.  Of the 128 entries of    *)
(* the two translation tables it matters only whether there is a           *)
(* character, whether Shift chooses another, and which are c and d.        *)
(***************************************************************************)
EXTENDS Integers, Sequences

CONSTANTS
  KB_BUFFER_SIZE,  \* slots of kb_buffer[]
  Keys,            \* the keys typed: see Special
  MaxKeys          \* bound: interrupts of the keyboard

ASSUME KeyboardAssumption ==
  /\ KB_BUFFER_SIZE \in Nat \ {0, 1}
  /\ MaxKeys \in Nat

VARIABLES
  kb_buffer,
  kb_head,
  kb_tail,
  modifiers,   \* the modifiers that are on
  reader,      \* where the consumer is, what it has read, whether it waits
  got,         \* the character returned last
  typed        \* ghost: interrupts so far

ring == <<kb_buffer, kb_head, kb_tail>>
vars == <<ring, modifiers, reader, got, typed>>

Index == 0..(KB_BUFFER_SIZE - 1)

Modifiers == {"shift", "ctrl", "alt"}
Blank     == {"caps", "unused"}     \* keys that yield no character

Char == [key : Keys \cup {"^C", "^D", ""}, shifted : BOOLEAN]
NUL  == [key |-> "", shifted |-> FALSE]

-----------------------------------------------------------------------------

kb_push_NoFullTest(c) ==
  /\ kb_buffer' = [kb_buffer EXCEPT ![kb_head] = c]
  /\ kb_head' = (kb_head + 1) % KB_BUFFER_SIZE

kb_push_FullOneEarly(c) ==
  IF (kb_head + 2) % KB_BUFFER_SIZE # kb_tail
  THEN /\ kb_buffer' = [kb_buffer EXCEPT ![kb_head] = c]
       /\ kb_head' = (kb_head + 1) % KB_BUFFER_SIZE
  ELSE UNCHANGED <<kb_buffer, kb_head>>

kb_push_NoWrap(c) ==
  IF kb_head + 1 # kb_tail
  THEN /\ kb_buffer' = [kb_buffer EXCEPT ![kb_head] = c]
       /\ kb_head' = kb_head + 1
  ELSE UNCHANGED <<kb_buffer, kb_head>>

\* A full ring drops the new character.
kb_push(c) ==
  LET next == (kb_head + 1) % KB_BUFFER_SIZE
  IN  IF next # kb_tail
      THEN kb_buffer' = [kb_buffer EXCEPT ![kb_head] = c] /\ kb_head' = next
      ELSE UNCHANGED <<kb_buffer, kb_head>>

\* Ctrl turns c and d into control characters, shifted or not.
Translate(key) ==
  IF "ctrl" \in modifiers /\ key \in {"c", "d"}
  THEN [key |-> IF key = "c" THEN "^C" ELSE "^D", shifted |-> FALSE]
  ELSE [key |-> key, shifted |-> "shift" \in modifiers]

\* The loop does not look at the ring again.
Woken_NotRetested == IF reader.pc = "halted" THEN [reader EXCEPT !.pc = "hlt"] ELSE reader

\* Any interrupt ends a hlt, and the loop tests again.
Woken == IF reader.pc = "halted" THEN [reader EXCEPT !.pc = "test"] ELSE reader

kb_irq(key, down) ==
  /\ typed < MaxKeys
  /\ typed' = typed + 1
  /\ modifiers' = IF key \notin Modifiers THEN modifiers
                  ELSE IF down THEN modifiers \cup {key} ELSE modifiers \ {key}
  /\ IF down /\ key \notin Modifiers \cup Blank
     THEN kb_push(Translate(key)) ELSE UNCHANGED <<kb_buffer, kb_head>>
  /\ reader' = Woken
  /\ UNCHANGED <<kb_tail, got>>

\* The tick changes nothing here but the state of a halted processor.
timer_irq ==
  /\ reader.pc = "halted"
  /\ reader' = Woken
  /\ UNCHANGED <<ring, modifiers, got, typed>>

-----------------------------------------------------------------------------
\* The consumers.  A call starts at the test of the loop.

Call(waits) ==
  /\ reader.pc = "idle"
  /\ reader' = [pc |-> "test", c |-> NUL, waits |-> waits]
  /\ UNCHANGED <<ring, modifiers, got, typed>>

kb_getchar      == Call(TRUE)
handle_keyboard == Call(FALSE)

\* kb_getchar halts on an empty ring, handle_keyboard is done with it.
Test ==
  /\ reader.pc = "test"
  /\ reader' = [reader EXCEPT !.pc = IF kb_head # kb_tail THEN "read"
                                     ELSE IF reader.waits THEN "hlt" ELSE "idle"]
  /\ UNCHANGED <<ring, modifiers, got, typed>>

Halt ==
  /\ reader.pc = "hlt"
  /\ reader' = [reader EXCEPT !.pc = "halted"]
  /\ UNCHANGED <<ring, modifiers, got, typed>>

Read ==
  /\ reader.pc = "read"
  /\ reader' = [reader EXCEPT !.pc = "advance", !.c = kb_buffer[kb_tail]]
  /\ UNCHANGED <<ring, modifiers, got, typed>>

\* The character is returned, or handed to the window and the loop goes on.
Advance ==
  /\ reader.pc = "advance"
  /\ kb_tail' = (kb_tail + 1) % KB_BUFFER_SIZE
  /\ got' = reader.c
  /\ reader' = [reader EXCEPT !.pc = IF reader.waits THEN "idle" ELSE "test"]
  /\ UNCHANGED <<kb_buffer, kb_head, modifiers, typed>>

\* kb_clear_buffer, in two assignments.
kb_clear_head ==
  /\ reader.pc = "idle"
  /\ kb_head' = 0
  /\ reader' = [reader EXCEPT !.pc = "clear"]
  /\ UNCHANGED <<kb_buffer, kb_tail, modifiers, got, typed>>

kb_clear_tail ==
  /\ reader.pc = "clear"
  /\ kb_tail' = 0
  /\ reader' = [reader EXCEPT !.pc = "idle"]
  /\ UNCHANGED <<kb_buffer, kb_head, modifiers, got, typed>>

-----------------------------------------------------------------------------

\* kb_init
Init ==
  /\ kb_buffer = [i \in Index |-> NUL]
  /\ kb_head = 0 /\ kb_tail = 0
  /\ modifiers = {}
  /\ reader = [pc |-> "idle", c |-> NUL, waits |-> FALSE]
  /\ got = NUL
  /\ typed = 0

Step == Test \/ Halt \/ Read \/ Advance \/ kb_clear_tail

Next ==
  \/ \E key \in Keys, down \in BOOLEAN : kb_irq(key, down)
  \/ timer_irq
  \/ kb_getchar \/ handle_keyboard \/ kb_clear_head
  \/ Step

Spec == Init /\ [][Next]_vars

\* The processor executes, and the PIT fires at 100 Hz.
FairSpec == Spec /\ WF_vars(Step) /\ WF_vars(timer_irq)

-----------------------------------------------------------------------------

\* Every variable has the type its declaration gives it.
TypeOK ==
  /\ kb_buffer \in [Index -> Char]
  /\ kb_head \in Index /\ kb_tail \in Index
  /\ modifiers \subseteq Modifiers
  /\ reader \in [pc : {"idle", "test", "hlt", "halted", "read", "advance", "clear"},
                 c : Char, waits : BOOLEAN]
  /\ got \in Char
  /\ typed \in 0..MaxKeys

\* Between the two assignments of kb_clear_buffer the tail is as good as 0.
Start == IF reader.pc = "clear" THEN 0 ELSE kb_tail

Held == (kb_head - Start) % KB_BUFFER_SIZE

Window == [k \in 1..Held |-> kb_buffer[(Start + k - 1) % KB_BUFFER_SIZE]]

Queue == INSTANCE BoundedQueue
           WITH Capacity <- KB_BUFFER_SIZE - 1, Values <- Char, queue <- Window, out <- got

(***************************************************************************)
(* "Buffer with ring semantics": with interrupts between any two accesses, *)
(* at the wrap-around, at the limit and in the middle of kb_clear_buffer,  *)
(* the ring is a first-in first-out queue of KB_BUFFER_SIZE - 1 characters *)
(* and a consumer gets its oldest.                                         *)
(***************************************************************************)
ImplementsQueue == Queue!Spec

(***************************************************************************)
(* A character is dropped only when the ring is full (kb_clear_buffer, in  *)
(* the middle of which a ring may look full that is empty, apart).         *)
(***************************************************************************)
DropsOnlyWhenFull ==
  [][\A key \in Keys : kb_irq(key, TRUE) /\ key \notin Modifiers \cup Blank
                         /\ reader.pc # "clear"
       => kb_head' # kb_head \/ Held = KB_BUFFER_SIZE - 1]_vars

(***************************************************************************)
(* The key that arrives after kb_getchar found the ring empty and before   *)
(* it halts is not waited for in vain: kb_getchar returns.                 *)
(***************************************************************************)
KeyDelivered ==
  (reader.waits /\ reader.pc # "idle" /\ kb_head # kb_tail) ~> reader.pc = "idle"

=============================================================================
