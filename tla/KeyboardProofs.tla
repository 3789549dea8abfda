--------------------------- MODULE KeyboardProofs ---------------------------
(***************************************************************************)
(* Proofs about the keyboard driver, src/src/drivers/keyboard.c: for a     *)
(* ring of any size, any keys and any interleaving of the interrupt with   *)
(* the consumer, the ring implements the queue of module BoundedQueue and  *)
(* a character is dropped only when the ring is full.                      *)
(***************************************************************************)
EXTENDS Keyboard, SequenceTheorems, TLAPS

\* The slot that lies k after slot s, k at most once around.
Slot(s, k) == IF s + k < KB_BUFFER_SIZE THEN s + k ELSE s + k - KB_BUFFER_SIZE

\* How far head lies after s, around the ring.
Distance(head, s) == IF head >= s THEN head - s ELSE head - s + KB_BUFFER_SIZE

\* The characters in the n slots from s on.
Ring(b, s, n) == [k \in 1..n |-> b[(s + k - 1) % KB_BUFFER_SIZE]]

(***************************************************************************)
(* A consumer past its test has a character to take, which no interrupt    *)
(* overwrites; and in the middle of kb_clear_buffer the interrupt, which   *)
(* still compares with the old tail, has not filled the ring past it.      *)
(***************************************************************************)
TestedFull  == reader.pc \in {"read", "advance"} => kb_head # kb_tail
ReadIsFront == reader.pc = "advance" => reader.c = kb_buffer[kb_tail]
ClearedBehindTail == reader.pc = "clear" => kb_head < kb_tail \/ kb_tail = 0

Inv == TypeOK /\ TestedFull /\ ReadIsFront /\ ClearedBehindTail

-----------------------------------------------------------------------------
(***************************************************************************)
(* Arithmetic of the ring                                                  *)
(***************************************************************************)

\* (s + k) % KB_BUFFER_SIZE, k less than once around.
LEMMA Around ==
  ASSUME NEW s \in Index, NEW k \in 0..(KB_BUFFER_SIZE - 1)
  PROVE  (s + k) % KB_BUFFER_SIZE = Slot(s, k)
<1>1. KB_BUFFER_SIZE \in Nat /\ KB_BUFFER_SIZE > 1 /\ s \in Int /\ 0 <= s
      /\ s < KB_BUFFER_SIZE /\ k \in Int /\ 0 <= k /\ k < KB_BUFFER_SIZE
  BY KeyboardAssumption DEF Index
<1>2. CASE s + k < KB_BUFFER_SIZE
  BY <1>1, <1>2 DEF Slot
<1>3. CASE s + k >= KB_BUFFER_SIZE
  BY <1>1, <1>3 DEF Slot
<1> QED  BY <1>1, <1>2, <1>3

\* (head - s) % KB_BUFFER_SIZE is the distance from s to head.
LEMMA AroundBack ==
  ASSUME NEW head \in Index, NEW s \in Index
  PROVE  (head - s) % KB_BUFFER_SIZE = Distance(head, s)
<1>1. KB_BUFFER_SIZE \in Nat /\ KB_BUFFER_SIZE > 1 /\ s \in Int /\ 0 <= s
      /\ s < KB_BUFFER_SIZE /\ head \in Int /\ 0 <= head /\ head < KB_BUFFER_SIZE
  BY KeyboardAssumption DEF Index
<1>2. CASE head >= s
  BY <1>1, <1>2 DEF Distance
<1>3. CASE head < s
  BY <1>1, <1>3 DEF Distance
<1> QED  BY <1>1, <1>2, <1>3

LEMMA SlotFacts ==
  ASSUME NEW s \in Index
  PROVE  /\ \A k \in 0..KB_BUFFER_SIZE : Slot(s, k) \in Index
         /\ Slot(s, 0) = s
         /\ \A k \in 0..(KB_BUFFER_SIZE - 1) :
              /\ Slot(Slot(s, 1), k) = Slot(s, k + 1)
              /\ Slot(Slot(s, k), 1) = Slot(s, k + 1)
         /\ \A j, k \in 0..(KB_BUFFER_SIZE - 1) : j # k => Slot(s, j) # Slot(s, k)
BY KeyboardAssumption DEF Slot, Index

LEMMA DistanceFacts ==
  ASSUME NEW head \in Index, NEW s \in Index
  PROVE  /\ Distance(head, s) \in 0..(KB_BUFFER_SIZE - 1)
         /\ Slot(s, Distance(head, s)) = head
         /\ Distance(head, s) = 0 <=> head = s
         /\ Slot(head, 1) = s => Distance(head, s) = KB_BUFFER_SIZE - 1
         /\ Slot(head, 1) # s => /\ Distance(head, s) < KB_BUFFER_SIZE - 1
                                 /\ Distance(Slot(head, 1), s) = Distance(head, s) + 1
         /\ head # s => Distance(head, Slot(s, 1)) = Distance(head, s) - 1
         /\ Distance(head, 0) = head
         /\ Slot(head, 1) # head
BY KeyboardAssumption DEF Slot, Distance, Index

-----------------------------------------------------------------------------
(***************************************************************************)
(* The ring as a sequence                                                  *)
(***************************************************************************)

LEMMA RingSeq ==
  ASSUME NEW b \in [Index -> Char], NEW s \in Index, NEW n \in 0..(KB_BUFFER_SIZE - 1)
  PROVE  /\ Ring(b, s, n) \in Seq(Char) /\ Len(Ring(b, s, n)) = n
         /\ \A k \in 1..n : Ring(b, s, n)[k] = b[Slot(s, k - 1)]
<1> USE KeyboardAssumption
<1>1. ASSUME NEW k \in 1..n
      PROVE  (s + k - 1) % KB_BUFFER_SIZE = Slot(s, k - 1) /\ Slot(s, k - 1) \in Index
  <2>1. k - 1 \in 0..(KB_BUFFER_SIZE - 1) /\ k - 1 \in 0..KB_BUFFER_SIZE /\ s + k - 1 = s + (k - 1)
    BY DEF Index
  <2> QED  BY <2>1, Around, SlotFacts
<1>2. n \in Nat /\ Ring(b, s, n) \in [1..n -> Char]
  BY <1>1 DEF Ring
<1>3. Ring(b, s, n) \in Seq(Char) /\ Len(Ring(b, s, n)) = n
  BY <1>2
<1>4. \A k \in 1..n : Ring(b, s, n)[k] = b[Slot(s, k - 1)]
  BY <1>1 DEF Ring
<1> QED  BY <1>3, <1>4

\* A character stored in the slot behind the last one is appended.
LEMMA RingPut ==
  ASSUME NEW b \in [Index -> Char], NEW s \in Index, NEW n \in 0..(KB_BUFFER_SIZE - 2),
         NEW c \in Char
  PROVE  Ring([b EXCEPT ![Slot(s, n)] = c], s, n + 1) = Append(Ring(b, s, n), c)
<1> DEFINE d == [b EXCEPT ![Slot(s, n)] = c]
<1>1. n \in 0..(KB_BUFFER_SIZE - 1) /\ n + 1 \in 0..(KB_BUFFER_SIZE - 1) /\ Slot(s, n) \in Index
      /\ n \in Nat
  BY KeyboardAssumption, SlotFacts
<1>2. d \in [Index -> Char] /\ d[Slot(s, n)] = c
      /\ \A i \in Index : i # Slot(s, n) => d[i] = b[i]
  BY <1>1
<1>3. /\ Ring(d, s, n + 1) \in Seq(Char) /\ Len(Ring(d, s, n + 1)) = n + 1
      /\ \A k \in 1..(n + 1) : Ring(d, s, n + 1)[k] = d[Slot(s, k - 1)]
  <2> HIDE DEF d
  <2> QED  BY <1>1, <1>2, RingSeq
<1>4. /\ Ring(b, s, n) \in Seq(Char) /\ Len(Ring(b, s, n)) = n
      /\ \A k \in 1..n : Ring(b, s, n)[k] = b[Slot(s, k - 1)]
  BY <1>1, RingSeq
<1>5. /\ Append(Ring(b, s, n), c) \in Seq(Char) /\ Len(Append(Ring(b, s, n), c)) = n + 1
      /\ Append(Ring(b, s, n), c)[n + 1] = c
      /\ \A k \in 1..n : Append(Ring(b, s, n), c)[k] = Ring(b, s, n)[k]
  BY <1>1, <1>4, AppendProperties
<1>6. ASSUME NEW k \in 1..(n + 1)
      PROVE  Ring(d, s, n + 1)[k] = Append(Ring(b, s, n), c)[k]
  <2>1. CASE k = n + 1
    <3>1. k - 1 = n
      BY <2>1, <1>1
    <3> QED  BY <3>1, <2>1, <1>2, <1>3, <1>5
  <2>2. CASE k # n + 1
    <3>1. k \in 1..n /\ k - 1 \in 0..(KB_BUFFER_SIZE - 1) /\ k - 1 # n
          /\ k - 1 \in 0..KB_BUFFER_SIZE
      BY <2>2, <1>1, KeyboardAssumption
    <3>2. Slot(s, k - 1) # Slot(s, n) /\ Slot(s, k - 1) \in Index
      BY <3>1, <1>1, SlotFacts
    <3>3. d[Slot(s, k - 1)] = b[Slot(s, k - 1)]
      BY <3>2, <1>2
    <3> QED  BY <3>1, <3>3, <1>3, <1>4, <1>5
  <2> QED  BY <2>1, <2>2
<1> HIDE DEF d
<1>7. Ring(d, s, n + 1) = Append(Ring(b, s, n), c)
  BY <1>3, <1>5, <1>6, SeqEqual
<1> QED  BY <1>7 DEF d

\* The first slot holds the head, the others are the tail.
LEMMA RingTake ==
  ASSUME NEW b \in [Index -> Char], NEW s \in Index, NEW n \in 1..(KB_BUFFER_SIZE - 1)
  PROVE  /\ Ring(b, s, n) # <<>> /\ Head(Ring(b, s, n)) = b[s]
         /\ Tail(Ring(b, s, n)) = Ring(b, Slot(s, 1), n - 1)
<1>1. /\ n \in 0..(KB_BUFFER_SIZE - 1) /\ n - 1 \in 0..(KB_BUFFER_SIZE - 1) /\ n \in Nat
      /\ Slot(s, 1) \in Index
  BY KeyboardAssumption, SlotFacts
<1>2. /\ Ring(b, s, n) \in Seq(Char) /\ Len(Ring(b, s, n)) = n
      /\ \A k \in 1..n : Ring(b, s, n)[k] = b[Slot(s, k - 1)]
  BY <1>1, RingSeq
<1>3. /\ Ring(b, Slot(s, 1), n - 1) \in Seq(Char) /\ Len(Ring(b, Slot(s, 1), n - 1)) = n - 1
      /\ \A k \in 1..(n - 1) : Ring(b, Slot(s, 1), n - 1)[k] = b[Slot(Slot(s, 1), k - 1)]
  BY <1>1, RingSeq
<1>4. Ring(b, s, n) # <<>>
  BY <1>1, <1>2
<1>5. Head(Ring(b, s, n)) = b[s]
  <2>1. 1 \in 1..n /\ 1 - 1 = 0 /\ Slot(s, 0) = s
    BY <1>1, SlotFacts
  <2>2. Ring(b, s, n)[1] = b[Slot(s, 1 - 1)]
    BY <1>2, <2>1
  <2> QED  BY <2>1, <2>2, <1>2, <1>4
<1>6. /\ Tail(Ring(b, s, n)) \in Seq(Char) /\ Len(Tail(Ring(b, s, n))) = n - 1
      /\ \A k \in 1..(n - 1) : Tail(Ring(b, s, n))[k] = Ring(b, s, n)[k + 1]
  BY <1>2, <1>4, HeadTailProperties
<1>7. ASSUME NEW k \in 1..(n - 1)
      PROVE  Tail(Ring(b, s, n))[k] = Ring(b, Slot(s, 1), n - 1)[k]
  <2>1. k + 1 \in 1..n /\ k - 1 \in 0..(KB_BUFFER_SIZE - 1) /\ k + 1 - 1 = k - 1 + 1
    BY <1>1, KeyboardAssumption
  <2>2. Slot(Slot(s, 1), k - 1) = Slot(s, k - 1 + 1)
    BY <2>1, SlotFacts
  <2>3. Ring(b, s, n)[k + 1] = b[Slot(s, k + 1 - 1)]
    BY <2>1, <1>2
  <2> QED  BY <2>1, <2>2, <2>3, <1>3, <1>6
<1>8. Tail(Ring(b, s, n)) = Ring(b, Slot(s, 1), n - 1)
  BY <1>3, <1>6, <1>7, SeqEqual
<1> QED  BY <1>4, <1>5, <1>8

\* The window of the refinement mapping, with its arithmetic worked out.
LEMMA WindowFacts ==
  ASSUME TypeOK
  PROVE  /\ Start \in Index /\ Held = Distance(kb_head, Start)
         /\ Window = Ring(kb_buffer, Start, Held)
<1>1. Start \in Index
  BY KeyboardAssumption DEF TypeOK, Start, Index
<1>2. Held = Distance(kb_head, Start)
  BY <1>1, AroundBack DEF TypeOK, Held
<1>3. Window = Ring(kb_buffer, Start, Held)
  BY DEF Window, Ring
<1> QED  BY <1>1, <1>2, <1>3

\* ... and after a step.
LEMMA WindowNext ==
  ASSUME TypeOK'
  PROVE  /\ Start' \in Index /\ Held' = Distance(kb_head', Start')
         /\ Window' = Ring(kb_buffer', Start', Held')
<1>1. Start' \in Index
  BY KeyboardAssumption DEF TypeOK, Start, Index
<1>2. Held' = Distance(kb_head', Start')
  BY <1>1, AroundBack DEF TypeOK, Held
<1>3. Window' = Ring(kb_buffer', Start', Held')
  BY DEF Window, Ring
<1> QED  BY <1>1, <1>2, <1>3

-----------------------------------------------------------------------------
(***************************************************************************)
(* The inductive invariant                                                 *)
(***************************************************************************)

LEMMA InvInit == Init => Inv
<1> SUFFICES ASSUME Init PROVE Inv
  OBVIOUS
<1>1. NUL \in Char
  BY DEF NUL, Char
<1> QED
  BY <1>1, KeyboardAssumption
  DEF Init, Inv, TypeOK, TestedFull, ReadIsFront, ClearedBehindTail, Index, Modifiers

\* A key that has a character becomes one of the characters.
LEMMA TranslateType ==
  ASSUME NEW key \in Keys
  PROVE  Translate(key) \in Char
<1>1. \A k \in Keys \cup {"^C", "^D", ""}, b \in BOOLEAN : [key |-> k, shifted |-> b] \in Char
  BY DEF Char
<1>2. CASE "ctrl" \in modifiers /\ key \in {"c", "d"}
  <2>1. Translate(key) = [key |-> IF key = "c" THEN "^C" ELSE "^D", shifted |-> FALSE]
    BY <1>2 DEF Translate
  <2>2. (IF key = "c" THEN "^C" ELSE "^D") \in Keys \cup {"^C", "^D", ""}
    OBVIOUS
  <2> QED  BY <1>1, <2>1, <2>2
<1>3. CASE ~("ctrl" \in modifiers /\ key \in {"c", "d"})
  <2>1. Translate(key) = [key |-> key, shifted |-> "shift" \in modifiers]
    BY <1>3 DEF Translate
  <2>2. ("shift" \in modifiers) \in BOOLEAN
    OBVIOUS
  <2> QED  BY <1>1, <2>1, <2>2
<1> QED  BY <1>2, <1>3

\* Waking a halted consumer moves it from one waiting state to another.
LEMMA WokenFacts ==
  ASSUME TypeOK
  PROVE  /\ Woken \in [pc : {"idle", "test", "hlt", "halted", "read", "advance", "clear"},
                       c : Char, waits : BOOLEAN]
         /\ Woken.c = reader.c
         /\ \A p \in {"read", "advance", "clear"} : Woken.pc = p <=> reader.pc = p
BY DEF TypeOK, Woken

(***************************************************************************)
(* What kb_push does to the ring: it stores behind the last character and  *)
(* advances the head, or the slot behind the head is the tail's.           *)
(***************************************************************************)
LEMMA PushFacts ==
  ASSUME TypeOK, NEW c \in Char, kb_push(c)
  PROVE  \/ /\ Slot(kb_head, 1) # kb_tail /\ kb_head' = Slot(kb_head, 1)
            /\ kb_buffer' = [kb_buffer EXCEPT ![kb_head] = c]
         \/ Slot(kb_head, 1) = kb_tail /\ UNCHANGED <<kb_buffer, kb_head>>
<1>1. kb_head \in Index /\ 1 \in 0..(KB_BUFFER_SIZE - 1)
  BY KeyboardAssumption DEF TypeOK
<1>2. (kb_head + 1) % KB_BUFFER_SIZE = Slot(kb_head, 1)
  BY <1>1, Around
<1>3. kb_push(c) <=> IF Slot(kb_head, 1) # kb_tail
                     THEN kb_buffer' = [kb_buffer EXCEPT ![kb_head] = c] /\ kb_head' = Slot(kb_head, 1)
                     ELSE UNCHANGED <<kb_buffer, kb_head>>
  BY <1>2 DEF kb_push
<1> QED  BY <1>3

LEMMA IrqKeeps ==
  ASSUME Inv, NEW key \in Keys, NEW down \in BOOLEAN, kb_irq(key, down)
  PROVE  Inv'
<1> USE KeyboardAssumption
<1>0. TypeOK /\ kb_head \in Index /\ kb_tail \in Index /\ kb_buffer \in [Index -> Char]
  BY DEF Inv, TypeOK
<1>1. /\ kb_tail' = kb_tail /\ got' = got /\ reader' = Woken
      /\ modifiers' \subseteq Modifiers /\ typed' \in 0..MaxKeys
  BY <1>0 DEF kb_irq, TypeOK
<1>2. \/ UNCHANGED <<kb_buffer, kb_head>>
      \/ \E c \in Char : kb_push(c)
  BY TranslateType DEF kb_irq
<1>3. \/ UNCHANGED <<kb_buffer, kb_head>>
      \/ \E c \in Char : /\ Slot(kb_head, 1) # kb_tail /\ kb_head' = Slot(kb_head, 1)
                         /\ kb_buffer' = [kb_buffer EXCEPT ![kb_head] = c]
  BY <1>0, <1>2, PushFacts
<1>4. kb_head' \in Index /\ kb_buffer' \in [Index -> Char]
  <2>1. Slot(kb_head, 1) \in Index
    BY <1>0, SlotFacts
  <2> QED  BY <1>0, <1>3, <2>1
<1>5. TypeOK'
  BY <1>0, <1>1, <1>4, WokenFacts DEF TypeOK, Index
<1>6. TestedFull'
  BY <1>0, <1>1, <1>3, WokenFacts DEF Inv, TestedFull
<1>7. ReadIsFront'
  <2> SUFFICES ASSUME reader'.pc = "advance" PROVE reader'.c = kb_buffer'[kb_tail']
    BY DEF ReadIsFront
  <2>1. reader.pc = "advance" /\ reader'.c = reader.c
    BY <1>0, <1>1, WokenFacts
  <2>2. kb_head # kb_tail /\ reader.c = kb_buffer[kb_tail]
    BY <2>1 DEF Inv, TestedFull, ReadIsFront
  <2>3. kb_buffer'[kb_tail] = kb_buffer[kb_tail]
    BY <2>2, <1>0, <1>3
  <2> QED  BY <2>1, <2>2, <2>3, <1>1
<1>8. ClearedBehindTail'
  <2> SUFFICES ASSUME reader'.pc = "clear" PROVE kb_head' < kb_tail' \/ kb_tail' = 0
    BY DEF ClearedBehindTail
  <2>1. kb_head < kb_tail \/ kb_tail = 0
    BY <1>0, <1>1, WokenFacts DEF Inv, ClearedBehindTail
  <2>2. CASE UNCHANGED <<kb_buffer, kb_head>>
    BY <2>1, <2>2, <1>1
  <2>3. CASE Slot(kb_head, 1) # kb_tail /\ kb_head' = Slot(kb_head, 1)
    BY <2>1, <2>3, <1>0, <1>1 DEF Slot, Index
  <2> QED  BY <2>2, <2>3, <1>3
<1> QED  BY <1>5, <1>6, <1>7, <1>8 DEF Inv

LEMMA AdvanceKeeps ==
  ASSUME Inv, Advance
  PROVE  Inv'
<1>1. kb_tail' \in Index
  <2>1. kb_tail \in Index /\ 1 \in 0..(KB_BUFFER_SIZE - 1) /\ 1 \in 0..KB_BUFFER_SIZE
    BY KeyboardAssumption DEF Inv, TypeOK
  <2>2. kb_tail' = Slot(kb_tail, 1)
    BY <2>1, Around DEF Advance
  <2> QED  BY <2>1, <2>2, SlotFacts
<1>2. /\ reader' \in [pc : {"idle", "test", "hlt", "halted", "read", "advance", "clear"},
                      c : Char, waits : BOOLEAN]
      /\ reader'.pc \in {"idle", "test"} /\ got' \in Char
      /\ UNCHANGED <<kb_buffer, kb_head, modifiers, typed>>
  BY DEF Inv, TypeOK, Advance
<1> QED  BY <1>1, <1>2 DEF Inv, TypeOK, TestedFull, ReadIsFront, ClearedBehindTail

LEMMA InvStep == Inv /\ [Next]_vars => Inv'
<1> SUFFICES ASSUME Inv, [Next]_vars PROVE Inv'
  OBVIOUS
<1> USE DEF Inv, TypeOK, TestedFull, ReadIsFront, ClearedBehindTail
<1>0. NUL \in Char
  BY DEF NUL, Char
<1>1. CASE \E key \in Keys, down \in BOOLEAN : kb_irq(key, down)
  BY <1>1, IrqKeeps
<1>2. CASE timer_irq
  BY <1>2, WokenFacts DEF timer_irq, ring
<1>3. CASE kb_getchar \/ handle_keyboard
  <2>1. PICK waits \in BOOLEAN : Call(waits)
    BY <1>3 DEF kb_getchar, handle_keyboard
  <2>2. reader' = [pc |-> "test", c |-> NUL, waits |-> waits]
        /\ UNCHANGED <<kb_buffer, kb_head, kb_tail, modifiers, got, typed>>
    BY <2>1 DEF Call, ring
  <2> QED  BY <1>0, <2>2
<1>4. CASE kb_clear_head
  BY <1>4, KeyboardAssumption DEF kb_clear_head, Index
<1>5. CASE Test
  BY <1>5 DEF Test, ring
<1>6. CASE Halt
  BY <1>6 DEF Halt, ring
<1>7. CASE Read
  BY <1>7 DEF Read, ring
<1>8. CASE Advance
  BY <1>8, AdvanceKeeps
<1>9. CASE kb_clear_tail
  BY <1>9, KeyboardAssumption DEF kb_clear_tail, Index
<1>10. CASE UNCHANGED vars
  BY <1>10 DEF vars, ring
<1> QED  BY <1>1, <1>2, <1>3, <1>4, <1>5, <1>6, <1>7, <1>8, <1>9, <1>10 DEF Next, Step

LEMMA InvHolds == Spec => []Inv
BY InvInit, InvStep, PTL DEF Spec

-----------------------------------------------------------------------------
(***************************************************************************)
(* The steps of the refinement                                             *)
(***************************************************************************)

\* A step that leaves the ring, the start of the window and got alone.
LEMMA RingStutters ==
  ASSUME UNCHANGED <<kb_buffer, kb_head, got>>, Start' = Start
  PROVE  UNCHANGED <<Window, got>>
BY DEF Window, Held

LEMMA RefInit == Init => Queue!Init
<1> SUFFICES ASSUME Init PROVE Queue!Init
  OBVIOUS
<1>1. Inv
  BY InvInit
<1>2. Held = 0 /\ got \in Char
  BY <1>1, WindowFacts, DistanceFacts DEF Init, Inv, Start, TypeOK
<1>3. Window = <<>>
  BY <1>2 DEF Window
<1> QED  BY <1>2, <1>3 DEF Queue!Init

LEMMA RefIrq ==
  ASSUME Inv, NEW key \in Keys, NEW down \in BOOLEAN, kb_irq(key, down)
  PROVE  Queue!Next \/ UNCHANGED <<Window, got>>
<1> USE KeyboardAssumption
<1>1. TypeOK /\ TypeOK'
  BY IrqKeeps DEF Inv
<1>2. kb_head \in Index /\ kb_tail \in Index /\ kb_buffer \in [Index -> Char]
  BY <1>1 DEF TypeOK
<1>3. Start' = Start /\ got' = got /\ kb_tail' = kb_tail
  BY <1>1, WokenFacts DEF kb_irq, Start
<1>4. CASE UNCHANGED <<kb_buffer, kb_head>>
  BY <1>3, <1>4, RingStutters
<1>5. CASE \E c \in Char : kb_push(c)
  <2>1. PICK c \in Char : kb_push(c)
    BY <1>5
  <2>2. CASE UNCHANGED <<kb_buffer, kb_head>>
    BY <2>2, <1>4
  <2>3. CASE /\ Slot(kb_head, 1) # kb_tail /\ kb_head' = Slot(kb_head, 1)
             /\ kb_buffer' = [kb_buffer EXCEPT ![kb_head] = c]
    <3>1. /\ Start \in Index /\ Held = Distance(kb_head, Start)
          /\ Window = Ring(kb_buffer, Start, Held)
      BY <1>1, WindowFacts
    <3>2. Start' \in Index /\ Held' = Distance(kb_head', Start')
          /\ Window' = Ring(kb_buffer', Start', Held')
      BY <1>1, WindowNext
    <3>3. Slot(kb_head, 1) # Start
      BY <2>3, <1>2 DEF Start, Inv, ClearedBehindTail, Slot, Index
    <3>4. /\ Held \in 0..(KB_BUFFER_SIZE - 2) /\ Slot(Start, Held) = kb_head
          /\ Held' = Held + 1
      <4>1. /\ Distance(kb_head, Start) \in 0..(KB_BUFFER_SIZE - 1)
            /\ Slot(Start, Distance(kb_head, Start)) = kb_head
            /\ Distance(kb_head, Start) < KB_BUFFER_SIZE - 1
            /\ Distance(Slot(kb_head, 1), Start) = Distance(kb_head, Start) + 1
        BY <1>2, <3>1, <3>3, DistanceFacts
      <4> QED  BY <4>1, <3>1, <3>2, <2>3, <1>3
    <3>5. Window' = Append(Window, c)
      <4>1. Ring([kb_buffer EXCEPT ![Slot(Start, Held)] = c], Start, Held + 1)
              = Append(Ring(kb_buffer, Start, Held), c)
        BY <3>1, <3>4, <1>2, RingPut
      <4> QED  BY <4>1, <3>1, <3>2, <3>4, <2>3, <1>3
    <3>6. Len(Window) = Held /\ Held < KB_BUFFER_SIZE - 1
      <4>1. Held \in 0..(KB_BUFFER_SIZE - 1)
        BY <3>4
      <4> QED  BY <4>1, <3>1, <3>4, <1>2, RingSeq
    <3>7. Queue!Put(c)
      BY <3>5, <3>6, <1>3 DEF Queue!Put
    <3> QED  BY <3>7 DEF Queue!Next
  <2> QED  BY <2>1, <2>2, <2>3, <1>1, PushFacts
<1> QED  BY <1>4, <1>5, TranslateType DEF kb_irq

LEMMA RefAdvance ==
  ASSUME Inv, Advance
  PROVE  Queue!Next
<1> USE KeyboardAssumption
<1>1. TypeOK /\ TypeOK'
  BY AdvanceKeeps DEF Inv
<1>2. kb_head \in Index /\ kb_tail \in Index /\ kb_buffer \in [Index -> Char]
      /\ kb_head # kb_tail /\ reader.c = kb_buffer[kb_tail]
  BY <1>1 DEF TypeOK, Inv, TestedFull, ReadIsFront, Advance
<1>3. kb_tail' = Slot(kb_tail, 1)
  <2>1. 1 \in 0..(KB_BUFFER_SIZE - 1)
    OBVIOUS
  <2> QED  BY <2>1, <1>2, Around DEF Advance
<1>4. Start = kb_tail /\ Start' = kb_tail' /\ got' = reader.c
      /\ UNCHANGED <<kb_buffer, kb_head>>
  BY <1>1 DEF Advance, Start, TypeOK
<1>5. /\ Start \in Index /\ Held = Distance(kb_head, Start)
      /\ Window = Ring(kb_buffer, Start, Held)
  BY <1>1, WindowFacts
<1>6. Held' = Distance(kb_head', Start') /\ Window' = Ring(kb_buffer', Start', Held')
  BY <1>1, WindowNext
<1>7. Held \in 1..(KB_BUFFER_SIZE - 1) /\ Held' = Held - 1
  <2>1. /\ Distance(kb_head, kb_tail) \in 0..(KB_BUFFER_SIZE - 1)
        /\ Distance(kb_head, kb_tail) # 0
        /\ Distance(kb_head, Slot(kb_tail, 1)) = Distance(kb_head, kb_tail) - 1
    BY <1>2, DistanceFacts
  <2> QED  BY <2>1, <1>3, <1>4, <1>5, <1>6
<1>8. Window # <<>> /\ got' = Head(Window) /\ Window' = Tail(Window)
  BY <1>2, <1>3, <1>4, <1>5, <1>6, <1>7, RingTake
<1> QED  BY <1>8 DEF Queue!Next, Queue!Take

LEMMA RefStep == Inv /\ [Next]_vars => [Queue!Next]_<<Window, got>>
<1> SUFFICES ASSUME Inv, [Next]_vars
             PROVE  Queue!Next \/ UNCHANGED <<Window, got>>
  OBVIOUS
<1>1. CASE \E key \in Keys, down \in BOOLEAN : kb_irq(key, down)
  BY <1>1, RefIrq
<1>2. CASE timer_irq
  BY <1>2, RingStutters, WokenFacts DEF timer_irq, ring, Start, Inv
<1>3. CASE kb_getchar \/ handle_keyboard
  BY <1>3, RingStutters DEF kb_getchar, handle_keyboard, Call, ring, Start
<1>4. CASE kb_clear_head
  <2>1. Inv' /\ TypeOK' /\ TypeOK
    BY <1>4, InvStep DEF Next, Inv
  <2>2. Start' = 0 /\ kb_head' = 0 /\ got' = got
    BY <1>4, <2>1 DEF kb_clear_head, Start, TypeOK
  <2>3. Held' = Distance(kb_head', Start')
    BY <2>1, WindowNext
  <2>4. Held' = 0
    BY <2>2, <2>3 DEF Distance
  <2>5. Window' = <<>>
    BY <2>4 DEF Window
  <2> QED  BY <2>2, <2>5 DEF Queue!Next, Queue!Clear
<1>5. CASE Test
  BY <1>5, RingStutters DEF Test, ring, Start, Inv, TypeOK
<1>6. CASE Halt
  BY <1>6, RingStutters DEF Halt, ring, Start, Inv, TypeOK
<1>7. CASE Read
  BY <1>7, RingStutters DEF Read, ring, Start, Inv, TypeOK
<1>8. CASE Advance
  BY <1>8, RefAdvance
<1>9. CASE kb_clear_tail
  BY <1>9, RingStutters DEF kb_clear_tail, Start, Inv, TypeOK
<1>10. CASE UNCHANGED vars
  BY <1>10, RingStutters DEF vars, ring, Start
<1> QED  BY <1>1, <1>2, <1>3, <1>4, <1>5, <1>6, <1>7, <1>8, <1>9, <1>10 DEF Next, Step

-----------------------------------------------------------------------------
(***************************************************************************)
(* The results                                                             *)
(***************************************************************************)

(***************************************************************************)
(* The ring, its indices and the consumer's state keep their types.        *)
(***************************************************************************)
THEOREM KeyboardTyped == Spec => []TypeOK
<1>1. Inv => TypeOK
  BY DEF Inv
<1> QED  BY <1>1, InvHolds, PTL

(***************************************************************************)
(* The ring is a queue: with the interrupt between any two accesses of     *)
(* kb_getchar, handle_keyboard and kb_clear_buffer, characters leave it in *)
(* the order in which they were accepted, each once.                       *)
(***************************************************************************)
THEOREM KeyboardQueue == Spec => ImplementsQueue
<1>1. Spec => Queue!Spec
  BY InvHolds, RefInit, RefStep, PTL DEF Spec, Queue!Spec
<1> QED  BY <1>1 DEF ImplementsQueue

(***************************************************************************)
(* kb_push drops a character only when KB_BUFFER_SIZE - 1 are waiting.     *)
(***************************************************************************)
THEOREM KeyboardDrops == Spec => DropsOnlyWhenFull
<1> DEFINE Dropped == \A key \in Keys : kb_irq(key, TRUE) /\ key \notin Modifiers \cup Blank
                                           /\ reader.pc # "clear"
                        => kb_head' # kb_head \/ Held = KB_BUFFER_SIZE - 1
<1>1. Inv => Dropped
  <2> SUFFICES ASSUME Inv, NEW key \in Keys, kb_irq(key, TRUE),
                      key \notin Modifiers \cup Blank, reader.pc # "clear"
               PROVE  kb_head' # kb_head \/ Held = KB_BUFFER_SIZE - 1
    OBVIOUS
  <2>1. TypeOK /\ kb_head \in Index /\ kb_tail \in Index /\ Start = kb_tail
    BY DEF Inv, TypeOK, Start
  <2>2. Held = Distance(kb_head, kb_tail)
    BY <2>1, WindowFacts
  <2>3. kb_push(Translate(key)) /\ Translate(key) \in Char
    BY TranslateType DEF kb_irq
  <2> QED  BY <2>1, <2>2, <2>3, PushFacts, DistanceFacts
<1>2. Inv /\ [Next]_vars => [Dropped]_vars
  BY <1>1
<1>3. DropsOnlyWhenFull <=> [][Dropped]_vars
  BY DEF DropsOnlyWhenFull
<1> HIDE DEF Dropped
<1> QED  BY InvHolds, <1>2, <1>3, PTL DEF Spec

=============================================================================
