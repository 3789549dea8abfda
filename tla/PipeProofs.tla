----------------------------- MODULE PipeProofs -----------------------------
(***************************************************************************)
(* Proofs about the pipe, src/src/sys/pipe.c: for every size of the        *)
(* buffer, every width of count and any number of calls of any size, a     *)
(* reader and a writer that take turns at any byte lose, repeat and        *)
(* reorder nothing.                                                        *)
(*                                                                         *)
(* BytesInOrder is not inductive: that the next byte read is the right one *)
(* rests on where the bytes that are underway lie in the buffer, and that  *)
(* is true only because count is their number at each test of a loop.      *)
(***************************************************************************)
EXTENDS Pipe, SequenceTheorems, TLAPS

\* The slot that lies k after slot p, k at most once around.
Slot(p, k) == IF p + k < PIPE_BUFFER_SIZE THEN p + k ELSE p + k - PIPE_BUFFER_SIZE

\* The bytes written and not read yet.
Underway == sent - Len(received)

\* The bytes underway lie in order from read_pos on, up to write_pos.
Placed ==
  /\ Underway \in 0..PIPE_BUFFER_SIZE
  /\ write_pos = Slot(read_pos, Underway)
  /\ \A k \in 0..(Underway - 1) : buffer[Slot(read_pos, k)] = Len(received) + k + 1

\* count is their number, one side's unfinished update apart.
Counted ==
  /\ ~(MidUpdate(reader) /\ MidUpdate(writer))
  /\ NothingLost
  /\ MidUpdate(reader) => reader.loaded = count /\ count = Underway + 1
  /\ MidUpdate(writer) => writer.loaded = count /\ count = Underway - 1

\* A call in its loop has something left to move, within the bound of the model.
CallsSound ==
  /\ reader.pc # "idle" => reader.left > 0
  /\ writer.pc # "idle" => writer.left > 0
  /\ writer.pc = "loop" => sent + writer.left <= MaxSent
  /\ writer.pc = "store" => sent + writer.left <= MaxSent + 1

\* What is read is what was written.
Ordered == TypeOK /\ \A k \in 1..Len(received) : received[k] = k

Inv == Ordered /\ Placed /\ Counted /\ CallsSound

-----------------------------------------------------------------------------
(***************************************************************************)
(* Arithmetic of the positions and of count                                *)
(***************************************************************************)

\* One step around the buffer: (pos + 1) % PIPE_BUFFER_SIZE.
LEMMA StepAround ==
  ASSUME NEW p \in Index
  PROVE  (p + 1) % PIPE_BUFFER_SIZE = Slot(p, 1)
<1>1. PIPE_BUFFER_SIZE \in Nat /\ PIPE_BUFFER_SIZE > 0 /\ p \in Int /\ 0 <= p /\ p < PIPE_BUFFER_SIZE
  BY PipeAssumption DEF Index
<1>2. CASE p + 1 < PIPE_BUFFER_SIZE
  BY <1>1, <1>2 DEF Slot
<1>3. CASE p + 1 = PIPE_BUFFER_SIZE
  BY <1>1, <1>3 DEF Slot
<1> QED  BY <1>1, <1>2, <1>3

\* A value of count that Word can hold is stored as it is.
LEMMA StoredExactly ==
  ASSUME NEW n \in 0..PIPE_BUFFER_SIZE
  PROVE  n % Word = n
BY PipeAssumption

\* Slots less than once around apart are different, and slots are slots.
LEMMA SlotFacts ==
  ASSUME NEW p \in Index
  PROVE  /\ \A k \in 0..PIPE_BUFFER_SIZE : Slot(p, k) \in Index
         /\ Slot(p, 0) = p
         /\ \A k \in 0..(PIPE_BUFFER_SIZE - 1) :
              /\ Slot(Slot(p, 1), k) = Slot(p, k + 1)
              /\ Slot(Slot(p, k), 1) = Slot(p, k + 1)
         /\ \A j, k \in 0..(PIPE_BUFFER_SIZE - 1) : j # k => Slot(p, j) # Slot(p, k)
BY PipeAssumption DEF Slot, Index

-----------------------------------------------------------------------------

LEMMA InvInit == Init => Inv
<1> SUFFICES ASSUME Init PROVE Inv
  OBVIOUS
<1>1. received = <<>> /\ Len(received) = 0 /\ received \in Seq(0..MaxSent)
  BY DEF Init
<1>2. TypeOK
  BY <1>1, PipeAssumption DEF Init, TypeOK, Index, Idle
<1>3. Ordered
  BY <1>1, <1>2 DEF Ordered
<1>4. Underway = 0 /\ Placed
  <2>0. sent = 0 /\ read_pos = 0 /\ write_pos = 0
    BY DEF Init
  <2>1. Underway = 0
    <3>1. Len(received) = 0
      BY <1>1
    <3> QED  BY <3>1, <2>0 DEF Underway
  <2>2. write_pos = Slot(read_pos, Underway)
    BY <2>0, <2>1, PipeAssumption DEF Slot
  <2>3. 0..(Underway - 1) = {}
    BY <2>1
  <2> QED  BY <2>1, <2>2, <2>3, PipeAssumption DEF Placed
<1>5. Counted /\ CallsSound
  BY <1>1, <1>4, PipeAssumption DEF Init, Counted, CallsSound, NothingLost, MidUpdate, Idle, Underway
<1> QED  BY <1>3, <1>4, <1>5 DEF Inv

\* A call begins between two bytes of the other side and moves nothing yet.
LEMMA ReadCallKeeps ==
  ASSUME Inv, ~MidUpdate(writer), ~MidUpdate(reader),
         NEW size \in 0..MaxSize, read_call(size)
  PROVE  Inv'
<1>1. reader' \in [pc : {"idle", "loop", "store"}, left : 0..MaxSize, loaded : 0..PIPE_BUFFER_SIZE]
      /\ reader'.pc \in {"idle", "loop"} /\ (reader'.pc # "idle" => reader'.left > 0)
  BY PipeAssumption DEF read_call, Continue, Started, Idle
<1>2. UNCHANGED <<buffer, read_pos, write_pos, count, readers, writers, in_use, writer, received, sent, closes>>
  BY DEF read_call, ends
<1> QED
  BY <1>1, <1>2 DEF Inv, Ordered, TypeOK, Placed, Counted, CallsSound, NothingLost,
                    MidUpdate, Underway, Index, Slot

LEMMA WriteCallKeeps ==
  ASSUME Inv, ~MidUpdate(writer), ~MidUpdate(reader),
         NEW size \in 0..MaxSize, write_call(size)
  PROVE  Inv'
<1>1. /\ writer' \in [pc : {"idle", "loop", "store"}, left : 0..MaxSize, loaded : 0..PIPE_BUFFER_SIZE]
      /\ writer'.pc \in {"idle", "loop"}
      /\ writer'.pc # "idle" => writer'.left > 0 /\ sent + writer'.left <= MaxSent
  BY PipeAssumption DEF write_call, Continue, Started, Idle
<1>2. UNCHANGED <<buffer, read_pos, write_pos, count, readers, writers, in_use, reader, received, sent, closes>>
  BY DEF write_call, ends
<1> QED
  BY <1>1, <1>2 DEF Inv, Ordered, TypeOK, Placed, Counted, CallsSound, NothingLost,
                    MidUpdate, Underway, Index, Slot

LEMMA CloseKeeps ==
  ASSUME Inv, pipe_close
  PROVE  Inv'
<1>1. UNCHANGED <<buffer, read_pos, write_pos, count, readers, reader, writer, received, sent>>
      /\ writers' \in Int /\ in_use' \in BOOLEAN /\ closes' \in 0..MaxCloses
  BY PipeAssumption DEF pipe_close, Inv, Ordered, TypeOK
<1> QED
  BY <1>1 DEF Inv, Ordered, TypeOK, Placed, Counted, CallsSound, NothingLost,
              MidUpdate, Underway, Index, Slot

\* The end of file is found between two bytes and moves nothing.
LEMMA ReadEofKeeps ==
  ASSUME Inv, ~MidUpdate(writer), read_eof
  PROVE  Inv'
<1>1. reader' = Idle /\ ~MidUpdate(reader)
      /\ UNCHANGED <<buffer, read_pos, write_pos, count, readers, writers, in_use, writer, received, sent, closes>>
  BY DEF read_eof, ends, MidUpdate
<1>2. reader' \in [pc : {"idle", "loop", "store"}, left : 0..MaxSize, loaded : 0..PIPE_BUFFER_SIZE]
      /\ reader'.pc = "idle"
  BY <1>1, PipeAssumption DEF Idle
<1> QED
  BY <1>1, <1>2 DEF Inv, Ordered, TypeOK, Placed, Counted, CallsSound, NothingLost,
                    MidUpdate, Underway, Index, Slot

\* count is not 0, so a byte is underway, and the oldest lies at read_pos.
LEMMA ReadByteKeeps ==
  ASSUME Inv, ~MidUpdate(writer), read_byte
  PROVE  Inv'
<1> USE PipeAssumption
<1>0. /\ reader \in [pc : {"idle", "loop", "store"}, left : 0..MaxSize, loaded : 0..PIPE_BUFFER_SIZE]
      /\ read_pos \in Index /\ received \in Seq(0..MaxSent) /\ Len(received) \in Nat
      /\ sent \in Nat /\ count \in 0..PIPE_BUFFER_SIZE
  BY DEF Inv, Ordered, TypeOK
<1>1. /\ ~MidUpdate(reader) /\ count = Underway /\ Underway \in 1..PIPE_BUFFER_SIZE
      /\ reader.left > 0
  <2>1. reader.pc = "loop" /\ count # 0
    BY DEF read_byte
  <2>2. ~MidUpdate(reader) /\ reader.left > 0
    BY <2>1 DEF MidUpdate, Inv, CallsSound
  <2>3. count = Underway
    BY <2>2 DEF Inv, Counted, NothingLost, Underway
  <2> QED  BY <2>1, <2>2, <2>3, <1>0
<1>2. UNCHANGED <<buffer, write_pos, count, readers, writers, in_use, writer, sent, closes>>
  BY DEF read_byte, ends
<1>3. buffer[read_pos] = Len(received) + 1
  <2>1. 0 \in 0..(Underway - 1)
    BY <1>0, <1>1
  <2>2. buffer[Slot(read_pos, 0)] = Len(received) + 0 + 1
    BY <2>1 DEF Inv, Placed
  <2> QED  BY <1>0, <1>1, <2>2, SlotFacts
<1>4. received' = Append(received, Len(received) + 1)
  BY <1>3 DEF read_byte
<1>5. Len(received) + 1 \in 0..MaxSent
  BY <1>0, <1>1 DEF Underway, Inv, Ordered, TypeOK
<1>6. /\ received' \in Seq(0..MaxSent) /\ Len(received') = Len(received) + 1
      /\ \A k \in 1..Len(received') : received'[k] = k
  BY <1>0, <1>1, <1>4, <1>5 DEF Inv, Ordered
<1>7. read_pos' = Slot(read_pos, 1) /\ read_pos' \in Index
  <2>1. read_pos' = (read_pos + 1) % PIPE_BUFFER_SIZE
    BY DEF read_byte
  <2>2. 1 \in 0..PIPE_BUFFER_SIZE
    OBVIOUS
  <2> QED  BY <1>0, <2>1, <2>2, StepAround, SlotFacts
<1>8. /\ reader' \in [pc : {"idle", "loop", "store"}, left : 0..MaxSize, loaded : 0..PIPE_BUFFER_SIZE]
      /\ reader'.pc = "store" /\ reader'.left = reader.left /\ reader'.loaded = count
  <2>1. reader' = [reader EXCEPT !.pc = "store", !.loaded = count]
    BY DEF read_byte
  <2> QED  BY <2>1, <1>0
<1>9. Ordered'
  BY <1>2, <1>6, <1>7, <1>8 DEF Inv, Ordered, TypeOK, Index
<1>10. Underway' = Underway - 1
  BY <1>0, <1>1, <1>2, <1>6 DEF Underway
<1>11. Placed'
  <2>1. Underway' \in 0..PIPE_BUFFER_SIZE
    BY <1>0, <1>1, <1>10
  <2>2. write_pos' = Slot(read_pos', Underway')
    <3>1. Underway - 1 \in 0..(PIPE_BUFFER_SIZE - 1)
      BY <1>0, <1>1
    <3>2. Slot(Slot(read_pos, 1), Underway - 1) = Slot(read_pos, Underway - 1 + 1)
      BY <1>0, <1>1, <3>1, SlotFacts
    <3>3. Underway - 1 + 1 = Underway
      BY <1>0, <1>1
    <3> QED  BY <3>2, <3>3, <1>2, <1>7, <1>10 DEF Inv, Placed
  <2>3. ASSUME NEW k \in 0..(Underway' - 1)
        PROVE  buffer'[Slot(read_pos', k)] = Len(received') + k + 1
    <3>1. k \in 0..(PIPE_BUFFER_SIZE - 1) /\ k + 1 \in 0..(Underway - 1)
      BY <1>0, <1>1, <1>10
    <3>2. Slot(read_pos', k) = Slot(read_pos, k + 1)
      BY <3>1, <1>0, <1>1, <1>7, SlotFacts
    <3>3. buffer[Slot(read_pos, k + 1)] = Len(received) + (k + 1) + 1
      BY <3>1 DEF Inv, Placed
    <3> QED  BY <3>1, <3>2, <3>3, <1>0, <1>1, <1>2, <1>6
  <2> QED  BY <2>1, <2>2, <2>3 DEF Placed, Slot
<1>12. Counted'
  BY <1>0, <1>1, <1>2, <1>8, <1>10 DEF Counted, NothingLost, MidUpdate
<1>13. CallsSound'
  BY <1>0, <1>1, <1>2, <1>8 DEF Inv, CallsSound
<1> QED  BY <1>9, <1>11, <1>12, <1>13 DEF Inv

LEMMA ReadStoreKeeps ==
  ASSUME Inv, ~MidUpdate(writer), read_store
  PROVE  Inv'
<1> USE PipeAssumption
<1>1. /\ MidUpdate(reader) /\ reader.loaded = count /\ count = Underway + 1
      /\ Underway \in 0..(PIPE_BUFFER_SIZE - 1)
      /\ reader \in [pc : {"idle", "loop", "store"}, left : 0..MaxSize, loaded : 0..PIPE_BUFFER_SIZE]
      /\ reader.left > 0
  BY DEF read_store, MidUpdate, Inv, Counted, Placed, Ordered, TypeOK, CallsSound
<1>2. UNCHANGED <<buffer, read_pos, write_pos, readers, writers, in_use, writer, received, sent, closes>>
  BY DEF read_store, ends
<1>3. count' = Underway /\ count' \in 0..PIPE_BUFFER_SIZE
  <2>1. count' = (Underway + 1 - 1) % Word
    BY <1>1 DEF read_store
  <2>2. Underway + 1 - 1 = Underway /\ Underway \in 0..PIPE_BUFFER_SIZE
    BY <1>1
  <2> QED  BY <2>1, <2>2, StoredExactly
<1>4. /\ reader' \in [pc : {"idle", "loop", "store"}, left : 0..MaxSize, loaded : 0..PIPE_BUFFER_SIZE]
      /\ reader'.pc \in {"idle", "loop"} /\ (reader'.pc # "idle" => reader'.left > 0)
  BY <1>1 DEF read_store, Continue, Idle
<1>5. Underway' = Underway
  BY <1>2 DEF Underway
<1>6. Ordered'
  BY <1>2, <1>3, <1>4 DEF Inv, Ordered, TypeOK, Index
<1>7. Placed'
  BY <1>2, <1>5 DEF Inv, Placed, Slot
<1>8. Counted'
  BY <1>2, <1>3, <1>4, <1>5 DEF Counted, NothingLost, MidUpdate, Underway
<1>9. CallsSound'
  BY <1>2, <1>4 DEF Inv, CallsSound
<1> QED  BY <1>6, <1>7, <1>8, <1>9 DEF Inv

\* count is less than the size, so write_pos is none of the slots in use.
LEMMA WriteByteKeeps ==
  ASSUME Inv, ~MidUpdate(reader), write_byte
  PROVE  Inv'
<1> USE PipeAssumption
<1>0. /\ writer \in [pc : {"idle", "loop", "store"}, left : 0..MaxSize, loaded : 0..PIPE_BUFFER_SIZE]
      /\ read_pos \in Index /\ received \in Seq(0..MaxSent) /\ Len(received) \in Nat
      /\ sent \in Nat /\ count \in 0..PIPE_BUFFER_SIZE /\ buffer \in [Index -> 0..MaxSent]
  BY DEF Inv, Ordered, TypeOK
<1>1. /\ ~MidUpdate(writer) /\ count = Underway /\ Underway \in 0..(PIPE_BUFFER_SIZE - 1)
      /\ writer.left > 0 /\ sent + writer.left <= MaxSent
  <2>1. writer.pc = "loop" /\ count < PIPE_BUFFER_SIZE
    BY DEF write_byte
  <2>2. ~MidUpdate(writer) /\ writer.left > 0 /\ sent + writer.left <= MaxSent
    BY <2>1 DEF MidUpdate, Inv, CallsSound
  <2>3. count = Underway
    BY <2>2 DEF Inv, Counted, NothingLost, Underway
  <2> QED  BY <2>1, <2>2, <2>3, <1>0
<1>2. UNCHANGED <<read_pos, count, readers, writers, in_use, reader, received, closes>>
      /\ sent' = sent + 1 /\ sent' \in 0..MaxSent
  BY <1>0, <1>1 DEF write_byte, ends
<1>3. write_pos = Slot(read_pos, Underway) /\ write_pos \in Index
  BY <1>0, <1>1 DEF Inv, Placed, Ordered, TypeOK
<1>4. write_pos' = Slot(read_pos, Underway + 1) /\ write_pos' \in Index
  <2>1. write_pos' = Slot(write_pos, 1)
    BY <1>3, StepAround DEF write_byte
  <2>2. Slot(Slot(read_pos, Underway), 1) = Slot(read_pos, Underway + 1)
    BY <1>0, <1>1, SlotFacts
  <2>3. Underway + 1 \in 0..PIPE_BUFFER_SIZE
    BY <1>0, <1>1
  <2> QED  BY <2>1, <2>2, <2>3, <1>0, <1>1, <1>3, SlotFacts
<1>5. /\ buffer' \in [Index -> 0..MaxSent] /\ buffer'[write_pos] = sent + 1
      /\ \A i \in Index \ {write_pos} : buffer'[i] = buffer[i]
  BY <1>0, <1>1, <1>2, <1>3 DEF write_byte
<1>6. /\ writer' \in [pc : {"idle", "loop", "store"}, left : 0..MaxSize, loaded : 0..PIPE_BUFFER_SIZE]
      /\ writer'.pc = "store" /\ writer'.left = writer.left /\ writer'.loaded = count
  <2>1. writer' = [writer EXCEPT !.pc = "store", !.loaded = count]
    BY DEF write_byte
  <2> QED  BY <2>1, <1>0
<1>7. Ordered'
  BY <1>2, <1>4, <1>5, <1>6 DEF Inv, Ordered, TypeOK, Index
<1>8. Underway' = Underway + 1
  BY <1>0, <1>1, <1>2 DEF Underway
<1>9. Placed'
  <2>1. Underway' \in 0..PIPE_BUFFER_SIZE /\ write_pos' = Slot(read_pos', Underway')
    BY <1>0, <1>1, <1>2, <1>4, <1>8
  <2>2. ASSUME NEW k \in 0..(Underway' - 1)
        PROVE  buffer'[Slot(read_pos', k)] = Len(received') + k + 1
    <3>1. k \in 0..(PIPE_BUFFER_SIZE - 1) /\ k \in 0..PIPE_BUFFER_SIZE
      BY <1>1, <1>8
    <3> Slot(read_pos, k) \in Index
      BY <3>1, <1>0, SlotFacts
    <3>2. CASE k = Underway
      BY <3>2, <1>0, <1>1, <1>2, <1>3, <1>5 DEF Underway
    <3>3. CASE k # Underway
      <4>1. k \in 0..(Underway - 1)
        BY <3>3, <1>0, <1>1, <1>8
      <4>2. Slot(read_pos, k) # write_pos
        BY <3>1, <3>3, <1>0, <1>1, <1>3, SlotFacts
      <4>3. buffer[Slot(read_pos, k)] = Len(received) + k + 1
        BY <4>1 DEF Inv, Placed
      <4> QED  BY <4>2, <4>3, <3>1, <1>2, <1>5
    <3> QED  BY <3>2, <3>3
  <2> QED  BY <2>1, <2>2 DEF Placed, Slot
<1>10. Counted'
  BY <1>0, <1>1, <1>2, <1>6, <1>8 DEF Counted, NothingLost, MidUpdate
<1>11. CallsSound'
  BY <1>0, <1>1, <1>2, <1>6 DEF Inv, CallsSound
<1> QED  BY <1>7, <1>9, <1>10, <1>11 DEF Inv

LEMMA WriteStoreKeeps ==
  ASSUME Inv, ~MidUpdate(reader), write_store
  PROVE  Inv'
<1> USE PipeAssumption
<1>1. /\ MidUpdate(writer) /\ writer.loaded = count /\ count = Underway - 1
      /\ Underway \in 1..PIPE_BUFFER_SIZE
      /\ writer \in [pc : {"idle", "loop", "store"}, left : 0..MaxSize, loaded : 0..PIPE_BUFFER_SIZE]
      /\ writer.left > 0 /\ sent + writer.left <= MaxSent + 1 /\ sent \in Nat
  BY DEF write_store, MidUpdate, Inv, Counted, Placed, Ordered, TypeOK, CallsSound
<1>2. UNCHANGED <<buffer, read_pos, write_pos, readers, writers, in_use, reader, received, sent, closes>>
  BY DEF write_store, ends
<1>3. count' = Underway /\ count' \in 0..PIPE_BUFFER_SIZE
  <2>1. count' = (Underway - 1 + 1) % Word
    BY <1>1 DEF write_store
  <2>2. Underway - 1 + 1 = Underway /\ Underway \in 0..PIPE_BUFFER_SIZE
    BY <1>1
  <2> QED  BY <2>1, <2>2, StoredExactly
<1>4. /\ writer' \in [pc : {"idle", "loop", "store"}, left : 0..MaxSize, loaded : 0..PIPE_BUFFER_SIZE]
      /\ writer'.pc \in {"idle", "loop"}
      /\ (writer'.pc # "idle" => writer'.left > 0 /\ sent + writer'.left <= MaxSent)
  BY <1>1 DEF write_store, Continue, Idle
<1>5. Underway' = Underway
  BY <1>2 DEF Underway
<1>6. Ordered'
  BY <1>2, <1>3, <1>4 DEF Inv, Ordered, TypeOK, Index
<1>7. Placed'
  BY <1>2, <1>5 DEF Inv, Placed, Slot
<1>8. Counted'
  BY <1>2, <1>3, <1>4, <1>5 DEF Counted, NothingLost, MidUpdate, Underway
<1>9. CallsSound'
  BY <1>2, <1>4 DEF Inv, CallsSound
<1> QED  BY <1>6, <1>7, <1>8, <1>9 DEF Inv

LEMMA InvStep == Inv /\ [Next]_vars => Inv'
<1> SUFFICES ASSUME Inv, [Next]_vars PROVE Inv'
  OBVIOUS
<1>1. CASE ~MidUpdate(writer) /\ ReaderStep
  BY <1>1, ReadEofKeeps, ReadByteKeeps, ReadStoreKeeps DEF ReaderStep
<1>2. CASE ~MidUpdate(reader) /\ WriterStep
  BY <1>2, WriteByteKeeps, WriteStoreKeeps DEF WriterStep
<1>3. CASE ~MidUpdate(reader) /\ ~MidUpdate(writer) /\ Calls
  BY <1>3, ReadCallKeeps, WriteCallKeeps, CloseKeeps DEF Calls
<1>4. CASE UNCHANGED vars
  BY <1>4 DEF vars, ends, Inv, Ordered, TypeOK, Placed, Counted, CallsSound, NothingLost,
              MidUpdate, Underway, Index, Slot
<1> QED  BY <1>1, <1>2, <1>3, <1>4 DEF Next

LEMMA InvHolds == Spec => []Inv
BY InvInit, InvStep, PTL DEF Spec

-----------------------------------------------------------------------------
(***************************************************************************)
(* The ring as a queue                                                     *)
(***************************************************************************)

\* The bytes with the numbers after r, u of them.
Run(r, u) == [k \in 1..u |-> r + k]

LEMMA RunTaken ==
  ASSUME NEW r \in Nat, NEW u \in Nat, u > 0
  PROVE  Run(r, u) # <<>> /\ Head(Run(r, u)) = r + 1 /\ Tail(Run(r, u)) = Run(r + 1, u - 1)
<1>1. Run(r, u) \in Seq(Nat) /\ Len(Run(r, u)) = u /\ \A k \in 1..u : Run(r, u)[k] = r + k
  BY DEF Run
<1>2. Run(r + 1, u - 1) \in Seq(Nat) /\ Len(Run(r + 1, u - 1)) = u - 1
      /\ \A k \in 1..(u - 1) : Run(r + 1, u - 1)[k] = r + 1 + k
  BY DEF Run
<1>3. Run(r, u) # <<>> /\ Head(Run(r, u)) = r + 1
  BY <1>1
<1>4. Tail(Run(r, u)) \in Seq(Nat) /\ Len(Tail(Run(r, u))) = u - 1
      /\ \A k \in 1..(u - 1) : Tail(Run(r, u))[k] = r + (k + 1)
  BY <1>1, <1>3
<1>5. Tail(Run(r, u)) = Run(r + 1, u - 1)
  <2>1. Len(Tail(Run(r, u))) = Len(Run(r + 1, u - 1)) /\ \A k \in 1..(u - 1) : Tail(Run(r, u))[k] = Run(r + 1, u - 1)[k]
    BY <1>2, <1>4
  <2> QED  BY <2>1, <1>2, <1>4, SeqEqual
<1> QED  BY <1>3, <1>5

LEMMA RunPut ==
  ASSUME NEW r \in Nat, NEW u \in Nat
  PROVE  Len(Run(r, u)) = u /\ Append(Run(r, u), r + u + 1) = Run(r, u + 1)
<1>1. Run(r, u) \in Seq(Nat) /\ Len(Run(r, u)) = u /\ \A k \in 1..u : Run(r, u)[k] = r + k
  BY DEF Run
<1>2. Run(r, u + 1) \in Seq(Nat) /\ Len(Run(r, u + 1)) = u + 1
      /\ \A k \in 1..(u + 1) : Run(r, u + 1)[k] = r + k
  BY DEF Run
<1>3. Append(Run(r, u), r + u + 1) \in Seq(Nat) /\ Len(Append(Run(r, u), r + u + 1)) = u + 1
      /\ \A k \in 1..(u + 1) : Append(Run(r, u), r + u + 1)[k] = r + k
  BY <1>1
<1> QED  BY <1>1, <1>2, <1>3

\* (read_pos + k) % PIPE_BUFFER_SIZE is the slot k after read_pos.
LEMMA Around ==
  ASSUME NEW p \in Index, NEW k \in 0..(PIPE_BUFFER_SIZE - 1)
  PROVE  (p + k) % PIPE_BUFFER_SIZE = Slot(p, k)
<1>1. PIPE_BUFFER_SIZE \in Nat /\ PIPE_BUFFER_SIZE > 0 /\ p \in Int /\ 0 <= p /\ p < PIPE_BUFFER_SIZE
  BY PipeAssumption DEF Index
<1>2. CASE p + k < PIPE_BUFFER_SIZE
  BY <1>1, <1>2 DEF Slot
<1>3. CASE ~(p + k < PIPE_BUFFER_SIZE)
  BY <1>1, <1>3 DEF Slot
<1> QED  BY <1>2, <1>3

\* The ring holds the bytes underway, in order.
InRing ==
  /\ Contents = Run(Len(received), Underway) /\ LastRead = Len(received)
  /\ Len(received) \in Nat /\ Underway \in 0..PIPE_BUFFER_SIZE /\ sent \in 0..MaxSent

LEMMA ContentsAre == Inv => InRing
<1> SUFFICES ASSUME Inv PROVE InRing
  OBVIOUS
<1>1. /\ read_pos \in Index /\ received \in Seq(0..MaxSent) /\ Len(received) \in Nat
      /\ sent \in 0..MaxSent /\ Underway \in 0..PIPE_BUFFER_SIZE
      /\ \A k \in 1..Len(received) : received[k] = k
  BY DEF Inv, Ordered, TypeOK, Placed
<1>2. ASSUME NEW k \in 1..Underway
      PROVE  buffer[(read_pos + k - 1) % PIPE_BUFFER_SIZE] = Len(received) + k
  <2>1. k - 1 \in 0..(PIPE_BUFFER_SIZE - 1) /\ k - 1 \in 0..(Underway - 1)
    BY <1>1, PipeAssumption
  <2>2. read_pos + k - 1 = read_pos + (k - 1)
    BY <1>1 DEF Index
  <2>3. (read_pos + k - 1) % PIPE_BUFFER_SIZE = Slot(read_pos, k - 1)
    BY <1>1, <2>1, <2>2, Around
  <2>4. buffer[Slot(read_pos, k - 1)] = Len(received) + (k - 1) + 1
    BY <2>1 DEF Inv, Placed
  <2> QED  BY <2>3, <2>4, <1>1
<1>3. Contents = Run(Len(received), Underway)
  BY <1>2 DEF Contents, Run, Underway
<1>4. LastRead = Len(received)
  BY <1>1 DEF LastRead
<1> QED  BY <1>1, <1>3, <1>4 DEF InRing

LEMMA ContentsThen == Inv' => InRing'
BY ContentsAre, PTL

LEMMA RefInit == Init => Queue!Init
<1> SUFFICES ASSUME Init PROVE Queue!Init
  OBVIOUS
<1>1. Inv
  BY InvInit
<1>2. Len(received) = 0 /\ Underway = 0
  <2>1. sent = 0
    BY DEF Init
  <2>2. Len(received) = 0
    BY DEF Init
  <2> QED  BY <2>1, <2>2 DEF Underway
<1>3. Contents = <<>> /\ LastRead = 0
  BY <1>1, <1>2, ContentsAre DEF Run, InRing
<1> QED  BY <1>3, PipeAssumption DEF Queue!Init

LEMMA RefRead ==
  ASSUME Inv, ~MidUpdate(writer), read_byte
  PROVE  Queue!Take
<1>1. Inv'
  BY ReadByteKeeps
<1>2. reader.pc = "loop" /\ count # 0 /\ sent' = sent /\ received' = Append(received, buffer[read_pos])
  BY DEF read_byte
<1>3. received \in Seq(0..MaxSent) /\ sent \in Nat
  BY DEF Inv, Ordered, TypeOK
<1>4. Len(received') = Len(received) + 1 /\ Len(received) \in Nat
  BY <1>2, <1>3
<1>5. Underway > 0 /\ Underway \in Nat /\ Underway' = Underway - 1
  BY <1>2, <1>3, <1>4, ContentsAre DEF InRing, Inv, Counted, NothingLost, MidUpdate, Underway
<1>6. Contents = Run(Len(received), Underway) /\ Contents' = Run(Len(received) + 1, Underway - 1)
      /\ LastRead' = Len(received) + 1
  BY <1>1, <1>4, <1>5, ContentsAre, ContentsThen DEF InRing
<1> QED  BY <1>4, <1>5, <1>6, RunTaken DEF Queue!Take

LEMMA RefWrite ==
  ASSUME Inv, ~MidUpdate(reader), write_byte
  PROVE  Queue!Put(sent + 1) /\ sent + 1 \in 0..MaxSent
<1>1. Inv'
  BY WriteByteKeeps
<1>2. writer.pc = "loop" /\ count < PIPE_BUFFER_SIZE /\ sent' = sent + 1 /\ received' = received
  BY DEF write_byte
<1>3. received \in Seq(0..MaxSent) /\ sent \in Nat /\ Len(received) \in Nat
  BY DEF Inv, Ordered, TypeOK
<1>4. Underway < PIPE_BUFFER_SIZE /\ Underway \in Nat /\ Underway' = Underway + 1
      /\ Len(received) + Underway = sent
  BY <1>2, <1>3, ContentsAre DEF InRing, Inv, Counted, NothingLost, MidUpdate, Underway
<1>5. Contents = Run(Len(received), Underway) /\ Contents' = Run(Len(received), Underway + 1)
      /\ LastRead' = LastRead /\ sent + 1 \in 0..MaxSent
  BY <1>1, <1>2, <1>3, <1>4, ContentsAre, ContentsThen DEF InRing
<1>6. Len(Contents) < PIPE_BUFFER_SIZE /\ Contents' = Append(Contents, sent + 1)
  BY <1>3, <1>4, <1>5, RunPut
<1> QED  BY <1>5, <1>6 DEF Queue!Put

\* Every other step leaves the ring alone.
LEMMA RefStutters ==
  ASSUME UNCHANGED <<buffer, read_pos, received, sent>>
  PROVE  UNCHANGED <<Contents, LastRead>>
BY DEF Contents, LastRead

LEMMA RefStep == Inv /\ [Next]_vars => [Queue!Next]_<<Contents, LastRead>>
<1> SUFFICES ASSUME Inv, [Next]_vars
             PROVE  Queue!Next \/ UNCHANGED <<Contents, LastRead>>
  OBVIOUS
<1>1. CASE ~MidUpdate(writer) /\ read_byte
  BY <1>1, RefRead DEF Queue!Next
<1>2. CASE ~MidUpdate(reader) /\ write_byte
  BY <1>2, RefWrite DEF Queue!Next
<1>3. CASE read_eof \/ read_store \/ write_store \/ pipe_close
  BY <1>3, RefStutters DEF read_eof, read_store, write_store, pipe_close
<1>4. CASE \E size \in 0..MaxSize : read_call(size) \/ write_call(size)
  BY <1>4, RefStutters DEF read_call, write_call
<1>5. CASE UNCHANGED vars
  BY <1>5, RefStutters DEF vars
<1> QED  BY <1>1, <1>2, <1>3, <1>4, <1>5 DEF Next, ReaderStep, WriterStep, Calls

-----------------------------------------------------------------------------
(***************************************************************************)
(* The results                                                             *)
(***************************************************************************)

(***************************************************************************)
(* What pipe_read returns is what pipe_write was given, in order and each  *)
(* byte once, count and the positions stay in their ranges, and between    *)
(* two bytes count is the number of bytes written and not read.            *)
(***************************************************************************)
THEOREM PipeInOrder == Spec => []BytesInOrder
<1>1. Inv => BytesInOrder
  BY DEF Inv, Ordered, Counted, BytesInOrder
<1> QED  BY <1>1, InvHolds, PTL

(***************************************************************************)
(* The same of the processes that are scheduled fairly, which a run checks *)
(* on a small instance.                                                    *)
(***************************************************************************)
THEOREM FairPipeInOrder == FairSpec => []BytesInOrder
BY PipeInOrder, PTL DEF FairSpec

(***************************************************************************)
(* pipe_read and pipe_write are the two ends of a queue of                 *)
(* PIPE_BUFFER_SIZE bytes, for every size and wherever the ring wraps.     *)
(***************************************************************************)
THEOREM PipeIsQueue == Spec => ImplementsQueue
<1>1. Spec => Queue!Spec
  BY InvHolds, RefInit, RefStep, PTL DEF Spec, Queue!Spec
<1> QED  BY <1>1 DEF ImplementsQueue

=============================================================================
