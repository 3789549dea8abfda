-------------------------------- MODULE Pipe --------------------------------
(***************************************************************************)
(* A pipe, src/src/sys/pipe.c: one entry of pipes[] with a process that    *)
(* reads from it and one that writes to it.                                *)
(*                                                                         *)
(* pipe_read and pipe_write move one byte at a time.  The build does not   *)
(* optimise, so count-- and count++ are a load and a store; the buffer and *)
(* the position are used by one side only.  Spec lets the two processes    *)
(* alternate where they wait (hlt) or are between two bytes; PreemptSpec   *)
(* also lets a tick switch between the load and the store.  Byte number n  *)
(* of all that are written is n, so that a byte tells where it belongs.    *)
(***************************************************************************)
EXTENDS Integers, Sequences

CONSTANTS
  PIPE_BUFFER_SIZE,
  Word,         \* count is a number modulo Word
  MaxSize,      \* bound: bytes one call asks for
  MaxSent,      \* bound: bytes written in all
  MaxCloses     \* bound: calls of pipe_close

ASSUME PipeAssumption ==
  /\ PIPE_BUFFER_SIZE \in Nat \ {0}
  /\ Word \in Nat /\ Word > PIPE_BUFFER_SIZE
  /\ MaxSize \in Nat
  /\ MaxSent \in Nat
  /\ MaxCloses \in Nat

VARIABLES
  buffer, read_pos, write_pos, count, readers, writers, in_use,
  reader,      \* pipe_read:  [pc, left, loaded]
  writer,      \* pipe_write: [pc, left, loaded]
  received,    \* ghost: the bytes read, in order
  sent,        \* ghost: the number of bytes written
  closes       \* ghost: calls of pipe_close

ends  == <<readers, writers, in_use>>
vars  == <<buffer, read_pos, write_pos, count, ends, reader, writer,
           received, sent, closes>>

Index == 0..(PIPE_BUFFER_SIZE - 1)
Idle  == [pc |-> "idle", left |-> 0, loaded |-> 0]

\* A call of either function starts its loop, if the pipe is in use.
Started(size) == [pc |-> "loop", left |-> size, loaded |-> 0]

\* The loop is left once everything has been moved.
Continue(side) == IF side.left = 0 THEN Idle ELSE side

-----------------------------------------------------------------------------

read_call(size) ==
  /\ reader = Idle /\ in_use
  /\ reader' = Continue(Started(size))
  /\ UNCHANGED <<buffer, read_pos, write_pos, count, ends, writer, received, sent, closes>>

read_eof_Missing == FALSE

\* An empty pipe nobody writes to ends the read.
read_eof ==
  /\ reader.pc = "loop" /\ count = 0 /\ writers = 0
  /\ reader' = Idle
  /\ UNCHANGED <<buffer, read_pos, write_pos, count, ends, writer, received, sent, closes>>

\* An empty pipe is read all the same.
read_byte_EmptyIgnored ==
  /\ reader.pc = "loop"
  /\ received' = Append(received, buffer[read_pos])
  /\ read_pos' = (read_pos + 1) % PIPE_BUFFER_SIZE
  /\ reader' = [reader EXCEPT !.pc = "store", !.loaded = count]
  /\ UNCHANGED <<buffer, write_pos, count, ends, writer, sent, closes>>

\* The byte and the position; count is loaded.
read_byte ==
  /\ reader.pc = "loop" /\ count # 0
  /\ received' = Append(received, buffer[read_pos])
  /\ read_pos' = (read_pos + 1) % PIPE_BUFFER_SIZE
  /\ reader' = [reader EXCEPT !.pc = "store", !.loaded = count]
  /\ UNCHANGED <<buffer, write_pos, count, ends, writer, sent, closes>>

read_store_NotCounted ==
  /\ reader.pc = "store"
  /\ reader' = Continue([pc |-> "loop", left |-> reader.left - 1, loaded |-> 0])
  /\ UNCHANGED <<buffer, read_pos, write_pos, count, ends, writer, received, sent, closes>>

read_store ==
  /\ reader.pc = "store"
  /\ count' = (reader.loaded - 1) % Word
  /\ reader' = Continue([pc |-> "loop", left |-> reader.left - 1, loaded |-> 0])
  /\ UNCHANGED <<buffer, read_pos, write_pos, ends, writer, received, sent, closes>>

write_call(size) ==
  /\ writer = Idle /\ in_use
  /\ sent + size <= MaxSent
  /\ writer' = Continue(Started(size))
  /\ UNCHANGED <<buffer, read_pos, write_pos, count, ends, reader, received, sent, closes>>

write_byte_FullOneLate ==
  /\ writer.pc = "loop" /\ count <= PIPE_BUFFER_SIZE
  /\ buffer' = [buffer EXCEPT ![write_pos] = sent + 1]
  /\ sent' = sent + 1
  /\ write_pos' = (write_pos + 1) % PIPE_BUFFER_SIZE
  /\ writer' = [writer EXCEPT !.pc = "store", !.loaded = count]
  /\ UNCHANGED <<read_pos, count, ends, reader, received, closes>>

\* The writer waits until the rest of its request fits.
write_byte_WaitsForRoom ==
  /\ writer.pc = "loop" /\ count + writer.left <= PIPE_BUFFER_SIZE
  /\ buffer' = [buffer EXCEPT ![write_pos] = sent + 1]
  /\ sent' = sent + 1
  /\ write_pos' = (write_pos + 1) % PIPE_BUFFER_SIZE
  /\ writer' = [writer EXCEPT !.pc = "store", !.loaded = count]
  /\ UNCHANGED <<read_pos, count, ends, reader, received, closes>>

\* A full pipe makes the writer wait: readers is 1 from pipe_create on, so the
\* branch that fails the write is never taken.
write_byte ==
  /\ writer.pc = "loop" /\ count < PIPE_BUFFER_SIZE
  /\ buffer' = [buffer EXCEPT ![write_pos] = sent + 1]
  /\ sent' = sent + 1
  /\ write_pos' = (write_pos + 1) % PIPE_BUFFER_SIZE
  /\ writer' = [writer EXCEPT !.pc = "store", !.loaded = count]
  /\ UNCHANGED <<read_pos, count, ends, reader, received, closes>>

write_store ==
  /\ writer.pc = "store"
  /\ count' = (writer.loaded + 1) % Word
  /\ writer' = Continue([pc |-> "loop", left |-> writer.left - 1, loaded |-> 0])
  /\ UNCHANGED <<buffer, read_pos, write_pos, ends, reader, received, sent, closes>>

\* Only writers is counted down, whichever end is closed.
pipe_close ==
  /\ closes < MaxCloses /\ in_use
  /\ writers' = writers - 1
  /\ in_use' = ~(writers' <= 0 /\ readers <= 0)
  /\ closes' = closes + 1
  /\ UNCHANGED <<buffer, read_pos, write_pos, count, readers, reader, writer,
                 received, sent>>

-----------------------------------------------------------------------------

\* pipe_init and pipe_create
Init ==
  /\ buffer = [i \in Index |-> 0]
  /\ read_pos = 0 /\ write_pos = 0 /\ count = 0
  /\ readers = 1 /\ writers = 1 /\ in_use = TRUE
  /\ reader = Idle /\ writer = Idle
  /\ received = <<>>
  /\ sent = 0
  /\ closes = 0

ReaderStep == read_eof \/ read_byte \/ read_store
WriterStep == write_byte \/ write_store
Calls == pipe_close \/ \E size \in 0..MaxSize : read_call(size) \/ write_call(size)

PreemptNext == ReaderStep \/ WriterStep \/ Calls

MidUpdate(side) == side.pc = "store"

Next ==
  \/ ~MidUpdate(writer) /\ ReaderStep
  \/ ~MidUpdate(reader) /\ WriterStep
  \/ ~MidUpdate(reader) /\ ~MidUpdate(writer) /\ Calls

Spec == Init /\ [][Next]_vars

\* A process in its loop runs again and again: the tick ends each hlt.
FairSpec ==
  /\ Spec
  /\ WF_vars(~MidUpdate(writer) /\ ReaderStep)
  /\ WF_vars(~MidUpdate(reader) /\ WriterStep)

PreemptSpec == Init /\ [][PreemptNext]_vars

-----------------------------------------------------------------------------

\* Every variable has its type, and count never passes the size of the buffer.
TypeOK ==
  /\ buffer \in [Index -> 0..MaxSent]
  /\ read_pos \in Index /\ write_pos \in Index
  /\ count \in 0..PIPE_BUFFER_SIZE
  /\ readers = 1 /\ writers \in Int /\ in_use \in BOOLEAN
  /\ reader \in [pc : {"idle", "loop", "store"}, left : 0..MaxSize,
                 loaded : 0..PIPE_BUFFER_SIZE]
  /\ writer \in [pc : {"idle", "loop", "store"}, left : 0..MaxSize,
                 loaded : 0..PIPE_BUFFER_SIZE]
  /\ received \in Seq(0..MaxSent)
  /\ sent \in 0..MaxSent
  /\ closes \in 0..MaxCloses

(***************************************************************************)
(* Nothing disappears: between two bytes, count is the number of bytes     *)
(* that were written and not read yet.                                     *)
(***************************************************************************)
NothingLost ==
  ~MidUpdate(reader) /\ ~MidUpdate(writer) => count = sent - Len(received)

(***************************************************************************)
(* What is read is what was written, in order, each byte once: whatever    *)
(* the sizes of the calls, and with the two sides taking turns at any byte;*)
(* and nothing is lost on the way.                                         *)
(***************************************************************************)
BytesInOrder == TypeOK /\ (\A k \in 1..Len(received) : received[k] = k) /\ NothingLost

\* What lies in the ring, from read_pos on.
Contents == [k \in 1..(sent - Len(received)) |-> buffer[(read_pos + k - 1) % PIPE_BUFFER_SIZE]]

\* The byte that was read last.
LastRead == IF received = <<>> THEN 0 ELSE received[Len(received)]

Queue == INSTANCE BoundedQueue
           WITH Capacity <- PIPE_BUFFER_SIZE, Values <- 0..MaxSent, queue <- Contents, out <- LastRead

(***************************************************************************)
(* "Kernel ring buffer pipes": wherever the positions wrap and whichever   *)
(* side waits, the ring is a first-in first-out queue of PIPE_BUFFER_SIZE  *)
(* bytes, the same that the keyboard's ring implements: pipe_write puts at *)
(* its end, pipe_read takes its front, and no other step touches it.       *)
(***************************************************************************)
ImplementsQueue == Queue!Spec

(***************************************************************************)
(* End of file: when the write end has been closed, a read that waits for  *)
(* more returns.                                                           *)
(***************************************************************************)
EndOfFile == (writers <= 0 /\ reader # Idle) ~> reader = Idle

(***************************************************************************)
(* A writer that fills the pipe and a reader that empties it are never     *)
(* both stuck: while both are in their loops, one of the calls returns.    *)
(***************************************************************************)
NotBothStuck ==
  (reader # Idle /\ writer # Idle) ~> (reader = Idle \/ writer = Idle)

=============================================================================
