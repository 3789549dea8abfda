---------------------------- MODULE BoundedQueue ----------------------------
(***************************************************************************)
(* What a ring buffer promises its users: a queue of at most Capacity      *)
(* values.  Values leave it in the order in which they entered, each once. *)
(* A value that is not accepted leaves no trace.                           *)
(***************************************************************************)
EXTENDS Naturals, Sequences

CONSTANTS Capacity, Values

VARIABLES
  queue,   \* the values accepted and not yet taken
  out      \* the value taken last

Init == queue = <<>> /\ out \in Values

Put(v) ==
  /\ Len(queue) < Capacity
  /\ queue' = Append(queue, v)
  /\ out' = out

Take ==
  /\ queue # <<>>
  /\ out' = Head(queue)
  /\ queue' = Tail(queue)

Clear == queue' = <<>> /\ out' = out

Next == (\E v \in Values : Put(v)) \/ Take \/ Clear

Spec == Init /\ [][Next]_<<queue, out>>

=============================================================================
