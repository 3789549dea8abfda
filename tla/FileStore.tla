------------------------------ MODULE FileStore ------------------------------
(***************************************************************************)
(* What the file system promises its callers: named files of bytes, and    *)
(* handles, each with a position of its own in one file.  Which calls fail *)
(* for want of room is left open; a call that fails changes nothing but    *)
(* that it may leave behind the empty file it was asked to create.         *)
(*                                                                         *)
(* An operation relates the store s and the handles h before it to the     *)
(* store t and the handles i after it.                                     *)
(***************************************************************************)
EXTENDS Integers, Sequences

CONSTANT Byte  \* the bytes that may be written

VARIABLES
  store,   \* name -> [dir, bytes], for the names that exist
  handle,  \* handle -> [name, pos], for the handles that are open
  got      \* the bytes the last call returned

vars == <<store, handle, got>>

With(f, x, v) == [y \in DOMAIN f \cup {x} |-> IF y = x THEN v ELSE f[y]]
Without(f, x) == [y \in DOMAIN f \ {x} |-> f[y]]
Lesser(m, n)  == IF m < n THEN m ELSE n
Empty(dir)    == [dir |-> dir, bytes |-> <<>>]

Init == DOMAIN handle = {} /\ got = <<>>

Make(s, t) == \E n \in DOMAIN t \ DOMAIN s, dir \in BOOLEAN : t = With(s, n, Empty(dir))

Remove(s, t) == \E n \in DOMAIN s \ DOMAIN t : t = Without(s, n)

Open(s, t, h, i) ==
  \E x \in DOMAIN i \ DOMAIN h :
    /\ i = With(h, x, [name |-> i[x].name, pos |-> 0])
    /\ t = IF i[x].name \in DOMAIN s THEN s ELSE With(s, i[x].name, Empty(FALSE))

Close(h, i) == \E x \in DOMAIN h \ DOMAIN i : i = Without(h, x)

\* Nothing is read at a position beyond the end.
Read(s, h, i, bytes) ==
  \E x \in DOMAIN h :
    LET all == s[h[x].name].bytes
        end == h[x].pos + Len(bytes)
    IN /\ bytes # <<>> => end <= Len(all)
       /\ bytes = SubSeq(all, h[x].pos + 1, end)
       /\ i = [h EXCEPT ![x].pos = end]

\* What lies between the end and a position beyond it is not specified.
Write(s, t, h, i) ==
  \E x \in DOMAIN h \cap DOMAIN i :
    LET old == s[h[x].name].bytes
        new == t[h[x].name].bytes
        pos == h[x].pos
        end == i[x].pos
    IN /\ end >= pos
       /\ Len(new) = IF end > Len(old) THEN end ELSE Len(old)
       /\ \A k \in 1..Len(new) : k <= Lesser(pos, Len(old)) \/ k > end => new[k] = old[k]
       /\ \A k \in (pos + 1)..end : new[k] \in Byte
       /\ t = [s EXCEPT ![h[x].name].bytes = new]
       /\ i = [h EXCEPT ![x].pos = end]

Seek(s, h, i) ==
  \E x \in DOMAIN h \cap DOMAIN i :
    i[x].pos \in 0..Len(s[h[x].name].bytes) /\ i = [h EXCEPT ![x].pos = i[x].pos]

Truncate(s, t, h) ==
  \E x \in DOMAIN h :
    LET old == s[h[x].name].bytes
        new == t[h[x].name].bytes
    IN /\ \A k \in 1..Lesser(Len(new), Len(old)) : new[k] = old[k]
       /\ t = [s EXCEPT ![h[x].name].bytes = new]

Step(s, t, h, i) ==
  \/ s = t /\ Read(s, h, i, got')
  \/ /\ got' = <<>>
     /\ \/ s = t /\ (h = i \/ Close(h, i) \/ Seek(s, h, i))
        \/ h = i /\ (Make(s, t) \/ Remove(s, t) \/ Truncate(s, t, h))
        \/ Open(s, t, h, i) \/ Write(s, t, h, i)

Next == \E s \in {store}, t \in {store'}, h \in {handle}, i \in {handle'} : Step(s, t, h, i)

Spec == Init /\ [][Next]_vars
=============================================================================
