------------------------------ MODULE Printf ------------------------------
(***************************************************************************)
(* Formatted output, vsnprintf of libc/string.c.                           *)
(***************************************************************************)
EXTENDS Integers, Sequences

(* vsnprintf on a format of tokens: "%" followed by flags, a width and a   *)
(* conversion, or a character that stands for itself.  args are the texts  *)
(* that itoa, or %s, make of the arguments, at most 31 characters each.    *)
Room_OneLate(pos, size) == pos < size
Room(pos, size)         == pos < size - 1

Flags       == {"-", "+", " ", "0", "5"}
Consumes    == {"d", "i", "u", "x", "X", "s", "c"}
Text(c, args) == IF c \in Consumes THEN Head(args) ELSE <<c>>

RECURSIVE SkipFlags(_)
SkipFlags(f) == IF f # <<>> /\ Head(f) \in Flags THEN SkipFlags(Tail(f)) ELSE f

RECURSIVE PutText(_, _, _)
PutText(buf, text, size) ==
    IF text # <<>> /\ Room(Len(buf), size) THEN PutText(Append(buf, Head(text)), Tail(text), size) ELSE buf

RECURSIVE vsnprintf_From(_, _, _, _)
vsnprintf_From(buf, f, args, size) ==
    IF f = <<>> \/ ~Room(Len(buf), size) THEN buf
    ELSE IF Head(f) = "%" /\ Len(f) > 1
    THEN LET g == SkipFlags(Tail(f))
         IN  IF g = <<>> THEN buf
             ELSE vsnprintf_From(PutText(buf, Text(Head(g), args), size), Tail(g),
                                 IF Head(g) \in Consumes THEN Tail(args) ELSE args, size)
    ELSE vsnprintf_From(Append(buf, Head(f)), Tail(f), args, size)
vsnprintf(f, args, size) == vsnprintf_From(<<>>, f, args, size)
=============================================================================
