------------------------------ MODULE Formats ------------------------------
(***************************************************************************)
(* Names on disk and on the wire: the 8.3 names of fs/fat16.c, the labels  *)
(* of net/dns.c and the URLs of net/http.c.  Characters are their ASCII    *)
(* codes.  NameLen and ExtLen are the lengths of the parts of an 8.3 name, *)
(* HostLen and PathLen what a request has room for.                        *)
(***************************************************************************)
EXTENDS Integers, Sequences, SequencesExt

CONSTANTS NameLen, ExtLen, HostLen, PathLen

Period == 46
Slash  == 47
Colon  == 58
Pad    == 32

First(s) == IF s = <<>> THEN 0 ELSE Head(s)

(* c & ~0x20 and c | 0x20.                                                 *)
Bit5(c)  == (c \div 32) % 2 = 1
Upper(c) == IF Bit5(c) THEN c - 32 ELSE c
Lower(c) == IF Bit5(c) THEN c ELSE c + 32

(* The characters up to the first that ends the loop, at most n of them.   *)
RECURSIVE UpTo(_, _, _)
UpTo(s, ends, n) == IF n = 0 \/ First(s) \in ends \cup {0} THEN <<>> ELSE <<Head(s)>> \o UpTo(Tail(s), ends, n - 1)
From(s, i)       == SubSeq(s, i + 1, Len(s))
Padded(s, n)     == s \o [i \in 1..(n - Len(s)) |-> Pad]
Mapped(s, Op(_)) == [i \in 1..Len(s) |-> Op(s[i])]

fat16_string_to_name(name) ==
    LET base == UpTo(name, {Period}, NameLen)
        rest == From(name, Len(base))
        ext  == IF First(rest) = Period THEN UpTo(Tail(rest), {}, ExtLen) ELSE <<>>
    IN  Padded(Mapped(base, Upper), NameLen) \o Padded(Mapped(ext, Upper), ExtLen)

Extension(raw)       == UpTo(From(raw, NameLen), {Pad}, ExtLen)

fat16_name_to_string(raw) ==
    LET base == UpTo(raw, {Pad}, NameLen)
        ext  == Extension(raw)
    IN  Mapped(base, Lower) \o (IF raw[NameLen + 1] # Pad THEN <<Period>> \o Mapped(ext, Lower) ELSE <<>>)

-----------------------------------------------------------------------------
(* net/dns.c: every label after its length, a zero at the end.             *)
RECURSIVE dns_encode_name(_)
dns_encode_name(name) ==
    LET label == UpTo(name, {Period}, Len(name))
        rest  == From(name, Len(label))
    IN  <<Len(label)>> \o label \o (IF rest = <<>> THEN <<0>> ELSE dns_encode_name(Tail(rest)))

(* A length of 0xC0 and above is a pointer, to an offset below 256 here.   *)
Pointer == 192

Joined_Always(out) == Append(out, Period)
Joined(out)        == IF out = <<>> THEN out ELSE Append(out, Period)
After(pos, jump)   == IF jump = 0 THEN pos + 2 ELSE jump

(* jump is where the caller goes on after the first pointer, 0 before.     *)
RECURSIVE Decode(_, _, _, _)
Decode(buf, pos, out, jump) ==
    IF pos >= Len(buf) THEN [name |-> out, next |-> pos]
    ELSE LET len == buf[pos + 1]
         IN  IF len = 0 THEN [name |-> out, next |-> IF jump # 0 THEN jump ELSE pos + 1]
             ELSE IF len >= Pointer THEN Decode(buf, buf[pos + 2], out, After(pos, jump))
             ELSE Decode(buf, pos + 1 + len, Joined(out) \o SubSeq(buf, pos + 2, pos + 1 + len), jump)
dns_decode_name(buf, offset) == Decode(buf, offset, <<>>, 0)

-----------------------------------------------------------------------------
(* net/http.c: scheme is the prefix of the URL, "none" when it has none.   *)
Digit(c)     == c \in 48..57
HostEnds_Slash == {Slash}
HostEnds     == {Slash, Colon}

RECURSIVE PortOf(_, _)
PortOf(port, s) == IF Digit(First(s)) THEN PortOf((port * 10 + Head(s) - 48) % 2^16, Tail(s))
                                      ELSE [port |-> port, rest |-> s]

(* Without a path the code stores "/" and then a zero over it.             *)
http_parse_url(scheme, url) ==
    LET host == UpTo(url, HostEnds, HostLen)
        rest == From(url, Len(host))
        known == CASE scheme = "http" -> 80 [] scheme = "https" -> 443 [] OTHER -> 0
        p    == IF First(rest) = Colon THEN PortOf(0, Tail(rest)) ELSE [port |-> known, rest |-> rest]
    IN  [host |-> host, port |-> p.port,
         path |-> IF First(p.rest) = Slash THEN UpTo(p.rest, {}, PathLen) ELSE <<>>]
=============================================================================
