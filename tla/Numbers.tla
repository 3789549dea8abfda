------------------------------ MODULE Numbers ------------------------------
(***************************************************************************)
(* Conversions and arithmetic: itoa and atoi of libc/string.c, strtol      *)
(* of libc/stdlib.c, libc/math.c, and the addresses of net/net.c.  int has *)
(* IntBits bits (32 in the code) and wraps.                                *)
(***************************************************************************)
EXTENDS Checksum, SequencesExt

CONSTANT IntBits

IntMin  == -(2^(IntBits - 1))
IntMax  == 2^(IntBits - 1) - 1
Wrap(n) == ((n - IntMin) % 2^IntBits) + IntMin

(* Text is a sequence of digits, 10 and up for the letters a to f, and of  *)
(* these other characters.                                                 *)
Space == 100
Minus == 101
Plus  == 102
Ex    == 103
Dot   == 104

RECURSIVE Digits(_, _)
Digits(u, base) == IF u < base THEN <<u>> ELSE Append(Digits(u \div base, base), u % base)

Unsigned(v)           == v % 2^IntBits
Negative_Any(v, base) == v < 0
Negative(v, base)     == v < 0 /\ base = 10
itoa(v, base) ==
    IF Negative(v, base) THEN <<Minus>> \o Digits(Unsigned(Wrap(-v)), base) ELSE Digits(Unsigned(v), base)

IsDigit(c) == c \in 0..15

RECURSIVE SkipBlanks(_)
SkipBlanks(s) == IF s # <<>> /\ Head(s) = Space THEN SkipBlanks(Tail(s)) ELSE s

(* The loop over the digits, and what it leaves unread.                    *)
RECURSIVE Accumulate(_, _, _)
Accumulate(n, s, base) ==
    IF s # <<>> /\ IsDigit(Head(s)) /\ Head(s) < base
    THEN Accumulate(Wrap(n * base + Head(s)), Tail(s), base)
    ELSE [value |-> n, rest |-> s]

SignOf(s)      == IF s # <<>> /\ Head(s) = Minus THEN -1 ELSE 1
AfterSign(s)   == IF s # <<>> /\ Head(s) \in {Minus, Plus} THEN Tail(s) ELSE s

atoi(str) == LET s == SkipBlanks(str)
             IN  Wrap(SignOf(s) * Accumulate(0, AfterSign(s), 10).value)

Hex(s)            == Len(s) > 1 /\ s[1] = 0 /\ s[2] = Ex
BaseOf(s, base)   == IF base # 0 THEN base ELSE IF Hex(s) THEN 16 ELSE IF s # <<>> /\ s[1] = 0 THEN 8 ELSE 10
Prefixed(s, base) == base \in {0, 16} /\ Hex(s)

strtol(str, base) ==
    LET s == SkipBlanks(str)
        t == AfterSign(s)
        r == Accumulate(0, IF Prefixed(t, base) THEN SubSeq(t, 3, Len(t)) ELSE t, BaseOf(t, base))
    IN  [value |-> Wrap(SignOf(s) * r.value), rest |-> r.rest]

-----------------------------------------------------------------------------
(* libc/math.c                                                             *)
abs(x) == IF x < 0 THEN Wrap(-x) ELSE x
clamp(x, lo, hi) == IF x < lo THEN lo ELSE IF x > hi THEN hi ELSE x

RECURSIVE ipow_Loop(_, _, _)
ipow_Loop(result, base, exp) ==
    IF exp <= 0 THEN result
    ELSE ipow_Loop(IF exp % 2 = 1 THEN Wrap(result * base) ELSE result, Wrap(base * base), exp \div 2)
ipow(base, exp) == ipow_Loop(1, base, exp)

RECURSIVE isqrt_Loop(_, _, _)
isqrt_Loop(n, x, y) == IF y < x THEN isqrt_Loop(n, y, (y + n \div y) \div 2) ELSE x
isqrt_Low(n) == IF n <= 0 THEN 0 ELSE isqrt_Loop(n, n \div 2, (n + 1) \div 4)
isqrt(n)     == IF n <= 0 THEN 0 ELSE isqrt_Loop(n, n, (n + 1) \div 2)

RECURSIVE gcd_Loop(_, _)
gcd_Loop(a, b) == IF b = 0 THEN a ELSE gcd_Loop(b, a % b)
gcd(a, b) == gcd_Loop(abs(a), abs(b))
lcm(a, b) == Wrap((abs(a) \div gcd(a, b)) * abs(b))

-----------------------------------------------------------------------------
(* net/net.c: an address is its octets, the highest first.                 *)
net_ip_to_string(ip) == itoa(ip[1], 10) \o <<Dot>> \o itoa(ip[2], 10) \o <<Dot>> \o
                        itoa(ip[3], 10) \o <<Dot>> \o itoa(ip[4], 10)

(* ip << 8 | val: what does not fit an octet runs into the one before it.  *)
RECURSIVE FromString(_, _, _)
FromString(ip, val, str) ==
    IF str = <<>> THEN (ip * 2^ByteBits + val) % 2^(4 * ByteBits)
    ELSE IF Head(str) = Dot THEN FromString(ip * 2^ByteBits + val, 0, Tail(str))
    ELSE FromString(ip, val * 10 + Head(str), Tail(str))
net_ip_from_string(str) ==
    LET ip == FromString(0, 0, str)
    IN  [i \in 1..4 |-> (ip \div 2^(ByteBits * (4 - i))) % 2^ByteBits]
=============================================================================
