------------------------------ MODULE Library ------------------------------
(***************************************************************************)
(* The pure functions of the C library, the file system and the network,   *)
(* called with every argument of bounded sets and compared with what they  *)
(* are to compute, stated without their loops.                             *)
(***************************************************************************)
EXTENDS CString, Printf, Numbers, Formats

CONSTANTS MemSize,  \* bytes of the memory that is copied in
          LibStrings, LibFormats, LibSegments, LibNames, LibUrls, LibInts

VARIABLE call       \* the call in progress, or none

NoCall == [of |-> "none"]

StringCalls == [of : {"string"}, a : LibStrings, b : LibStrings, n : 0..3]
MemoryCalls == {c \in [of : {"memory"}, d : 0..(MemSize - 1), s : 0..(MemSize - 1), n : 0..MemSize] :
                   c.d + c.n <= MemSize /\ c.s + c.n <= MemSize}
FormatCalls == [of : {"format"}, f : LibFormats, size : 1..5]
TextCalls   == [of : {"text"}, x : LibInts, base : {2, 8, 10, 16}]
IntCalls    == [of : {"int"}, x : LibInts, y : LibInts]
ArrayCalls  == [of : {"array"}, arr : BoundedSeq(0..2, 4), key : 0..2]
WireCalls   == [of : {"wire"}, bytes : LibSegments]
NameCalls   == [of : {"name"}, name : LibNames]
UrlCalls    == [of : {"url"}, scheme : {"http", "https", "none"}, url : LibUrls]
Calls       == StringCalls \cup MemoryCalls \cup FormatCalls \cup TextCalls \cup IntCalls \cup ArrayCalls
               \cup WireCalls \cup NameCalls \cup UrlCalls

LibInit == call = NoCall
Call    == call = NoCall /\ call' \in Calls
Return  == call # NoCall /\ call' = NoCall
LibNext == Call \/ Return

-----------------------------------------------------------------------------
(* Strings are ordered by their first difference, and the first or the     *)
(* last match of a search is found.                                        *)
StringsCompared ==
    call.of = "string" => ComparesExact(call.a, call.b, call.n) /\ SearchesExact(call.a, call.b, call.n)

(* Memory is copied as it was, however source and destination overlap.     *)
OverlapsMoved ==
    call.of = "memory" => MovesExact([i \in 0..(MemSize - 1) |-> i], call.d, call.s, call.n)

(* What is copied is written as far as it is to be, and nothing more.      *)
StringsCopied ==
    call.of = "string" => CopiesExact([i \in 0..12 |-> 9], call.a, call.b, call.n)

(* What vsnprintf writes fits its buffer with the zero, and a buffer too   *)
(* small gets the beginning of the text a larger one gets.                 *)
OutputTruncated ==
    call.of = "format" =>
       LET args == <<<<"1", "2">>, <<"a", "b", "c">>>>
           text == vsnprintf(call.f, args, call.size)
       IN  Len(text) < call.size /\ IsPrefix(text, vsnprintf(call.f, args, 100))

(* Numbers come back from their text, the least int included, and strtol   *)
(* reads in base 0 what is written with the prefix of its base.            *)
NumbersReadBack ==
    call.of = "text" =>
       LET x == call.x
       IN  /\ atoi(itoa(x, 10)) = x /\ strtol(<<Space>> \o itoa(x, 10), 10) = [value |-> x, rest |-> <<>>]
           /\ strtol(itoa(x, call.base) \o <<Dot>>, call.base) = [value |-> x, rest |-> <<Dot>>]
           /\ strtol(<<0, Ex>> \o itoa(x, 16), 0).value = x /\ strtol(<<0>> \o itoa(x, 8), 0).value = x

(* isqrt is the root rounded down below the largest int (above which x + 1 *)
(* overflows), gcd the greatest common divisor, lcm the least common       *)
(* multiple and ipow the power, as far as they fit an int.                 *)
ArithmeticExact ==
    call.of = "int" =>
       LET x == call.x
           y == call.y
           Divisors(n) == {k \in 1..IntMax : n % k = 0}
       IN  /\ x \in 0..(IntMax - 1) => isqrt(x) = Max({r \in 0..x : r * r <= x})
           /\ x # 0 /\ y # 0 /\ x # IntMin /\ y # IntMin =>
                 /\ gcd(x, y) = Max(Divisors(x) \cap Divisors(y))
                 /\ lcm(x, y) = Wrap((Sign(x) * x * Sign(y) * y) \div gcd(x, y))
           /\ x # 0 /\ y \in 0..4 => ipow(x, y) = Wrap(x^y)
           /\ clamp(x, -2, 2) \in -2..2 /\ (x \in -2..2 => clamp(x, -2, 2) = x)

(* qsort orders what it is given, and bsearch finds in it what is there.   *)
SortedAndFound ==
    call.of = "array" => SortsExact(call.arr) /\ FindsExact(call.key, qsort(call.arr))

(* A segment with its checksum filled in sums up to nothing, whatever the *)
(* carries; an address comes back from its dotted form.                    *)
ChecksumVerifies ==
    call.of = "wire" =>
       LET b == call.bytes
       IN  /\ \A p \in 1..(Len(b) \div 2) : VerifiesExact(SubSeq(b, 1, 2), b, p)
           /\ Len(b) >= 4 => net_ip_from_string(net_ip_to_string(SubSeq(b, 1, 4))) = SubSeq(b, 1, 4)

(* An 8.3 name of letters comes back from its form on disk, in small       *)
(* letters, and a name of labels from its form on the wire, directly and   *)
(* through a pointer to it.                                                *)
NamesReadBack ==
    call.of = "name" =>
       LET name == call.name
           wire == dns_encode_name(name)
           dots == {i \in 1..Len(name) : name[i] = Period}
           base == IF dots = {} THEN Len(name) ELSE Min(dots) - 1
           ext  == IF dots = {} THEN 0 ELSE Len(name) - base - 1
       IN  /\ Cardinality(dots) < 2 /\ base <= NameLen /\ ext <= ExtLen /\ (dots # {} => ext > 0) =>
                 fat16_name_to_string(fat16_string_to_name(name)) = Mapped(name, LAMBDA c : IF c = Period THEN c ELSE Lower(c))
           /\ (\A i \in dots : i < Len(name) /\ i > 1 /\ i + 1 \notin dots) =>
                 /\ dns_decode_name(wire, 0) = [name |-> name, next |-> Len(wire)]
                 /\ dns_decode_name(wire \o <<Pointer, 0>>, Len(wire)) = [name |-> name, next |-> Len(wire) + 2]

(* A URL is taken apart at the first colon or slash after the host, if the *)
(* host fits: the path is all from the first slash, empty without one, the *)
(* port that of the scheme unless the URL has its own.                     *)
UrlTakenApart ==
    call.of = "url" =>
       LET r == http_parse_url(call.scheme, call.url)
           ends == {i \in 1..Len(call.url) : call.url[i] \in {Slash, Colon}}
           host == IF ends = {} THEN call.url ELSE SubSeq(call.url, 1, Min(ends) - 1)
           slashes == {i \in 1..Len(call.url) : call.url[i] = Slash}
       IN  /\ IsPrefix(r.host, host) /\ Len(r.host) <= HostLen
           /\ Len(host) <= HostLen =>
                 /\ r.host = host
                 /\ (ends # {} /\ call.url[Min(ends)] = Slash) => r.path = SubSeq(call.url, Min(ends), Len(call.url))
                 /\ slashes = {} => r.path = <<>>
                 /\ (ends = {} \/ call.url[Min(ends)] = Slash) =>
                       r.port = (CASE call.scheme = "http" -> 80 [] call.scheme = "https" -> 443 [] OTHER -> 0)

(* Every function computes what it is to compute, at the edges of its      *)
(* types, its buffers and its formats included.                            *)
LibrarySound ==
    /\ StringsCompared /\ OverlapsMoved /\ StringsCopied /\ OutputTruncated
    /\ NumbersReadBack /\ ArithmeticExact /\ SortedAndFound
    /\ ChecksumVerifies /\ NamesReadBack /\ UrlTakenApart
=============================================================================
