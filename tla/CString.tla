------------------------------ MODULE CString ------------------------------
(***************************************************************************)
(* The strings of libc/string.c.  A string is the sequence of its          *)
(* characters, numbers above 0, without the terminating zero.  Pointers    *)
(* into a string are offsets from its start.  from[i] is what a loop that  *)
(* has come to offset i returns.                                           *)
(***************************************************************************)
EXTENDS Arrays, FiniteSetsExt

NULL == -1

(* The character at offset i: the zero after the last one.                 *)
At(s, i) == IF i < Len(s) THEN s[i + 1] ELSE 0

strcmp(a, b) ==
    LET from[i \in 0..Len(a)] ==
          IF At(a, i) # 0 /\ At(a, i) = At(b, i) THEN from[i + 1] ELSE At(a, i) - At(b, i)
    IN  from[0]

strncmp_Most(a, b, n) ==
    LET from[i \in 0..n] ==
          IF i < n /\ At(a, i) # 0 /\ At(a, i) = At(b, i) THEN from[i + 1]
          ELSE IF i = n THEN 0 ELSE At(a, i) - At(b, i)
    IN  from[0]
strncmp_OneMore(a, b, n) == strncmp_Most(a, b, n + 1)
strncmp(a, b, n)         == strncmp_Most(a, b, n)

strchr(s, c) ==
    LET from[i \in 0..Len(s)] ==
          IF At(s, i) # 0 /\ At(s, i) # c THEN from[i + 1]
          ELSE IF At(s, i) # 0 \/ c = 0 THEN i ELSE NULL
    IN  from[0]

(* last[i] is the last match before offset i.                              *)
strrchr(s, c) ==
    LET last[i \in 0..Len(s)] == IF i = 0 THEN NULL ELSE IF At(s, i - 1) = c THEN i - 1 ELSE last[i - 1]
    IN  IF c = 0 THEN Len(s) ELSE last[Len(s)]

Begins(h, i, needle) == strncmp(SubSeq(h, i + 1, Len(h)), needle, Len(needle)) = 0
strstr(h, needle) ==
    LET from[i \in 0..Len(h)] ==
          IF At(h, i) # 0 /\ ~Begins(h, i, needle) THEN from[i + 1] ELSE IF At(h, i) # 0 THEN i ELSE NULL
    IN  IF needle = <<>> THEN 0 ELSE from[0]

-----------------------------------------------------------------------------
(* The first k characters of src, the zero included, written to d.         *)
Written(mem, d, src, k) ==
    LET turn[j \in 0..k] == IF j = 0 THEN mem ELSE [turn[j - 1] EXCEPT ![d + j - 1] = At(src, j - 1)] IN turn[k]

strcpy(mem, d, src) == Written(mem, d, src, Len(src) + 1)

(* The loop is not followed beyond the memory.                             *)
End(mem, d) ==
    LET from[i \in DOMAIN mem] == IF mem[i] # 0 /\ i + 1 \in DOMAIN mem THEN from[i + 1] ELSE i IN from[d]
strcat(mem, d, src) == strcpy(mem, End(mem, d), src)

(* The zero that ends src is copied without being counted in n, so that a  *)
(* short string is padded with one byte too many.                          *)
Padding_Counted(n) == n - 1
Padding(n)         == n
strncpy(mem, d, src, n) ==
    IF n <= Len(src) THEN Written(mem, d, src, n)
    ELSE memset(strcpy(mem, d, src), d + Len(src) + 1, 0, Padding(n - Len(src)))

-----------------------------------------------------------------------------
(* The least element of S, or NULL.                                        *)
Least(S)    == IF S = {} THEN NULL ELSE Min(S)
Greatest(S) == IF S = {} THEN NULL ELSE Max(S)
Sign(n)     == IF n < 0 THEN -1 ELSE IF n > 0 THEN 1 ELSE 0

(* strcmp orders strings by their first difference, the end of a string    *)
(* before every character; strncmp is strcmp on the first n characters.    *)
Cut(s, n) == SubSeq(s, 1, IF n < Len(s) THEN n ELSE Len(s))
ComparesExact(a, b, n) ==
    LET Differ == {i \in 0..Len(a) : At(a, i) # At(b, i)}
    IN  /\ Sign(strcmp(a, b)) = IF Differ = {} THEN 0 ELSE Sign(At(a, Min(Differ)) - At(b, Min(Differ)))
        /\ Sign(strncmp(a, b, n)) = Sign(strcmp(Cut(a, n), Cut(b, n)))

(* strchr, strrchr and strstr return the first or the last match, the      *)
(* terminating zero included.                                              *)
SearchesExact(h, needle, c) ==
    /\ strchr(h, c) = Least({i \in 0..Len(h) : At(h, i) = c})
    /\ strrchr(h, c) = Greatest({i \in 0..Len(h) : At(h, i) = c})
    /\ strstr(h, needle) = Least({i \in 0..Len(h) : /\ i + Len(needle) <= Len(h)
                                                     /\ SubSeq(h, i + 1, i + Len(needle)) = needle})

(* strcpy and strcat write a string and its zero and nothing more.         *)
(* strncpy writes n bytes, and one more when the string is shorter: its    *)
(* callers have to leave room for it.                                      *)
Filled(mem, s, len) == [i \in DOMAIN mem |-> IF i < len THEN At(s, i) ELSE mem[i]]
CopiesExact(mem, a, b, n) ==
    /\ strcpy(mem, 0, a) = Filled(mem, a, Len(a) + 1)
    /\ strcat(strcpy(mem, 0, a), 0, b) = Filled(mem, a \o b, Len(a) + Len(b) + 1)
    /\ strncpy(mem, 0, a, n) = Filled(mem, a, IF Len(a) < n THEN n + 1 ELSE n)
=============================================================================
