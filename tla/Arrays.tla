------------------------------- MODULE Arrays -------------------------------
(***************************************************************************)
(* The memory functions of libc/string.c, and qsort and bsearch of         *)
(* libc/stdlib.c.  Memory is a function from addresses to bytes, an array  *)
(* a sequence of numbers, which compar subtracts.  turn[k] is what a loop  *)
(* has made after k turns.                                                 *)
(***************************************************************************)
EXTENDS Integers, Sequences, SequencesExt, FiniteSets

(* Move copies one byte; the loops differ in the order of bytes.           *)
Move(mem, d, s) == [mem EXCEPT ![d] = mem[s]]
Upwards(n)      == [i \in 1..n |-> i - 1]
Downwards(n)    == [i \in 1..n |-> n - i]

Copying(mem, d, s, n, order) ==
    LET turn[k \in 0..n] == IF k = 0 THEN mem ELSE Move(turn[k - 1], d + order[k], s + order[k]) IN turn[n]

memcpy(mem, d, s, n) == Copying(mem, d, s, n, Upwards(n))

Order_Swapped(d, s, n) == IF d > s THEN Upwards(n) ELSE Downwards(n)
Order(d, s, n)         == IF d < s THEN Upwards(n) ELSE Downwards(n)
memmove(mem, d, s, n)  == Copying(mem, d, s, n, Order(d, s, n))

memset(mem, d, c, n) ==
    LET turn[k \in 0..n] == IF k = 0 THEN mem ELSE [turn[k - 1] EXCEPT ![d + k - 1] = c] IN turn[n]

-----------------------------------------------------------------------------
(* Selection sort: the first of the smallest entries from i on changes     *)
(* places with entry i.                                                    *)
Smallest(arr, i) ==
    LET min[j \in i..Len(arr)] == IF j = i THEN i ELSE IF arr[j] < arr[min[j - 1]] THEN j ELSE min[j - 1]
    IN  min[Len(arr)]
swap(arr, i, j) == [arr EXCEPT ![i] = arr[j], ![j] = arr[i]]
qsort(arr) ==
    LET turn[i \in 0..(Len(arr) - 1)] == IF i = 0 THEN arr ELSE swap(turn[i - 1], i, Smallest(turn[i - 1], i))
    IN  IF Len(arr) <= 1 THEN arr ELSE turn[Len(arr) - 1]

(* A turn of bsearch, none when the key is found or the range is empty; it *)
(* makes the range smaller, so that there are at most as many as members.  *)
Halved(key, arr, r) ==
    LET mid == (r.lo + r.hi) \div 2
    IN  IF r.lo >= r.hi \/ r.found # -1 THEN r
        ELSE IF key = arr[mid + 1] THEN [r EXCEPT !.found = mid]
        ELSE IF key < arr[mid + 1] THEN [r EXCEPT !.hi = mid] ELSE [r EXCEPT !.lo = mid + 1]
Members_ButLast(arr) == Len(arr) - 1
Members(arr)         == Len(arr)
bsearch(key, arr) ==
    LET turn[k \in 0..Len(arr)] == IF k = 0 THEN [lo |-> 0, hi |-> Members(arr), found |-> -1]
                                   ELSE Halved(key, arr, turn[k - 1])
    IN  turn[Len(arr)].found

-----------------------------------------------------------------------------
(* memmove copies what the source held before the call, however the two    *)
(* overlap, and memcpy does so when the destination is not inside the      *)
(* source; nothing else changes.                                           *)
MovesExact(mem, d, s, n) ==
    LET Copied == [i \in DOMAIN mem |-> IF i \in d..(d + n - 1) THEN mem[s + i - d] ELSE mem[i]]
    IN  /\ memmove(mem, d, s, n) = Copied
        /\ d \notin (s + 1)..(s + n - 1) => memcpy(mem, d, s, n) = Copied

(* qsort orders its array and keeps every entry as often as it was there.  *)
Count(arr, v) == Cardinality({i \in DOMAIN arr : arr[i] = v})
Ordered(arr)  == \A i \in 1..(Len(arr) - 1) : arr[i] <= arr[i + 1]
SortsExact(arr) ==
    Len(qsort(arr)) = Len(arr) /\ Ordered(qsort(arr)) /\ \A v \in ToSet(arr) : Count(qsort(arr), v) = Count(arr, v)

(* bsearch in an ordered array finds a key exactly when it is there.       *)
FindsExact(key, arr) ==
    Ordered(arr) => IF key \in ToSet(arr) THEN bsearch(key, arr) + 1 \in DOMAIN arr /\ arr[bsearch(key, arr) + 1] = key
                                          ELSE bsearch(key, arr) = -1
=============================================================================
