---------------------------- MODULE KHeapProofs ----------------------------
(***************************************************************************)
(* Proofs about the kernel heap, for every page, header and split size and *)
(* every amount of memory, as long as no request comes close to 2^32.      *)
(*                                                                         *)
(* Each operation of kmalloc.c is first shown to preserve OKHeap, a        *)
(* predicate of a heap value, and to have a stated effect on the set of    *)
(* allocated blocks; the invariants follow from those effects alone.       *)
(***************************************************************************)
EXTENDS KHeap, TLAPS

\* What every operation preserves.  PaidHeap is part of it because it bounds
\* heap_current and thereby keeps every address below 2^32.
OKHeap(h) == TypedHeap(h) /\ TiledHeap(h) /\ PaidHeap(h)

\* A value below 2^32 is not changed by 32-bit arithmetic.
LEMMA U32Id == ASSUME NEW x \in Int, 0 <= x, x < Word PROVE U32(x) = x
BY HeapAssumption DEF U32

\* Rounding up to whole pages gives at least what was asked for.
LEMMA DivUp ==
  ASSUME NEW n \in Nat, NEW p \in Nat, p > 0
  PROVE  /\ (n + p - 1) \div p \in Nat
         /\ ((n + p - 1) \div p) * p >= n
OBVIOUS

\* The pages expand_heap computes hold the header and the payload.
LEMMA PagesEnough ==
  ASSUME NEW size \in Requests
  PROVE  /\ PagesFor(size) \in Nat
         /\ PagesFor(size) * PAGE_SIZE \in Nat
         /\ PagesFor(size) * PAGE_SIZE >= HDR + size
<1>1. /\ size \in Nat
      /\ HDR + size < Word
      /\ HDR + size + PAGE_SIZE - 1 < Word
      /\ HDR + size + PAGE_SIZE - 1 \in Nat
  BY HeapAssumption
<1>2. U32(HDR + size) = HDR + size
  BY <1>1, U32Id, HeapAssumption
<1>3. U32(HDR + size + PAGE_SIZE - 1) = HDR + size + PAGE_SIZE - 1
  BY <1>1, U32Id, HeapAssumption
<1>4. PagesFor(size) = (HDR + size + PAGE_SIZE - 1) \div PAGE_SIZE
  BY <1>2, <1>3 DEF PagesFor
<1>5. /\ PagesFor(size) \in Nat
      /\ PagesFor(size) * PAGE_SIZE >= HDR + size
  BY <1>1, <1>4, DivUp, HeapAssumption
<1>6. PagesFor(size) * PAGE_SIZE \in Nat
  BY <1>5, HeapAssumption
<1> QED BY <1>5, <1>6

\* The heap stays below 2^32.
LEMMA CurrentBelowWord ==
  ASSUME NEW h, OKHeap(h)
  PROVE  h.current < Word
<1> DEFINE C == Capacity  P == PAGE_SIZE  a == h.avail
<1>1. a \in Nat /\ C \in Nat /\ P \in Nat /\ a <= C
  BY HeapAssumption DEF OKHeap, TypedHeap
<1>2. (C - a) * P <= C * P
  BY <1>1
<1> QED
  BY <1>1, <1>2, HeapAssumption DEF OKHeap, TypedHeap, PaidHeap

\* The blocks of a typed heap are records of naturals.
LEMMA BlockFacts ==
  ASSUME NEW h, TypedHeap(h), NEW b \in Headers(h)
  PROVE  /\ b \in Nat
         /\ h.blk[b].size \in Nat
         /\ h.blk[b].free \in BOOLEAN
         /\ h.blk[b].next \in Nat
         /\ h.blk[b] = [size |-> h.blk[b].size, free |-> h.blk[b].free,
                        next |-> h.blk[b].next]
BY DEF TypedHeap, Block

\* A block lies between KHEAP_START and heap_current.
LEMMA TileFacts ==
  ASSUME NEW h, OKHeap(h), NEW c \in Headers(h)
  PROVE  /\ c \in Nat /\ h.blk[c].size \in Nat /\ h.current \in Nat
         /\ End(h, c) = c + HDR + h.blk[c].size
         /\ End(h, c) \in Nat
         /\ KHEAP_START <= c /\ c < End(h, c) /\ End(h, c) <= h.current
         /\ h.blk[c].next = IF End(h, c) = h.current THEN NULL ELSE End(h, c)
         /\ End(h, c) # h.current => End(h, c) \in Headers(h)
<1>1. c \in Nat /\ h.blk[c].size \in Nat
  BY BlockFacts DEF OKHeap
<1>2. h.current \in Nat /\ HDR \in Nat /\ HDR > 0
  BY HeapAssumption DEF OKHeap, TypedHeap
<1>3. /\ KHEAP_START <= c
      /\ End(h, c) <= h.current
      /\ h.blk[c].next = IF End(h, c) = h.current THEN NULL ELSE End(h, c)
      /\ End(h, c) # h.current => End(h, c) \in Headers(h)
  BY DEF OKHeap, TiledHeap
<1>4. End(h, c) = c + HDR + h.blk[c].size
  BY DEF End
<1> QED BY <1>1, <1>2, <1>3, <1>4

-----------------------------------------------------------------------------
\* Expansion appends one free block, large enough for the request.
LEMMA ExpandOK ==
  ASSUME NEW h, OKHeap(h), NEW size \in Requests,
         PagesFor(size) <= h.avail, NEW e, e = expand_heap(h, size)
  PROVE  /\ OKHeap(e)
         /\ h.current \notin Headers(h)
         /\ Headers(e) = Headers(h) \cup {h.current}
         /\ e.blk[h.current].free
         /\ e.blk[h.current].size >= size
         /\ \A c \in Headers(h) : /\ e.blk[c].free = h.blk[c].free
                                  /\ e.blk[c].size = h.blk[c].size
<1> DEFINE bytes == PagesFor(size) * PAGE_SIZE
           new   == h.current
<1>1. /\ bytes \in Nat
      /\ bytes >= HDR + size
      /\ PagesFor(size) \in Nat
      /\ size \in Nat
      /\ HDR \in Nat /\ HDR > 0
  BY PagesEnough, HeapAssumption
<1>2. new \in Nat /\ h.avail \in Nat
  BY DEF OKHeap, TypedHeap
<1>3. /\ KHEAP_START + (Capacity - (h.avail - PagesFor(size))) * PAGE_SIZE
            >= new + bytes
      /\ (Capacity - (h.avail - PagesFor(size))) * PAGE_SIZE <= Capacity * PAGE_SIZE
  <2> DEFINE n == PagesFor(size)  C == Capacity  P == PAGE_SIZE  a == h.avail
  <2>1. n \in Nat /\ C \in Nat /\ P \in Nat /\ a \in Nat /\ n <= a /\ a <= C
    BY <1>1, HeapAssumption DEF OKHeap, TypedHeap
  <2>2. (C - (a - n)) * P = (C - a) * P + n * P
    BY <2>1
  <2>3. (C - (a - n)) * P <= C * P
    BY <2>1
  <2>4. new - KHEAP_START <= (C - a) * P
    BY DEF OKHeap, PaidHeap
  <2>5. (C - a) * P \in Int /\ n * P \in Int /\ C * P \in Int /\ new \in Int
        /\ KHEAP_START \in Int
    BY <2>1, <1>2, HeapAssumption
  <2> HIDE DEF n, C, P, a
  <2>6. KHEAP_START + (C - (a - n)) * P >= new + n * P
    BY <2>2, <2>4, <2>5
  <2> QED BY <2>3, <2>6 DEF n, C, P, a
<1>4. new + bytes < Word
  BY <1>1, <1>2, <1>3, HeapAssumption
<1>5. U32(bytes - HDR) = bytes - HDR
  <2> HIDE DEF bytes, new
  <2>1. bytes - HDR \in Int /\ 0 <= bytes - HDR /\ bytes - HDR < Word
    BY <1>1, <1>2, <1>4, HeapAssumption
  <2> QED BY <2>1, U32Id
<1>6. \A c \in Headers(h) : /\ c \in Nat /\ c < new /\ End(h, c) <= new
                            /\ KHEAP_START <= c /\ KHEAP_START <= new
  BY TileFacts, HeapAssumption
<1>7. /\ e.blk = [x \in Headers(h) \cup {new} |->
                   IF x = new
                     THEN [size |-> bytes - HDR, free |-> TRUE, next |-> NULL]
                     ELSE [size |-> h.blk[x].size, free |-> h.blk[x].free,
                         next |-> IF h.blk[x].next = NULL THEN new
                                                          ELSE h.blk[x].next]]
      /\ e.head = IF h.head = NULL THEN new ELSE h.head
      /\ e.current = new + bytes
      /\ e.avail = h.avail - PagesFor(size)
  BY <1>5 DEF expand_heap
<1>8. Headers(e) = Headers(h) \cup {new}
  BY <1>7 DEF Headers
<1>9. e.blk[new] = [size |-> bytes - HDR, free |-> TRUE, next |-> NULL]
  BY <1>7
<1>10. \A c \in Headers(h) :
         /\ e.blk[c].size = h.blk[c].size
         /\ e.blk[c].free = h.blk[c].free
         /\ e.blk[c].next = IF h.blk[c].next = NULL THEN new ELSE h.blk[c].next
         /\ e.blk[c] \in Block
  <2> SUFFICES ASSUME NEW c \in Headers(h)
               PROVE  /\ e.blk[c].size = h.blk[c].size
                      /\ e.blk[c].free = h.blk[c].free
                      /\ e.blk[c].next = IF h.blk[c].next = NULL THEN new
                                                              ELSE h.blk[c].next
                      /\ e.blk[c] \in Block
    OBVIOUS
  <2>1. c # new
    BY <1>2, <1>6
  <2>2. e.blk[c] = [size |-> h.blk[c].size, free |-> h.blk[c].free,
                    next |-> IF h.blk[c].next = NULL THEN new ELSE h.blk[c].next]
    BY <1>7, <2>1
  <2>3. /\ h.blk[c].size \in Nat /\ h.blk[c].free \in BOOLEAN
        /\ h.blk[c].next \in Nat /\ new \in Nat
    BY <1>2, BlockFacts DEF OKHeap
  <2> HIDE DEF bytes, new
  <2>4. e.blk[c] \in Block
    BY <2>2, <2>3 DEF Block
  <2> QED BY <2>2, <2>4
<1> HIDE DEF bytes, new
<1>11. TypedHeap(e)
  <2>1. ASSUME NEW x \in Headers(e) PROVE e.blk[x] \in Block
    <3>1. CASE x = new
      BY <3>1, <1>9, <1>1 DEF Block, NULL
    <3>2. CASE x \in Headers(h)
      BY <3>2, <1>10
    <3> QED BY <3>1, <3>2, <1>8
  <2>2. e.blk \in [Headers(e) -> Block]
    BY <2>1, <1>7 DEF Headers
  <2>3. Headers(e) \subseteq Nat
    BY <1>8, <1>2 DEF OKHeap, TypedHeap
  <2>4. e.avail \in 0..Capacity
    BY <1>1, <1>2, <1>7, HeapAssumption DEF OKHeap, TypedHeap
  <2>5. e.head \in Nat /\ e.current \in Nat
    BY <1>1, <1>2, <1>7 DEF OKHeap, TypedHeap
  <2> QED BY <2>2, <2>3, <2>4, <2>5 DEF TypedHeap
<1>12. TiledHeap(e)
  <2>1. /\ e.head = KHEAP_START
        /\ KHEAP_START \in Headers(e)
    BY <1>7, <1>8, HeapAssumption DEF OKHeap, TiledHeap, NULL, new
  <2>2. End(e, new) = e.current
    BY <1>1, <1>2, <1>7, <1>9 DEF End
  <2>3. \A c \in Headers(h) : End(e, c) = End(h, c)
    BY <1>10 DEF End
  <2>4. ASSUME NEW c \in Headers(e)
        PROVE  /\ KHEAP_START <= c
               /\ End(e, c) <= e.current
               /\ e.blk[c].next = IF End(e, c) = e.current THEN NULL ELSE End(e, c)
               /\ End(e, c) # e.current => End(e, c) \in Headers(e)
    <3>1. CASE c = new
      <4>1. KHEAP_START <= new
        <5>1. CASE Headers(h) = {}
          BY <5>1, HeapAssumption DEF OKHeap, TiledHeap, new
        <5> QED BY <5>1, <1>6
      <4> QED BY <4>1, <3>1, <2>2, <1>9, <1>1, <1>2, <1>7
    <3>2. CASE c \in Headers(h)
      <4>1. /\ KHEAP_START <= c /\ End(h, c) \in Nat /\ End(h, c) > 0
            /\ End(h, c) <= new
            /\ h.blk[c].next = IF End(h, c) = new THEN NULL ELSE End(h, c)
            /\ End(h, c) # new => End(h, c) \in Headers(h)
        BY <3>2, TileFacts DEF new
      <4>2. e.current > new
        BY <1>1, <1>2, <1>7
      <4>3. e.blk[c].next = End(h, c)
        BY <3>2, <4>1, <1>10 DEF NULL
      <4> QED BY <3>2, <4>1, <4>2, <4>3, <2>3, <1>8, <1>2, <1>7, <1>1
    <3> QED BY <3>1, <3>2, <1>8
  <2>5. ASSUME NEW b \in Headers(e), NEW c \in Headers(e), b < c
        PROVE  End(e, b) <= c
    <3>1. b \in Headers(h)
      BY <2>5, <1>2, <1>6, <1>8
    <3>2. CASE c = new
      BY <3>1, <3>2, <1>6, <2>3
    <3>3. CASE c \in Headers(h)
      BY <2>5, <3>1, <3>3, <2>3 DEF OKHeap, TiledHeap
    <3> QED BY <3>2, <3>3, <1>8
  <2> QED BY <2>1, <2>4, <2>5 DEF TiledHeap
<1>13. PaidHeap(e)
  BY <1>1, <1>2, <1>3, <1>7, HeapAssumption DEF PaidHeap, bytes, new
<1>14. /\ e.blk[new].free
       /\ e.blk[new].size >= size
       /\ new \notin Headers(h)
  BY <1>1, <1>2, <1>6, <1>9
<1> QED
  BY <1>8, <1>10, <1>11, <1>12, <1>13, <1>14 DEF OKHeap, new

\* Setting a free flag moves nothing.
LEMMA MarkOK ==
  ASSUME NEW h, OKHeap(h), NEW b \in Headers(h), NEW f \in BOOLEAN,
         NEW t, t = Mark(h, b, f)
  PROVE  /\ OKHeap(t)
         /\ Headers(t) = Headers(h)
         /\ t.blk[b].free = f
         /\ \A c \in Headers(h) : /\ t.blk[c].size = h.blk[c].size
                                  /\ c # b => t.blk[c].free = h.blk[c].free
<1> DEFINE m == [size |-> h.blk[b].size, free |-> f, next |-> h.blk[b].next]
<1>1. /\ t.blk = [h.blk EXCEPT ![b] = m]
      /\ t.head = h.head /\ t.current = h.current /\ t.avail = h.avail
  BY DEF Mark, WithBlocks
<1>2. m \in Block
  BY BlockFacts DEF OKHeap, Block
<1>3. h.blk \in [Headers(h) -> Block]
  BY DEF OKHeap, TypedHeap
<1>4. Headers(t) = Headers(h)
  BY <1>1, <1>3 DEF Headers
<1>5. t.blk[b] = m /\ \A c \in Headers(h) : c # b => t.blk[c] = h.blk[c]
  BY <1>1, <1>3
<1>6. /\ t.blk[b].free = f
      /\ \A c \in Headers(h) : /\ t.blk[c].size = h.blk[c].size
                               /\ t.blk[c].next = h.blk[c].next
                               /\ c # b => t.blk[c].free = h.blk[c].free
  BY <1>5
<1>7. t.blk \in [Headers(t) -> Block]
  <2> HIDE DEF m
  <2> QED BY <1>1, <1>2, <1>3, <1>4
<1> HIDE DEF m
<1>8. TypedHeap(t)
  BY <1>1, <1>4, <1>7 DEF OKHeap, TypedHeap
<1>9. \A c \in Headers(h) : End(t, c) = End(h, c)
  BY <1>6 DEF End
<1>10. TiledHeap(t)
  BY <1>1, <1>4, <1>6, <1>9 DEF OKHeap, TiledHeap
<1>11. PaidHeap(t)
  BY <1>1 DEF OKHeap, PaidHeap
<1> QED BY <1>4, <1>6, <1>8, <1>10, <1>11 DEF OKHeap

\* Taking a free block: only that block becomes allocated, the rest of it (if
\* it is split off) is a new free block, all other blocks are as before.
LEMMA TakeOK ==
  ASSUME NEW h, OKHeap(h), NEW b \in Headers(h), h.blk[b].free,
         NEW size \in Nat, size <= h.blk[b].size,
         size + HDR + SLACK < Word, NEW t, t = take(h, b, size)
  PROVE  /\ OKHeap(t)
         /\ Allocated(t) = Allocated(h) \cup {b}
         /\ \A c \in Allocated(h) : t.blk[c].size = h.blk[c].size
         /\ t.blk[b].size >= size
<1> DEFINE split == b + HDR + size
<1>1. /\ HDR \in Nat /\ HDR > 0 /\ SLACK \in Nat /\ Word \in Nat
      /\ b \in Nat /\ h.blk[b].size \in Nat /\ h.current \in Nat
      /\ End(h, b) = b + HDR + h.blk[b].size /\ End(h, b) \in Nat
      /\ End(h, b) <= h.current /\ KHEAP_START <= b /\ KHEAP_START \in Nat
      /\ h.blk[b].next = IF End(h, b) = h.current THEN NULL ELSE End(h, b)
      /\ End(h, b) # h.current => End(h, b) \in Headers(h)
  BY TileFacts, HeapAssumption
<1>2. h.current < Word
  BY CurrentBelowWord
<1>3. U32(size + HDR + SLACK) = size + HDR + SLACK
  BY <1>1, U32Id
<1>4. CASE h.blk[b].size > size + HDR + SLACK
  <2>1. U32(b + HDR + size) = split
    BY <1>1, <1>2, <1>4, U32Id
  <2>2. U32(h.blk[b].size - size - HDR) = h.blk[b].size - size - HDR
    BY <1>1, <1>2, <1>4, U32Id
  <2>3. /\ split \in Nat /\ b < split /\ split < End(h, b)
    BY <1>1, <1>4
  <2>4. split \notin Headers(h)
    <3> SUFFICES ASSUME split \in Headers(h) PROVE FALSE
      OBVIOUS
    <3>1. End(h, b) <= split
      BY <2>3 DEF OKHeap, TiledHeap
    <3> QED BY <3>1, <2>3, <1>1
  <2>5. t = WithBlocks(h, [x \in Headers(h) \cup {split} |->
              IF x = split THEN [size |-> h.blk[b].size - size - HDR,
                                 free |-> TRUE, next |-> h.blk[b].next]
              ELSE IF x = b THEN [size |-> size, free |-> FALSE, next |-> split]
              ELSE h.blk[x]])
    BY <1>3, <1>4, <2>1, <2>2 DEF take
  <2>6. /\ t.blk = [x \in Headers(h) \cup {split} |->
              IF x = split THEN [size |-> h.blk[b].size - size - HDR,
                                 free |-> TRUE, next |-> h.blk[b].next]
              ELSE IF x = b THEN [size |-> size, free |-> FALSE, next |-> split]
              ELSE h.blk[x]]
        /\ t.head = h.head /\ t.current = h.current /\ t.avail = h.avail
    BY <2>5 DEF WithBlocks
  <2>7. Headers(t) = Headers(h) \cup {split}
    BY <2>6 DEF Headers
  <2>8. t.blk[split] = [size |-> h.blk[b].size - size - HDR, free |-> TRUE,
                        next |-> h.blk[b].next]
    BY <2>6
  <2>9. t.blk[b] = [size |-> size, free |-> FALSE, next |-> split]
    BY <2>6, <2>4
  <2>10. \A c \in Headers(h) : c # b => t.blk[c] = h.blk[c]
    BY <2>6, <2>4
  <2> HIDE DEF split
  <2>11. /\ End(t, split) = End(h, b) /\ End(t, b) = split
         /\ t.blk[split].next = h.blk[b].next /\ t.blk[b].next = split
         /\ t.blk[split].free /\ ~t.blk[b].free /\ t.blk[b].size = size
    BY <1>1, <2>8, <2>9 DEF End, split
  <2>12. \A c \in Headers(h) : c # b => End(t, c) = End(h, c)
    BY <2>10 DEF End
  <2>13. TypedHeap(t)
    <3>1. ASSUME NEW x \in Headers(t) PROVE t.blk[x] \in Block
      <4>1. CASE x = split
        <5>1. h.blk[b].next \in Nat
          BY BlockFacts DEF OKHeap
        <5>2. h.blk[b].size - size - HDR \in Nat
          BY <1>1, <1>4
        <5> QED BY <4>1, <2>8, <5>1, <5>2 DEF Block
      <4>2. CASE x = b
        BY <4>2, <2>9, <2>3 DEF Block
      <4>3. CASE x \in Headers(h) /\ x # b
        BY <4>3, <2>10 DEF OKHeap, TypedHeap
      <4> QED BY <4>1, <4>2, <4>3, <2>7
    <3>2. t.blk \in [Headers(t) -> Block]
      BY <3>1, <2>6 DEF Headers
    <3>3. Headers(t) \subseteq Nat
      BY <2>7, <2>3 DEF OKHeap, TypedHeap
    <3> QED BY <3>2, <3>3, <2>6 DEF OKHeap, TypedHeap
  <2>14. TiledHeap(t)
    <3>1. /\ t.head = IF Headers(t) = {} THEN NULL ELSE KHEAP_START
          /\ KHEAP_START \in Headers(t) /\ Headers(t) # {}
      BY <2>6, <2>7 DEF OKHeap, TiledHeap
    <3>2. ASSUME NEW c \in Headers(t)
          PROVE  /\ KHEAP_START <= c
                 /\ End(t, c) <= t.current
                 /\ t.blk[c].next = IF End(t, c) = t.current THEN NULL ELSE End(t, c)
                 /\ End(t, c) # t.current => End(t, c) \in Headers(t)
      <4>1. CASE c = split
        BY <4>1, <1>1, <2>3, <2>6, <2>7, <2>11
      <4>2. CASE c = b
        BY <4>2, <1>1, <2>3, <2>6, <2>7, <2>11
      <4>3. CASE c \in Headers(h) /\ c # b
        BY <4>3, <2>6, <2>7, <2>10, <2>12, TileFacts
      <4> QED BY <4>1, <4>2, <4>3, <2>7
    <3>3. ASSUME NEW c \in Headers(t), NEW d \in Headers(t), c < d
          PROVE  End(t, c) <= d
      <4>0. \A x, y \in Headers(h) : x < y => End(h, x) <= y
        BY DEF OKHeap, TiledHeap
      <4>1. CASE c = split
        \* d lies behind b's old end, since nothing lies inside b
        <5>1. d \in Headers(h) /\ b < d
          BY <4>1, <3>3, <2>7, <2>3, <1>1 DEF OKHeap, TypedHeap
        <5> QED BY <4>1, <5>1, <4>0, <2>11
      <4>2. CASE c = b
        <5>1. CASE d = split
          BY <5>1, <4>2, <2>11, <2>3
        <5>2. CASE d \in Headers(h)
          <6>1. End(h, b) <= d
            BY <5>2, <4>2, <3>3, <4>0
          <6>2. d \in Nat
            BY <5>2 DEF OKHeap, TypedHeap
          <6> QED BY <6>1, <6>2, <4>2, <2>11, <2>3, <1>1
        <5> QED BY <5>1, <5>2, <2>7
      <4>3. CASE c \in Headers(h) /\ c # b
        <5>1. CASE d = split
          <6>1. c \in Nat /\ End(h, c) \in Nat
            BY <4>3, TileFacts
          <6>2. c < b
            <7> SUFFICES ASSUME b < c PROVE FALSE
              BY <6>1, <1>1, <4>3
            <7>1. End(h, b) <= c
              BY <4>0, <4>3
            <7> QED BY <7>1, <5>1, <3>3, <2>3, <1>1, <6>1
          <6>3. End(h, c) <= b
            BY <4>0, <4>3, <6>2
          <6> QED BY <6>3, <6>1, <5>1, <4>3, <2>12, <2>3, <1>1
        <5>2. CASE d \in Headers(h)
          BY <5>2, <4>3, <3>3, <4>0, <2>12
        <5> QED BY <5>1, <5>2, <2>7
      <4> QED BY <4>1, <4>2, <4>3, <2>7
    <3> QED BY <3>1, <3>2, <3>3 DEF TiledHeap
  <2>15. PaidHeap(t)
    BY <2>6 DEF OKHeap, PaidHeap
  <2>16. Allocated(t) = Allocated(h) \cup {b}
    <3>1. ASSUME NEW c \in Headers(t)
          PROVE  ~t.blk[c].free <=> c = b \/ (c \in Headers(h) /\ ~h.blk[c].free)
      <4>1. CASE c = split
        BY <4>1, <2>11, <2>4, <2>3
      <4>2. CASE c = b
        BY <4>2, <2>11
      <4>3. CASE c \in Headers(h) /\ c # b
        BY <4>3, <2>10
      <4> QED BY <4>1, <4>2, <4>3, <2>7
    <3> QED BY <3>1, <2>7 DEF Allocated
  <2>17. \A c \in Allocated(h) : t.blk[c].size = h.blk[c].size
    BY <2>10 DEF Allocated
  <2> QED BY <2>11, <2>13, <2>14, <2>15, <2>16, <2>17 DEF OKHeap
<1>5. CASE ~(h.blk[b].size > size + HDR + SLACK)
  <2>1. t = Mark(h, b, FALSE)
    BY <1>3, <1>5 DEF take
  <2>2. /\ OKHeap(t)
        /\ Headers(t) = Headers(h)
        /\ ~t.blk[b].free
        /\ \A c \in Headers(h) : /\ t.blk[c].size = h.blk[c].size
                                 /\ c # b => t.blk[c].free = h.blk[c].free
    <3>1. PICK f \in BOOLEAN : ~f
      OBVIOUS
    <3>2. t = Mark(h, b, f)
      BY <2>1, <3>1
    <3>3. /\ OKHeap(t)
          /\ Headers(t) = Headers(h)
          /\ t.blk[b].free = f
          /\ \A c \in Headers(h) : /\ t.blk[c].size = h.blk[c].size
                                   /\ c # b => t.blk[c].free = h.blk[c].free
      BY <3>2, MarkOK
    <3> QED BY <3>1, <3>3
  <2>3. Allocated(t) = Allocated(h) \cup {b}
    BY <2>2 DEF Allocated
  <2> QED BY <2>2, <2>3 DEF Allocated
<1> QED BY <1>4, <1>5

\* Freeing an allocated block: it is free now, every other allocated block is
\* as before.
LEMMA FreeBlockOK ==
  ASSUME NEW h, OKHeap(h), NEW b \in Allocated(h), NEW f, f = free_block(h, b)
  PROVE  /\ OKHeap(f)
         /\ Allocated(f) = Allocated(h) \ {b}
         /\ \A c \in Allocated(h) \ {b} : f.blk[c].size = h.blk[c].size
<1> DEFINE n == h.blk[b].next
<1>1. /\ b \in Headers(h) /\ ~h.blk[b].free
      /\ HDR \in Nat /\ HDR > 0 /\ Word \in Nat
      /\ b \in Nat /\ h.blk[b].size \in Nat /\ h.current \in Nat
      /\ End(h, b) = b + HDR + h.blk[b].size /\ End(h, b) \in Nat
      /\ b < End(h, b)
      /\ End(h, b) <= h.current /\ KHEAP_START <= b /\ KHEAP_START \in Nat
      /\ n = IF End(h, b) = h.current THEN NULL ELSE End(h, b)
      /\ End(h, b) # h.current => End(h, b) \in Headers(h)
  BY TileFacts, HeapAssumption DEF Allocated
<1>2. h.current < Word
  BY CurrentBelowWord
<1> HIDE DEF n
<1>4. CASE n # NULL /\ h.blk[n].free
  <2>1. n = End(h, b) /\ n \in Headers(h) /\ b < n /\ n \in Nat
    BY <1>1, <1>4
  <2>2. /\ h.blk[n].size \in Nat /\ h.blk[n].next \in Nat
        /\ End(h, n) = n + HDR + h.blk[n].size
        /\ End(h, n) \in Nat /\ End(h, n) <= h.current
        /\ h.blk[n].next = IF End(h, n) = h.current THEN NULL ELSE End(h, n)
        /\ End(h, n) # h.current => End(h, n) \in Headers(h)
    BY <2>1, TileFacts, BlockFacts DEF OKHeap
  <2> DEFINE s == h.blk[b].size + HDR + h.blk[n].size
  <2>3. s \in Nat /\ U32(s) = s
    BY <1>1, <1>2, <2>1, <2>2, U32Id
  <2> HIDE DEF s
  <2> DEFINE F == [x \in Headers(h) \ {n} |->
              IF x = b THEN [size |-> s, free |-> TRUE, next |-> h.blk[n].next]
                       ELSE h.blk[x]]
  <2>4. f = WithBlocks(h, F)
    BY <1>4, <2>3 DEF free_block, n, s
  <2>5. f.blk = F /\ f.head = h.head /\ f.current = h.current /\ f.avail = h.avail
    <3> HIDE DEF F
    <3> QED BY <2>4 DEF WithBlocks
  <2>6. Headers(f) = Headers(h) \ {n} /\ b \in Headers(f)
    BY <1>1, <2>1, <2>5 DEF Headers
  <2>7. /\ f.blk[b] = [size |-> s, free |-> TRUE, next |-> h.blk[n].next]
        /\ \A c \in Headers(f) : c # b => f.blk[c] = h.blk[c]
    BY <1>1, <2>1, <2>5, <2>6
  <2>8. /\ f.blk[b].size = s /\ f.blk[b].free /\ f.blk[b].next = h.blk[n].next
        /\ End(f, b) = End(h, n)
    <3>1. f.blk[b].size = s /\ f.blk[b].free /\ f.blk[b].next = h.blk[n].next
      BY <2>7
    <3> QED BY <3>1, <1>1, <2>1, <2>2 DEF End, s
  <2>9. TypedHeap(f)
    <3>1. ASSUME NEW x \in Headers(f) PROVE f.blk[x] \in Block
      <4>1. CASE x = b
        <5> HIDE DEF F
        <5>1. [size |-> s, free |-> TRUE, next |-> h.blk[n].next] \in Block
          BY <2>2, <2>3 DEF Block
        <5> QED BY <4>1, <2>7, <5>1
      <4>2. CASE x # b
        BY <4>2, <2>6, <2>7 DEF OKHeap, TypedHeap
      <4> QED BY <4>1, <4>2
    <3>2. f.blk \in [Headers(f) -> Block]
      BY <3>1, <2>5 DEF Headers
    <3> QED BY <3>2, <2>5, <2>6 DEF OKHeap, TypedHeap
  <2>10. \A c \in Headers(f) : c # b => End(f, c) = End(h, c)
    BY <2>7 DEF End
  <2>11. \A x, y \in Headers(h) : x < y => End(h, x) <= y
    BY DEF OKHeap, TiledHeap
  <2>12. TiledHeap(f)
    <3>1. /\ f.head = KHEAP_START
          /\ KHEAP_START \in Headers(f) /\ Headers(f) # {}
      BY <1>1, <2>1, <2>5, <2>6 DEF OKHeap, TiledHeap
    <3>2. ASSUME NEW c \in Headers(f)
          PROVE  /\ KHEAP_START <= c
                 /\ End(f, c) <= f.current
                 /\ f.blk[c].next = IF End(f, c) = f.current THEN NULL ELSE End(f, c)
                 /\ End(f, c) # f.current => End(f, c) \in Headers(f)
      <4>1. CASE c = b
        <5>1. End(h, n) # n
          BY <2>1, <2>2, <1>1
        <5> QED BY <4>1, <5>1, <1>1, <2>2, <2>5, <2>6, <2>8
      <4>2. CASE c # b
        \* no block but b ends where n starts
        <5>1. /\ c \in Headers(h) /\ c \in Nat /\ End(h, c) \in Nat
              /\ c < End(h, c) /\ c # n
              /\ KHEAP_START <= c /\ End(h, c) <= h.current
              /\ h.blk[c].next = IF End(h, c) = h.current THEN NULL ELSE End(h, c)
              /\ End(h, c) # h.current => End(h, c) \in Headers(h)
          BY <2>6, TileFacts
        <5>2. End(h, c) # n
          <6>1. CASE c < b
            <7>1. End(h, c) <= b
              BY <6>1, <5>1, <1>1, <2>11
            <7> QED BY <7>1, <5>1, <1>1, <2>1
          <6>2. CASE b < c
            <7>1. n <= c
              BY <6>2, <5>1, <1>1, <2>1, <2>11
            <7> QED BY <7>1, <5>1, <2>1
          <6> QED BY <6>1, <6>2, <4>2, <5>1, <1>1
        <5> QED BY <4>2, <5>1, <5>2, <2>5, <2>6, <2>7, <2>10
      <4> QED BY <4>1, <4>2
    <3>3. ASSUME NEW c \in Headers(f), NEW d \in Headers(f), c < d
          PROVE  End(f, c) <= d
      <4>1. CASE c = b
        <5>1. d \in Headers(h) /\ d \in Nat /\ d # n
          BY <2>6, TileFacts
        <5>2. n <= d
          BY <5>1, <4>1, <3>3, <2>1, <2>11, <1>1
        <5>3. End(h, n) <= d
          BY <5>1, <5>2, <2>1, <2>11
        <5> QED BY <5>3, <4>1, <2>8
      <4>2. CASE c # b
        BY <4>2, <3>3, <2>6, <2>10, <2>11
      <4> QED BY <4>1, <4>2
    <3> QED BY <3>1, <3>2, <3>3 DEF TiledHeap
  <2>13. PaidHeap(f)
    BY <2>5 DEF OKHeap, PaidHeap
  <2>14. n \notin Allocated(h)
    BY <1>4 DEF Allocated
  <2>15. Allocated(f) = Allocated(h) \ {b}
    BY <2>6, <2>7, <2>8, <2>14 DEF Allocated
  <2>16. \A c \in Allocated(h) \ {b} : f.blk[c].size = h.blk[c].size
    BY <2>6, <2>7, <2>14 DEF Allocated
  <2> QED BY <2>9, <2>12, <2>13, <2>15, <2>16 DEF OKHeap
<1>5. CASE ~(n # NULL /\ h.blk[n].free)
  <2>1. PICK v \in BOOLEAN : v
    OBVIOUS
  <2>2. f = Mark(h, b, v)
    BY <1>5, <2>1 DEF free_block, n
  <2>3. /\ OKHeap(f)
        /\ Headers(f) = Headers(h)
        /\ f.blk[b].free = v
        /\ \A c \in Headers(h) : /\ f.blk[c].size = h.blk[c].size
                                 /\ c # b => f.blk[c].free = h.blk[c].free
    BY <2>2, <1>1, MarkOK
  <2> QED BY <2>1, <2>3 DEF Allocated
<1> QED BY <1>4, <1>5

\* kmalloc either changes no allocated block and returns NULL, or makes one
\* more block allocated and returns its payload.
Granted(h, r, size) ==
  /\ r.ptr \in Nat /\ r.ptr # NULL
  /\ r.ptr - HDR \notin Allocated(h)
  /\ Allocated(r.heap) = Allocated(h) \cup {r.ptr - HDR}
  /\ r.heap.blk[r.ptr - HDR].size >= size

Refused(h, r) == r.ptr = NULL /\ Allocated(r.heap) = Allocated(h)

LEMMA KmallocOK ==
  ASSUME NEW h, OKHeap(h), NEW size \in Requests, NEW r, r = kmalloc(h, size)
  PROVE  /\ OKHeap(r.heap)
         /\ Granted(h, r, size) \/ Refused(h, r)
         /\ \A c \in Allocated(h) : r.heap.blk[c].size = h.blk[c].size
<1>1. /\ size \in Nat /\ size + HDR + SLACK < Word
      /\ HDR \in Nat /\ HDR > 0
  BY HeapAssumption
<1>2. CASE size = 0
  <2>1. r.heap = h /\ r.ptr = NULL
    BY <1>2 DEF kmalloc
  <2> QED BY <2>1 DEF Refused
<1>3. CASE size # 0 /\ find_free(h, size) # {}
  <2> DEFINE b == CHOOSE b \in find_free(h, size) : TRUE
  <2>1. b \in find_free(h, size)
    BY <1>3
  <2>2. r.heap = take(h, b, size) /\ r.ptr = b + HDR
    BY <1>3 DEF kmalloc
  <2> HIDE DEF b
  <2>3. b \in Headers(h) /\ h.blk[b].free /\ size <= h.blk[b].size /\ b \in Nat
    BY <1>1, <2>1, BlockFacts DEF find_free, Fits, OKHeap
  <2>4. /\ OKHeap(r.heap)
        /\ Allocated(r.heap) = Allocated(h) \cup {b}
        /\ \A c \in Allocated(h) : r.heap.blk[c].size = h.blk[c].size
        /\ r.heap.blk[b].size >= size
    BY <1>1, <2>2, <2>3, TakeOK
  <2>5. b \notin Allocated(h)
    BY <2>3 DEF Allocated
  <2>6. r.ptr \in Nat /\ r.ptr # NULL /\ r.ptr - HDR = b
    BY <1>1, <2>2, <2>3 DEF NULL
  <2> QED BY <2>4, <2>5, <2>6 DEF Granted
<1>4. CASE size # 0 /\ find_free(h, size) = {} /\ PagesFor(size) > h.avail
  <2>1. r.heap = Drained(h) /\ r.ptr = NULL
    BY <1>4 DEF kmalloc
  <2> DEFINE d == r.heap
  <2>2. d.blk = h.blk /\ d.head = h.head /\ d.current = h.current /\ d.avail = 0
    BY <2>1 DEF Drained
  <2>3. Headers(d) = Headers(h)
    BY <2>2 DEF Headers
  <2> HIDE DEF d
  <2>4. TypedHeap(d)
    BY <2>2, <2>3, HeapAssumption DEF OKHeap, TypedHeap
  <2>5. \A c \in Headers(h) : End(d, c) = End(h, c)
    BY <2>2 DEF End
  <2>6. TiledHeap(d)
    BY <2>2, <2>3, <2>5 DEF OKHeap, TiledHeap
  <2>7. PaidHeap(d)
    <3> DEFINE C == Capacity  P == PAGE_SIZE  a == h.avail
    <3>1. C \in Nat /\ P \in Nat /\ a \in Nat /\ a <= C
      BY HeapAssumption DEF OKHeap, TypedHeap
    <3>2. (C - a) * P <= (C - 0) * P /\ (C - a) * P \in Int /\ (C - 0) * P \in Int
      BY <3>1
    <3>3. h.current - KHEAP_START <= (C - a) * P /\ h.current - KHEAP_START \in Int
      BY HeapAssumption DEF OKHeap, PaidHeap, TypedHeap
    <3> HIDE DEF C, P, a
    <3>4. h.current - KHEAP_START <= (C - 0) * P
      BY <3>2, <3>3
    <3> QED BY <2>2, <3>4 DEF PaidHeap, C, P
  <2>8. Allocated(d) = Allocated(h)
    BY <2>2, <2>3 DEF Allocated
  <2> QED BY <2>1, <2>2, <2>4, <2>6, <2>7, <2>8 DEF OKHeap, Refused, d
<1>5. CASE size # 0 /\ find_free(h, size) = {} /\ ~(PagesFor(size) > h.avail)
  <2> DEFINE e == expand_heap(h, size)
             b == h.current
  <2>1. r.heap = take(e, b, size) /\ r.ptr = b + HDR
    BY <1>5 DEF kmalloc
  <2>2. PagesFor(size) <= h.avail
    BY <1>5, PagesEnough DEF OKHeap, TypedHeap
  <2> HIDE DEF e
  <2>3. /\ OKHeap(e)
        /\ b \notin Headers(h)
        /\ Headers(e) = Headers(h) \cup {b}
        /\ e.blk[b].free
        /\ e.blk[b].size >= size
        /\ \A c \in Headers(h) : /\ e.blk[c].free = h.blk[c].free
                                 /\ e.blk[c].size = h.blk[c].size
    BY <2>2, ExpandOK DEF e
  <2>4. b \in Headers(e) /\ size <= e.blk[b].size /\ b \in Nat
    <3>1. b \in Headers(e)
      BY <2>3
    <3>2. e.blk[b].size \in Nat /\ b \in Nat
      BY <3>1, <2>3, BlockFacts DEF OKHeap
    <3> QED BY <3>1, <3>2, <2>3, <1>1
  <2>5. /\ OKHeap(r.heap)
        /\ Allocated(r.heap) = Allocated(e) \cup {b}
        /\ \A c \in Allocated(e) : r.heap.blk[c].size = e.blk[c].size
        /\ r.heap.blk[b].size >= size
    BY <1>1, <2>1, <2>3, <2>4, TakeOK
  <2>6. Allocated(e) = Allocated(h) /\ b \notin Allocated(h)
    BY <2>3 DEF Allocated
  <2>7. \A c \in Allocated(h) : r.heap.blk[c].size = h.blk[c].size
    BY <2>3, <2>5, <2>6 DEF Allocated
  <2>8. r.ptr \in Nat /\ r.ptr # NULL /\ r.ptr - HDR = b
    BY <1>1, <2>1, <2>4 DEF NULL
  <2> QED BY <2>5, <2>6, <2>7, <2>8 DEF Granted
<1> QED BY <1>2, <1>3, <1>4, <1>5

-----------------------------------------------------------------------------
(***************************************************************************)
(* The holders.  Served is HoldersServed with the types of live; Inv is    *)
(* the inductive invariant.                                                *)
(***************************************************************************)
Served(h, l) ==
  /\ DOMAIN l \subseteq Nat
  /\ l \in [DOMAIN l -> Nat]
  /\ Allocated(h) = {p - HDR : p \in DOMAIN l}
  /\ \A p \in DOMAIN l : l[p] <= h.blk[p - HDR].size

Inv == OKHeap(heap) /\ Served(heap, live)

\* No block that stays held changes its extent.
Stable(h, l, g, m) ==
  \A p \in DOMAIN l \cap DOMAIN m : g.blk[p - HDR].size = h.blk[p - HDR].size

\* Pointers are told apart by their headers.
LEMMA PtrInjective ==
  ASSUME NEW p \in Nat, NEW q \in Nat
  PROVE  p - HDR = q - HDR <=> p = q
BY HeapAssumption

\* The holder of a granted block joins the others.
LEMMA HoldServed ==
  ASSUME NEW h, NEW l, Served(h, l), NEW r, NEW size \in Nat, NEW amount \in Nat,
         amount <= size,
         OKHeap(r.heap),
         Granted(h, r, size) \/ Refused(h, r),
         \A c \in Allocated(h) : r.heap.blk[c].size = h.blk[c].size,
         NEW m, m = Hold(l, r.ptr, amount)
  PROVE  /\ Served(r.heap, m)
         /\ Stable(h, l, r.heap, m)
<1>1. \A p \in DOMAIN l : p \in Nat /\ p - HDR \in Allocated(h)
                          /\ r.heap.blk[p - HDR].size = h.blk[p - HDR].size
                          /\ l[p] \in Nat /\ l[p] <= h.blk[p - HDR].size
  BY DEF Served
<1>2. CASE Refused(h, r)
  <2>1. m = l
    BY <1>2 DEF Hold, Refused
  <2> QED BY <1>1, <1>2, <2>1 DEF Served, Refused, Stable
<1>3. CASE Granted(h, r, size)
  <2> DEFINE q == r.ptr
  <2>1. q \in Nat /\ q # NULL /\ q - HDR \notin Allocated(h)
    BY <1>3 DEF Granted
  <2>2. q \notin DOMAIN l
    BY <1>1, <2>1
  <2>3. m = [p \in DOMAIN l \cup {q} |-> IF p = q THEN amount ELSE l[p]]
    BY <2>1 DEF Hold
  <2>4. /\ DOMAIN m = DOMAIN l \cup {q}
        /\ m[q] = amount
        /\ \A p \in DOMAIN l : m[p] = l[p]
    BY <2>2, <2>3
  <2>5. DOMAIN m \subseteq Nat
    BY <1>1, <2>1, <2>4
  <2>6. m \in [DOMAIN m -> Nat]
    BY <1>1, <2>3
  <2>7. Allocated(r.heap) = {p - HDR : p \in DOMAIN m}
    BY <1>3, <2>4 DEF Granted, Served
  <2>8. amount <= r.heap.blk[q - HDR].size
    <3>1. q - HDR \in Headers(r.heap)
      BY <1>3 DEF Granted, Allocated
    <3>2. r.heap.blk[q - HDR].size \in Nat
      BY <3>1, BlockFacts DEF OKHeap
    <3> QED BY <3>2, <1>3 DEF Granted
  <2>9. \A p \in DOMAIN m : m[p] <= r.heap.blk[p - HDR].size
    BY <1>1, <2>4, <2>8
  <2>10. Stable(h, l, r.heap, m)
    BY <1>1 DEF Stable
  <2> QED BY <2>5, <2>6, <2>7, <2>9, <2>10 DEF Served
<1> QED BY <1>2, <1>3

\* Giving a block back leaves the other holders served.
LEMMA DropServed ==
  ASSUME NEW h, OKHeap(h), NEW l, Served(h, l), NEW ptr \in DOMAIN l,
         NEW f, f = kfree(h, ptr), NEW m, m = Drop(l, ptr)
  PROVE  OKHeap(f) /\ Served(f, m) /\ Stable(h, l, f, m)
<1> DEFINE b == ptr - HDR
<1>1. b \in Allocated(h) /\ ptr \in Nat
  BY DEF Served
<1>2. f = free_block(h, b)
  BY DEF kfree
<1>3. /\ OKHeap(f)
      /\ Allocated(f) = Allocated(h) \ {b}
      /\ \A c \in Allocated(h) \ {b} : f.blk[c].size = h.blk[c].size
  <2> HIDE DEF b
  <2> QED BY <1>1, <1>2, FreeBlockOK
<1>4. /\ DOMAIN m = DOMAIN l \ {ptr}
      /\ \A p \in DOMAIN m : m[p] = l[p]
      /\ m = [p \in DOMAIN l \ {ptr} |-> l[p]]
  BY DEF Drop
<1>5. \A p \in DOMAIN m : /\ p \in Nat /\ l[p] \in Nat
                          /\ p - HDR \in Allocated(h) /\ p - HDR # b
                          /\ l[p] <= h.blk[p - HDR].size
  <2> SUFFICES ASSUME NEW p \in DOMAIN m
               PROVE  /\ p \in Nat /\ l[p] \in Nat
                      /\ p - HDR \in Allocated(h) /\ p - HDR # b
                      /\ l[p] <= h.blk[p - HDR].size
    OBVIOUS
  <2>1. p \in DOMAIN l /\ p # ptr
    BY <1>4
  <2>2. p \in Nat
    BY <2>1 DEF Served
  <2>3. p - HDR # b
    BY <2>1, <2>2, <1>1, PtrInjective
  <2> QED BY <2>1, <2>2, <2>3 DEF Served
<1>6. m \in [DOMAIN m -> Nat] /\ DOMAIN m \subseteq Nat
  BY <1>4, <1>5
<1>7. Allocated(f) = {p - HDR : p \in DOMAIN m}
  <2>1. \A c \in Allocated(f) : \E p \in DOMAIN m : c = p - HDR
    BY <1>3, <1>4 DEF Served
  <2>2. \A p \in DOMAIN m : p - HDR \in Allocated(f)
    BY <1>3, <1>5
  <2> QED BY <2>1, <2>2
<1>8. \A p \in DOMAIN m : m[p] <= f.blk[p - HDR].size
  BY <1>3, <1>4, <1>5
<1>9. Stable(h, l, f, m)
  BY <1>3, <1>5 DEF Stable
<1> QED BY <1>3, <1>6, <1>7, <1>8, <1>9 DEF Served

-----------------------------------------------------------------------------
\* The blocks that stay held keep their extent in this step.
StepStable == Stable(heap, live, heap', live')

LEMMA InitInv == Init => Inv
<1> SUFFICES ASSUME Init PROVE Inv
  OBVIOUS
<1>1. /\ heap.blk = [x \in {} |-> NULL] /\ heap.head = NULL
      /\ heap.current = KHEAP_START /\ heap.avail = Capacity
      /\ live = [p \in {} |-> 0]
  BY DEF Init
<1>2. Headers(heap) = {} /\ Allocated(heap) = {} /\ DOMAIN live = {}
  BY <1>1 DEF Headers, Allocated
<1>3. TypedHeap(heap)
  BY <1>1, <1>2, HeapAssumption DEF TypedHeap, NULL, Headers
<1>4. TiledHeap(heap)
  BY <1>1, <1>2 DEF TiledHeap
<1>5. PaidHeap(heap)
  BY <1>1, HeapAssumption DEF PaidHeap
<1>6. Served(heap, live)
  BY <1>1, <1>2 DEF Served
<1> QED BY <1>3, <1>4, <1>5, <1>6 DEF Inv, OKHeap

LEMMA MallocInv ==
  ASSUME Inv, NEW size \in Requests, Malloc(size)
  PROVE  Inv' /\ StepStable
<1> DEFINE r == kmalloc(heap, size)
<1>1. heap' = r.heap /\ live' = Hold(live, r.ptr, size)
  BY DEF Malloc
<1>2. /\ OKHeap(r.heap)
      /\ Granted(heap, r, size) \/ Refused(heap, r)
      /\ \A c \in Allocated(heap) : r.heap.blk[c].size = heap.blk[c].size
  BY KmallocOK DEF Inv
<1>3. size \in Nat /\ size <= size
  BY HeapAssumption
<1> HIDE DEF r
<1>4. Served(r.heap, live') /\ Stable(heap, live, r.heap, live')
  BY <1>1, <1>2, <1>3, HoldServed DEF Inv
<1>5. OKHeap(heap)' /\ Served(heap, live)' /\ Stable(heap, live, heap', live')
  BY <1>1, <1>2, <1>4
<1> QED BY <1>5 DEF Inv, StepStable

\* The rounded size is no smaller than the size asked for.
LEMMA AlignedInv ==
  ASSUME Inv, NEW size \in Requests, AlignedSize(size) \in Requests,
         kmalloc_aligned(size)
  PROVE  Inv' /\ StepStable
<1> DEFINE big == AlignedSize(size)
           r   == kmalloc(heap, big)
<1>1. heap' = r.heap /\ live' = Hold(live, r.ptr, size)
  BY DEF kmalloc_aligned
<1>2. size \in Nat /\ big \in Nat /\ size <= big
  <2>1. size \in Nat /\ ALIGN \in Nat /\ ALIGN > 0
        /\ size + ALIGN - 1 \in Nat /\ size + ALIGN - 1 < Word
    BY HeapAssumption
  <2>2. U32(size + ALIGN - 1) = size + ALIGN - 1
    BY <2>1, U32Id
  <2>3. big = ((size + ALIGN - 1) \div ALIGN) * ALIGN
    BY <2>2 DEF AlignedSize
  <2>4. big >= size
    BY <2>1, <2>3, DivUp
  <2>5. big \in Nat
    BY HeapAssumption
  <2> HIDE DEF big
  <2> QED BY <2>1, <2>4, <2>5
<1> HIDE DEF big
<1>3. /\ OKHeap(r.heap)
      /\ Granted(heap, r, big) \/ Refused(heap, r)
      /\ \A c \in Allocated(heap) : r.heap.blk[c].size = heap.blk[c].size
  BY KmallocOK DEF Inv, big
<1> HIDE DEF r
<1>4. Served(r.heap, live') /\ Stable(heap, live, r.heap, live')
  BY <1>1, <1>2, <1>3, HoldServed DEF Inv
<1>5. OKHeap(heap)' /\ Served(heap, live)' /\ Stable(heap, live, heap', live')
  BY <1>1, <1>3, <1>4
<1> QED BY <1>5 DEF Inv, StepStable

\* A product that does not wrap is allocated in full.
LEMMA CallocInv ==
  ASSUME Inv, NEW count \in Counts, NEW size \in Requests,
         count * size \in Requests, kcalloc(count, size)
  PROVE  Inv' /\ StepStable
<1> DEFINE total == count * size
           r     == kmalloc(heap, total)
<1>1. total \in Nat /\ total <= total /\ U32(total) = total
  BY HeapAssumption, U32Id
<1>2. heap' = r.heap /\ live' = Hold(live, r.ptr, total)
  BY <1>1 DEF kcalloc
<1> HIDE DEF total
<1>3. /\ OKHeap(r.heap)
      /\ Granted(heap, r, total) \/ Refused(heap, r)
      /\ \A c \in Allocated(heap) : r.heap.blk[c].size = heap.blk[c].size
  BY KmallocOK DEF Inv, total
<1> HIDE DEF r
<1>4. Served(r.heap, live') /\ Stable(heap, live, r.heap, live')
  BY <1>1, <1>2, <1>3, HoldServed DEF Inv
<1>5. OKHeap(heap)' /\ Served(heap, live)' /\ Stable(heap, live, heap', live')
  BY <1>2, <1>3, <1>4
<1> QED BY <1>5 DEF Inv, StepStable

LEMMA FreeInv ==
  ASSUME Inv, NEW ptr \in DOMAIN live, Free(ptr)
  PROVE  Inv' /\ StepStable
<1>1. OKHeap(heap') /\ Served(heap', live') /\ Stable(heap, live, heap', live')
  BY DropServed DEF Inv, Free
<1> QED BY <1>1 DEF Inv, StepStable

\* Growing a block: either in place, or by a new block and then a free.
LEMMA ReallocInv ==
  ASSUME Inv, NEW ptr \in DOMAIN live \cup {NULL}, NEW size \in Requests,
         krealloc(ptr, size)
  PROVE  Inv' /\ StepStable
<1>1. CASE ptr = NULL
  BY <1>1, MallocInv DEF krealloc
<1>2. CASE ptr # NULL /\ size = 0
  BY <1>2, FreeInv DEF krealloc
<1>3. CASE ptr # NULL /\ size # 0 /\ heap.blk[ptr - HDR].size >= size
  <2>1. heap' = heap /\ live' = Hold(live, ptr, size)
    BY <1>3 DEF krealloc
  <2>2. live' = [p \in DOMAIN live \cup {ptr} |-> IF p = ptr THEN size ELSE live[p]]
    BY <1>3, <2>1 DEF Hold
  <2>3. ptr \in DOMAIN live /\ size \in Nat
    BY <1>3, HeapAssumption
  <2>4. DOMAIN live' = DOMAIN live
    BY <2>2, <2>3
  <2>5. /\ live'[ptr] = size
        /\ \A p \in DOMAIN live : p # ptr => live'[p] = live[p]
    BY <2>2, <2>3
  <2>6. live' \in [DOMAIN live' -> Nat]
    BY <2>2, <2>3, <2>4 DEF Inv, Served
  <2>7. \A p \in DOMAIN live' : live'[p] <= heap'.blk[p - HDR].size
    <3>1. heap.blk[ptr - HDR].size \in Nat
      <4>1. ptr - HDR \in Headers(heap)
        BY <2>3 DEF Inv, Served, Allocated
      <4> QED BY <4>1, BlockFacts DEF Inv, OKHeap
    <3>2. size <= heap'.blk[ptr - HDR].size
      BY <3>1, <2>1, <2>3, <1>3
    <3> QED BY <3>2, <2>1, <2>4, <2>5 DEF Inv, Served
  <2>8. OKHeap(heap') /\ Served(heap', live') /\ Stable(heap, live, heap', live')
    BY <2>1, <2>4, <2>6, <2>7 DEF Inv, Served, Stable
  <2> QED BY <2>8 DEF Inv, StepStable
<1>4. CASE ptr # NULL /\ size # 0 /\ ~(heap.blk[ptr - HDR].size >= size)
  <2> DEFINE r == kmalloc(heap, size)
  <2>1. /\ OKHeap(r.heap)
        /\ Granted(heap, r, size) \/ Refused(heap, r)
        /\ \A c \in Allocated(heap) : r.heap.blk[c].size = heap.blk[c].size
    BY KmallocOK DEF Inv
  <2>2. \/ r.ptr = NULL /\ heap' = r.heap /\ live' = live
        \/ /\ r.ptr # NULL
           /\ heap' = kfree(r.heap, ptr)
           /\ live' = Hold(Drop(live, ptr), r.ptr, size)
    BY <1>4 DEF krealloc
  <2>3. size \in Nat /\ size <= size /\ ptr \in DOMAIN live
    BY <1>4, HeapAssumption
  <2> HIDE DEF r
  <2>4. CASE r.ptr = NULL
    <3>1. Refused(heap, r)
      BY <2>1, <2>4 DEF Granted
    <3>2. live' = Hold(live, r.ptr, size) /\ heap' = r.heap
      BY <2>2, <2>4 DEF Hold
    <3>3. Served(r.heap, live') /\ Stable(heap, live, r.heap, live')
      BY <2>1, <2>3, <3>2, HoldServed DEF Inv
    <3>4. OKHeap(heap') /\ Served(heap', live') /\ Stable(heap, live, heap', live')
      BY <2>1, <3>2, <3>3
    <3> QED BY <3>4 DEF Inv, StepStable
  <2>5. CASE r.ptr # NULL
    \* both blocks are held for a moment: mid, then the old one is dropped
    <3> DEFINE mid == Hold(live, r.ptr, size)
    <3>1. Granted(heap, r, size)
      BY <2>1, <2>5 DEF Refused
    <3>2. Served(r.heap, mid) /\ Stable(heap, live, r.heap, mid)
      BY <2>1, <2>3, HoldServed DEF Inv
    <3>3. mid = [p \in DOMAIN live \cup {r.ptr} |-> IF p = r.ptr THEN size ELSE live[p]]
      BY <2>5 DEF Hold
    <3>4. ptr # r.ptr /\ ptr \in DOMAIN mid
      <4>1. ptr - HDR \in Allocated(heap) /\ r.ptr - HDR \notin Allocated(heap)
        BY <2>3, <3>1 DEF Granted, Inv, Served
      <4> QED BY <4>1, <3>3, <2>3
    <3>5. live' = Drop(mid, ptr)
      <4>1. live' = [p \in (DOMAIN live \ {ptr}) \cup {r.ptr} |->
                       IF p = r.ptr THEN size ELSE live[p]]
        BY <2>2, <2>5 DEF Hold, Drop
      <4>2. (DOMAIN live \ {ptr}) \cup {r.ptr} = DOMAIN mid \ {ptr}
        BY <3>3, <3>4
      <4> QED BY <4>1, <4>2, <3>3 DEF Drop
    <3> HIDE DEF mid
    <3>6. /\ OKHeap(heap') /\ Served(heap', live')
          /\ Stable(r.heap, mid, heap', live')
      BY <2>1, <2>2, <2>5, <3>2, <3>4, <3>5, DropServed
    <3>7. Stable(heap, live, heap', live')
      <4>1. DOMAIN live \subseteq DOMAIN mid
        BY <3>3 DEF mid
      <4> QED BY <4>1, <3>2, <3>6 DEF Stable
    <3> QED BY <3>6, <3>7 DEF Inv, StepStable
  <2> QED BY <2>4, <2>5
<1> QED BY <1>1, <1>2, <1>3, <1>4

LEMMA StepInv == Inv /\ [Next]_vars => Inv' /\ StepStable
<1> SUFFICES ASSUME Inv, [Next]_vars PROVE Inv' /\ StepStable
  OBVIOUS
<1>1. ASSUME NEW size \in Requests, Malloc(size) PROVE Inv' /\ StepStable
  BY <1>1, MallocInv
<1>2. ASSUME NEW size \in Requests, AlignedSize(size) \in Requests,
             kmalloc_aligned(size)
      PROVE  Inv' /\ StepStable
  BY <1>2, AlignedInv
<1>3. ASSUME NEW count \in Counts, NEW size \in Requests,
             count * size \in Requests, kcalloc(count, size)
      PROVE  Inv' /\ StepStable
  BY <1>3, CallocInv
<1>4. ASSUME NEW ptr \in DOMAIN live \cup {NULL}, NEW size \in Requests,
             krealloc(ptr, size)
      PROVE  Inv' /\ StepStable
  BY <1>4, ReallocInv
<1>5. ASSUME NEW ptr \in DOMAIN live, Free(ptr) PROVE Inv' /\ StepStable
  BY <1>5, FreeInv
<1>6. CASE UNCHANGED vars
  <2>1. heap' = heap /\ live' = live
    BY <1>6 DEF vars
  <2>2. OKHeap(heap') /\ Served(heap', live') /\ Stable(heap, live, heap', live')
    BY <2>1 DEF Inv, Stable
  <2> QED BY <2>2 DEF Inv, StepStable
<1> QED BY <1>1, <1>2, <1>3, <1>4, <1>5, <1>6 DEF Next

-----------------------------------------------------------------------------
(***************************************************************************)
(* Types are kept and no more frames are taken than there are.             *)
(***************************************************************************)
THEOREM HeapTyped == Spec => []TypeOK
<1>1. Inv => TypeOK
  BY DEF Inv, OKHeap, Served, TypeOK
<1>2. Inv /\ [Next]_vars => Inv'
  BY StepInv
<1> QED BY InitInv, <1>1, <1>2, PTL DEF Spec

(***************************************************************************)
(* After any sequence of kmalloc, kcalloc, krealloc and kfree calls the    *)
(* list is in address order and its blocks tile the heap without gap or    *)
(* overlap.                                                                *)
(***************************************************************************)
THEOREM HeapTiled == Spec => []Tiled
<1>1. Inv => Tiled
  BY DEF Inv, OKHeap, Tiled
<1>2. Inv /\ [Next]_vars => Inv'
  BY StepInv
<1> QED BY InitInv, <1>1, <1>2, PTL DEF Spec

(***************************************************************************)
(* The allocated blocks are exactly those held, each as large as asked.    *)
(***************************************************************************)
THEOREM HeapServes == Spec => []HoldersServed
<1>1. Inv => HoldersServed
  BY DEF Inv, Served, HoldersServed
<1>2. Inv /\ [Next]_vars => Inv'
  BY StepInv
<1> QED BY InitInv, <1>1, <1>2, PTL DEF Spec

(***************************************************************************)
(* No call disturbs a block somebody else holds.                           *)
(***************************************************************************)
THEOREM HeapStable == Spec => HeldBlocksStable
<1> DEFINE Kept ==
      \A p \in DOMAIN live \cap DOMAIN live' :
        /\ p - HDR \in Headers(heap) \cap Headers(heap')
        /\ heap'.blk[p - HDR].size = heap.blk[p - HDR].size
<1>1. Inv /\ Inv' /\ StepStable => Kept
  BY DEF Inv, Served, Allocated, StepStable, Stable
<1>2. Inv /\ [Next]_vars => Inv' /\ [Kept]_vars
  <2> HIDE DEF Kept
  <2> QED BY <1>1, StepInv
<1>3. HeldBlocksStable <=> [][Kept]_vars
  BY DEF HeldBlocksStable
<1> HIDE DEF Kept
<1> QED BY InitInv, <1>2, <1>3, PTL DEF Spec

(***************************************************************************)
(* The heap never covers more pages than the frames it took, so it never   *)
(* grows past the memory there is, whatever fails on the way.              *)
(***************************************************************************)
THEOREM HeapPaid == Spec => []PagesPaidFor
<1>1. Inv => PagesPaidFor
  BY DEF Inv, OKHeap, PagesPaidFor
<1>2. Inv /\ [Next]_vars => Inv'
  BY StepInv
<1> QED BY InitInv, <1>1, <1>2, PTL DEF Spec
=============================================================================
