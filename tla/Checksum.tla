------------------------------ MODULE Checksum ------------------------------
(***************************************************************************)
(* The checksums of net/net.c.  A byte has ByteBits bits (8 in the code);  *)
(* a word is two bytes, the low one first.  sum[k] is what the loop has    *)
(* added after k words.                                                    *)
(***************************************************************************)
EXTENDS Integers, Sequences

CONSTANT ByteBits

ASSUME ChecksumAssumption == ByteBits \in Nat /\ 2^ByteBits \in Nat \ {0, 1}

ByteSize == 2^ByteBits
Word     == ByteSize * ByteSize

SumOf(bytes) ==
    LET sum[k \in 0..(Len(bytes) \div 2)] ==
          IF k = 0 THEN 0 ELSE sum[k - 1] + bytes[2 * k - 1] + bytes[2 * k] * ByteSize
    IN  sum[Len(bytes) \div 2] + IF Len(bytes) % 2 = 1 THEN bytes[Len(bytes)] ELSE 0

Once(sum)        == (sum \div Word) + (sum % Word)
Folded_Once(sum) == Once(sum) % Word
Folded(sum)      == LET s == Once(sum) IN (s + s \div Word) % Word
net_checksum(bytes) == (Word - 1) - Folded(SumOf(bytes))

(* The pseudo header: the addresses, a zero and the protocol, the length.  *)
tcp_checksum(pseudo, segment) == (Word - 1) - Folded(SumOf(pseudo) + SumOf(segment))

-----------------------------------------------------------------------------
(* The bytes with a checksum in word p.                                    *)
Summed(bytes, p, sum) == [bytes EXCEPT ![2 * p - 1] = sum % ByteSize, ![2 * p] = sum \div ByteSize]

(* A header or segment whose checksum was computed with zero in its place  *)
(* sums up to nothing, which is what a receiver tests.                     *)
VerifiesExact(pseudo, bytes, p) ==
    /\ net_checksum(Summed(bytes, p, net_checksum(Summed(bytes, p, 0)))) = 0
    /\ tcp_checksum(pseudo, Summed(bytes, p, tcp_checksum(pseudo, Summed(bytes, p, 0)))) = 0
=============================================================================
