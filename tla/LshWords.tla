------------------------------ MODULE LshWords ------------------------------
(***************************************************************************)
(* lsh_u32 and lsh_u64 as sequences of 16-bit limbs, the highest first, so *)
(* that TLC's integers hold every intermediate value.                      *)
(***************************************************************************)
EXTENDS Integers, Sequences, Bitwise

\* The sequence f, as a tuple that TLC evaluates once.
Limbs(f) == f \o <<>>

WAdd(a, b) ==
    LET n == Len(a)
        s[i \in 1..n + 1] == IF i = n + 1 THEN 0 ELSE a[i] + b[i] + (s[i + 1] \div 65536)
    IN Limbs([i \in 1..n |-> s[i] % 65536])

WXor(a, b) == Limbs([i \in 1..Len(a) |-> a[i] ^^ b[i]])

\* ROTL and ROTL64, for 0 < r < the width.
WRotl(a, r) ==
    LET n == Len(a)
        at(i) == a[((i - 1) % n) + 1]
        q == r \div 16
        s == r % 16
    IN Limbs([i \in 1..n |-> ((at(i + q) * 2^s) % 65536) + (at(i + q + 1) \div 2^(16 - s))])

\* Byte k of a word in memory: the lowest first, as loadLE32 and loadLE64 read.
WByte(w, k) ==
    LET limb == w[Len(w) - (k \div 2)]
    IN IF k % 2 = 0 THEN limb % 256 ELSE limb \div 256

WNat(limbs, n) == [i \in 1..limbs |-> IF i = limbs THEN n ELSE 0]

\* A block of blkBytes bytes as 32 words of the given number of limbs.
WBlock(limbs, bytes) ==
    [k \in 1..32 |-> [i \in 1..limbs |->
        LET at == (k - 1) * 2 * limbs + 2 * (limbs - i) + 1
        IN bytes[at] + 256 * bytes[at + 1]]]
=============================================================================
