------------------------- MODULE LeaOnline_proofs -------------------------
(***************************************************************************)
(* Proofs about LeaOnline: a message in pieces is treated as the message   *)
(* in one piece, and what came out turns back into what went in, for every *)
(* block cipher, length of a block, message and cut.                       *)
(*                                                                         *)
(* Every mode is a register, which a block of the message moves (StepOf),  *)
(* and a block of output, made of the register and the block (OutOf).      *)
(* That the functions of LeaModes are of this form is shown once for each  *)
(* (CryptIs); the rest speaks of registers.                                *)
(***************************************************************************)
EXTENDS LeaOnline, SequenceTheorems, WellFoundedInduction, TLAPS

-----------------------------------------------------------------------------
(* Numbers *)

\* What is left over names the quotient.
LEMMA DivUnique ==
  ASSUME NEW d \in Nat \ {0}, NEW q \in Nat, NEW r \in 0..d - 1
  PROVE  (q * d + r) \div d = q /\ (q * d + r) % d = r
<1> DEFINE m == q * d + r
           p == m \div d
           s == m % d
<1>1. m \in Nat
  OBVIOUS
<1>2. p \in Nat /\ s \in 0..d - 1 /\ m = p * d + s
  <2> HIDE DEF m
  <2> QED BY <1>1
<1> HIDE DEF p, s
<1>3. p * d + s = q * d + r
  BY <1>2
<1>4. ~(p > q)
  <2> SUFFICES ASSUME p > q PROVE FALSE
    OBVIOUS
  <2>1. PICK e \in Nat : p = q + 1 + e
    <3>1. p - q - 1 \in Nat /\ p = q + 1 + (p - q - 1)
      BY <1>2
    <3> QED BY <3>1
  <2>2. p * d = q * d + d + e * d /\ e * d \in Nat
    BY <2>1
  <2> QED BY <2>2, <1>3, <1>2
<1>5. ~(q > p)
  <2> SUFFICES ASSUME q > p PROVE FALSE
    OBVIOUS
  <2>1. PICK e \in Nat : q = p + 1 + e
    <3>1. q - p - 1 \in Nat /\ q = p + 1 + (q - p - 1)
      BY <1>2
    <3> QED BY <3>1
  <2>2. q * d = p * d + d + e * d /\ e * d \in Nat
    BY <2>1, <1>2
  <2> QED BY <2>2, <1>3, <1>2
<1>6. p = q
  BY <1>4, <1>5, <1>2
<1> QED BY <1>6, <1>3, <1>2 DEF p, s, m

\* k whole blocks before n bytes.
LEMMA DivShift ==
  ASSUME NEW d \in Nat \ {0}, NEW k \in Nat, NEW n \in Nat
  PROVE  /\ (k * d + n) \div d = k + n \div d
         /\ (k * d + n) % d = n % d
         /\ n \div d \in Nat /\ n % d \in 0..d - 1 /\ n = (n \div d) * d + (n % d)
<1> DEFINE q == n \div d
           r == n % d
<1>1. q \in Nat /\ r \in 0..d - 1 /\ n = q * d + r
  OBVIOUS
<1> HIDE DEF q, r
<1>2. k * d + n = (k + q) * d + r /\ k + q \in Nat
  BY <1>1
<1>3. (k * d + n) \div d = k + q /\ (k * d + n) % d = r
  BY <1>1, <1>2, DivUnique
<1> QED BY <1>1, <1>3 DEF q, r

-----------------------------------------------------------------------------
(* Induction over the blocks of a message *)

\* A set that holds 0 and with every number the next one holds them all.
LEMMA SetInduction ==
  ASSUME NEW S, 0 \in S, \A n \in Nat : n \in S => n + 1 \in S
  PROVE  Nat \subseteq S
<1>. DEFINE T == Nat \ S
<1>. SUFFICES ASSUME T # {}
              PROVE  FALSE
  OBVIOUS
<1>1. PICK x \in T : \A y \in T : <<y, x>> \notin OpToRel(<, Nat)
  <2>1. T \subseteq Nat
    OBVIOUS
  <2>. HIDE DEF T
  <2>. QED
    BY <2>1, WFMin, NatLessThanWellFounded, Zenon
<1>2. x \in Nat /\ x # 0 /\ x \notin S
  BY <1>1
<1>3. x - 1 \in Nat /\ x - 1 < x /\ (x - 1) + 1 = x
  BY <1>2
<1>4. <<x - 1, x>> \in OpToRel(<, Nat)
  BY <1>2, <1>3, Zenon DEF OpToRel
<1>5. x - 1 \in S
  BY <1>1, <1>3, <1>4
<1>. QED
  BY <1>2, <1>3, <1>5

\* A set of numbers that is not empty has a least one.
LEMMA NatLeast ==
  ASSUME NEW T, T \subseteq Nat, T # {} PROVE \E x \in T : \A y \in T : x <= y
<1>1. PICK x \in T : \A y \in T : <<y, x>> \notin OpToRel(<, Nat)
  BY WFMin, NatLessThanWellFounded, Zenon
<1>2. ASSUME NEW y \in T PROVE x <= y
  <2>1. x \in Nat /\ y \in Nat
    OBVIOUS
  <2>2. ~(y < x)
    BY <1>1, <2>1, Zenon DEF OpToRel
  <2> QED BY <2>1, <2>2
<1> QED BY <1>2

\* A register that starts at a and is moved n times, the i-th time by h[i].
Moves(S, a, n, h) == {f \in [0..n -> S] : f[0] = a /\ \A i \in 1..n : f[i] = h[i][f[i - 1]]}

\* There is a sequence of registers for every start and every way to move.
LEMMA MovesExist ==
  ASSUME NEW S, NEW a \in S, NEW n \in Nat, NEW h \in [1..n -> [S -> S]]
  PROVE  Moves(S, a, n, h) # {}
<1> DEFINE P(k, f) == f \in [0..k -> S] /\ f[0] = a /\ \A i \in 1..k : f[i] = h[i][f[i - 1]]
           R(k) == \E f : P(k, f)
           K == {k \in Nat : k <= n => R(k)}
<1>1. R(0)
  <2>1. P(0, [i \in 0..0 |-> a])
    OBVIOUS
  <2> QED BY <2>1
<1>2. ASSUME NEW k \in Nat, R(k), k + 1 <= n PROVE R(k + 1)
  <2>3. k \in Nat /\ k + 1 \in 1..n /\ k \in 0..k /\ 0 \in 0..k + 1 /\ 0 # k + 1
    <3> HIDE DEF R
    <3> QED BY <1>2
  <2>1. PICK f : P(k, f)
    BY <1>2
  <2> DEFINE g == [i \in 0..k + 1 |-> IF i = k + 1 THEN h[k + 1][f[k]] ELSE f[i]]
  <2>2. f \in [0..k -> S] /\ f[0] = a
    BY <2>1
  <2>4. h[k + 1][f[k]] \in S
    BY <2>2, <2>3
  <2>5. g \in [0..k + 1 -> S]
    <3>1. \A i \in 0..k + 1 : i # k + 1 => i \in 0..k
      BY <2>3
    <3> QED BY <3>1, <2>2, <2>4
  <2>6. g[0] = a
    BY <2>2, <2>3
  <2>7. ASSUME NEW i \in 1..k + 1 PROVE g[i] = h[i][g[i - 1]]
    <3>1. i \in 0..k + 1 /\ i - 1 \in 0..k + 1 /\ i - 1 # k + 1
      BY <2>3, <2>7
    <3>2. CASE i = k + 1
      <4>1. i - 1 = k
        BY <3>2, <2>3
      <4>2. g[i] = h[k + 1][f[k]]
        BY <3>1, <3>2
      <4>3. g[i - 1] = f[k]
        BY <3>1, <4>1
      <4> QED BY <4>2, <4>3, <3>2
    <3>3. CASE i # k + 1
      <4>1. i \in 1..k
        BY <3>3, <2>3, <2>7
      <4>2. g[i] = f[i] /\ g[i - 1] = f[i - 1]
        BY <3>1, <3>3
      <4>3. f[i] = h[i][f[i - 1]]
        BY <4>1, <2>1
      <4> QED BY <4>2, <4>3
    <3> QED BY <3>2, <3>3
  <2> HIDE DEF g
  <2>8. P(k + 1, g)
    BY <2>5, <2>6, <2>7
  <2> QED BY <2>8
<1> HIDE DEF R
<1>3. 0 \in K
  BY <1>1
<1>4. \A k \in Nat : k \in K => k + 1 \in K
  BY <1>2
<1>5. n \in K
  <2> HIDE DEF K
  <2> QED BY <1>3, <1>4, SetInduction
<1>6. R(n)
  BY <1>5
<1> QED BY <1>6 DEF R, Moves

\* Registers that start alike and are moved alike stay alike.
Alike(n, f, g) == f[0] = g[0] /\ \A i \in 1..n : f[i - 1] = g[i - 1] => f[i] = g[i]

\* Two sequences of registers that start and move alike are one.
LEMMA MovesAgree ==
  ASSUME NEW n \in Nat, NEW f, NEW g, Alike(n, f, g)
  PROVE  \A i \in 0..n : f[i] = g[i]
<1> DEFINE K == {k \in Nat : k <= n => f[k] = g[k]}
<1>1. 0 \in K
  BY DEF Alike
<1>2. ASSUME NEW k \in Nat, k \in K PROVE k + 1 \in K
  <2> SUFFICES ASSUME k + 1 <= n PROVE f[k + 1] = g[k + 1]
    OBVIOUS
  <2>1. k + 1 \in 1..n /\ (k + 1) - 1 = k
    OBVIOUS
  <2>2. f[k] = g[k]
    BY <1>2
  <2> QED BY <2>1, <2>2 DEF Alike
<1>3. Nat \subseteq K
  <2> HIDE DEF K
  <2> QED BY <1>1, <1>2, SetInduction
<1> QED BY <1>3

-----------------------------------------------------------------------------
(* Blocks *)

\* What follows from the laws at once.
LEMMA BlockBasics ==
  ASSUME CipherLaws
  PROVE  /\ BlockLen \in Nat \ {0} /\ 0 \in Byte /\ Byte \subseteq Nat
         /\ Zeros \in Block
         /\ \A a, b \in Block : XorBlock(a, b) \in Block
         /\ \A a, b \in Block : XorBlock(a, b) = XorBlock(b, a)
                                /\ XorBlock(XorBlock(a, b), b) = a
         /\ \A b \in Block : Enc(b) \in Block /\ Dec(b) \in Block
<1>1. BlockLen \in Nat \ {0} /\ 0 \in Byte /\ Byte \subseteq Nat
  BY DEF CipherLaws
<1>2. Zeros \in Block
  BY <1>1 DEF Zeros, Block
<1>3. ASSUME NEW a \in Block, NEW b \in Block PROVE XorBlock(a, b) \in Block
  BY DEF CipherLaws, Block, XorBlock
<1>4. ASSUME NEW a \in Block, NEW b \in Block
      PROVE  XorBlock(a, b) = XorBlock(b, a) /\ XorBlock(XorBlock(a, b), b) = a
  <2>1. \A i \in 1..BlockLen : a[i] \in Byte /\ b[i] \in Byte
    BY DEF Block
  <2>2. \A i \in 1..BlockLen : Exor(a[i], b[i]) = Exor(b[i], a[i])
                               /\ Exor(Exor(a[i], b[i]), b[i]) = a[i]
    BY <2>1 DEF CipherLaws
  <2>3. a = [i \in 1..BlockLen |-> a[i]]
    BY DEF Block
  <2> QED BY <2>2, <2>3 DEF XorBlock
<1> QED BY <1>1, <1>2, <1>3, <1>4 DEF CipherLaws

\* The blocks of a message and where its bytes are in them.
LEMMA Blocks ==
  ASSUME CipherLaws, NEW x \in Seq(Byte)
  PROVE  /\ NumBlocks(x) \in Nat
         /\ \A b \in Nat \ {0} : BlockOf(x, b) \in Block
         /\ \A i \in 1..Len(x) : /\ (i - 1) \div BlockLen + 1 \in 1..NumBlocks(x)
                                 /\ ((i - 1) % BlockLen) + 1 \in 1..BlockLen
         /\ (x = <<>> <=> NumBlocks(x) = 0)
<1>1. BlockLen \in Nat \ {0} /\ 0 \in Byte
  BY BlockBasics
<1>2. Len(x) \in Nat /\ \A i \in 1..Len(x) : x[i] \in Byte
  OBVIOUS
<1>3. NumBlocks(x) \in Nat
  BY <1>1, <1>2 DEF NumBlocks
<1>4. ASSUME NEW b \in Nat \ {0} PROVE BlockOf(x, b) \in Block
  <2>1. \A i \in 1..BlockLen : (b - 1) * BlockLen + i \in Nat \ {0}
    <3>1. (b - 1) * BlockLen \in Nat
      BY <1>1
    <3> QED BY <3>1, <1>1
  <2> QED BY <2>1, <1>1, <1>2 DEF BlockOf, Block
<1>5. ASSUME NEW i \in 1..Len(x)
      PROVE  /\ (i - 1) \div BlockLen + 1 \in 1..NumBlocks(x)
             /\ ((i - 1) % BlockLen) + 1 \in 1..BlockLen
  <2>1. i - 1 \in Nat /\ Len(x) - i \in Nat
    BY <1>2
  <2>2. PICK q \in Nat, r \in 0..BlockLen - 1 :
          i - 1 = q * BlockLen + r /\ q = (i - 1) \div BlockLen /\ r = (i - 1) % BlockLen
    BY <2>1, <1>1, DivShift
  <2>3. Len(x) + BlockLen - 1 = (q + 1) * BlockLen + (r + (Len(x) - i))
    <3>1. (q + 1) * BlockLen = q * BlockLen + BlockLen /\ q * BlockLen \in Nat
      BY <1>1
    <3>2. i = q * BlockLen + r + 1
      BY <2>1, <2>2, <3>1, <1>1
    <3> QED BY ONLY <3>1, <3>2, <1>1, <1>2, r \in 0..BlockLen - 1
  <2>4. r + (Len(x) - i) \in Nat /\ q + 1 \in Nat
    BY <2>1, <2>2, <1>1
  <2>6. \A k, n \in Nat : /\ (k * BlockLen + n) \div BlockLen = k + n \div BlockLen
                          /\ n \div BlockLen \in Nat
    BY <1>1, DivShift
  <2>5. NumBlocks(x) = q + 1 + (r + (Len(x) - i)) \div BlockLen
        /\ (r + (Len(x) - i)) \div BlockLen \in Nat
    BY ONLY <2>3, <2>4, <2>6, Zenon DEF NumBlocks
  <2> QED BY <2>2, <2>5, <1>1, <1>3
<1>6. x = <<>> <=> NumBlocks(x) = 0
  <2>1. CASE x = <<>>
    <3>1. Len(x) = 0
      BY <2>1
    <3>2. (0 * BlockLen + (BlockLen - 1)) \div BlockLen = 0
      BY <1>1, DivUnique
    <3>3. 0 * BlockLen + (BlockLen - 1) = 0 + BlockLen - 1
      BY <1>1
    <3> QED BY <2>1, <3>1, <3>2, <3>3 DEF NumBlocks
  <2>2. CASE x # <<>>
    <3>1. 1 \in 1..Len(x)
      BY <2>2, <1>2
    <3> QED BY <2>2, <3>1, <1>5
  <2> QED BY <2>1, <2>2
<1> QED BY <1>3, <1>4, <1>5, <1>6

\* A message of whole blocks and what follows it.
LEMMA BlocksSplit ==
  ASSUME CipherLaws, NEW p \in Seq(Byte), NEW q \in Seq(Byte), NEW k \in Nat,
         Len(p) = k * BlockLen
  PROVE  /\ NumBlocks(p) = k /\ NumBlocks(p \o q) = k + NumBlocks(q)
         /\ \A b \in 1..k : BlockOf(p \o q, b) = BlockOf(p, b)
         /\ \A b \in 1..NumBlocks(q) : BlockOf(p \o q, k + b) = BlockOf(q, b)
<1> DEFINE x == p \o q
<1>1. BlockLen \in Nat \ {0}
  BY BlockBasics
<1>2. /\ x \in Seq(Byte) /\ Len(p) \in Nat /\ Len(q) \in Nat /\ Len(x) = Len(p) + Len(q)
      /\ \A i \in 1..Len(x) : x[i] = IF i <= Len(p) THEN p[i] ELSE q[i - Len(p)]
  <2>1. x \in Seq(Byte) /\ Len(x) = Len(p) + Len(q)
    BY ConcatProperties
  <2>2. \A i \in 1..Len(p) + Len(q) : x[i] = IF i <= Len(p) THEN p[i] ELSE q[i - Len(p)]
    BY ConcatProperties, Zenon
  <2>3. Len(p) \in Nat /\ Len(q) \in Nat
    OBVIOUS
  <2> HIDE DEF x
  <2> QED BY <2>1, <2>2, <2>3
<1> HIDE DEF x
<1>3. NumBlocks(p) = k
  <2>1. BlockLen - 1 \in Nat /\ BlockLen - 1 \in 0..BlockLen - 1
    BY <1>1
  <2>2. (k * BlockLen + (BlockLen - 1)) \div BlockLen = k
    BY <1>1, <2>1, DivUnique
  <2>3. Len(p) + BlockLen - 1 = k * BlockLen + (BlockLen - 1)
    BY <1>1
  <2> QED BY <2>2, <2>3 DEF NumBlocks
<1>4. NumBlocks(x) = k + NumBlocks(q)
  <2>1. Len(q) + BlockLen - 1 \in Nat
    BY <1>1, <1>2
  <2>2. Len(x) + BlockLen - 1 = k * BlockLen + (Len(q) + BlockLen - 1)
    BY <1>1, <1>2
  <2>3. \A n \in Nat : (k * BlockLen + n) \div BlockLen = k + n \div BlockLen
    BY <1>1, DivShift
  <2> QED BY ONLY <2>1, <2>2, <2>3, Zenon DEF NumBlocks
<1>5. ASSUME NEW b \in 1..k PROVE BlockOf(x, b) = BlockOf(p, b)
  <2>1. ASSUME NEW i \in 1..BlockLen
        PROVE  (b - 1) * BlockLen + i \in 1..Len(p)
    <3>1. PICK e \in Nat : k = b + e
      <4>1. k - b \in Nat /\ k = b + (k - b)
        OBVIOUS
      <4> QED BY <4>1
    <3>2. k * BlockLen = (b - 1) * BlockLen + BlockLen + e * BlockLen
          /\ e * BlockLen \in Nat /\ (b - 1) * BlockLen \in Nat
      BY <3>1, <1>1
    <3> QED BY <3>2, <1>1
  <2>2. \A i \in 1..BlockLen : (b - 1) * BlockLen + i \in 1..Len(x)
    BY <2>1, <1>2
  <2>3. \A i \in 1..BlockLen : x[(b - 1) * BlockLen + i] = p[(b - 1) * BlockLen + i]
    BY <2>1, <2>2, <1>2
  <2> QED BY <2>1, <2>2, <2>3 DEF BlockOf
<1>6. ASSUME NEW b \in 1..NumBlocks(q) PROVE BlockOf(x, k + b) = BlockOf(q, b)
  <2>0. NumBlocks(q) \in Nat
    BY Blocks
  <2>1. ASSUME NEW i \in 1..BlockLen
        PROVE  /\ (k + b - 1) * BlockLen + i = Len(p) + ((b - 1) * BlockLen + i)
               /\ (b - 1) * BlockLen + i \in Nat \ {0}
    <3>1. b - 1 \in Nat /\ (b - 1) * BlockLen \in Nat
      BY <2>0, <1>1
    <3>2. (k + (b - 1)) * BlockLen = k * BlockLen + (b - 1) * BlockLen
      BY <3>1, <1>1
    <3>3. k + b - 1 = k + (b - 1)
      BY <2>0
    <3> QED BY <3>1, <3>2, <3>3, <1>1
  <2>2. ASSUME NEW n \in Nat \ {0}
        PROVE  /\ Len(p) + n <= Len(x) <=> n <= Len(q)
               /\ n <= Len(q) => x[Len(p) + n] = q[n]
    <3>1. Len(p) + n <= Len(x) <=> n <= Len(q)
      BY <1>2
    <3>2. n <= Len(q) => Len(p) + n \in 1..Len(x) /\ (Len(p) + n) - Len(p) = n
                         /\ ~(Len(p) + n <= Len(p))
      BY <1>2
    <3>3. n <= Len(q) => x[Len(p) + n] = q[n]
      BY <3>2, <1>2
    <3> QED BY <3>1, <3>3
  <2>3. \A i \in 1..BlockLen :
          (IF (k + b - 1) * BlockLen + i <= Len(x) THEN x[(k + b - 1) * BlockLen + i] ELSE 0)
          = (IF (b - 1) * BlockLen + i <= Len(q) THEN q[(b - 1) * BlockLen + i] ELSE 0)
    BY <2>1, <2>2, Zenon
  <2>4. /\ DOMAIN BlockOf(x, k + b) = 1..BlockLen /\ DOMAIN BlockOf(q, b) = 1..BlockLen
        /\ BlockOf(x, k + b) = [i \in 1..BlockLen |-> BlockOf(x, k + b)[i]]
        /\ BlockOf(q, b) = [i \in 1..BlockLen |-> BlockOf(q, b)[i]]
    BY DEF BlockOf
  <2>5. \A i \in 1..BlockLen : BlockOf(x, k + b)[i] = BlockOf(q, b)[i]
    BY <2>3 DEF BlockOf
  <2> QED BY <2>4, <2>5
<1> QED BY <1>3, <1>4, <1>5, <1>6 DEF x

\* Where byte i of a message is.
LEMMA Position ==
  ASSUME CipherLaws, NEW i \in Nat \ {0}
  PROVE  /\ (i - 1) \div BlockLen + 1 \in Nat \ {0}
         /\ ((i - 1) % BlockLen) + 1 \in 1..BlockLen
         /\ \A b, r : b = (i - 1) \div BlockLen + 1 /\ r = ((i - 1) % BlockLen) + 1 =>
                        (b - 1) * BlockLen + r = i
         /\ \A b \in Nat \ {0}, r \in 1..BlockLen :
               (b - 1) * BlockLen + r = i =>
                  b = (i - 1) \div BlockLen + 1 /\ r = ((i - 1) % BlockLen) + 1
<1>1. BlockLen \in Nat \ {0}
  BY BlockBasics
<1>2. PICK q \in Nat, r \in 0..BlockLen - 1 :
        i - 1 = q * BlockLen + r /\ q = (i - 1) \div BlockLen /\ r = (i - 1) % BlockLen
  <2>1. i - 1 \in Nat
    OBVIOUS
  <2> QED BY <2>1, <1>1, DivShift
<1>3. ASSUME NEW b \in Nat \ {0}, NEW s \in 1..BlockLen, (b - 1) * BlockLen + s = i
      PROVE  b = (i - 1) \div BlockLen + 1 /\ s = ((i - 1) % BlockLen) + 1
  <2>1. b - 1 \in Nat /\ s - 1 \in 0..BlockLen - 1 /\ (b - 1) * BlockLen \in Nat
    BY <1>1
  <2>2. ((b - 1) * BlockLen + (s - 1)) \div BlockLen = b - 1
        /\ ((b - 1) * BlockLen + (s - 1)) % BlockLen = s - 1
    BY <2>1, <1>1, DivUnique
  <2>3. (b - 1) * BlockLen + (s - 1) = i - 1
    BY <2>1, <1>1, <1>3
  <2>4. (i - 1) \div BlockLen = b - 1 /\ (i - 1) % BlockLen = s - 1
    BY <2>2, <2>3
  <2> QED BY <2>4, <2>1, <1>1
<1>4. q + 1 - 1 = q /\ q + 1 \in Nat \ {0} /\ r + 1 \in 1..BlockLen
      /\ q * BlockLen + (r + 1) = i
  BY <1>1, <1>2
<1>5. ASSUME NEW b, NEW s, b = (i - 1) \div BlockLen + 1, s = ((i - 1) % BlockLen) + 1
      PROVE  (b - 1) * BlockLen + s = i
  <2>1. b = q + 1 /\ s = r + 1
    BY <1>2, <1>5
  <2> QED BY <2>1, <1>4
<1>6. (i - 1) \div BlockLen + 1 \in Nat \ {0} /\ ((i - 1) % BlockLen) + 1 \in 1..BlockLen
  BY <1>2, <1>4
<1> QED BY ONLY <1>3, <1>5, <1>6, Zenon

\* A message put together from its blocks.
LEMMA JoinedIs ==
  ASSUME CipherLaws, NEW x \in Seq(Byte), NEW f, \A b \in 1..NumBlocks(x) : f[b] \in Block
  PROVE  /\ Joined(f, x) \in Seq(Byte) /\ Len(Joined(f, x)) = Len(x)
         /\ \A i \in 1..Len(x) :
              Joined(f, x)[i] = f[(i - 1) \div BlockLen + 1][((i - 1) % BlockLen) + 1]
<1>1. Len(x) \in Nat /\ DOMAIN x = 1..Len(x)
  OBVIOUS
<1>2. \A i \in 1..Len(x) : f[(i - 1) \div BlockLen + 1][((i - 1) % BlockLen) + 1] \in Byte
  BY Blocks DEF Block
<1>3. Joined(f, x) \in [1..Len(x) -> Byte]
  BY <1>1, <1>2 DEF Joined
<1>4. Joined(f, x) \in Seq(Byte) /\ Len(Joined(f, x)) = Len(x)
  BY <1>1, <1>3
<1> QED BY <1>1, <1>4 DEF Joined

\* Only the blocks of the message count.
LEMMA JoinedSame ==
  ASSUME CipherLaws, NEW x \in Seq(Byte), NEW f, NEW g,
         \A b \in 1..NumBlocks(x) : f[b] = g[b]
  PROVE  Joined(f, x) = Joined(g, x)
<1>1. Len(x) \in Nat /\ DOMAIN x = 1..Len(x)
  OBVIOUS
<1>2. \A i \in 1..Len(x) : f[(i - 1) \div BlockLen + 1] = g[(i - 1) \div BlockLen + 1]
  BY Blocks
<1> QED BY <1>1, <1>2 DEF Joined

\* A message masked byte by byte is one masked block by block.
LEMMA MaskedIs ==
  ASSUME CipherLaws, NEW x \in Seq(Byte), NEW f, NEW g,
         \A b \in 1..NumBlocks(x) : g[b] = XorBlock(BlockOf(x, b), f[b])
  PROVE  Masked(x, f) = Joined(g, x)
<1>1. Len(x) \in Nat /\ DOMAIN x = 1..Len(x)
  OBVIOUS
<1>2. ASSUME NEW i \in 1..Len(x)
      PROVE  Exor(x[i], f[(i - 1) \div BlockLen + 1][((i - 1) % BlockLen) + 1])
               = g[(i - 1) \div BlockLen + 1][((i - 1) % BlockLen) + 1]
  <2> DEFINE b == (i - 1) \div BlockLen + 1
             r == ((i - 1) % BlockLen) + 1
  <2>1. b \in 1..NumBlocks(x) /\ r \in 1..BlockLen
    BY Blocks
  <2>2. (b - 1) * BlockLen + r = i
    <3>1. i \in Nat \ {0}
      BY <1>1
    <3>2. \A c, s : c = b /\ s = r => (c - 1) * BlockLen + s = i
      BY <3>1, Position, Zenon
    <3> QED BY <3>2, Zenon
  <2> HIDE DEF b, r
  <2>3. g[b][r] = Exor(BlockOf(x, b)[r], f[b][r])
    BY <2>1 DEF XorBlock
  <2>4. BlockOf(x, b)[r] = x[i]
    <3>1. BlockOf(x, b)[r] = IF (b - 1) * BlockLen + r <= Len(x)
                               THEN x[(b - 1) * BlockLen + r] ELSE 0
      BY <2>1, Zenon DEF BlockOf
    <3> QED BY ONLY <3>1, <2>2, <1>1, i \in 1..Len(x)
  <2>5. Exor(x[i], f[b][r]) = g[b][r]
    BY <2>3, <2>4
  <2> QED BY <2>5 DEF b, r
<1> QED BY <1>1, <1>2 DEF Masked, Joined

\* What follows a message of whole blocks is put together on its own.
LEMMA JoinedSplit ==
  ASSUME CipherLaws, NEW p \in Seq(Byte), NEW q \in Seq(Byte), NEW k \in Nat,
         Len(p) = k * BlockLen, NEW f, NEW g, NEW h,
         \A b \in 1..k : f[b] \in Block /\ f[b] = g[b],
         \A b \in 1..NumBlocks(q) : f[k + b] \in Block /\ f[k + b] = h[b]
  PROVE  Joined(f, p \o q) = Joined(g, p) \o Joined(h, q)
<1> DEFINE x == p \o q
<1>0. BlockLen \in Nat \ {0} /\ NumBlocks(q) \in Nat
  BY BlockBasics, Blocks
<1>1. /\ x \in Seq(Byte) /\ Len(p) \in Nat /\ Len(q) \in Nat /\ Len(x) = Len(p) + Len(q)
  <2>1. x \in Seq(Byte) /\ Len(x) = Len(p) + Len(q)
    BY ConcatProperties
  <2> HIDE DEF x
  <2> QED BY <2>1
<1>2. NumBlocks(p) = k /\ NumBlocks(x) = k + NumBlocks(q)
  BY BlocksSplit
<1> HIDE DEF x
<1>3. ASSUME NEW b \in 1..NumBlocks(x) PROVE f[b] \in Block
  <2>1. CASE b <= k
    BY <2>1, <1>0, <1>2
  <2>2. CASE b > k
    <3>1. b - k \in 1..NumBlocks(q) /\ k + (b - k) = b
      BY <2>2, <1>0, <1>2
    <3> QED BY <3>1
  <2> QED BY <2>1, <2>2, <1>0, <1>2
<1>4. /\ Joined(f, x) \in Seq(Byte) /\ Len(Joined(f, x)) = Len(x)
      /\ \A i \in 1..Len(x) :
           Joined(f, x)[i] = f[(i - 1) \div BlockLen + 1][((i - 1) % BlockLen) + 1]
  BY <1>1, <1>3, JoinedIs
<1>5. /\ Joined(g, p) \in Seq(Byte) /\ Len(Joined(g, p)) = Len(p)
      /\ \A i \in 1..Len(p) :
           Joined(g, p)[i] = g[(i - 1) \div BlockLen + 1][((i - 1) % BlockLen) + 1]
  <2>1. \A b \in 1..NumBlocks(p) : g[b] \in Block
    BY <1>2
  <2> QED BY <2>1, JoinedIs
<1>6. /\ Joined(h, q) \in Seq(Byte) /\ Len(Joined(h, q)) = Len(q)
      /\ \A i \in 1..Len(q) :
           Joined(h, q)[i] = h[(i - 1) \div BlockLen + 1][((i - 1) % BlockLen) + 1]
  <2>1. \A b \in 1..NumBlocks(q) : h[b] \in Block
    OBVIOUS
  <2> QED BY <2>1, JoinedIs
<1> DEFINE o == Joined(g, p) \o Joined(h, q)
<1>7. /\ o \in Seq(Byte) /\ Len(o) = Len(x)
      /\ \A i \in 1..Len(x) : o[i] = IF i <= Len(p) THEN Joined(g, p)[i]
                                     ELSE Joined(h, q)[i - Len(p)]
  <2>1. o \in Seq(Byte) /\ Len(o) = Len(Joined(g, p)) + Len(Joined(h, q))
    BY <1>5, <1>6, ConcatProperties
  <2>2. \A i \in 1..Len(Joined(g, p)) + Len(Joined(h, q)) :
          o[i] = IF i <= Len(Joined(g, p)) THEN Joined(g, p)[i]
                 ELSE Joined(h, q)[i - Len(Joined(g, p))]
    <3>1. \A u, v \in Seq(Byte) : \A i \in 1..Len(u) + Len(v) :
            (u \o v)[i] = IF i <= Len(u) THEN u[i] ELSE v[i - Len(u)]
      BY ConcatProperties, Zenon
    <3> QED BY <3>1, <1>5, <1>6, Zenon
  <2> HIDE DEF o
  <2> QED BY <2>1, <2>2, <1>5, <1>6, <1>1
<1> HIDE DEF o
<1>8. ASSUME NEW i \in 1..Len(x) PROVE Joined(f, x)[i] = o[i]
  <2> DEFINE b == (i - 1) \div BlockLen + 1
             r == ((i - 1) % BlockLen) + 1
  <2>1. Joined(f, x)[i] = f[b][r]
    BY <1>4
  <2>2. CASE i <= Len(p)
    <3>1. i \in 1..Len(p)
      BY <2>2, <1>1
    <3>2. b \in 1..k
      BY <3>1, <1>2, Blocks
    <3>3. f[b] = g[b]
      BY <3>2
    <3>4. o[i] = g[b][r]
      BY <3>1, <2>2, <1>5, <1>7
    <3> QED BY <3>3, <3>4, <2>1
  <2>3. CASE ~(i <= Len(p))
    <3>1. i - Len(p) \in 1..Len(q) /\ i - Len(p) - 1 \in Nat
          /\ i - 1 = k * BlockLen + (i - Len(p) - 1)
      BY <2>3, <1>0, <1>1
    <3> DEFINE c == (i - Len(p) - 1) \div BlockLen + 1
               s == ((i - Len(p) - 1) % BlockLen) + 1
    <3>2. c \in 1..NumBlocks(q)
      BY <3>1, Blocks
    <3>3. \A n \in Nat : (k * BlockLen + n) \div BlockLen = k + n \div BlockLen
                         /\ (k * BlockLen + n) % BlockLen = n % BlockLen
                         /\ n \div BlockLen \in Nat
      BY <1>0, DivShift
    <3>4. (i - 1) \div BlockLen = k + (i - Len(p) - 1) \div BlockLen
          /\ (i - 1) % BlockLen = (i - Len(p) - 1) % BlockLen
          /\ (i - Len(p) - 1) \div BlockLen \in Nat
      BY ONLY <3>1, <3>3, Zenon
    <3>5. b = k + c /\ r = s
      BY <3>4
    <3>6. f[k + c] = h[c]
      BY <3>2
    <3>7. o[i] = Joined(h, q)[i - Len(p)]
      BY <2>3, <1>7
    <3>8. Joined(h, q)[i - Len(p)] = h[c][s]
      BY <3>1, <1>6
    <3> QED BY ONLY <3>5, <3>6, <3>7, <3>8, <2>1, Zenon
  <2> QED BY <2>2, <2>3
<1>9. Joined(f, x) = o
  BY <1>1, <1>4, <1>7, <1>8, SeqEqual
<1> QED BY <1>9 DEF x, o

\* The blocks of a message that was put together from blocks.
LEMMA BlocksOfJoined ==
  ASSUME CipherLaws, NEW x \in Seq(Byte), NEW f, \A b \in 1..NumBlocks(x) : f[b] \in Block
  PROVE  /\ NumBlocks(Joined(f, x)) = NumBlocks(x)
         /\ \A b \in 1..NumBlocks(x) :
              BlockOf(Joined(f, x), b) =
                [i \in 1..BlockLen |-> IF (b - 1) * BlockLen + i <= Len(x) THEN f[b][i] ELSE 0]
<1> DEFINE o == Joined(f, x)
<1>1. BlockLen \in Nat \ {0} /\ NumBlocks(x) \in Nat /\ Len(x) \in Nat
  BY BlockBasics, Blocks
<1>2. /\ o \in Seq(Byte) /\ Len(o) = Len(x)
      /\ \A i \in 1..Len(x) : o[i] = f[(i - 1) \div BlockLen + 1][((i - 1) % BlockLen) + 1]
  BY JoinedIs
<1> HIDE DEF o
<1>3. NumBlocks(o) = NumBlocks(x)
  BY <1>2 DEF NumBlocks
<1>4. ASSUME NEW b \in 1..NumBlocks(x), NEW i \in 1..BlockLen, (b - 1) * BlockLen + i <= Len(x)
      PROVE  o[(b - 1) * BlockLen + i] = f[b][i]
  <2> DEFINE n == (b - 1) * BlockLen + i
  <2>1. n \in 1..Len(x) /\ n \in Nat \ {0} /\ b \in Nat \ {0}
    <3>1. (b - 1) * BlockLen \in Nat
      BY <1>1
    <3> QED BY <3>1, <1>1, <1>4
  <2>2. b = (n - 1) \div BlockLen + 1 /\ i = ((n - 1) % BlockLen) + 1
    <3>1. (b - 1) * BlockLen + i = n
      OBVIOUS
    <3> HIDE DEF n
    <3> QED BY <3>1, <2>1, Position
  <2> HIDE DEF n
  <2>3. o[n] = f[(n - 1) \div BlockLen + 1][((n - 1) % BlockLen) + 1]
    BY <2>1, <1>2
  <2>4. o[n] = f[b][i]
    BY ONLY <2>2, <2>3, Zenon
  <2> QED BY <2>4 DEF n
<1>5. ASSUME NEW b \in 1..NumBlocks(x)
      PROVE  BlockOf(o, b) =
               [i \in 1..BlockLen |-> IF (b - 1) * BlockLen + i <= Len(x) THEN f[b][i] ELSE 0]
  BY <1>2, <1>4 DEF BlockOf
<1> QED BY <1>3, <1>5 DEF o

-----------------------------------------------------------------------------
(* The modes *)

\* The register after a block X of the message, and the block that is given.
StepOf(t, c, X) ==
  CASE t.mode = "ECB" -> c
    [] t.mode = "CBC" -> IF t.dir = "ENC" THEN Enc(XorBlock(X, c)) ELSE X
    [] t.mode = "CTR" -> ctr128_inc(c)
    [] t.mode = "OFB" -> Enc(c)
    [] t.mode = "CFB128" -> IF t.dir = "ENC" THEN XorBlock(Enc(c), X) ELSE X

OutOf(t, c, X) ==
  CASE t.mode = "ECB" -> IF t.dir = "ENC" THEN Enc(X) ELSE Dec(X)
    [] t.mode = "CBC" -> IF t.dir = "ENC" THEN Enc(XorBlock(X, c)) ELSE XorBlock(Dec(X), c)
    [] t.mode = "CTR" -> XorBlock(X, Enc(c))
    [] t.mode = "OFB" -> XorBlock(X, Enc(c))
    [] t.mode = "CFB128" -> IF t.dir = "ENC" THEN XorBlock(Enc(c), X) ELSE XorBlock(X, Enc(c))

\* c[b] is the register after b blocks of x.
IsChain(t, iv, x, c) ==
  /\ c \in [0..NumBlocks(x) -> Block] /\ c[0] = iv
  /\ \A b \in 1..NumBlocks(x) : c[b] = StepOf(t, c[b - 1], BlockOf(x, b))

Outs(t, x, c) == [b \in 1..NumBlocks(x) |-> OutOf(t, c[b - 1], BlockOf(x, b))]

Modes == {"ECB", "CBC", "CTR", "OFB", "CFB128"}

\* The types there are: only ECB and CBC are padded.
LEMMA TypesAre ==
  ASSUME NEW t \in Types
  PROVE  /\ t.mode \in Modes /\ t.dir \in {"ENC", "DEC"} /\ t.pad \in {"none", "PKCS5"}
         /\ t.pad = "PKCS5" => t.mode \in {"ECB", "CBC"}
         /\ t # NoType
BY DEF Types, TypesOf, Modes, NoType, Type

\* ctr128_inc gives a block.
LEMMA IncTyped ==
  ASSUME CipherLaws, NEW c \in Block PROVE ctr128_inc(c) \in Block
<1>1. PICK top \in Byte : top \in Nat /\ Byte = 0..top
  BY DEF CipherLaws
<1> DEFINE m == CHOOSE m \in Byte : \A b \in Byte : b <= m
<1>2. m = top
  <2>1. \A b \in Byte : b <= top
    BY <1>1
  <2>2. m \in Byte /\ \A b \in Byte : b <= m
    BY <2>1, Zenon
  <2> HIDE DEF m
  <2> QED BY <2>2, <1>1
<1>3. \A i \in 1..BlockLen : c[i] \in Byte
  BY DEF Block
<1>4. \A i \in 1..BlockLen : (IF c[i] = m THEN 0 ELSE c[i] + 1) \in Byte
  <2> HIDE DEF m
  <2> QED BY <1>1, <1>2, <1>3
<1>5. ctr128_inc(c) = [i \in 1..BlockLen |->
                         IF \A j \in i + 1..BlockLen : c[j] = m
                         THEN (IF c[i] = m THEN 0 ELSE c[i] + 1) ELSE c[i]]
  BY Zenon DEF ctr128_inc
<1> HIDE DEF m
<1> QED BY <1>3, <1>4, <1>5 DEF Block

\* The register stays a block, and a block is given.
LEMMA StepTyped ==
  ASSUME CipherLaws, NEW t, t.mode \in Modes, NEW c \in Block, NEW X \in Block
  PROVE  StepOf(t, c, X) \in Block /\ OutOf(t, c, X) \in Block
<1>1. ctr128_inc(c) \in Block
  BY IncTyped
<1>2. Enc(c) \in Block /\ Enc(X) \in Block /\ Dec(X) \in Block
  BY BlockBasics
<1>3. /\ XorBlock(X, c) \in Block /\ XorBlock(Dec(X), c) \in Block
      /\ XorBlock(X, Enc(c)) \in Block /\ XorBlock(Enc(c), X) \in Block
  BY <1>2, BlockBasics
<1>4. Enc(XorBlock(X, c)) \in Block
  BY <1>3, BlockBasics
<1> QED BY ONLY <1>1, <1>2, <1>3, <1>4, t.mode \in Modes, c \in Block, X \in Block
           DEF StepOf, OutOf, Modes

\* The registers of a message.
LEMMA ChainExists ==
  ASSUME CipherLaws, NEW t, t.mode \in Modes, NEW iv \in Block, NEW x \in Seq(Byte)
  PROVE  \E c : IsChain(t, iv, x, c)
<1> DEFINE n == NumBlocks(x)
           h == [b \in 1..n |-> [c \in Block |-> StepOf(t, c, BlockOf(x, b))]]
<1>1. n \in Nat /\ \A b \in 1..n : BlockOf(x, b) \in Block
  <2>1. NumBlocks(x) \in Nat /\ \A b \in Nat \ {0} : BlockOf(x, b) \in Block
    BY Blocks
  <2> QED BY <2>1
<1>2. \A b \in 1..n, c \in Block : StepOf(t, c, BlockOf(x, b)) \in Block
  BY <1>1, StepTyped
<1>3. h \in [1..n -> [Block -> Block]] /\ \A b \in 1..n, c \in Block :
        h[b][c] = StepOf(t, c, BlockOf(x, b))
  BY <1>2, Zenon
<1> HIDE DEF h, n
<1>4. PICK f \in [0..n -> Block] : f[0] = iv /\ \A i \in 1..n : f[i] = h[i][f[i - 1]]
  <2>1. n \in Nat
    BY <1>1
  <2>2. h \in [1..n -> [Block -> Block]]
    BY <1>3
  <2>3. Moves(Block, iv, n, h) # {}
    BY ONLY <2>1, <2>2, iv \in Block, MovesExist
  <2> QED BY <2>3 DEF Moves
<1>5. \A b \in 1..n : f[b] = StepOf(t, f[b - 1], BlockOf(x, b))
  <2>1. \A b \in 1..n : b - 1 \in 0..n
    BY <1>1
  <2>2. \A b \in 1..n : f[b - 1] \in Block
    BY <2>1, <1>4
  <2> QED BY <2>2, <1>3, <1>4
<1>6. IsChain(t, iv, x, f)
  BY <1>4, <1>5 DEF IsChain, n
<1> QED BY <1>6

\* A message has one sequence of registers for one initial value.
LEMMA ChainUnique ==
  ASSUME CipherLaws, NEW t, NEW iv, NEW x \in Seq(Byte), NEW c, IsChain(t, iv, x, c),
         NEW d, IsChain(t, iv, x, d)
  PROVE  c = d
<1> DEFINE n == NumBlocks(x)
<1>1. n \in Nat
  BY Blocks
<1>2. /\ c \in [0..n -> Block] /\ d \in [0..n -> Block] /\ c[0] = d[0]
      /\ \A b \in 1..n : c[b - 1] = d[b - 1] => c[b] = d[b]
  BY DEF IsChain
<1> HIDE DEF n
<1>3. c[0] = d[0] /\ c \in [0..n -> Block] /\ d \in [0..n -> Block]
  BY <1>2
<1>4. \A b \in 1..n : c[b - 1] = d[b - 1] => c[b] = d[b]
  BY <1>2
<1>5. c[0] = d[0]
  BY <1>3
<1>8. Alike(n, c, d)
  BY <1>4, <1>5 DEF Alike
<1>6. \A b \in 0..n : c[b] = d[b]
  BY ONLY <1>1, <1>8, MovesAgree
<1>7. c = [b \in 0..n |-> c[b]] /\ d = [b \in 0..n |-> d[b]]
  BY <1>3
<1> QED BY ONLY <1>6, <1>7

\* The outputs of a chain are blocks.
LEMMA OutsTyped ==
  ASSUME CipherLaws, NEW t, t.mode \in Modes, NEW iv \in Block, NEW x \in Seq(Byte),
         NEW c, IsChain(t, iv, x, c)
  PROVE  \A b \in 1..NumBlocks(x) :
           /\ c[b] \in Block /\ c[b - 1] \in Block /\ BlockOf(x, b) \in Block
           /\ Outs(t, x, c)[b] = OutOf(t, c[b - 1], BlockOf(x, b))
           /\ Outs(t, x, c)[b] \in Block
<1>1. NumBlocks(x) \in Nat /\ \A b \in Nat \ {0} : BlockOf(x, b) \in Block
  BY Blocks
<1>2. ASSUME NEW b \in 1..NumBlocks(x)
      PROVE  c[b] \in Block /\ c[b - 1] \in Block /\ BlockOf(x, b) \in Block
  <2>1. b \in 0..NumBlocks(x) /\ b - 1 \in 0..NumBlocks(x) /\ b \in Nat \ {0}
    BY <1>1
  <2> QED BY <2>1, <1>1 DEF IsChain
<1> QED BY <1>2, StepTyped DEF Outs

-----------------------------------------------------------------------------
(* What the functions of LeaModes compute *)

\* The registers of cbc_enc.
LEMMA CbcEncIs ==
  ASSUME CipherLaws, NEW t, t.mode = "CBC", t.dir = "ENC", NEW iv \in Block,
         NEW x \in Seq(Byte), NEW c, IsChain(t, iv, x, c)
  PROVE  cbc_enc(iv, x) = Joined(Outs(t, x, c), x)
<1> DEFINE n == NumBlocks(x)
           C == CHOOSE C : C = [b \in 0..n |-> IF b = 0 THEN iv
                                               ELSE Enc(XorBlock(BlockOf(x, b), C[b - 1]))]
<1>1. n \in Nat
  BY Blocks
<1>2. cbc_enc(iv, x) = Joined(C, x)
  BY DEF cbc_enc
<1>3. c \in [0..n -> Block] /\ c[0] = iv
      /\ \A b \in 1..n : c[b] = Enc(XorBlock(BlockOf(x, b), c[b - 1]))
  BY DEF IsChain, StepOf
<1> HIDE DEF n
<1>4. c = [b \in 0..n |-> IF b = 0 THEN iv ELSE Enc(XorBlock(BlockOf(x, b), c[b - 1]))]
  <2>1. \A b \in 0..n : b # 0 => b \in 1..n
    BY <1>1
  <2> QED BY <2>1, <1>3
<1>5. C = [b \in 0..n |-> IF b = 0 THEN iv ELSE Enc(XorBlock(BlockOf(x, b), C[b - 1]))]
  BY <1>4, Zenon
<1> HIDE DEF C
<1>6. \A b \in 0..n : c[b] = C[b]
  <2>1. 0 \in 0..n /\ \A b \in 1..n : b \in 0..n /\ b # 0
    BY <1>1
  <2>2. C[0] = iv /\ \A b \in 1..n : C[b] = Enc(XorBlock(BlockOf(x, b), C[b - 1]))
    BY <2>1, <1>5
  <2>3. \A b \in 1..n : c[b - 1] = C[b - 1] => c[b] = C[b]
    BY <2>2, <1>3
  <2>4. c[0] = C[0]
    BY <2>2, <1>3
  <2>5. Alike(n, c, C)
    BY <2>3, <2>4 DEF Alike
  <2> QED BY ONLY <2>5, <1>1, MovesAgree
<1>7. \A b \in 1..n : C[b] = Outs(t, x, c)[b]
  <2>1. \A b \in 1..n : b \in 0..n
    BY <1>1
  <2>2. \A b \in 1..n : Outs(t, x, c)[b] = Enc(XorBlock(BlockOf(x, b), c[b - 1]))
    BY DEF Outs, OutOf, n
  <2> QED BY <2>1, <2>2, <1>3, <1>6
<1>8. Joined(C, x) = Joined(Outs(t, x, c), x)
  BY <1>7, JoinedSame DEF n
<1> QED BY <1>2, <1>8

\* The registers of cfb128_enc.
LEMMA CfbEncIs ==
  ASSUME CipherLaws, NEW t, t.mode = "CFB128", t.dir = "ENC", NEW iv \in Block,
         NEW x \in Seq(Byte), NEW c, IsChain(t, iv, x, c)
  PROVE  cfb128_enc(iv, x) = Joined(Outs(t, x, c), x)
<1> DEFINE n == NumBlocks(x)
           C == CHOOSE C : C = [b \in 0..n |-> IF b = 0 THEN iv
                                               ELSE XorBlock(Enc(C[b - 1]), BlockOf(x, b))]
<1>1. n \in Nat
  BY Blocks
<1>2. cfb128_enc(iv, x) = Joined(C, x)
  BY DEF cfb128_enc
<1>3. c \in [0..n -> Block] /\ c[0] = iv
      /\ \A b \in 1..n : c[b] = XorBlock(Enc(c[b - 1]), BlockOf(x, b))
  BY DEF IsChain, StepOf
<1> HIDE DEF n
<1>4. c = [b \in 0..n |-> IF b = 0 THEN iv ELSE XorBlock(Enc(c[b - 1]), BlockOf(x, b))]
  <2>1. \A b \in 0..n : b # 0 => b \in 1..n
    BY <1>1
  <2> QED BY <2>1, <1>3
<1>5. C = [b \in 0..n |-> IF b = 0 THEN iv ELSE XorBlock(Enc(C[b - 1]), BlockOf(x, b))]
  BY <1>4, Zenon
<1> HIDE DEF C
<1>6. \A b \in 0..n : c[b] = C[b]
  <2>1. 0 \in 0..n /\ \A b \in 1..n : b \in 0..n /\ b # 0
    BY <1>1
  <2>2. C[0] = iv /\ \A b \in 1..n : C[b] = XorBlock(Enc(C[b - 1]), BlockOf(x, b))
    BY <2>1, <1>5
  <2>3. \A b \in 1..n : c[b - 1] = C[b - 1] => c[b] = C[b]
    BY <2>2, <1>3
  <2>4. c[0] = C[0]
    BY <2>2, <1>3
  <2>5. Alike(n, c, C)
    BY <2>3, <2>4 DEF Alike
  <2> QED BY ONLY <2>5, <1>1, MovesAgree
<1>7. \A b \in 1..n : C[b] = Outs(t, x, c)[b]
  <2>1. \A b \in 1..n : b \in 0..n
    BY <1>1
  <2>2. \A b \in 1..n : Outs(t, x, c)[b] = XorBlock(Enc(c[b - 1]), BlockOf(x, b))
    BY DEF Outs, OutOf, n
  <2> QED BY <2>1, <2>2, <1>3, <1>6
<1>8. Joined(C, x) = Joined(Outs(t, x, c), x)
  BY <1>7, JoinedSame DEF n
<1> QED BY <1>2, <1>8

\* The counter blocks of ctr_enc.
LEMMA CountersIs ==
  ASSUME NEW n \in Nat, NEW c \in [0..n -> Block],
         \A b \in 1..n : c[b] = ctr128_inc(c[b - 1])
  PROVE  \A b \in 1..n + 1 : Counters(c[0], n)[b] = c[b - 1]
<1> DEFINE C == CHOOSE C : C = [b \in 1..n + 1 |-> IF b = 1 THEN c[0] ELSE ctr128_inc(C[b - 1])]
           f == [b \in 1..n + 1 |-> c[b - 1]]
<1>1. Counters(c[0], n) = C
  BY DEF Counters
<1>2. f = [b \in 1..n + 1 |-> IF b = 1 THEN c[0] ELSE ctr128_inc(f[b - 1])]
  <2>1. ASSUME NEW b \in 1..n + 1 PROVE f[b] = IF b = 1 THEN c[0] ELSE ctr128_inc(f[b - 1])
    <3>1. CASE b = 1
      BY <3>1
    <3>2. CASE b # 1
      <4>1. b - 1 \in 1..n /\ b - 1 \in 1..n + 1
        BY <3>2
      <4>2. f[b] = c[b - 1] /\ f[b - 1] = c[b - 1 - 1]
        BY <4>1, Zenon
      <4>3. c[b - 1] = ctr128_inc(c[b - 1 - 1])
        BY <4>1
      <4> QED BY <4>2, <4>3, <3>2
    <3> QED BY <3>1, <3>2
  <2>2. f = [b \in 1..n + 1 |-> f[b]]
    OBVIOUS
  <2> HIDE DEF f
  <2> QED BY <2>1, <2>2
<1>3. C = [b \in 1..n + 1 |-> IF b = 1 THEN c[0] ELSE ctr128_inc(C[b - 1])]
  <2> HIDE DEF f
  <2> QED BY <1>2, Zenon
<1> HIDE DEF C, f
<1> DEFINE g == [b \in 0..n |-> C[b + 1]]
<1>4. g[0] = c[0] /\ \A b \in 1..n : g[b] = ctr128_inc(g[b - 1])
  <2>1. 0 \in 0..n /\ 1 \in 1..n + 1 /\ 0 + 1 = 1
    OBVIOUS
  <2>2. C[1] = c[0]
    BY <2>1, <1>3
  <2>3. g[0] = c[0]
    BY <2>1, <2>2
  <2>4. ASSUME NEW b \in 1..n PROVE g[b] = ctr128_inc(g[b - 1])
    <3>1. b \in 0..n /\ b - 1 \in 0..n /\ b + 1 \in 1..n + 1 /\ b + 1 # 1
          /\ b + 1 - 1 = b /\ b - 1 + 1 = b
      OBVIOUS
    <3>2. g[b] = C[b + 1] /\ g[b - 1] = C[b]
      BY <3>1
    <3>3. C[b + 1] = ctr128_inc(C[b])
      BY <3>1, <1>3
    <3> QED BY <3>2, <3>3
  <2> QED BY <2>3, <2>4
<1>5. \A b \in 0..n : c[b] = g[b]
  <2> HIDE DEF g
  <2>1. \A b \in 1..n : c[b - 1] = g[b - 1] => c[b] = g[b]
    BY <1>4
  <2>2. c[0] = g[0]
    BY <1>4
  <2>3. Alike(n, c, g)
    BY <2>1, <2>2 DEF Alike
  <2> QED BY ONLY <2>3, n \in Nat, MovesAgree
<1>6. ASSUME NEW b \in 1..n + 1 PROVE C[b] = c[b - 1]
  <2>1. b - 1 \in 0..n /\ b - 1 + 1 = b
    OBVIOUS
  <2>2. g[b - 1] = C[b]
    BY <2>1
  <2> QED BY <2>1, <2>2, <1>5
<1> QED BY <1>1, <1>6

\* The register of ofb_enc.
LEMMA RegisterIs ==
  ASSUME NEW n \in Nat, NEW c \in [0..n -> Block], \A b \in 1..n : c[b] = Enc(c[b - 1])
  PROVE  \A b \in 0..n : Register(c[0], n)[b] = c[b]
<1> DEFINE C == CHOOSE C : C = [b \in 0..n |-> IF b = 0 THEN c[0] ELSE Enc(C[b - 1])]
<1>1. Register(c[0], n) = C
  BY DEF Register
<1>2. c = [b \in 0..n |-> IF b = 0 THEN c[0] ELSE Enc(c[b - 1])]
  <2>1. \A b \in 0..n : b # 0 => b \in 1..n
    OBVIOUS
  <2> QED BY <2>1
<1>3. C = [b \in 0..n |-> IF b = 0 THEN c[0] ELSE Enc(C[b - 1])]
  BY <1>2, Zenon
<1> HIDE DEF C
<1>4. 0 \in 0..n /\ \A b \in 1..n : b \in 0..n /\ b # 0
  OBVIOUS
<1>5. C[0] = c[0] /\ \A b \in 1..n : C[b] = Enc(C[b - 1])
  BY <1>3, <1>4
<1>6. \A b \in 1..n : c[b - 1] = C[b - 1] => c[b] = C[b]
  BY <1>5
<1>7. c[0] = C[0]
  BY <1>5
<1>9. Alike(n, c, C)
  BY <1>6, <1>7 DEF Alike
<1>8. \A b \in 0..n : c[b] = C[b]
  BY ONLY <1>9, n \in Nat, MovesAgree
<1> QED BY <1>1, <1>8

\* A message of k blocks has k blocks, all of them full.
LEMMA WholeBlocks ==
  ASSUME CipherLaws, NEW x \in Seq(Byte), NEW k \in Nat, Len(x) = k * BlockLen
  PROVE  /\ NumBlocks(x) = k
         /\ \A b \in 1..k, i \in 1..BlockLen : (b - 1) * BlockLen + i <= Len(x)
<1>1. BlockLen \in Nat \ {0}
  BY BlockBasics
<1>2. NumBlocks(x) = k
  <2>1. BlockLen - 1 \in 0..BlockLen - 1
    BY <1>1
  <2>2. (k * BlockLen + (BlockLen - 1)) \div BlockLen = k
    BY <1>1, <2>1, DivUnique
  <2>3. Len(x) + BlockLen - 1 = k * BlockLen + (BlockLen - 1)
    BY <1>1
  <2> QED BY <2>2, <2>3 DEF NumBlocks
<1>3. ASSUME NEW b \in 1..k, NEW i \in 1..BlockLen
      PROVE  (b - 1) * BlockLen + i <= Len(x)
  <2>1. PICK e \in Nat : k = b + e
    <3>1. k - b \in Nat /\ k = b + (k - b)
      OBVIOUS
    <3> QED BY <3>1
  <2>2. k * BlockLen = (b - 1) * BlockLen + BlockLen + e * BlockLen
        /\ e * BlockLen \in Nat /\ (b - 1) * BlockLen \in Nat
    BY <2>1, <1>1
  <2> QED BY <2>2, <1>1
<1> QED BY <1>2, <1>3

\* The last block of a message of whole blocks that was put together from
\* blocks.
LEMMA LastIs ==
  ASSUME CipherLaws, NEW x \in Seq(Byte), NEW k \in Nat \ {0}, Len(x) = k * BlockLen,
         NEW f, \A b \in 1..NumBlocks(x) : f[b] \in Block
  PROVE  LastBlock(x) = BlockOf(x, k) /\ LastBlock(Joined(f, x)) = f[k]
<1>1. NumBlocks(x) = k /\ \A i \in 1..BlockLen : (k - 1) * BlockLen + i <= Len(x)
  <2>1. k \in 1..k
    OBVIOUS
  <2> QED BY <2>1, WholeBlocks
<1>2. NumBlocks(Joined(f, x)) = k /\ k \in 1..NumBlocks(x)
  BY <1>1, BlocksOfJoined
<1>3. BlockOf(Joined(f, x), k) =
        [i \in 1..BlockLen |-> IF (k - 1) * BlockLen + i <= Len(x) THEN f[k][i] ELSE 0]
  BY <1>2, BlocksOfJoined
<1>4. BlockOf(Joined(f, x), k) = [i \in 1..BlockLen |-> f[k][i]]
  BY <1>1, <1>3
<1>5. f[k] = [i \in 1..BlockLen |-> f[k][i]]
  BY <1>2 DEF Block
<1> QED BY <1>1, <1>2, <1>4, <1>5 DEF LastBlock

\* Of an empty message nothing is given.
LEMMA EmptyIs ==
  ASSUME CipherLaws, NEW f PROVE Joined(f, <<>>) = <<>>
<1>1. <<>> \in Seq(Byte) /\ Len(<<>>) = 0
  OBVIOUS
<1>2. NumBlocks(<<>>) = 0
  BY <1>1, Blocks
<1>3. \A b \in 1..NumBlocks(<<>>) : f[b] \in Block
  BY <1>2
<1>4. Joined(f, <<>>) \in Seq(Byte) /\ Len(Joined(f, <<>>)) = 0
  BY <1>1, <1>3, JoinedIs
<1> QED BY <1>4

\* What a mode's function gives of a message.
LEMMA OutIs ==
  ASSUME CipherLaws, NEW t \in Types, NEW iv \in Block, NEW x \in Seq(Byte), x # <<>>,
         NEW c, IsChain(t, iv, x, c)
  PROVE  Crypt(t, iv, x).out = Joined(Outs(t, x, c), x)
<1> DEFINE n == NumBlocks(x)
           o == Joined(Outs(t, x, c), x)
<1>1. n \in Nat /\ t.mode \in Modes /\ t.dir \in {"ENC", "DEC"}
  BY Blocks, TypesAre
<1>2. /\ c[0] = iv /\ c \in [0..n -> Block]
      /\ \A b \in 1..n : c[b] = StepOf(t, c[b - 1], BlockOf(x, b))
  BY DEF IsChain
<1>3. \A b \in 1..n : Outs(t, x, c)[b] = OutOf(t, c[b - 1], BlockOf(x, b))
  BY DEF Outs
<1> HIDE DEF n
<1>4. \A b \in 1..n : b - 1 \in 0..n /\ (b # 1 => b - 1 \in 1..n)
  BY <1>1
<1>5. CASE t.mode = "ECB" /\ t.dir = "ENC"
  <2>1. \A b \in 1..n : [d \in 1..n |-> Enc(BlockOf(x, d))][b] = Outs(t, x, c)[b]
    BY <1>3, <1>5 DEF OutOf
  <2>2. ecb_enc(x) = o
    BY <2>1, JoinedSame DEF ecb_enc, n
  <2> QED BY <2>2, <1>5 DEF Crypt
<1>6. CASE t.mode = "ECB" /\ t.dir = "DEC"
  <2>1. \A b \in 1..n : [d \in 1..n |-> Dec(BlockOf(x, d))][b] = Outs(t, x, c)[b]
    BY <1>3, <1>6 DEF OutOf
  <2>2. ecb_dec(x) = o
    BY <2>1, JoinedSame DEF ecb_dec, n
  <2> QED BY <2>2, <1>6 DEF Crypt
<1>7. CASE t.mode = "CBC" /\ t.dir = "ENC"
  <2>1. cbc_enc(iv, x) = o
    BY <1>7, CbcEncIs
  <2> QED BY <2>1, <1>7 DEF Crypt
<1>8. CASE t.mode = "CBC" /\ t.dir = "DEC"
  <2>1. \A b \in 1..n : c[b] = BlockOf(x, b)
    BY <1>2, <1>8 DEF StepOf
  <2>2. \A b \in 1..n : c[b - 1] = IF b = 1 THEN iv ELSE BlockOf(x, b - 1)
    BY <2>1, <1>2, <1>4
  <2>3. \A b \in 1..n :
          [d \in 1..n |-> XorBlock(Dec(BlockOf(x, d)),
                                   IF d = 1 THEN iv ELSE BlockOf(x, d - 1))][b] = Outs(t, x, c)[b]
    BY <2>2, <1>3, <1>8 DEF OutOf
  <2>4. cbc_dec(iv, x) = o
    BY <2>3, JoinedSame DEF cbc_dec, n
  <2> QED BY <2>4, <1>8 DEF Crypt
<1>9. CASE t.mode = "CTR"
  <2>1. \A b \in 1..n : c[b] = ctr128_inc(c[b - 1])
    BY <1>2, <1>9 DEF StepOf
  <2>2. \A b \in 1..n + 1 : Counters(c[0], n)[b] = c[b - 1]
    BY <1>1, <1>2, <2>1, CountersIs
  <2> DEFINE f == [b \in 1..n |-> Enc(Counters(iv, n)[b])]
  <2>3. \A b \in 1..n : f[b] = Enc(c[b - 1])
    BY <2>2, <1>1, <1>2
  <2>4. \A b \in 1..n : Outs(t, x, c)[b] = XorBlock(BlockOf(x, b), f[b])
    BY <2>3, <1>3, <1>9 DEF OutOf
  <2>5. ctr_enc(iv, x) = Masked(x, f)
    BY DEF ctr_enc, n
  <2> HIDE DEF f
  <2>6. Masked(x, f) = o
    BY <2>4, MaskedIs DEF n
  <2> QED BY <2>5, <2>6, <1>9 DEF Crypt
<1>10. CASE t.mode = "OFB"
  <2>1. \A b \in 1..n : c[b] = Enc(c[b - 1])
    BY <1>2, <1>10 DEF StepOf
  <2>2. \A b \in 0..n : Register(iv, n)[b] = c[b]
    BY <1>1, <1>2, <2>1, RegisterIs
  <2>3. \A b \in 1..n : Register(iv, n)[b] = Enc(c[b - 1])
    BY <2>1, <2>2, <1>1
  <2>4. \A b \in 1..n : Outs(t, x, c)[b] = XorBlock(BlockOf(x, b), Register(iv, n)[b])
    BY <2>3, <1>3, <1>10 DEF OutOf
  <2>5. ofb_enc(iv, x) = o
    BY <2>4, MaskedIs DEF n, ofb_enc
  <2> QED BY <2>5, <1>10 DEF Crypt
<1>11. CASE t.mode = "CFB128" /\ t.dir = "ENC"
  <2>1. cfb128_enc(iv, x) = o
    BY <1>11, CfbEncIs
  <2> QED BY <2>1, <1>11 DEF Crypt
<1>12. CASE t.mode = "CFB128" /\ t.dir = "DEC"
  <2>1. \A b \in 1..n : c[b] = BlockOf(x, b)
    BY <1>2, <1>12 DEF StepOf
  <2>2. \A b \in 1..n : c[b - 1] = IF b = 1 THEN iv ELSE BlockOf(x, b - 1)
    BY <2>1, <1>2, <1>4
  <2> DEFINE f == [b \in 1..n |-> Enc(IF b = 1 THEN iv ELSE BlockOf(x, b - 1))]
  <2>3. \A b \in 1..n : Outs(t, x, c)[b] = XorBlock(BlockOf(x, b), f[b])
    BY <2>2, <1>3, <1>12 DEF OutOf
  <2>4. cfb128_dec(iv, x) = Masked(x, f)
    BY DEF cfb128_dec, n
  <2> HIDE DEF f
  <2>5. Masked(x, f) = o
    BY <2>3, MaskedIs DEF n
  <2> QED BY <2>4, <2>5, <1>12 DEF Crypt
<1> QED BY <1>1, <1>5, <1>6, <1>7, <1>8, <1>9, <1>10, <1>11, <1>12 DEF Modes

\* The chaining value a mode's function leaves, when the message was one of
\* whole blocks.
LEMMA IvIs ==
  ASSUME CipherLaws, NEW t \in Types, NEW iv \in Block, NEW x \in Seq(Byte),
         NEW k \in Nat \ {0}, Len(x) = k * BlockLen, NEW c, IsChain(t, iv, x, c)
  PROVE  Crypt(t, iv, x).iv = c[k]
<1> DEFINE G == Outs(t, x, c)
<1>1. t.mode \in Modes /\ t.dir \in {"ENC", "DEC"}
  BY TypesAre
<1>2. NumBlocks(x) = k /\ k \in 1..k /\ k - 1 \in 0..k
  BY WholeBlocks
<1>3. c[k] = StepOf(t, c[k - 1], BlockOf(x, k)) /\ G[k] = OutOf(t, c[k - 1], BlockOf(x, k))
      /\ c[0] = iv /\ c \in [0..k -> Block]
  BY <1>2 DEF IsChain, Outs
<1>4. LastBlock(x) = BlockOf(x, k) /\ LastBlock(Joined(G, x)) = G[k]
  <2>1. \A b \in 1..NumBlocks(x) : G[b] \in Block
    BY <1>1, OutsTyped
  <2> QED BY <2>1, LastIs
<1>5. x # <<>> /\ Crypt(t, iv, x).out = Joined(G, x)
  <2>1. x # <<>>
    BY <1>2, Blocks
  <2> QED BY <2>1, OutIs
<1>6. CASE t.mode = "ECB"
  <2>1. \A b \in 1..k : c[b] = c[b - 1]
    BY <1>2, <1>6 DEF IsChain, StepOf
  <2> DEFINE d == [b \in 0..k |-> iv]
  <2>2. Alike(k, c, d)
    BY <2>1, <1>3 DEF Alike
  <2>3. c[k] = d[k]
    <3> HIDE DEF d
    <3> QED BY <2>2, <1>2, MovesAgree
  <2>4. c[k] = iv
    BY <2>3
  <2> QED BY <2>4, <1>5, <1>6 DEF Crypt
<1>7. CASE t.mode \in {"CBC", "CFB128"} /\ t.dir = "ENC"
  <2>1. G[k] = c[k]
    BY <1>3, <1>7 DEF StepOf, OutOf
  <2>2. Crypt(t, iv, x).iv = LastBlock(Crypt(t, iv, x).out)
    BY <1>5, <1>7 DEF Crypt
  <2> QED BY <2>1, <2>2, <1>4, <1>5
<1>8. CASE t.mode \in {"CBC", "CFB128"} /\ t.dir = "DEC"
  <2>1. BlockOf(x, k) = c[k]
    BY <1>3, <1>8 DEF StepOf
  <2>2. Crypt(t, iv, x).iv = LastBlock(x)
    BY <1>5, <1>8 DEF Crypt
  <2> QED BY <2>1, <2>2, <1>4
<1>9. CASE t.mode = "CTR"
  <2>1. \A b \in 1..k : c[b] = ctr128_inc(c[b - 1])
    BY <1>2, <1>9 DEF IsChain, StepOf
  <2>2. \A b \in 1..k + 1 : Counters(c[0], k)[b] = c[b - 1]
    BY <1>3, <2>1, CountersIs
  <2>3. Counters(iv, k)[k + 1] = c[k]
    <3>1. k + 1 \in 1..k + 1 /\ k + 1 - 1 = k
      OBVIOUS
    <3> QED BY <3>1, <2>2, <1>3
  <2>4. Len(x) \div BlockLen = k
    <3>1. BlockLen \in Nat \ {0}
      BY BlockBasics
    <3>2. 0 \in 0..BlockLen - 1
      BY <3>1
    <3>3. (k * BlockLen + 0) \div BlockLen = k
      BY <3>1, <3>2, DivUnique
    <3>4. k * BlockLen + 0 = Len(x)
      BY <3>1
    <3> QED BY <3>3, <3>4
  <2>5. Crypt(t, iv, x).iv = CtrAfter(iv, x)
    BY <1>5, <1>9 DEF Crypt
  <2> QED BY <2>3, <2>4, <2>5 DEF CtrAfter
<1>10. CASE t.mode = "OFB"
  <2>1. \A b \in 1..k : c[b] = Enc(c[b - 1])
    BY <1>2, <1>10 DEF IsChain, StepOf
  <2>2. \A b \in 0..k : Register(c[0], k)[b] = c[b]
    BY <1>3, <2>1, RegisterIs
  <2>3. Register(iv, k)[k] = c[k]
    BY <2>2, <1>2, <1>3
  <2>4. Crypt(t, iv, x).iv = OfbAfter(iv, x)
    BY <1>5, <1>10 DEF Crypt
  <2> QED BY <2>3, <2>4, <1>2 DEF OfbAfter
<1> QED BY <1>1, <1>6, <1>7, <1>8, <1>9, <1>10 DEF Modes

\* Together, and for a message that is empty.
LEMMA CryptIs ==
  ASSUME CipherLaws, NEW t \in Types, NEW iv \in Block, NEW x \in Seq(Byte),
         NEW c, IsChain(t, iv, x, c)
  PROVE  /\ Crypt(t, iv, x).out = Joined(Outs(t, x, c), x)
         /\ Crypt(t, iv, x).out \in Seq(Byte) /\ Len(Crypt(t, iv, x).out) = Len(x)
         /\ \A k \in Nat : Len(x) = k * BlockLen => Crypt(t, iv, x).iv = c[k]
<1>0. BlockLen \in Nat \ {0} /\ t.mode \in Modes
  BY BlockBasics, TypesAre
<1>1. Crypt(t, iv, x).out = Joined(Outs(t, x, c), x)
  <2>1. CASE x = <<>>
    BY <2>1, EmptyIs DEF Crypt
  <2> QED BY <2>1, OutIs
<1>2. \A b \in 1..NumBlocks(x) : Outs(t, x, c)[b] \in Block
  BY <1>0, OutsTyped
<1>3. Crypt(t, iv, x).out \in Seq(Byte) /\ Len(Crypt(t, iv, x).out) = Len(x)
  BY <1>1, <1>2, JoinedIs
<1>4. ASSUME NEW k \in Nat, Len(x) = k * BlockLen PROVE Crypt(t, iv, x).iv = c[k]
  <2>1. CASE k = 0
    <3>1. x = <<>>
      <4>1. Len(x) = 0
        BY <1>4, <2>1, <1>0
      <4> QED BY <4>1
    <3>2. c[0] = iv
      BY DEF IsChain
    <3> QED BY <2>1, <3>1, <3>2 DEF Crypt
  <2>2. CASE k # 0
    BY <2>2, <1>4, IvIs
  <2> QED BY <2>1, <2>2
<1> QED BY <1>1, <1>3, <1>4

\* What a call gives is bytes, as many as it was given.
LEMMA CryptTyped ==
  ASSUME CipherLaws, NEW t \in Types, NEW iv \in Block, NEW x \in Seq(Byte)
  PROVE  /\ Crypt(t, iv, x).out \in Seq(Byte) /\ Len(Crypt(t, iv, x).out) = Len(x)
         /\ \A k \in Nat : Len(x) = k * BlockLen => Crypt(t, iv, x).iv \in Block
<1>1. t.mode \in Modes
  BY TypesAre
<1>2. PICK c : IsChain(t, iv, x, c)
  BY <1>1, ChainExists
<1>3. ASSUME NEW k \in Nat, Len(x) = k * BlockLen PROVE Crypt(t, iv, x).iv \in Block
  <2>1. Crypt(t, iv, x).iv = c[k]
    BY <1>2, <1>3, CryptIs
  <2>2. NumBlocks(x) = k
    BY <1>3, WholeBlocks
  <2> QED BY <2>1, <2>2, <1>2 DEF IsChain
<1> QED BY <1>2, <1>3, CryptIs

\* Messages of whole blocks.
Whole(x) == x \in Seq(Byte) /\ \E k \in Nat : Len(x) = k * BlockLen

\* A message of whole blocks and what follows it: two calls, of which the
\* second starts from the chaining value of the first, give what one gives.
Divides(t, iv, p, q) ==
  /\ Crypt(t, iv, p).iv \in Block
  /\ Crypt(t, iv, p \o q).out = Crypt(t, iv, p).out \o Crypt(t, Crypt(t, iv, p).iv, q).out
  /\ Whole(q) => Crypt(t, iv, p \o q).iv = Crypt(t, Crypt(t, iv, p).iv, q).iv

\* Two calls do what one does, if the first is of whole blocks.
LEMMA CryptSplit ==
  ASSUME CipherLaws, NEW t \in Types, NEW iv \in Block, NEW p, Whole(p), NEW q \in Seq(Byte)
  PROVE  Divides(t, iv, p, q)
<1> DEFINE x == p \o q
           n == NumBlocks(q)
           v == Crypt(t, iv, p).iv
<1>0. PICK k \in Nat : Len(p) = k * BlockLen
  BY DEF Whole
<1>11. p \in Seq(Byte)
  BY DEF Whole
<1>1. t.mode \in Modes /\ v \in Block /\ BlockLen \in Nat \ {0}
  <2>1. v \in Block
    BY <1>0, <1>11, CryptTyped
  <2> HIDE DEF v
  <2> QED BY <2>1, TypesAre, BlockBasics
<1>2. x \in Seq(Byte) /\ Len(x) = Len(p) + Len(q)
  BY <1>11, ConcatProperties
<1>3. /\ NumBlocks(p) = k /\ NumBlocks(x) = k + n /\ n \in Nat
      /\ \A b \in 1..k : BlockOf(x, b) = BlockOf(p, b)
      /\ \A b \in 1..n : BlockOf(x, k + b) = BlockOf(q, b)
  BY <1>0, <1>11, BlocksSplit, Blocks
<1> HIDE DEF x, n, v
<1>4. PICK c : IsChain(t, iv, x, c)
  BY <1>1, <1>2, ChainExists
<1>5. /\ c \in [0..k + n -> Block] /\ c[0] = iv
      /\ \A b \in 1..k + n : c[b] = StepOf(t, c[b - 1], BlockOf(x, b))
  BY <1>3, <1>4 DEF IsChain
<1> DEFINE cp == [b \in 0..k |-> c[b]]
           cq == [b \in 0..n |-> c[k + b]]
<1>6. IsChain(t, iv, p, cp)
  <2>1. cp \in [0..k -> Block] /\ cp[0] = iv
    <3>1. 0 \in 0..k /\ \A b \in 0..k : b \in 0..k + n
      BY <1>3
    <3> QED BY <3>1, <1>5
  <2>2. ASSUME NEW b \in 1..k PROVE cp[b] = StepOf(t, cp[b - 1], BlockOf(p, b))
    <3>1. b \in 1..k + n /\ b \in 0..k /\ b - 1 \in 0..k
      BY <1>3
    <3>2. cp[b] = c[b] /\ cp[b - 1] = c[b - 1]
      BY <3>1
    <3> QED BY <3>1, <3>2, <1>3, <1>5
  <2> QED BY <2>1, <2>2, <1>3 DEF IsChain
<1>7. v = c[k]
  <2>1. v = cp[k]
    <3> HIDE DEF cp
    <3> QED BY <1>0, <1>6, <1>11, CryptIs DEF v
  <2> QED BY <2>1
<1>8. IsChain(t, v, q, cq)
  <2>1. cq \in [0..n -> Block] /\ cq[0] = v
    <3>1. 0 \in 0..n /\ k + 0 = k /\ \A b \in 0..n : k + b \in 0..k + n
      BY <1>3
    <3> QED BY <3>1, <1>5, <1>7
  <2>2. ASSUME NEW b \in 1..n PROVE cq[b] = StepOf(t, cq[b - 1], BlockOf(q, b))
    <3>1. k + b \in 1..k + n /\ b \in 0..n /\ b - 1 \in 0..n /\ k + b - 1 = k + (b - 1)
      BY <1>3
    <3>2. cq[b] = c[k + b] /\ cq[b - 1] = c[k + (b - 1)]
      BY <3>1
    <3>3. c[k + b] = StepOf(t, c[k + b - 1], BlockOf(x, k + b))
      BY <3>1, <1>5
    <3> QED BY <3>1, <3>2, <3>3, <1>3
  <2> QED BY <2>1, <2>2 DEF IsChain, n
<1>9. Crypt(t, iv, x).out = Crypt(t, iv, p).out \o Crypt(t, v, q).out
  <2> DEFINE f == Outs(t, x, c)
             g == Outs(t, p, cp)
             h == Outs(t, q, cq)
  <2>1. ASSUME NEW b \in 1..k PROVE f[b] \in Block /\ f[b] = g[b]
    <3>1. b \in 1..NumBlocks(x) /\ b \in 1..NumBlocks(p) /\ b - 1 \in 0..k
      BY <1>3
    <3>2. f[b] \in Block /\ f[b] = OutOf(t, c[b - 1], BlockOf(x, b))
      BY <3>1, <1>1, <1>2, <1>4, OutsTyped
    <3>3. g[b] = OutOf(t, cp[b - 1], BlockOf(p, b)) /\ cp[b - 1] = c[b - 1]
      BY <3>1 DEF Outs
    <3> QED BY <3>2, <3>3, <1>3
  <2>2. ASSUME NEW b \in 1..n PROVE f[k + b] \in Block /\ f[k + b] = h[b]
    <3>1. k + b \in 1..NumBlocks(x) /\ b \in 1..NumBlocks(q) /\ b - 1 \in 0..n
          /\ k + b - 1 = k + (b - 1)
      BY <1>3 DEF n
    <3>2. f[k + b] \in Block /\ f[k + b] = OutOf(t, c[k + b - 1], BlockOf(x, k + b))
      BY <3>1, <1>1, <1>2, <1>4, OutsTyped
    <3>3. h[b] = OutOf(t, cq[b - 1], BlockOf(q, b)) /\ cq[b - 1] = c[k + (b - 1)]
      BY <3>1 DEF Outs
    <3> QED BY <3>1, <3>2, <3>3, <1>3
  <2> HIDE DEF f, g, h, cp, cq
  <2>3. Joined(f, x) = Joined(g, p) \o Joined(h, q)
    BY <2>1, <2>2, <1>0, <1>11, JoinedSplit DEF x, n
  <2>4. /\ Crypt(t, iv, x).out = Joined(f, x) /\ Crypt(t, iv, p).out = Joined(g, p)
        /\ Crypt(t, v, q).out = Joined(h, q)
    BY <1>1, <1>2, <1>4, <1>6, <1>8, <1>11, CryptIs DEF f, g, h
  <2> QED BY <2>3, <2>4
<1>10. ASSUME NEW m \in Nat, Len(q) = m * BlockLen
       PROVE  Crypt(t, iv, x).iv = Crypt(t, v, q).iv
  <2>1. Len(x) = (k + m) * BlockLen
    BY <1>0, <1>1, <1>2, <1>10
  <2>2. Crypt(t, iv, x).iv = c[k + m]
    BY <2>1, <1>2, <1>4, CryptIs
  <2>3. Crypt(t, v, q).iv = cq[m]
    <3> HIDE DEF cq
    <3> QED BY <1>1, <1>8, <1>10, CryptIs
  <2>4. m \in 0..n
    BY <1>10, WholeBlocks DEF n
  <2> QED BY <2>2, <2>3, <2>4
<1>12. Whole(q) => Crypt(t, iv, x).iv = Crypt(t, v, q).iv
  BY <1>10 DEF Whole
<1> QED BY <1>1, <1>9, <1>12, Zenon DEF x, v, Divides

-----------------------------------------------------------------------------
(* The other direction *)

\* The other direction of a type is a type, of the same mode.
LEMMA OtherIs ==
  ASSUME NEW t \in Types
  PROVE  /\ Other(t) \in Types /\ Other(t).mode = t.mode
         /\ Other(t).dir = IF t.dir = "ENC" THEN "DEC" ELSE "ENC"
BY DEF Types, TypesOf, Other

\* A block put through both directions from the same register is itself, and
\* moves the register alike.
LEMMA BlockBack ==
  ASSUME CipherLaws, NEW t \in Types, NEW c \in Block, NEW X \in Block,
         NEW s, s = Other(t), NEW Y, Y = OutOf(t, c, X)
  PROVE  StepOf(s, c, Y) = StepOf(t, c, X) /\ OutOf(s, c, Y) = X
<1>1. t.mode \in Modes /\ t.dir \in {"ENC", "DEC"} /\ s.mode = t.mode
      /\ s.dir = IF t.dir = "ENC" THEN "DEC" ELSE "ENC"
  BY TypesAre, OtherIs
<1>2. ASSUME NEW a \in Block, NEW b \in Block
      PROVE  /\ XorBlock(a, b) \in Block /\ XorBlock(a, b) = XorBlock(b, a)
             /\ XorBlock(XorBlock(a, b), b) = a
             /\ Dec(Enc(a)) = a /\ Enc(Dec(a)) = a /\ Enc(a) \in Block /\ Dec(a) \in Block
  BY BlockBasics DEF CipherLaws
<1> DEFINE e == Enc(c)
<1>3. /\ e \in Block /\ Dec(X) \in Block /\ XorBlock(X, c) \in Block
      /\ Dec(Enc(X)) = X /\ Enc(Dec(X)) = X
      /\ XorBlock(XorBlock(X, c), c) = X
      /\ XorBlock(XorBlock(Dec(X), c), c) = Dec(X)
  BY <1>2
<1>4. /\ XorBlock(XorBlock(X, e), e) = X
      /\ XorBlock(XorBlock(e, X), e) = X
      /\ XorBlock(e, XorBlock(X, e)) = X
      /\ Dec(Enc(XorBlock(X, c))) = XorBlock(X, c)
  <2> HIDE DEF e
  <2>1. XorBlock(X, e) \in Block /\ XorBlock(X, e) = XorBlock(e, X)
        /\ XorBlock(XorBlock(X, e), e) = X
    BY <1>2, <1>3
  <2>2. XorBlock(e, XorBlock(X, e)) = XorBlock(XorBlock(X, e), e)
    BY <1>2, <1>3, <2>1
  <2>3. Dec(Enc(XorBlock(X, c))) = XorBlock(X, c)
    BY <1>2, <1>3
  <2> QED BY <2>1, <2>2, <2>3
<1>5. CASE t.mode = "ECB"
  BY <1>1, <1>3, <1>5 DEF StepOf, OutOf
<1>6. CASE t.mode = "CBC"
  BY <1>1, <1>3, <1>4, <1>6 DEF StepOf, OutOf
<1>7. CASE t.mode = "CTR" \/ t.mode = "OFB"
  BY <1>1, <1>3, <1>4, <1>7 DEF StepOf, OutOf
<1>8. CASE t.mode = "CFB128"
  BY <1>1, <1>3, <1>4, <1>8 DEF StepOf, OutOf
<1> QED BY <1>1, <1>5, <1>6, <1>7, <1>8 DEF Modes

\* A mode that takes a short block turns back byte by byte.
LEMMA ByteBack ==
  ASSUME CipherLaws, NEW t \in Types, NEW c \in Block, NEW X \in Block, NEW Y \in Block,
         t.mode \in {"ECB", "CBC"} => Y = OutOf(t, c, X),
         NEW i \in 1..BlockLen, Y[i] = OutOf(t, c, X)[i]
  PROVE  OutOf(Other(t), c, Y)[i] = X[i]
<1>1. CASE t.mode \in {"ECB", "CBC"}
  <2>1. OutOf(Other(t), c, Y) = X
    BY <1>1, BlockBack
  <2> QED BY <2>1
<1>2. CASE t.mode \notin {"ECB", "CBC"}
  <2> DEFINE e == Enc(c)
  <2>1. e \in Block
    BY BlockBasics
  <2> HIDE DEF e
  <2>2. X[i] \in Byte /\ Y[i] \in Byte /\ e[i] \in Byte
    BY <2>1 DEF Block
  <2>3. /\ XorBlock(X, e)[i] = Exor(X[i], e[i]) /\ XorBlock(e, X)[i] = Exor(e[i], X[i])
        /\ XorBlock(Y, e)[i] = Exor(Y[i], e[i]) /\ XorBlock(e, Y)[i] = Exor(e[i], Y[i])
    BY DEF XorBlock
  <2>4. /\ t.mode \in {"CTR", "OFB", "CFB128"} /\ t.dir \in {"ENC", "DEC"}
        /\ Other(t).mode = t.mode
        /\ Other(t).dir = IF t.dir = "ENC" THEN "DEC" ELSE "ENC"
    BY <1>2, TypesAre, OtherIs DEF Modes
  <2>5. Exor(e[i], X[i]) = Exor(X[i], e[i]) /\ Exor(e[i], Y[i]) = Exor(Y[i], e[i])
        /\ Exor(Exor(X[i], e[i]), e[i]) = X[i]
    BY <2>2 DEF CipherLaws
  <2>6. OutOf(t, c, X)[i] = Exor(X[i], e[i])
    BY <2>3, <2>4, <2>5 DEF OutOf, e
  <2>7. OutOf(Other(t), c, Y)[i] = Exor(Y[i], e[i])
    BY <2>3, <2>4, <2>5 DEF OutOf, e
  <2> QED BY <2>5, <2>6, <2>7
<1> QED BY <1>1, <1>2

\* Every block of a message but the last is full.
LEMMA FullBlocks ==
  ASSUME CipherLaws, NEW x \in Seq(Byte), NEW b \in Nat, b < NumBlocks(x)
  PROVE  b * BlockLen < Len(x)
<1> DEFINE n == NumBlocks(x)
           m == Len(x) + BlockLen - 1
<1>1. BlockLen \in Nat \ {0} /\ Len(x) \in Nat /\ n \in Nat
  BY BlockBasics, Blocks
<1>2. m \in Nat /\ n = m \div BlockLen
  BY <1>1 DEF NumBlocks
<1>3. m \div BlockLen \in Nat /\ m % BlockLen \in 0..BlockLen - 1
      /\ m = (m \div BlockLen) * BlockLen + (m % BlockLen)
  <2> HIDE DEF m
  <2> QED BY <1>1, <1>2
<1>4. n * BlockLen <= Len(x) + BlockLen - 1
  <2> HIDE DEF n
  <2>1. n * BlockLen \in Nat /\ n * BlockLen <= m
    BY <1>1, <1>2, <1>3
  <2> QED BY <2>1
<1> HIDE DEF n, m
<1>5. PICK e \in Nat : n = b + 1 + e
  <2>1. n - b - 1 \in Nat /\ n = b + 1 + (n - b - 1)
    BY <1>1 DEF n
  <2> QED BY <2>1
<1>6. n * BlockLen = b * BlockLen + BlockLen + e * BlockLen /\ e * BlockLen \in Nat
      /\ b * BlockLen \in Nat
  BY <1>1, <1>5
<1> QED BY <1>1, <1>4, <1>6

\* What a call gives, put through the other direction, is what it was given: a
\* message of any length in the modes that take one, of whole blocks in the others.
LEMMA CryptBack ==
  ASSUME CipherLaws, NEW t \in Types, NEW iv \in Block, NEW x \in Seq(Byte),
         t.mode \in {"ECB", "CBC"} => Whole(x),
         NEW y, y = Crypt(t, iv, x).out
  PROVE  Crypt(Other(t), iv, y).out = x
<1> DEFINE s == Other(t)
           n == NumBlocks(x)
<1>1. t.mode \in Modes /\ s \in Types /\ BlockLen \in Nat \ {0} /\ n \in Nat /\ Len(x) \in Nat
  <2>1. n \in Nat /\ Len(x) \in Nat
    BY Blocks
  <2>2. t.mode \in Modes /\ s \in Types
    BY TypesAre, OtherIs
  <2>3. BlockLen \in Nat \ {0}
    BY BlockBasics
  <2> QED BY <2>1, <2>2, <2>3
<1>2. PICK c : IsChain(t, iv, x, c)
  BY <1>1, ChainExists
<1> DEFINE f == Outs(t, x, c)
<1>3. ASSUME NEW b \in 1..n
      PROVE  /\ c[b] \in Block /\ c[b - 1] \in Block /\ BlockOf(x, b) \in Block
             /\ f[b] = OutOf(t, c[b - 1], BlockOf(x, b)) /\ f[b] \in Block
             /\ c[b] = StepOf(t, c[b - 1], BlockOf(x, b))
  <2>1. t.mode \in Modes
    BY <1>1
  <2>2. \A a \in 1..NumBlocks(x) :
           /\ c[a] \in Block /\ c[a - 1] \in Block /\ BlockOf(x, a) \in Block
           /\ Outs(t, x, c)[a] = OutOf(t, c[a - 1], BlockOf(x, a))
           /\ Outs(t, x, c)[a] \in Block
    BY <2>1, <1>2, OutsTyped
  <2>3. \A a \in 1..NumBlocks(x) : c[a] = StepOf(t, c[a - 1], BlockOf(x, a))
    BY <1>2, Zenon DEF IsChain
  <2> QED BY <2>2, <2>3
<1> HIDE DEF f
<1>4. y = Joined(f, x) /\ y \in Seq(Byte) /\ Len(y) = Len(x)
  BY <1>1, <1>2, CryptIs DEF f
<1>5. /\ NumBlocks(y) = n
      /\ \A b \in 1..n : BlockOf(y, b) =
             [i \in 1..BlockLen |-> IF (b - 1) * BlockLen + i <= Len(x) THEN f[b][i] ELSE 0]
  BY <1>3, <1>4, BlocksOfJoined
<1>6. ASSUME NEW b \in 1..n PROVE BlockOf(y, b) \in Block
  BY <1>1, <1>4, Blocks
<1>7. ASSUME NEW b \in 1..n, b # n \/ Whole(x) PROVE BlockOf(y, b) = f[b]
  <2>1. \A i \in 1..BlockLen : (b - 1) * BlockLen + i <= Len(x)
    <3>1. CASE Whole(x)
      <4>1. PICK k \in Nat : Len(x) = k * BlockLen
        BY <3>1 DEF Whole
      <4> QED BY <4>1, WholeBlocks
    <3>2. CASE b # n
      <4>1. b \in Nat /\ b < NumBlocks(x)
        BY <3>2, <1>1
      <4>2. b * BlockLen < Len(x)
        BY <4>1, FullBlocks
      <4>3. (b - 1) * BlockLen = b * BlockLen - BlockLen /\ b * BlockLen \in Nat
        BY <4>1, <1>1
      <4> HIDE DEF n
      <4> QED BY <4>2, <4>3, <1>1
    <3> QED BY <3>1, <3>2, <1>7
  <2>2. BlockOf(y, b) = [i \in 1..BlockLen |-> f[b][i]]
    BY <2>1, <1>5
  <2> QED BY <2>2, <1>3 DEF Block
<1>8. n # 0 => n \in 1..n /\ n - 1 \in 0..n
  BY <1>1
<1> HIDE DEF n
<1> DEFINE last == StepOf(s, c[n - 1], BlockOf(y, n))
           d == [b \in 0..n |-> IF n # 0 /\ b = n THEN last ELSE c[b]]
<1>9. IsChain(s, iv, y, d)
  <2>1. s.mode \in Modes /\ c \in [0..n -> Block] /\ c[0] = iv
    BY <1>1, <1>2, TypesAre DEF IsChain, n
  <2>2. n # 0 => last \in Block
    <3> SUFFICES ASSUME n # 0 PROVE last \in Block
      OBVIOUS
    <3>1. c[n - 1] \in Block /\ BlockOf(y, n) \in Block
      BY <2>1, <1>6, <1>8
    <3> QED BY <2>1, <3>1, StepTyped
  <2> HIDE DEF last
  <2>3. d \in [0..n -> Block]
    BY <2>1, <2>2
  <2>4. d[0] = iv
    BY <1>1, <2>1
  <2>5. ASSUME NEW b \in 1..n PROVE d[b] = StepOf(s, d[b - 1], BlockOf(y, b))
    <3>1. b \in 0..n /\ b - 1 \in 0..n /\ b - 1 # n /\ n # 0
      BY <1>1
    <3>2. d[b - 1] = c[b - 1]
      BY <3>1
    <3>3. CASE b = n
      <4>1. d[b] = last
        BY <3>1, <3>3
      <4> QED BY <4>1, <3>2, <3>3 DEF last
    <3>4. CASE b # n
      <4>1. d[b] = c[b]
        BY <3>1, <3>4
      <4>2. BlockOf(y, b) = OutOf(t, c[b - 1], BlockOf(x, b))
        BY <3>4, <1>3, <1>7
      <4>3. StepOf(s, c[b - 1], BlockOf(y, b)) = StepOf(t, c[b - 1], BlockOf(x, b))
        <5>1. c[b - 1] \in Block /\ BlockOf(x, b) \in Block
          BY <1>3
        <5> QED BY <5>1, <4>2, BlockBack
      <4> QED BY <4>1, <4>3, <3>2, <1>3
    <3> QED BY <3>3, <3>4
  <2> QED BY <2>3, <2>4, <2>5, <1>5 DEF IsChain
<1> DEFINE g == Outs(s, y, d)
<1>10. ASSUME NEW b \in 1..n
       PROVE  g[b] = OutOf(s, c[b - 1], BlockOf(y, b)) /\ g[b] \in Block
  <2>1. s.mode \in Modes
    BY <1>1, TypesAre
  <2> HIDE DEF d
  <2>2. g[b] = OutOf(s, d[b - 1], BlockOf(y, b)) /\ g[b] \in Block
    BY <2>1, <1>1, <1>4, <1>5, <1>9, OutsTyped
  <2>3. d[b - 1] = c[b - 1]
    BY <1>1 DEF d
  <2> QED BY <2>2, <2>3
<1> HIDE DEF d, g
<1>11. Crypt(s, iv, y).out = Joined(g, y)
  BY <1>1, <1>4, <1>9, CryptIs DEF g
<1>12. /\ Joined(g, y) \in Seq(Byte) /\ Len(Joined(g, y)) = Len(x)
       /\ \A j \in 1..Len(x) :
            Joined(g, y)[j] = g[(j - 1) \div BlockLen + 1][((j - 1) % BlockLen) + 1]
  BY <1>4, <1>5, <1>10, JoinedIs
<1>13. ASSUME NEW j \in 1..Len(x) PROVE Joined(g, y)[j] = x[j]
  <2> DEFINE b == (j - 1) \div BlockLen + 1
             i == ((j - 1) % BlockLen) + 1
  <2>1. b \in 1..n /\ i \in 1..BlockLen
    BY Blocks DEF n
  <2>2. (b - 1) * BlockLen + i = j
    <3>1. j \in Nat \ {0}
      BY <1>1
    <3> QED BY <3>1, Position
  <2>3. Joined(g, y)[j] = g[b][i]
    BY <1>12
  <2> HIDE DEF b, i
  <2>4. j \in Nat /\ j <= Len(x)
    BY <1>1
  <2>5. BlockOf(y, b)[i] = f[b][i]
    <3>1. BlockOf(y, b) = [r \in 1..BlockLen |-> IF (b - 1) * BlockLen + r <= Len(x)
                                                THEN f[b][r] ELSE 0]
      BY <2>1, <1>5
    <3>2. (b - 1) * BlockLen + i <= Len(x)
      BY <2>2, <2>4
    <3> QED BY <3>1, <3>2, <2>1
  <2>6. BlockOf(x, b)[i] = x[j]
    <3>1. (b - 1) * BlockLen + i <= Len(x)
      BY <2>2, <2>4
    <3>2. BlockOf(x, b)[i] = x[(b - 1) * BlockLen + i]
      BY <3>1, <2>1 DEF BlockOf
    <3> QED BY <3>2, <2>2
  <2>7. t.mode \in {"ECB", "CBC"} => BlockOf(y, b) = OutOf(t, c[b - 1], BlockOf(x, b))
    BY <2>1, <1>3, <1>7
  <2>8. BlockOf(y, b)[i] = OutOf(t, c[b - 1], BlockOf(x, b))[i]
    BY <2>1, <2>5, <1>3
  <2>9. c[b - 1] \in Block /\ BlockOf(x, b) \in Block /\ BlockOf(y, b) \in Block
    BY <2>1, <1>3, <1>6
  <2>10. OutOf(s, c[b - 1], BlockOf(y, b))[i] = BlockOf(x, b)[i]
    BY <2>1, <2>7, <2>8, <2>9, ByteBack
  <2>11. g[b] = OutOf(s, c[b - 1], BlockOf(y, b))
    BY <2>1, <1>10
  <2> QED BY ONLY <2>3, <2>6, <2>10, <2>11, Zenon
<1> DEFINE z == Joined(g, y)
<1>14. z \in Seq(Byte) /\ Len(z) = Len(x) /\ \A j \in 1..Len(x) : z[j] = x[j]
  BY <1>12, <1>13
<1> HIDE DEF z
<1>15. z = x
  BY <1>14, SeqEqual
<1> QED BY <1>11, <1>15 DEF z

-----------------------------------------------------------------------------
(* One call of lea_online_update *)

\* What is processed at once is whole blocks, and no more than a block is left: a
\* full one only if it may be padding.
LEMMA BlocksNowIs ==
  ASSUME CipherLaws, NEW t, NEW n \in Nat, keep_last(t) => n # 0
  PROVE  \E m \in Nat : /\ BlocksNow(t, n) = m * BlockLen /\ m * BlockLen <= n
                        /\ n - m * BlockLen <= BlockLen
                        /\ ~keep_last(t) => n - m * BlockLen < BlockLen
<1>1. BlockLen \in Nat \ {0}
  BY BlockBasics
<1>2. PICK q \in Nat, r \in 0..BlockLen - 1 : n = q * BlockLen + r /\ r = n % BlockLen
  BY <1>1, DivShift
<1>3. q * BlockLen \in Nat
  BY <1>1
<1>4. CASE keep_last(t) /\ r = 0
  <2>1. q # 0
    BY <1>1, <1>2, <1>4
  <2>2. PICK e \in Nat : q = e + 1
    <3>1. q - 1 \in Nat /\ q = (q - 1) + 1
      BY <2>1
    <3> QED BY <3>1
  <2>3. n = e * BlockLen + BlockLen /\ e * BlockLen \in Nat
    BY <2>2, <1>1, <1>2, <1>4
  <2>4. BlocksNow(t, n) = n - BlockLen
    BY <1>2, <1>4 DEF BlocksNow
  <2>5. BlocksNow(t, n) = e * BlockLen /\ e * BlockLen <= n /\ n - e * BlockLen <= BlockLen
    BY ONLY <2>3, <2>4, <1>1
  <2> QED BY <2>5, <1>4
<1>5. CASE ~(keep_last(t) /\ r = 0)
  <2>1. BlocksNow(t, n) = n - r
    BY <1>2, <1>5 DEF BlocksNow
  <2> QED BY <2>1, <1>1, <1>2, <1>3
<1> QED BY <1>4, <1>5

\* Two messages, one after the other.
LEMMA Concats ==
  ASSUME NEW u \in Seq(Byte), NEW v \in Seq(Byte)
  PROVE  /\ u \o v \in Seq(Byte) /\ Len(u \o v) = Len(u) + Len(v)
         /\ Len(u) \in Nat /\ Len(v) \in Nat
BY ConcatProperties

\* Where a message is cut twice, either cut may come first.
LEMMA Associates ==
  ASSUME NEW u \in Seq(Byte), NEW v \in Seq(Byte), NEW w \in Seq(Byte)
  PROVE  (u \o v) \o w = u \o (v \o w)
<1> QED BY ConcatAssociative

\* The first n bytes of a message and the rest.
LEMMA Cut ==
  ASSUME NEW u \in Seq(Byte), NEW n \in 0..Len(u)
  PROVE  /\ SubSeq(u, 1, n) \in Seq(Byte) /\ Len(SubSeq(u, 1, n)) = n
         /\ SubSeq(u, n + 1, Len(u)) \in Seq(Byte) /\ Len(SubSeq(u, n + 1, Len(u))) = Len(u) - n
         /\ SubSeq(u, 1, n) \o SubSeq(u, n + 1, Len(u)) = u
<1>1. Len(u) \in Nat /\ \A i \in 1..Len(u) : u[i] \in Byte
  OBVIOUS
<1>2. SubSeq(u, 1, n) \in Seq(Byte) /\ Len(SubSeq(u, 1, n)) = n
  <2>1. \A i \in 1..n : u[i] \in Byte
    BY <1>1
  <2> QED BY <2>1, <1>1, SubSeqProperties
<1>3. SubSeq(u, n + 1, Len(u)) \in Seq(Byte) /\ Len(SubSeq(u, n + 1, Len(u))) = Len(u) - n
  <2>1. \A i \in n + 1..Len(u) : u[i] \in Byte
    BY <1>1
  <2>2. /\ SubSeq(u, n + 1, Len(u)) \in Seq(Byte)
        /\ Len(SubSeq(u, n + 1, Len(u))) = IF n + 1 <= Len(u) THEN Len(u) - (n + 1) + 1 ELSE 0
    BY <2>1, <1>1, SubSeqProperties
  <2> QED BY <2>2, <1>1
<1>4. SubSeq(u, 1, n) \o SubSeq(u, n + 1, Len(u)) = u
  <2>1. 1 \in 1..Len(u) + 1 /\ n \in 1 - 1..Len(u) /\ Len(u) \in n..Len(u)
    BY <1>1
  <2>2. SubSeq(u, 1, n) \o SubSeq(u, n + 1, Len(u)) = SubSeq(u, 1, Len(u))
    BY <2>1, ConcatAdjacentSubSeq
  <2> QED BY <2>2, SubSeqFull
<1> QED BY <1>2, <1>3, <1>4

\* A message and what follows it are found again where they meet.
LEMMA Joining ==
  ASSUME NEW u \in Seq(Byte), NEW v \in Seq(Byte)
  PROVE  /\ SubSeq(u \o v, 1, Len(u)) = u
         /\ SubSeq(u \o v, Len(u) + 1, Len(u \o v)) = v
<1> DEFINE w == u \o v
           a == SubSeq(w, 1, Len(u))
           b == SubSeq(w, Len(u) + 1, Len(w))
<1>1. /\ w \in Seq(Byte) /\ Len(w) = Len(u) + Len(v) /\ Len(u) \in Nat /\ Len(v) \in Nat
      /\ \A i \in 1..Len(u) + Len(v) : w[i] = IF i <= Len(u) THEN u[i] ELSE v[i - Len(u)]
  BY ConcatProperties
<1> HIDE DEF w
<1>2. Len(u) \in 0..Len(w)
  BY <1>1
<1>3. /\ a \in Seq(Byte) /\ Len(a) = Len(u)
      /\ b \in Seq(Byte) /\ Len(b) = Len(v)
  <2>1. Len(w) - Len(u) = Len(v)
    BY <1>1
  <2> QED BY <1>1, <1>2, <2>1, Cut
<1>4. ASSUME NEW i \in 1..Len(a) PROVE a[i] = u[i]
  <2>1. \A j \in 1..Len(u) : w[j] \in Byte
    BY <1>1
  <2>2. a[i] = w[1 + i - 1]
    <3>1. i \in 1..Len(u) - 1 + 1
      BY <1>1, <1>3
    <3> QED BY <1>1, <2>1, <3>1, SubSeqProperties
  <2> HIDE DEF a
  <2>3. i \in 1..Len(u) + Len(v) /\ i <= Len(u) /\ 1 + i - 1 = i
    BY <1>1, <1>3
  <2> QED BY <1>1, <2>2, <2>3
<1>5. ASSUME NEW i \in 1..Len(b) PROVE b[i] = v[i]
  <2>1. \A j \in Len(u) + 1..Len(w) : w[j] \in Byte
    BY <1>1
  <2>2. b[i] = w[Len(u) + 1 + i - 1]
    <3>1. i \in 1..Len(w) - (Len(u) + 1) + 1
      BY <1>1, <1>3
    <3>2. Len(u) + 1 \in Int /\ Len(w) \in Int
      BY <1>1
    <3> QED BY <2>1, <3>1, <3>2, SubSeqProperties
  <2> HIDE DEF b
  <2>3. /\ Len(u) + i \in 1..Len(u) + Len(v) /\ ~(Len(u) + i <= Len(u))
        /\ Len(u) + 1 + i - 1 = Len(u) + i /\ Len(u) + i - Len(u) = i
    BY <1>1, <1>3
  <2> QED BY <1>1, <2>2, <2>3
<1> HIDE DEF a, b
<1>6. a = u /\ b = v
  BY <1>3, <1>4, <1>5, SeqEqual
<1> QED BY <1>6 DEF a, b, w

\* A prefix that reaches into what follows.
LEMMA PrefixGrows ==
  ASSUME NEW u \in Seq(Byte), NEW v \in Seq(Byte), NEW m \in 0..Len(v)
  PROVE  /\ Len(u \o SubSeq(v, 1, m)) = Len(u) + m
         /\ SubSeq(u \o v, 1, Len(u) + m) = u \o SubSeq(v, 1, m)
<1> DEFINE v1 == SubSeq(v, 1, m)
           v2 == SubSeq(v, m + 1, Len(v))
<1>1. v1 \in Seq(Byte) /\ Len(v1) = m /\ v2 \in Seq(Byte) /\ v1 \o v2 = v
  BY Cut
<1> HIDE DEF v1, v2
<1>2. (u \o v1) \o v2 = u \o (v1 \o v2)
  <2>1. u \in Seq(Byte) /\ v1 \in Seq(Byte) /\ v2 \in Seq(Byte)
    BY <1>1
  <2> QED BY ONLY <2>1, Associates
<1>3. u \o v1 \in Seq(Byte) /\ Len(u \o v1) = Len(u) + m
  BY <1>1, Concats
<1> DEFINE w == u \o v1
<1>4. SubSeq(w \o v2, 1, Len(w)) = w
  <2>1. w \in Seq(Byte)
    BY <1>3
  <2> HIDE DEF w
  <2> QED BY <1>1, <2>1, Joining
<1>5. w \o v2 = u \o v /\ Len(w) = Len(u) + m
  BY <1>1, <1>2, <1>3
<1> HIDE DEF w
<1>6. SubSeq(u \o v, 1, Len(u) + m) = w
  BY <1>4, <1>5
<1> QED BY <1>3, <1>6 DEF w, v1

\* The pieces an update makes of what is held and what comes.
Fits(held, n) == n + Len(held) <= BlockLen
More(held, n) ==
  IF Fits(held, n) THEN n
  ELSE IF held # <<>> /\ Len(held) # BlockLen THEN BlockLen - Len(held) ELSE 0
Pending(held, piece, n) == held \o SubSeq(piece, 1, More(held, n))
Rest(held, piece, n) == SubSeq(piece, More(held, n) + 1, n)
Kept(t, held, n) == Fits(held, n) /\ (keep_last(t) \/ n + Len(held) # BlockLen)

Parts(t, held, piece, n) ==
  /\ Kept(t, held, n) => /\ Pending(held, piece, n) = held \o piece
                         /\ Len(held \o piece) <= BlockLen
                         /\ ~keep_last(t) => Len(held \o piece) < BlockLen
  /\ Fits(held, n) => Len(Pending(held, piece, n)) = n + Len(held)
  /\ ~Kept(t, held, n) =>
       /\ Pending(held, piece, n) \in Seq(Byte) /\ Rest(held, piece, n) \in Seq(Byte)
       /\ \E j \in {0, 1} : Len(Pending(held, piece, n)) = j * BlockLen
       /\ keep_last(t) => Len(Rest(held, piece, n)) # 0
       /\ Pending(held, piece, n) \o Rest(held, piece, n) = held \o piece

\* lea_online_update fills the pending block before it takes any block of the input,
\* and what it has taken is what was held and what came.
LEMMA UpdateParts ==
  ASSUME CipherLaws, NEW t, NEW held \in Seq(Byte), Len(held) <= BlockLen,
         ~keep_last(t) => Len(held) < BlockLen,
         NEW piece \in Seq(Byte), NEW n \in Nat, n # 0, Len(piece) = n
  PROVE  Parts(t, held, piece, n)
<1>1. BlockLen \in Nat \ {0} /\ Len(held) \in Nat
  BY BlockBasics
<1>2. More(held, n) \in 0..n
  BY <1>1 DEF More, Fits
<1>3. /\ SubSeq(piece, 1, More(held, n)) \in Seq(Byte)
      /\ Len(SubSeq(piece, 1, More(held, n))) = More(held, n)
      /\ Rest(held, piece, n) \in Seq(Byte) /\ Len(Rest(held, piece, n)) = n - More(held, n)
      /\ SubSeq(piece, 1, More(held, n)) \o Rest(held, piece, n) = piece
  BY <1>2, Cut DEF Rest
<1>4. Pending(held, piece, n) \in Seq(Byte)
      /\ Len(Pending(held, piece, n)) = Len(held) + More(held, n)
  BY <1>3, Concats DEF Pending
<1>5. Len(held \o piece) = Len(held) + n
  BY Concats
<1>6. ASSUME Fits(held, n)
      PROVE  /\ Pending(held, piece, n) = held \o piece
             /\ Len(Pending(held, piece, n)) = n + Len(held)
  <2>1. More(held, n) = n
    BY <1>6 DEF More
  <2>2. SubSeq(piece, 1, n) = piece
    BY SubSeqFull
  <2> QED BY <2>1, <2>2, <1>1, <1>5 DEF Pending
<1>7. ASSUME Kept(t, held, n)
      PROVE  Len(held \o piece) <= BlockLen /\ (~keep_last(t) => Len(held \o piece) < BlockLen)
  BY <1>1, <1>5, <1>7 DEF Kept, Fits
<1>8. ASSUME ~Kept(t, held, n)
      PROVE  /\ Len(Pending(held, piece, n)) = 0 \/ Len(Pending(held, piece, n)) = BlockLen
             /\ keep_last(t) => Len(Rest(held, piece, n)) # 0
  <2>1. CASE Fits(held, n)
    <3>1. More(held, n) = n /\ ~keep_last(t) /\ n + Len(held) = BlockLen
      BY <2>1, <1>8 DEF More, Kept
    <3> QED BY <3>1, <1>1, <1>4
  <2>2. CASE ~Fits(held, n)
    <3>1. n + Len(held) > BlockLen
      BY <2>2, <1>1 DEF Fits
    <3>2. CASE held = <<>>
      <4>1. Len(held) = 0 /\ More(held, n) = 0
        BY <2>2, <3>2 DEF More
      <4> QED BY <4>1, <1>1, <1>3, <1>4
    <3>3. CASE held # <<>> /\ Len(held) = BlockLen
      <4>1. More(held, n) = 0
        BY <2>2, <3>3 DEF More
      <4> QED BY <4>1, <3>3, <1>1, <1>3, <1>4
    <3>4. CASE held # <<>> /\ Len(held) # BlockLen
      <4>1. More(held, n) = BlockLen - Len(held)
        BY <2>2, <3>4 DEF More
      <4> QED BY <4>1, <3>1, <1>1, <1>3, <1>4
    <3> QED BY <3>2, <3>3, <3>4
  <2> QED BY <2>1, <2>2
<1>9. Len(Pending(held, piece, n)) = 0 \/ Len(Pending(held, piece, n)) = BlockLen =>
        \E j \in {0, 1} : Len(Pending(held, piece, n)) = j * BlockLen
  <2>1. 0 * BlockLen = 0 /\ 1 * BlockLen = BlockLen
    BY <1>1
  <2> QED BY <2>1
<1>10. Pending(held, piece, n) \o Rest(held, piece, n) = held \o piece
  <2>1. (held \o SubSeq(piece, 1, More(held, n))) \o Rest(held, piece, n) =
          held \o (SubSeq(piece, 1, More(held, n)) \o Rest(held, piece, n))
    BY <1>3, Associates
  <2> QED BY <2>1, <1>3 DEF Pending
<1>11. Kept(t, held, n) => Fits(held, n)
  BY DEF Kept
<1>12. ASSUME Kept(t, held, n)
       PROVE  /\ Pending(held, piece, n) = held \o piece
              /\ Len(held \o piece) <= BlockLen
              /\ ~keep_last(t) => Len(held \o piece) < BlockLen
  BY <1>6, <1>7, <1>11, <1>12
<1>13. ASSUME ~Kept(t, held, n)
       PROVE  /\ Pending(held, piece, n) \in Seq(Byte) /\ Rest(held, piece, n) \in Seq(Byte)
              /\ \E j \in {0, 1} : Len(Pending(held, piece, n)) = j * BlockLen
              /\ keep_last(t) => Len(Rest(held, piece, n)) # 0
              /\ Pending(held, piece, n) \o Rest(held, piece, n) = held \o piece
  BY <1>3, <1>4, <1>8, <1>9, <1>10, <1>13, Zenon
<1> QED BY ONLY <1>6, <1>12, <1>13, Zenon DEF Parts

-----------------------------------------------------------------------------
(* The invariant *)

Contexts == [encType : Types \cup {NoType}, iv : Block, last_block : Seq(Byte)]

OnlineTyped ==
  /\ ctx \in Contexts /\ Len(ctx.last_block) <= BlockLen
  /\ ~keep_last(ctx.encType) => Len(ctx.last_block) < BlockLen
  /\ iv0 \in Block /\ fed \in Seq(Byte) /\ Len(fed) <= MaxFed /\ out \in Seq(Byte)
  /\ ret \in -4..MaxFed + BlockLen
  /\ ended \in Types \cup {NoType} /\ spoilt \in BOOLEAN
  /\ ended # NoType => ctx.encType = NoType

\* The whole blocks of the message went through one call, whose chaining value
\* the context has; the rest of the message is what it holds.
PieceInv ==
  ctx.encType # NoType /\ ~spoilt =>
    \E p : /\ Whole(p) /\ fed = p \o ctx.last_block
           /\ out = Crypt(ctx.encType, iv0, p).out
           /\ ctx.iv = Crypt(ctx.encType, iv0, p).iv

\* A message with its padding.
WithPad(x) == x \o [i \in 1..BlockLen - (Len(x) % BlockLen) |-> BlockLen - (Len(x) % BlockLen)]

\* What unpadding gives of a message that was decrypted.
Unpads(t, iv, x, y) ==
  LET plain == Crypt(t, iv, x).out
  IN /\ y = Prefix(plain, Len(y))
     /\ Len(x) - Len(y) \in 0..BlockLen
     /\ plain[Len(x)] \in 1..BlockLen => Len(x) - Len(y) = plain[Len(x)]

\* What came of a message that was completed.
EndedInv ==
  ended # NoType /\ ~spoilt =>
    /\ ended.pad = "none" => /\ ended.mode \in {"ECB", "CBC"} => Whole(fed)
                             /\ out = Crypt(ended, iv0, fed).out
    /\ ended.pad = "PKCS5" /\ ended.dir = "ENC" =>
         Whole(WithPad(fed)) /\ out = Crypt(ended, iv0, WithPad(fed)).out
    /\ keep_last(ended) => Unpads(ended, iv0, fed, out)

\* A context that is not in use has none of the types.
LEMMA NoTypeIs ==
  /\ NoType \notin Types /\ ~keep_last(NoType) /\ \A t \in Types : t # NoType
<1>1. NoType.mode = "none" /\ NoType.pad = "none"
  BY DEF NoType, Type
<1>2. NoType \notin Types
  BY <1>1, TypesAre DEF Modes
<1> QED BY <1>1, <1>2 DEF keep_last

\* The invariant holds at the start.
LEMMA OnlineStarts ==
  ASSUME LeaOnlineAssumption, Init PROVE OnlineTyped /\ PieceInv
<1>1. CipherLaws /\ MaxFed \in Nat
  BY DEF LeaOnlineAssumption
<1>2. BlockLen \in Nat \ {0} /\ Zeros \in Block
  BY <1>1, BlockBasics
<1>3. ctx = Cleared /\ Cleared \in Contexts /\ ctx.encType = NoType /\ Len(ctx.last_block) = 0
  BY <1>2 DEF Init, Cleared, Contexts
<1>4. <<>> \in Seq(Byte) /\ Len(<<>>) = 0
  OBVIOUS
<1>5. /\ iv0 \in Block /\ fed \in Seq(Byte) /\ out \in Seq(Byte) /\ Len(fed) = 0
      /\ ret = 0 /\ ended = NoType /\ spoilt = FALSE
  BY <1>2, <1>4 DEF Init
<1>6. ret \in -4..MaxFed + BlockLen
  BY <1>1, <1>2, <1>5
<1>7. Len(ctx.last_block) <= BlockLen /\ Len(ctx.last_block) < BlockLen /\ Len(fed) <= MaxFed
  BY <1>1, <1>2, <1>3, <1>5
<1>8. ctx \in Contexts /\ ended \in Types \cup {NoType} /\ spoilt \in BOOLEAN
  BY <1>3, <1>5
<1>9. OnlineTyped
  BY ONLY <1>3, <1>5, <1>6, <1>7, <1>8, Zenon DEF OnlineTyped
<1>10. PieceInv
  BY <1>3 DEF PieceInv
<1> QED BY <1>9, <1>10

\* lea_online_init begins a message of which nothing is processed.
LEMMA InitStep ==
  ASSUME LeaOnlineAssumption, OnlineTyped, PieceInv, OnlineInit PROVE OnlineTyped' /\ PieceInv'
<1>1. CipherLaws /\ MaxFed \in Nat /\ IVs \subseteq Block
  BY DEF LeaOnlineAssumption
<1>2. BlockLen \in Nat \ {0} /\ Zeros \in Block /\ 0 \in Nat
  BY <1>1, BlockBasics
<1>3. CASE ret' \in {-1, -2, -3} /\ UNCHANGED <<ctx, iv0, fed, out, ended, spoilt>>
  <2>1. ret' \in -4..MaxFed + BlockLen
    BY <1>1, <1>2, <1>3
  <2> QED BY <2>1, <1>3 DEF OnlineTyped, PieceInv
<1>4. ASSUME NEW t \in Types, NEW start \in Block,
             ctx' = [encType |-> t, iv |-> start, last_block |-> <<>>],
             iv0' = start, fed' = <<>>, out' = <<>>, ended' = NoType, spoilt' = FALSE, ret' = 0
      PROVE  OnlineTyped' /\ PieceInv'
  <2>1. <<>> \in Seq(Byte) /\ Len(<<>>) = 0 /\ <<>> \o <<>> = <<>>
    OBVIOUS
  <2>2. ctx' \in Contexts
    BY <2>1, <1>4 DEF Contexts
  <2>3. ctx'.last_block = <<>> /\ ctx'.encType = t /\ ctx'.iv = start
    BY <1>4
  <2>4. ret' \in -4..MaxFed + BlockLen
    BY <1>1, <1>2, <1>4
  <2>9. /\ Len(ctx'.last_block) <= BlockLen /\ Len(ctx'.last_block) < BlockLen
        /\ fed' \in Seq(Byte) /\ out' \in Seq(Byte) /\ Len(fed') <= MaxFed /\ iv0' \in Block
        /\ ended' = NoType /\ ended' \in Types \cup {NoType} /\ spoilt' \in BOOLEAN
    <3>1. Len(ctx'.last_block) = 0 /\ Len(fed') = 0
      BY <2>1, <2>3, <1>4
    <3>2. spoilt' \in BOOLEAN /\ ended' = NoType /\ ended' \in Types \cup {NoType}
      BY <1>4, Zenon
    <3>3. fed' \in Seq(Byte) /\ out' \in Seq(Byte) /\ iv0' \in Block
      BY <2>1, <1>4
    <3>4. Len(ctx'.last_block) <= BlockLen /\ Len(ctx'.last_block) < BlockLen
          /\ Len(fed') <= MaxFed
      BY <3>1, <1>1, <1>2
    <3> QED BY <3>2, <3>3, <3>4
  <2>5. OnlineTyped'
    BY ONLY <2>2, <2>4, <2>9, Zenon DEF OnlineTyped
  <2>6. Crypt(t, start, <<>>).out = <<>> /\ Crypt(t, start, <<>>).iv = start
    BY DEF Crypt
  <2>7. Whole(<<>>)
    <3>1. Len(<<>>) = 0 * BlockLen
      BY <2>1, <1>2
    <3> QED BY <2>1, <3>1 DEF Whole
  <2>8. /\ Whole(<<>>) /\ fed' = <<>> \o ctx'.last_block
        /\ out' = Crypt(ctx'.encType, iv0', <<>>).out /\ ctx'.iv = Crypt(ctx'.encType, iv0', <<>>).iv
    BY <2>1, <2>3, <2>6, <2>7, <1>4
  <2> QED BY <2>1, <2>5, <2>8, <1>2 DEF PieceInv
<1>5. CASE ret' = -2 /\ UNCHANGED <<ctx, iv0, fed, out, ended, spoilt>>
  BY <1>3, <1>5
<1>6. ASSUME NEW t \in EncTypes, NEW iv \in IVs \cup {NoIv}, NEW refused, NEW start,
             refused = IF ~no_iv(t) /\ iv = NoIv THEN -1 ELSE IF t \notin Types THEN -3 ELSE 0,
             start = IF iv = NoIv THEN Zeros ELSE iv,
             ret' = refused,
             IF refused # 0 THEN UNCHANGED <<ctx, iv0, fed, out, ended, spoilt>>
             ELSE /\ ctx' = [encType |-> t, iv |-> start, last_block |-> <<>>]
                  /\ iv0' = start
                  /\ fed' = <<>> /\ out' = <<>> /\ ended' = NoType /\ spoilt' = FALSE
      PROVE  OnlineTyped' /\ PieceInv'
  <2>1. refused \in {-1, -3, 0} /\ (refused = 0 => t \in Types) /\ start \in Block
    BY <1>1, <1>2, <1>6
  <2>2. CASE refused = 0
    BY <2>1, <2>2, <1>4, <1>6
  <2>3. CASE refused # 0
    BY <2>1, <2>3, <1>3, <1>6
  <2> QED BY <2>2, <2>3
<1> QED BY <1>5, <1>6 DEF OnlineInit

\* lea_online_update, with its pieces named.
LEMMA UpdateIs ==
  ASSUME LeaOnlineAssumption, OnlineTyped, Update
  PROVE  /\ UNCHANGED <<iv0, ended, spoilt>>
         /\ \/ ret' \in {0, -3} /\ UNCHANGED <<ctx, fed, out>>
            \/ \E n \in Nat \ {0}, piece \in Seq(Byte) :
                 /\ ctx.encType \in Types /\ Len(piece) = n /\ Len(fed) + n <= MaxFed
                 /\ fed' = fed \o piece
                 /\ \/ /\ Kept(ctx.encType, ctx.last_block, n)
                       /\ ctx' = [ctx EXCEPT !.last_block = ctx.last_block \o piece]
                       /\ ret' = 0 /\ UNCHANGED out
                    \/ /\ ~Kept(ctx.encType, ctx.last_block, n)
                       /\ LET rest == Rest(ctx.last_block, piece, n)
                              now == BlocksNow(ctx.encType, Len(rest))
                              c == Chained(ctx.encType, ctx.iv, Pending(ctx.last_block, piece, n),
                                           SubSeq(rest, 1, now))
                          IN /\ ctx' = [ctx EXCEPT !.iv = c.iv,
                                                   !.last_block = SubSeq(rest, now + 1, Len(rest))]
                             /\ out' = out \o c.out
                             /\ ret' = Len(c.out)
<1> DEFINE Call(n, piece) ==
        LET t == ctx.encType
            held == ctx.last_block
            pending == Pending(held, piece, n)
            rest == Rest(held, piece, n)
            now == BlocksNow(t, Len(rest))
            c == Chained(t, ctx.iv, pending, SubSeq(rest, 1, now))
        IN IF n = 0 THEN ret' = 0 /\ UNCHANGED <<ctx, fed, out>>
           ELSE IF t = NoType THEN ret' = -3 /\ UNCHANGED <<ctx, fed, out>>
           ELSE /\ fed' = fed \o piece
                /\ IF Fits(held, n) /\ (keep_last(t) \/ Len(pending) # BlockLen)
                   THEN ctx' = [ctx EXCEPT !.last_block = pending] /\ ret' = 0 /\ UNCHANGED out
                   ELSE /\ ctx' = [ctx EXCEPT !.iv = c.iv,
                                              !.last_block = SubSeq(rest, now + 1, Len(rest))]
                        /\ out' = out \o c.out
                        /\ ret' = Len(c.out)
<1>0. PICK n \in 0..MaxFed - Len(fed) : \E piece \in [1..n -> Feed] : Call(n, piece)
  BY Zenon DEF Update, Pending, Rest, More, Fits
<1>1. PICK piece \in [1..n -> Feed] : Call(n, piece)
  BY <1>0
<1>2. UNCHANGED <<iv0, ended, spoilt>>
  BY DEF Update
<1>3. CipherLaws /\ MaxFed \in Nat /\ Feed \subseteq Byte
  BY DEF LeaOnlineAssumption
<1>4. Len(fed) \in Nat /\ n \in Nat /\ Len(fed) + n <= MaxFed
  BY <1>3 DEF OnlineTyped
<1>5. piece \in Seq(Byte) /\ Len(piece) = n
  <2>1. piece \in [1..n -> Byte]
    BY <1>3
  <2> QED BY <2>1, <1>4
<1>6. ctx.encType \in Types \cup {NoType} /\ ctx.last_block \in Seq(Byte)
      /\ Len(ctx.last_block) <= BlockLen
      /\ (~keep_last(ctx.encType) => Len(ctx.last_block) < BlockLen)
  BY DEF OnlineTyped, Contexts
<1>7. CASE n = 0 \/ ctx.encType = NoType
  BY <1>1, <1>2, <1>7
<1>8. CASE n # 0 /\ ctx.encType # NoType
  <2> DEFINE t == ctx.encType
             held == ctx.last_block
             pending == Pending(held, piece, n)
  <2>1. t \in Types /\ n \in Nat \ {0}
    BY <1>4, <1>6, <1>8
  <2>2. /\ Fits(held, n) => Len(pending) = n + Len(held)
        /\ Kept(t, held, n) => pending = held \o piece
    <3>1. ASSUME NEW h, h = held PROVE /\ Fits(h, n) => Len(Pending(h, piece, n)) = n + Len(h)
                                       /\ Kept(t, h, n) => Pending(h, piece, n) = h \o piece
      <4>1. CipherLaws /\ n \in Nat /\ n # 0
        BY <1>3, <1>4, <1>8
      <4>2. piece \in Seq(Byte) /\ Len(piece) = n
        BY <1>5
      <4>3. h \in Seq(Byte) /\ Len(h) <= BlockLen /\ (~keep_last(t) => Len(h) < BlockLen)
        BY <1>6, <3>1
      <4> HIDE DEF t, held
      <4>4. Parts(t, h, piece, n)
        BY ONLY <4>1, <4>2, <4>3, UpdateParts
      <4> QED BY <4>4, Zenon DEF Parts
    <3> QED BY <3>1
  <2>3. Fits(held, n) /\ (keep_last(t) \/ Len(pending) # BlockLen) <=> Kept(t, held, n)
    BY <2>2 DEF Kept
  <2>4. CASE Kept(t, held, n)
    <3>1. fed' = fed \o piece /\ ctx' = [ctx EXCEPT !.last_block = held \o piece]
          /\ ret' = 0 /\ UNCHANGED out
      BY <1>1, <1>8, <2>2, <2>3, <2>4, Zenon
    <3> QED BY <3>1, <2>1, <2>4, <1>2, <1>4, <1>5, Zenon
  <2>5. CASE ~Kept(t, held, n)
    <3>1. fed' = fed \o piece
          /\ LET rest == Rest(held, piece, n)
                 now == BlocksNow(t, Len(rest))
                 c == Chained(t, ctx.iv, pending, SubSeq(rest, 1, now))
             IN /\ ctx' = [ctx EXCEPT !.iv = c.iv, !.last_block = SubSeq(rest, now + 1, Len(rest))]
                /\ out' = out \o c.out
                /\ ret' = Len(c.out)
      BY <1>1, <1>8, <2>3, <2>5, Zenon
    <3> QED BY <3>1, <2>1, <2>5, <1>2, <1>4, <1>5, Zenon
  <2> QED BY <2>4, <2>5
<1> QED BY <1>7, <1>8

\* Whole blocks after whole blocks.
LEMMA WholeJoins ==
  ASSUME CipherLaws, NEW p, Whole(p), NEW q, Whole(q) PROVE Whole(p \o q)
<1>1. PICK k \in Nat : Len(p) = k * BlockLen
  BY DEF Whole
<1>2. PICK m \in Nat : Len(q) = m * BlockLen
  BY DEF Whole
<1>3. p \o q \in Seq(Byte) /\ Len(p \o q) = Len(p) + Len(q)
  BY Concats DEF Whole
<1>4. BlockLen \in Nat
  BY BlockBasics
<1>5. Len(p \o q) = (k + m) * BlockLen /\ k + m \in Nat
  BY <1>1, <1>2, <1>3, <1>4
<1> QED BY <1>3, <1>5 DEF Whole

\* What lea_online_update gives for the pending block and the blocks of the input is
\* what one call gives for both.
LEMMA ChainedIs ==
  ASSUME CipherLaws, NEW t \in Types, NEW v \in Block, NEW u, Whole(u), NEW q, Whole(q)
  PROVE  /\ Chained(t, v, u, q).out = Crypt(t, v, u \o q).out
         /\ Chained(t, v, u, q).iv = Crypt(t, v, u \o q).iv
         /\ Chained(t, v, u, q).out \in Seq(Byte) /\ Chained(t, v, u, q).iv \in Block
         /\ Len(Chained(t, v, u, q).out) = Len(u) + Len(q)
<1>1. u \in Seq(Byte) /\ q \in Seq(Byte)
  BY DEF Whole
<1>2. /\ Chained(t, v, u, q).out = Crypt(t, v, u).out \o Crypt(t, Crypt(t, v, u).iv, q).out
      /\ Chained(t, v, u, q).iv = Crypt(t, Crypt(t, v, u).iv, q).iv
  BY DEF Chained
<1>3. Whole(u \o q) /\ Len(u \o q) = Len(u) + Len(q)
  BY <1>1, WholeJoins, Concats
<1>4. Divides(t, v, u, q)
  BY <1>1, CryptSplit
<1>5. /\ Crypt(t, v, u \o q).out = Crypt(t, v, u).out \o Crypt(t, Crypt(t, v, u).iv, q).out
      /\ Crypt(t, v, u \o q).iv = Crypt(t, Crypt(t, v, u).iv, q).iv
  BY <1>4, Zenon DEF Divides
<1>6. /\ Crypt(t, v, u \o q).out \in Seq(Byte)
      /\ Len(Crypt(t, v, u \o q).out) = Len(u \o q)
      /\ Crypt(t, v, u \o q).iv \in Block
  BY <1>3, CryptTyped DEF Whole
<1> QED BY ONLY <1>2, <1>3, <1>5, <1>6, Zenon

\* What is processed of the rest, and what is held of it.
Taken(t, x) == SubSeq(x, 1, BlocksNow(t, Len(x)))
Left(t, x) == SubSeq(x, BlocksNow(t, Len(x)) + 1, Len(x))

\* What is processed of the input, and what is held, is the input.
LEMMA TakenIs ==
  ASSUME CipherLaws, NEW t, NEW x \in Seq(Byte), keep_last(t) => Len(x) # 0
  PROVE  /\ Whole(Taken(t, x)) /\ Len(Taken(t, x)) <= Len(x)
         /\ Left(t, x) \in Seq(Byte) /\ Len(Left(t, x)) <= BlockLen
         /\ ~keep_last(t) => Len(Left(t, x)) < BlockLen
         /\ Taken(t, x) \o Left(t, x) = x
<1>1. BlockLen \in Nat \ {0} /\ Len(x) \in Nat
  BY BlockBasics
<1>2. PICK m \in Nat : /\ BlocksNow(t, Len(x)) = m * BlockLen /\ m * BlockLen <= Len(x)
                       /\ Len(x) - m * BlockLen <= BlockLen
                       /\ ~keep_last(t) => Len(x) - m * BlockLen < BlockLen
  BY <1>1, BlocksNowIs
<1>3. BlocksNow(t, Len(x)) \in 0..Len(x)
  BY <1>1, <1>2
<1>4. /\ Taken(t, x) \in Seq(Byte) /\ Len(Taken(t, x)) = m * BlockLen
      /\ Left(t, x) \in Seq(Byte) /\ Len(Left(t, x)) = Len(x) - m * BlockLen
      /\ Taken(t, x) \o Left(t, x) = x
  BY <1>2, <1>3, Cut DEF Taken, Left
<1>5. Whole(Taken(t, x))
  BY <1>4 DEF Whole
<1> QED BY <1>2, <1>4, <1>5

\* What an update starts from.
Before(t, held) ==
  /\ held \in Seq(Byte) /\ Len(held) <= BlockLen
  /\ ~keep_last(t) => Len(held) < BlockLen
  /\ ctx.iv \in Block /\ iv0 \in Block /\ fed \in Seq(Byte) /\ out \in Seq(Byte)
  /\ ended = NoType
  /\ ~spoilt => \E p : /\ Whole(p) /\ fed = p \o held
                      /\ out = Crypt(t, iv0, p).out /\ ctx.iv = Crypt(t, iv0, p).iv

\* lea_online_update keeps the invariant.
LEMMA UpdateStep ==
  ASSUME LeaOnlineAssumption, OnlineTyped, PieceInv, Update PROVE OnlineTyped' /\ PieceInv'
<1>1. CipherLaws /\ MaxFed \in Nat
  BY DEF LeaOnlineAssumption
<1>2. BlockLen \in Nat \ {0} /\ Len(fed) \in Nat
  BY <1>1, BlockBasics DEF OnlineTyped
<1>3. UNCHANGED <<iv0, ended, spoilt>>
  BY UpdateIs
<1>4. CASE ret' \in {0, -3} /\ UNCHANGED <<ctx, fed, out>>
  <2>1. ret' \in -4..MaxFed + BlockLen
    BY <1>1, <1>2, <1>4
  <2> QED BY <2>1, <1>3, <1>4 DEF OnlineTyped, PieceInv
<1>5. ASSUME NEW t \in Types, NEW held, t = ctx.encType, held = ctx.last_block
      PROVE  Before(t, held)
  <2>1. t # NoType
    BY <1>5, NoTypeIs
  <2>2. ended = NoType
    BY <2>1, <1>5 DEF OnlineTyped
  <2>3. /\ held \in Seq(Byte) /\ Len(held) <= BlockLen /\ (~keep_last(t) => Len(held) < BlockLen)
        /\ ctx.iv \in Block /\ iv0 \in Block /\ fed \in Seq(Byte) /\ out \in Seq(Byte)
    BY <1>5 DEF OnlineTyped, Contexts
  <2>5. ~spoilt => \E p : /\ Whole(p) /\ fed = p \o held
                         /\ out = Crypt(t, iv0, p).out /\ ctx.iv = Crypt(t, iv0, p).iv
    BY <2>1, <1>5, Zenon DEF PieceInv
  <2> QED BY ONLY <2>2, <2>3, <2>5, Zenon DEF Before
<1>9. ASSUME NEW piece \in Seq(Byte), Len(fed) + Len(piece) <= MaxFed, fed' = fed \o piece
      PROVE  fed' \in Seq(Byte) /\ Len(fed') <= MaxFed
  <2>1. fed \in Seq(Byte)
    BY DEF OnlineTyped
  <2> QED BY <2>1, <1>9, Concats
<1>6. ASSUME NEW t \in Types, t = ctx.encType, NEW iv \in Block, NEW left \in Seq(Byte),
             Len(left) <= BlockLen, ~keep_last(t) => Len(left) < BlockLen,
             ctx' = [encType |-> t, iv |-> iv, last_block |-> left],
             fed' \in Seq(Byte), Len(fed') <= MaxFed, out' \in Seq(Byte),
             ret' \in -4..MaxFed + BlockLen, ended = NoType
      PROVE  OnlineTyped' /\ ctx'.encType = t /\ ctx'.iv = iv /\ ctx'.last_block = left
  <2>2. ctx'.encType = t /\ ctx'.iv = iv /\ ctx'.last_block = left /\ ctx' \in Contexts
    BY <1>6 DEF Contexts
  <2>3. iv0' \in Block /\ ended' \in Types \cup {NoType} /\ spoilt' \in BOOLEAN /\ ended' = NoType
    BY <1>3, <1>6 DEF OnlineTyped
  <2> QED BY <2>2, <2>3, <1>6, Zenon DEF OnlineTyped
<1>7. ASSUME NEW n \in Nat \ {0}, NEW piece \in Seq(Byte), NEW t, NEW held,
             t = ctx.encType, held = ctx.last_block,
             t \in Types, Len(piece) = n, Len(fed) + n <= MaxFed, fed' = fed \o piece,
             Kept(t, held, n), ctx' = [ctx EXCEPT !.last_block = held \o piece],
             ret' = 0, UNCHANGED out
      PROVE  OnlineTyped' /\ PieceInv'
  <2>1. /\ held \in Seq(Byte) /\ Len(held) <= BlockLen
        /\ ~keep_last(t) => Len(held) < BlockLen
        /\ ctx.iv \in Block /\ iv0 \in Block /\ fed \in Seq(Byte) /\ out \in Seq(Byte)
        /\ fed' \in Seq(Byte) /\ Len(fed') <= MaxFed
        /\ ended = NoType
        /\ ~spoilt => \E p : /\ Whole(p) /\ fed = p \o held
                            /\ out = Crypt(t, iv0, p).out /\ ctx.iv = Crypt(t, iv0, p).iv
    <3>1. Before(t, held)
      BY <1>5, <1>7
    <3>2. fed' \in Seq(Byte) /\ Len(fed') <= MaxFed
      BY <1>9, <1>7
    <3> QED BY ONLY <3>1, <3>2, Zenon DEF Before
  <2>2. n \in Nat /\ n # 0 /\ Len(piece) = n
    BY <1>7
  <2>3. Len(held \o piece) <= BlockLen /\ (~keep_last(t) => Len(held \o piece) < BlockLen)
    <3>1. /\ held \in Seq(Byte) /\ Len(held) <= BlockLen
          /\ ~keep_last(t) => Len(held) < BlockLen
      BY <2>1, Zenon
    <3>2. Kept(t, held, n)
      BY <1>7
    <3>3. Parts(t, held, piece, n)
      BY ONLY <1>1, <2>2, <3>1, <1>7, UpdateParts
    <3> QED BY <3>2, <3>3, Zenon DEF Parts
  <2>4. held \o piece \in Seq(Byte)
    BY <2>1, Concats
  <2>5. ctx' = [encType |-> t, iv |-> ctx.iv, last_block |-> held \o piece]
    BY <1>7 DEF OnlineTyped, Contexts
  <2>6. ret' \in -4..MaxFed + BlockLen /\ out' \in Seq(Byte)
    BY <1>1, <1>2, <1>7, <2>1
  <2>7. OnlineTyped' /\ ctx'.encType = t /\ ctx'.iv = ctx.iv /\ ctx'.last_block = held \o piece
    BY <1>6, <1>7, <2>1, <2>3, <2>4, <2>5, <2>6
  <2>8. ASSUME ~spoilt PROVE PieceInv'
    <3>1. PICK p : /\ Whole(p) /\ fed = p \o held
                   /\ out = Crypt(t, iv0, p).out /\ ctx.iv = Crypt(t, iv0, p).iv
      BY <2>1, <2>8
    <3>2. fed' = p \o (held \o piece)
      <4>1. p \in Seq(Byte)
        BY <3>1 DEF Whole
      <4>2. (p \o held) \o piece = p \o (held \o piece)
        BY <4>1, <2>1, Associates
      <4> QED BY <4>2, <3>1, <1>7
    <3>3. /\ Whole(p) /\ fed' = p \o ctx'.last_block
          /\ out' = Crypt(ctx'.encType, iv0', p).out /\ ctx'.iv = Crypt(ctx'.encType, iv0', p).iv
      BY <2>7, <3>1, <3>2, <1>3, <1>7
    <3> QED BY <3>3, Zenon DEF PieceInv
  <2>9. spoilt => PieceInv'
    BY <1>3 DEF PieceInv
  <2> QED BY <2>7, <2>8, <2>9
<1>8. ASSUME NEW n \in Nat \ {0}, NEW piece \in Seq(Byte), NEW t, NEW held,
             t = ctx.encType, held = ctx.last_block,
             t \in Types, Len(piece) = n, Len(fed) + n <= MaxFed, fed' = fed \o piece,
             ~Kept(t, held, n), NEW first, NEW rest, NEW c,
             first = Pending(held, piece, n), rest = Rest(held, piece, n),
             c = Chained(t, ctx.iv, first, Taken(t, rest)),
             ctx' = [ctx EXCEPT !.iv = c.iv, !.last_block = Left(t, rest)],
             out' = out \o c.out, ret' = Len(c.out)
      PROVE  OnlineTyped' /\ PieceInv'
  <2> DEFINE q == Taken(t, rest)
             left == Left(t, rest)
  <2>1. /\ held \in Seq(Byte) /\ Len(held) <= BlockLen
        /\ ~keep_last(t) => Len(held) < BlockLen
        /\ ctx.iv \in Block /\ iv0 \in Block /\ fed \in Seq(Byte) /\ out \in Seq(Byte)
        /\ fed' \in Seq(Byte) /\ Len(fed') <= MaxFed
        /\ ended = NoType
        /\ ~spoilt => \E p : /\ Whole(p) /\ fed = p \o held
                            /\ out = Crypt(t, iv0, p).out /\ ctx.iv = Crypt(t, iv0, p).iv
    <3>1. Before(t, held)
      BY <1>5, <1>8
    <3>2. fed' \in Seq(Byte) /\ Len(fed') <= MaxFed
      BY <1>9, <1>8
    <3> QED BY ONLY <3>1, <3>2, Zenon DEF Before
  <2>2. /\ first \in Seq(Byte) /\ rest \in Seq(Byte)
        /\ \E j \in {0, 1} : Len(first) = j * BlockLen
        /\ keep_last(t) => Len(rest) # 0
        /\ first \o rest = held \o piece
    <3>1. n \in Nat /\ n # 0 /\ Len(piece) = n
      BY <1>8
    <3>2. /\ held \in Seq(Byte) /\ Len(held) <= BlockLen
          /\ ~keep_last(t) => Len(held) < BlockLen
      BY <2>1, Zenon
    <3>3. Parts(t, held, piece, n)
      BY ONLY <1>1, <3>1, <3>2, <1>8, UpdateParts
    <3> QED BY <3>3, <1>8 DEF Parts
  <2>3. Whole(first) /\ Len(first) <= BlockLen
    <3>1. PICK j \in {0, 1} : Len(first) = j * BlockLen
      BY <2>2
    <3>2. j \in Nat /\ 0 * BlockLen = 0 /\ 1 * BlockLen = BlockLen
      BY <3>1, <1>2
    <3>3. Len(first) <= BlockLen
      BY <3>1, <3>2, <1>2
    <3> QED BY <2>2, <3>1, <3>2, <3>3 DEF Whole
  <2>4. /\ Whole(q) /\ Len(q) <= Len(rest)
        /\ left \in Seq(Byte) /\ Len(left) <= BlockLen
        /\ ~keep_last(t) => Len(left) < BlockLen
        /\ q \o left = rest
    <3>1. rest \in Seq(Byte) /\ (keep_last(t) => Len(rest) # 0)
      BY <2>2, Zenon
    <3> QED BY ONLY <1>1, <3>1, TakenIs
  <2>5. q \in Seq(Byte) /\ Len(q) \in Nat /\ Len(first) \in Nat
    BY <2>2, <2>4 DEF Whole
  <2>6. Len(rest) <= Len(held \o piece) /\ Len(held \o piece) = Len(held) + n
    <3>1. Len(first \o rest) = Len(first) + Len(rest) /\ Len(first) \in Nat /\ Len(rest) \in Nat
      BY <2>2, Concats
    <3>2. Len(held \o piece) = Len(held) + n
      BY <2>1, <1>8, Concats
    <3> QED BY <3>1, <3>2, <2>2
  <2> HIDE DEF q, left
  <2>7. /\ c.out = Crypt(t, ctx.iv, first \o q).out
        /\ c.iv = Crypt(t, ctx.iv, first \o q).iv
        /\ c.out \in Seq(Byte) /\ c.iv \in Block
        /\ Len(c.out) = Len(first) + Len(q)
    <3>1. c = Chained(t, ctx.iv, first, q)
      BY <1>8 DEF q
    <3>2. ctx.iv \in Block
      BY <2>1
    <3>3. /\ Chained(t, ctx.iv, first, q).out = Crypt(t, ctx.iv, first \o q).out
          /\ Chained(t, ctx.iv, first, q).iv = Crypt(t, ctx.iv, first \o q).iv
          /\ Chained(t, ctx.iv, first, q).out \in Seq(Byte)
          /\ Chained(t, ctx.iv, first, q).iv \in Block
          /\ Len(Chained(t, ctx.iv, first, q).out) = Len(first) + Len(q)
      <4>1. CipherLaws /\ t \in Types /\ Whole(first) /\ Whole(q)
        BY <1>1, <1>8, <2>3, <2>4
      <4> QED BY ONLY <4>1, <3>2, ChainedIs
    <3> QED BY <3>1, <3>3
  <2>8. ctx' = [encType |-> t, iv |-> c.iv, last_block |-> left]
    BY <1>8 DEF OnlineTyped, Contexts, left
  <2>9. ret' \in -4..MaxFed + BlockLen
    <3>4. Len(held) <= BlockLen /\ Len(held) \in Nat /\ Len(fed) + n <= MaxFed
      BY <2>1, <1>8
    <3>1. Len(held \o piece) <= BlockLen + n /\ n <= MaxFed /\ n \in Nat
      BY ONLY <3>4, <1>1, <1>2, <1>8, <2>6
    <3>2. Len(first) + Len(q) <= Len(held \o piece)
      <4>1. Len(first) + Len(rest) = Len(held \o piece)
        BY <2>2, Concats
      <4>2. Len(rest) \in Nat
        BY <2>2
      <4>3. Len(q) <= Len(rest)
        BY <2>4
      <4> QED BY <4>1, <4>2, <4>3, <2>5
    <3>3. ret' = Len(first) + Len(q) /\ ret' <= BlockLen + MaxFed
      <4>1. ret' = Len(first) + Len(q)
        BY <1>8, <2>7
      <4>2. Len(first) + Len(q) <= BlockLen + MaxFed
        BY ONLY <3>1, <3>2, <2>5, <1>1, <1>2
      <4> QED BY <4>1, <4>2
    <3> QED BY <3>3, <2>5, <1>1, <1>2
  <2>10. out' \in Seq(Byte)
    BY <2>1, <2>7, <1>8, Concats
  <2>11. OnlineTyped' /\ ctx'.encType = t /\ ctx'.iv = c.iv /\ ctx'.last_block = left
    <3>1. /\ c.iv \in Block /\ left \in Seq(Byte) /\ Len(left) <= BlockLen
          /\ ~keep_last(t) => Len(left) < BlockLen
          /\ fed' \in Seq(Byte) /\ Len(fed') <= MaxFed /\ ended = NoType
      BY <2>1, <2>4, <2>7, Zenon
    <3>2. t \in Types /\ t = ctx.encType
      BY <1>8
    <3> QED BY ONLY <3>1, <3>2, <2>8, <2>9, <2>10, <1>6
  <2>12. ASSUME ~spoilt PROVE PieceInv'
    <3>1. PICK p : /\ Whole(p) /\ fed = p \o held
                   /\ out = Crypt(t, iv0, p).out /\ ctx.iv = Crypt(t, iv0, p).iv
      BY <2>1, <2>12
    <3> DEFINE w == first \o q
    <3>2. Whole(w) /\ w \in Seq(Byte) /\ p \in Seq(Byte)
      BY <1>1, <2>3, <2>4, <3>1, WholeJoins DEF Whole
    <3>3. fed' = (p \o w) \o left
      <4>1. fed' = p \o (held \o piece)
        <5>1. (p \o held) \o piece = p \o (held \o piece)
          <6>1. held \in Seq(Byte) /\ piece \in Seq(Byte) /\ p \in Seq(Byte)
            BY <2>1, <3>2
          <6> QED BY ONLY <6>1, Associates
        <5> QED BY <5>1, <3>1, <1>8
      <4>2. held \o piece = w \o left
        <5>1. (first \o q) \o left = first \o (q \o left)
          <6>1. first \in Seq(Byte) /\ q \in Seq(Byte) /\ left \in Seq(Byte)
            BY <2>2, <2>4, <2>5
          <6> QED BY ONLY <6>1, Associates
        <5> QED BY <5>1, <2>2, <2>4
      <4>3. (p \o w) \o left = p \o (w \o left)
        <5> HIDE DEF w
        <5> QED BY <2>4, <3>2, Associates
      <4> QED BY <4>1, <4>2, <4>3
    <3> HIDE DEF w
    <3>4. Divides(t, iv0, p, w)
      <4>1. iv0 \in Block
        BY <2>1
      <4> QED BY ONLY <1>1, <1>8, <3>1, <3>2, <4>1, CryptSplit
    <3>5. /\ Crypt(t, iv0, p \o w).out = Crypt(t, iv0, p).out \o Crypt(t, ctx.iv, w).out
          /\ Crypt(t, iv0, p \o w).iv = Crypt(t, ctx.iv, w).iv
      BY <3>1, <3>2, <3>4, Zenon DEF Divides
    <3>6. out' = Crypt(t, iv0, p \o w).out /\ c.iv = Crypt(t, iv0, p \o w).iv
      <4>1. c.out = Crypt(t, ctx.iv, w).out /\ c.iv = Crypt(t, ctx.iv, w).iv
        BY <2>7, Zenon DEF w
      <4>2. out' = out \o c.out /\ out = Crypt(t, iv0, p).out
        BY <1>8, <3>1
      <4> QED BY ONLY <4>1, <4>2, <3>5
    <3>7. Whole(p \o w)
      BY <1>1, <3>1, <3>2, WholeJoins
    <3>8. /\ Whole(p \o w) /\ fed' = (p \o w) \o ctx'.last_block
          /\ out' = Crypt(ctx'.encType, iv0', p \o w).out
          /\ ctx'.iv = Crypt(ctx'.encType, iv0', p \o w).iv
      BY <2>11, <3>3, <3>6, <3>7, <1>3
    <3> QED BY <3>8, Zenon DEF PieceInv
  <2>13. spoilt => PieceInv'
    BY <1>3 DEF PieceInv
  <2> QED BY <2>11, <2>12, <2>13
<1>10. ASSUME NEW n \in Nat \ {0}, NEW piece \in Seq(Byte), NEW t, NEW held,
              t = ctx.encType, held = ctx.last_block,
              t \in Types, Len(piece) = n, Len(fed) + n <= MaxFed, fed' = fed \o piece,
              \/ /\ Kept(t, held, n)
                 /\ ctx' = [ctx EXCEPT !.last_block = held \o piece]
                 /\ ret' = 0 /\ UNCHANGED out
              \/ /\ ~Kept(t, held, n)
                 /\ LET rest == Rest(held, piece, n)
                        now == BlocksNow(t, Len(rest))
                        c == Chained(t, ctx.iv, Pending(held, piece, n), SubSeq(rest, 1, now))
                    IN /\ ctx' = [ctx EXCEPT !.iv = c.iv,
                                             !.last_block = SubSeq(rest, now + 1, Len(rest))]
                       /\ out' = out \o c.out
                       /\ ret' = Len(c.out)
      PROVE  OnlineTyped' /\ PieceInv'
  <2>1. CASE Kept(t, held, n)
    BY <2>1, <1>7, <1>10
  <2>2. CASE ~Kept(t, held, n)
    <3> DEFINE first == Pending(held, piece, n)
               rest == Rest(held, piece, n)
               c == Chained(t, ctx.iv, first, Taken(t, rest))
    <3>1. /\ ctx' = [ctx EXCEPT !.iv = c.iv, !.last_block = Left(t, rest)]
          /\ out' = out \o c.out /\ ret' = Len(c.out)
      BY <2>2, <1>10, Zenon DEF Taken, Left
    <3>2. first = Pending(held, piece, n) /\ rest = Rest(held, piece, n)
          /\ c = Chained(t, ctx.iv, first, Taken(t, rest))
      OBVIOUS
    <3> HIDE DEF first, rest, c
    <3> QED BY ONLY <3>1, <3>2, <2>2, <1>8, <1>10
  <2> QED BY <2>1, <2>2
<1> QED BY <1>4, <1>10, UpdateIs
-----------------------------------------------------------------------------
(* The end of a message *)

\* A block that is short gives what the block it is filled up to gives first.
LEMMA ShortIs ==
  ASSUME CipherLaws, NEW t \in Types, NEW v \in Block, NEW h \in Seq(Byte), Len(h) <= BlockLen,
         NEW x, x = BlockOf(h, 1)
  PROVE  SubSeq(Crypt(t, v, x).out, 1, Len(h)) = Crypt(t, v, h).out
<1> DEFINE o == Crypt(t, v, x).out
           w == Crypt(t, v, h).out
<1>1. t.mode \in Modes /\ BlockLen \in Nat \ {0} /\ Len(h) \in Nat
  BY TypesAre, BlockBasics
<1>2. x \in Block /\ x \in Seq(Byte) /\ Len(x) = BlockLen /\ Len(x) = 1 * BlockLen
  <2>1. x \in Block
    BY Blocks
  <2> QED BY <2>1, <1>1 DEF Block
<1>3. /\ o \in Seq(Byte) /\ Len(o) = BlockLen /\ w \in Seq(Byte) /\ Len(w) = Len(h)
  BY <1>2, CryptTyped
<1>4. BlockOf(x, 1) = x
  <2>1. \A i \in 1..BlockLen : (1 - 1) * BlockLen + i = i /\ i <= Len(x)
    BY <1>1, <1>2
  <2>2. BlockOf(x, 1) = [i \in 1..BlockLen |-> x[i]]
    BY <2>1 DEF BlockOf
  <2> QED BY <2>2, <1>2 DEF Block
<1>5. ASSUME NEW i \in 1..Len(h) PROVE o[i] = w[i]
  <2>1. NumBlocks(h) = 1
    <3>1. Len(h) - 1 \in 0..BlockLen - 1 /\ Len(h) + BlockLen - 1 = 1 * BlockLen + (Len(h) - 1)
      BY <1>1
    <3> DEFINE r == Len(h) - 1
    <3>2. (1 * BlockLen + r) \div BlockLen = 1
      <4>1. r \in 0..BlockLen - 1
        BY <3>1
      <4> HIDE DEF r
      <4> QED BY <4>1, <1>1, DivUnique
    <3> QED BY <3>1, <3>2 DEF NumBlocks
  <2>2. NumBlocks(x) = 1
    BY <1>2, WholeBlocks
  <2>3. PICK c : IsChain(t, v, h, c)
    BY <1>1, ChainExists
  <2>4. PICK d : IsChain(t, v, x, d)
    BY <1>1, <1>2, ChainExists
  <2>5. Outs(t, h, c)[1] = OutOf(t, v, x)
    BY <2>1, <2>3 DEF Outs, IsChain
  <2>6. Outs(t, x, d)[1] = OutOf(t, v, x)
    BY <2>2, <2>4, <1>4 DEF Outs, IsChain
  <2>7. (i - 1) \div BlockLen + 1 = 1 /\ ((i - 1) % BlockLen) + 1 = i
    <3>1. i \in Nat \ {0} /\ i \in 1..BlockLen /\ (1 - 1) * BlockLen + i = i
      BY <1>1
    <3> QED BY <3>1, Position
  <2>8. w[i] = Outs(t, h, c)[1][i]
    <3>1. w = Joined(Outs(t, h, c), h)
      BY <1>1, <2>3, CryptIs
    <3>2. \A b \in 1..NumBlocks(h) : Outs(t, h, c)[b] \in Block
      BY <1>1, <2>3, OutsTyped
    <3>3. Joined(Outs(t, h, c), h)[i] =
            Outs(t, h, c)[(i - 1) \div BlockLen + 1][((i - 1) % BlockLen) + 1]
      BY <3>2, JoinedIs
    <3> QED BY <3>1, <3>3, <2>7
  <2>9. o[i] = Outs(t, x, d)[1][i]
    <3>1. o = Joined(Outs(t, x, d), x)
      BY <1>1, <1>2, <2>4, CryptIs
    <3>2. \A b \in 1..NumBlocks(x) : Outs(t, x, d)[b] \in Block
      BY <1>1, <1>2, <2>4, OutsTyped
    <3>3. i \in 1..Len(x)
      BY <1>1, <1>2
    <3>4. Joined(Outs(t, x, d), x)[i] =
            Outs(t, x, d)[(i - 1) \div BlockLen + 1][((i - 1) % BlockLen) + 1]
      BY <3>2, <3>3, <1>2, JoinedIs
    <3> QED BY <3>1, <3>4, <2>7
  <2> QED BY <2>5, <2>6, <2>8, <2>9
<1> DEFINE a == SubSeq(o, 1, Len(h))
<1> HIDE DEF o, w
<1>6. a \in Seq(Byte) /\ Len(a) = Len(h)
  <2>1. Len(h) \in 0..Len(o)
    BY <1>1, <1>3
  <2> QED BY <1>3, <2>1, Cut
<1>7. ASSUME NEW i \in 1..Len(h) PROVE a[i] = o[i]
  <2>1. \A j \in 1..Len(h) : o[j] \in Byte
    BY <1>1, <1>3
  <2>2. i \in 1..Len(h) - 1 + 1 /\ 1 + i - 1 = i /\ 1 \in Int /\ Len(h) \in Int
    BY <1>1
  <2>3. a[i] = o[1 + i - 1]
    BY <2>1, <2>2, SubSeqProperties
  <2> QED BY <2>2, <2>3
<1> HIDE DEF a
<1>8. a = w
  BY <1>3, <1>5, <1>6, <1>7, SeqEqual
<1> QED BY <1>8 DEF a, o, w

\* A padding that is refused leaves a part of the block, and one that is taken
\* leaves what is before it.
LEMMA UnpadIs ==
  ASSUME CipherLaws, NEW b \in Block
  PROVE  Unpad(b).left \in 0..BlockLen /\ Unpad(b).ok \in BOOLEAN
<1> DEFINE pad == b[BlockLen]
           n == IF pad < BlockLen THEN pad ELSE BlockLen
           bad == {i \in BlockLen - n + 1..BlockLen : b[i] # pad}
           last == CHOOSE i \in bad : \A j \in bad : j <= i
<1>1. BlockLen \in Nat \ {0} /\ Byte \subseteq Nat
  BY BlockBasics
<1>2. pad \in Nat
  <2>1. BlockLen \in 1..BlockLen
    BY <1>1
  <2>2. b[BlockLen] \in Byte
    BY <2>1 DEF Block
  <2> QED BY <2>2, <1>1
<1>3. n \in 0..BlockLen
  <2> HIDE DEF pad
  <2> QED BY <1>1, <1>2
<1>4. ASSUME bad # {} PROVE last \in 1..BlockLen
  <2> DEFINE gaps == {BlockLen - i : i \in bad}
  <2> HIDE DEF n, pad
  <2>1. gaps \subseteq Nat /\ gaps # {}
    BY <1>1, <1>3, <1>4
  <2>2. PICK g \in gaps : \A h \in gaps : g <= h
    <3> HIDE DEF gaps
    <3> QED BY <2>1, NatLeast
  <2>3. PICK i \in bad : g = BlockLen - i
    BY <2>2
  <2>4. bad \subseteq 1..BlockLen
    BY <1>1, <1>3
  <2>5. \A j \in bad : j <= i
    <3> SUFFICES ASSUME NEW j \in bad PROVE j <= i
      OBVIOUS
    <3>1. BlockLen - j \in gaps
      OBVIOUS
    <3>2. i \in 1..BlockLen /\ j \in 1..BlockLen
      BY <2>4
    <3>3. BlockLen - i <= BlockLen - j
      BY <2>2, <2>3, <3>1
    <3> QED BY <1>1, <3>2, <3>3
  <2> HIDE DEF bad
  <2>6. last \in bad
    BY <2>5
  <2> QED BY <2>4, <2>6
<1>5. Unpad(b) = IF pad > PadLimit THEN [ok |-> FALSE, left |-> BlockLen]
                 ELSE IF bad # {} THEN [ok |-> FALSE, left |-> last - 1]
                 ELSE [ok |-> TRUE, left |-> BlockLen - n]
  BY Zenon DEF Unpad
<1> HIDE DEF pad, n, bad, last
<1>6. CASE pad > PadLimit
  BY <1>1, <1>5, <1>6
<1>7. CASE ~(pad > PadLimit) /\ bad # {}
  <2>1. last - 1 \in 0..BlockLen
    BY <1>1, <1>4, <1>7
  <2> QED BY <2>1, <1>5, <1>7
<1>8. CASE ~(pad > PadLimit) /\ bad = {}
  <2>1. BlockLen - n \in 0..BlockLen
    BY <1>1, <1>3
  <2> QED BY <2>1, <1>5, <1>8
<1> QED BY <1>6, <1>7, <1>8

\* A padded block is a block.
LEMMA PaddedIs ==
  ASSUME LeaOnlineAssumption, NEW x \in Seq(Byte), Len(x) <= BlockLen
  PROVE  Padded(x) \in Seq(Byte) /\ Len(Padded(x)) = BlockLen
<1> DEFINE pad == [i \in 1..BlockLen - Len(x) |-> BlockLen - Len(x)]
<1>1. CipherLaws /\ BlockLen \in Byte /\ BlockLen \in Nat \ {0} /\ Len(x) \in Nat
  BY BlockBasics DEF LeaOnlineAssumption
<1>2. BlockLen - Len(x) \in Byte /\ BlockLen - Len(x) \in Nat
  <2>1. PICK top \in Byte : top \in Nat /\ Byte = 0..top
    BY <1>1 DEF CipherLaws
  <2> QED BY <1>1, <2>1
<1>3. pad \in Seq(Byte) /\ Len(pad) = BlockLen - Len(x)
  <2> DEFINE m == BlockLen - Len(x)
  <2>1. m \in Byte /\ m \in Nat
    BY <1>2
  <2>2. pad = [i \in 1..m |-> m]
    OBVIOUS
  <2> HIDE DEF m
  <2>3. [i \in 1..m |-> m] \in Seq(Byte) /\ Len([i \in 1..m |-> m]) = m
    BY <2>1
  <2> QED BY <2>2, <2>3 DEF m
<1>4. Padded(x) = x \o pad
  BY DEF Padded
<1> HIDE DEF pad
<1>5. x \o pad \in Seq(Byte) /\ Len(x \o pad) = Len(x) + Len(pad)
  BY <1>3, Concats
<1> QED BY <1>1, <1>3, <1>4, <1>5
\* The last bytes, after the whole blocks before them.
LEMMA LastJoins ==
  ASSUME CipherLaws, NEW t \in Types, NEW iv \in Block, NEW p, Whole(p),
         NEW h \in Seq(Byte), Len(h) <= BlockLen
  PROVE  Crypt(t, iv, p \o h).out =
           Crypt(t, iv, p).out
             \o SubSeq(Crypt(t, Crypt(t, iv, p).iv, BlockOf(h, 1)).out, 1, Len(h))
<1> DEFINE v == Crypt(t, iv, p).iv
           o == Crypt(t, v, BlockOf(h, 1)).out
<1>1. Divides(t, iv, p, h)
  BY CryptSplit
<1>2. /\ v \in Block
      /\ Crypt(t, iv, p \o h).out = Crypt(t, iv, p).out \o Crypt(t, v, h).out
  BY <1>1, Zenon DEF Divides
<1> HIDE DEF v
<1>3. SubSeq(o, 1, Len(h)) = Crypt(t, v, h).out
  BY <1>2, ShortIs
<1> QED BY <1>2, <1>3, Zenon DEF v

\* Padding the last block pads the message.
LEMMA PadIs ==
  ASSUME LeaOnlineAssumption, NEW p, Whole(p), NEW h \in Seq(Byte), Len(h) < BlockLen
  PROVE  Whole(Padded(h)) /\ p \o Padded(h) = WithPad(p \o h)
<1> DEFINE pad == [i \in 1..BlockLen - Len(h) |-> BlockLen - Len(h)]
<1>1. CipherLaws /\ BlockLen \in Nat \ {0} /\ Len(h) \in 0..BlockLen - 1 /\ BlockLen \in Byte
  BY BlockBasics DEF LeaOnlineAssumption
<1>2. PICK k \in Nat : Len(p) = k * BlockLen
  BY DEF Whole
<1>3. p \in Seq(Byte) /\ Len(p \o h) = k * BlockLen + Len(h)
  BY <1>2, Concats DEF Whole
<1>4. Len(p \o h) % BlockLen = Len(h)
  BY <1>1, <1>3, DivUnique
<1>5. Padded(h) \in Seq(Byte) /\ Len(Padded(h)) = BlockLen
  BY <1>1, PaddedIs
<1>6. Whole(Padded(h))
  <2>1. BlockLen = 1 * BlockLen /\ 1 \in Nat
    BY <1>1
  <2> QED BY <2>1, <1>5 DEF Whole
<1>7. pad \in Seq(Byte)
  <2>1. BlockLen - Len(h) \in Byte
    <3>1. PICK top \in Byte : top \in Nat /\ Byte = 0..top
      BY <1>1 DEF CipherLaws
    <3> QED BY <1>1, <3>1
  <2>2. BlockLen - Len(h) \in Nat
    BY <1>1
  <2> DEFINE m == BlockLen - Len(h)
  <2>3. m \in Byte /\ m \in Nat /\ pad = [i \in 1..m |-> m]
    BY <2>1, <2>2
  <2> HIDE DEF m, pad
  <2> QED BY <2>3
<1>8. Padded(h) = h \o pad /\ WithPad(p \o h) = (p \o h) \o pad
  BY <1>4, Zenon DEF Padded, WithPad
<1> HIDE DEF pad
<1>9. (p \o h) \o pad = p \o (h \o pad)
  BY <1>3, <1>7, Associates
<1> QED BY <1>6, <1>8, <1>9

\* Unpadding the last block unpads the message.
LEMMA UnpadsIt ==
  ASSUME CipherLaws, NEW t \in Types, NEW iv \in Block, NEW p, Whole(p),
         NEW h \in Seq(Byte), Len(h) = BlockLen,
         NEW o \in Seq(Byte), Len(o) = BlockLen,
         Crypt(t, iv, p \o h).out = Crypt(t, iv, p).out \o o,
         Unpad(o).ok
  PROVE  Unpads(t, iv, p \o h, Crypt(t, iv, p).out \o SubSeq(o, 1, Unpad(o).left))
<1> DEFINE b == Crypt(t, iv, p).out
           n == Unpad(o).left
           y == b \o SubSeq(o, 1, n)
           x == p \o h
           plain == Crypt(t, iv, x).out
<1>1. BlockLen \in Nat \ {0} /\ p \in Seq(Byte)
  BY BlockBasics DEF Whole
<1>2. b \in Seq(Byte) /\ Len(b) = Len(p) /\ Len(p) \in Nat
  BY <1>1, CryptTyped
<1>3. o \in Block /\ n \in 0..BlockLen
  <2>1. o \in Block
    BY <1>1 DEF Block
  <2> QED BY <2>1, UnpadIs
<1>4. o[BlockLen] \in 1..BlockLen => n = BlockLen - o[BlockLen]
  <2> SUFFICES ASSUME o[BlockLen] \in 1..BlockLen PROVE n = BlockLen - o[BlockLen]
    OBVIOUS
  <2> DEFINE pad == o[BlockLen]
             m == IF pad < BlockLen THEN pad ELSE BlockLen
             bad == {i \in BlockLen - m + 1..BlockLen : o[i] # pad}
  <2>1. Unpad(o) = IF pad > PadLimit THEN [ok |-> FALSE, left |-> BlockLen]
                   ELSE IF bad # {}
                   THEN [ok |-> FALSE, left |-> (CHOOSE i \in bad : \A j \in bad : j <= i) - 1]
                   ELSE [ok |-> TRUE, left |-> BlockLen - m]
    BY Zenon DEF Unpad
  <2>2. m = pad
    BY <1>1
  <2> HIDE DEF m, bad, n, pad
  <2>3. Unpad(o).left = BlockLen - m
    <3>1. CASE pad > PadLimit
      BY <3>1, <2>1
    <3>2. CASE ~(pad > PadLimit) /\ bad # {}
      BY <3>2, <2>1
    <3>3. CASE ~(pad > PadLimit) /\ bad = {}
      BY <3>3, <2>1
    <3> QED BY <3>1, <3>2, <3>3
  <2> QED BY <2>2, <2>3, Zenon DEF n, pad
<1>5. Len(x) = Len(p) + BlockLen
  <2>1. Len(p \o h) = Len(p) + Len(h)
    BY ONLY <1>1, h \in Seq(Byte), Concats
  <2> QED BY <2>1
<1>6. plain = b \o o
  OBVIOUS
<1> HIDE DEF b, n, x, plain
<1>7. /\ Len(y) = Len(b) + n
      /\ SubSeq(b \o o, 1, Len(b) + n) = y
  <2>1. n \in 0..Len(o)
    BY <1>3
  <2>2. b \in Seq(Byte) /\ o \in Seq(Byte)
    BY <1>2
  <2>3. /\ Len(b \o SubSeq(o, 1, n)) = Len(b) + n
        /\ SubSeq(b \o o, 1, Len(b) + n) = b \o SubSeq(o, 1, n)
    BY ONLY <2>1, <2>2, PrefixGrows, Zenon
  <2> QED BY <2>3
<1>8. plain[Len(x)] = o[BlockLen]
  <2>1. Len(x) \in 1..Len(b) + Len(o) /\ ~(Len(x) <= Len(b)) /\ Len(x) - Len(b) = BlockLen
    BY <1>1, <1>2, <1>5
  <2>2. (b \o o)[Len(x)] = o[Len(x) - Len(b)]
    <3>1. b \in Seq(Byte) /\ o \in Seq(Byte)
      BY <1>2
    <3>2. \A i \in 1..Len(b) + Len(o) :
            (b \o o)[i] = IF i <= Len(b) THEN b[i] ELSE o[i - Len(b)]
      BY ONLY <3>1, ConcatProperties
    <3> QED BY ONLY <2>1, <3>2
  <2> QED BY <2>1, <2>2, <1>6
<1> HIDE DEF y
<1>9. y = Prefix(plain, Len(y))
  BY <1>6, <1>7 DEF Prefix
<1>10. Len(x) - Len(y) = BlockLen - n
  BY <1>1, <1>2, <1>3, <1>5, <1>7
<1>11. BlockLen - n \in 0..BlockLen
  BY <1>1, <1>3
<1>12. plain[Len(x)] \in 1..BlockLen => BlockLen - n = plain[Len(x)]
  <2>1. \A z \in 1..BlockLen : n = BlockLen - z => BlockLen - n = z
    BY <1>1
  <2> QED BY <2>1, <1>4, <1>8, Zenon
<1>13. Unpads(t, iv, x, y)
  BY <1>9, <1>10, <1>11, <1>12 DEF Unpads, plain
<1> QED BY <1>13 DEF x, y, b, n

\* A refused lea_online_final changes nothing.
LEMMA FinalErrorStep ==
  ASSUME LeaOnlineAssumption, OnlineTyped, PieceInv, FinalError PROVE OnlineTyped' /\ PieceInv'
<1>1. BlockLen \in Nat \ {0} /\ MaxFed \in Nat
  BY BlockBasics DEF LeaOnlineAssumption
<1>2. ret' \in {-3, -2} /\ UNCHANGED <<ctx, iv0, fed, out, ended, spoilt>>
  BY DEF FinalError
<1>3. ret' \in -4..MaxFed + BlockLen
  BY <1>1, <1>2
<1> QED BY <1>2, <1>3 DEF OnlineTyped, PieceInv

\* lea_online_final keeps the invariant, and what it completes turns back.
LEMMA FinalStep ==
  ASSUME LeaOnlineAssumption, OnlineTyped, PieceInv, Final
  PROVE  OnlineTyped' /\ PieceInv' /\ EndedInv'
<1> DEFINE t == ctx.encType
           held == IF t.pad = "PKCS5" /\ t.dir = "ENC" THEN Padded(ctx.last_block)
                   ELSE ctx.last_block
           x == BlockOf(held, 1)
           o == Crypt(t, ctx.iv, x).out
           u == Unpad(o)
           n == IF keep_last(t) THEN u.left ELSE Len(held)
<1>1. CipherLaws /\ MaxFed \in Nat /\ BlockLen \in Nat \ {0} /\ Zeros \in Block
  BY BlockBasics DEF LeaOnlineAssumption
<1>2. /\ t # NoType
      /\ IF keep_last(t) /\ ~u.ok
         THEN /\ ret' = -4 /\ spoilt' = TRUE
              /\ ctx' = [ctx EXCEPT !.last_block = SubSeq(o, 1, u.left)]
              /\ UNCHANGED <<out, ended>>
         ELSE /\ out' = out \o SubSeq(o, 1, n) /\ ret' = n
              /\ ctx' = Cleared
              /\ ended' = t /\ UNCHANGED spoilt
      /\ UNCHANGED <<iv0, fed>>
      /\ ~(len16(t) /\ Len(held) % BlockLen > 0)
      /\ keep_last(t) => Len(held) = BlockLen
  BY Zenon DEF Final
<1>3. t \in Types /\ ctx.iv \in Block /\ ctx.last_block \in Seq(Byte)
      /\ Len(ctx.last_block) <= BlockLen
      /\ (~keep_last(t) => Len(ctx.last_block) < BlockLen)
      /\ iv0 \in Block
  BY <1>2 DEF OnlineTyped, Contexts
<1>4. held \in Seq(Byte) /\ Len(held) <= BlockLen /\ Len(held) \in Nat
  <2>1. /\ Padded(ctx.last_block) \in Seq(Byte)
        /\ Len(Padded(ctx.last_block)) = BlockLen
    BY <1>3, PaddedIs
  <2>2. held = Padded(ctx.last_block) \/ held = ctx.last_block
    BY Zenon
  <2> HIDE DEF held
  <2> QED BY <2>1, <2>2, <1>1, <1>3
<1>13. IF t.pad = "PKCS5" /\ t.dir = "ENC" THEN held = Padded(ctx.last_block)
       ELSE held = ctx.last_block
  BY Zenon
<1>14. ~spoilt => \E p : /\ Whole(p) /\ fed = p \o ctx.last_block
                       /\ out = Crypt(t, iv0, p).out /\ ctx.iv = Crypt(t, iv0, p).iv
  BY <1>2, Zenon DEF PieceInv
<1>15. o = Crypt(t, ctx.iv, BlockOf(held, 1)).out /\ u = Unpad(o)
       /\ n = IF keep_last(t) THEN u.left ELSE Len(held)
  OBVIOUS
<1> HIDE DEF t, held
<1>5. x \in Block /\ x \in Seq(Byte) /\ Len(x) = 1 * BlockLen
  <2>1. x \in Block
    BY <1>1, <1>4, Blocks
  <2> HIDE DEF x
  <2> QED BY <2>1, <1>1 DEF Block
<1> HIDE DEF x
<1>6. o \in Seq(Byte) /\ Len(o) = BlockLen
  BY <1>1, <1>3, <1>5, CryptTyped
<1> HIDE DEF o
<1>7. o \in Block
  BY <1>6, <1>1 DEF Block
<1>8. u.left \in 0..BlockLen
  BY <1>1, <1>7, UnpadIs
<1> HIDE DEF u
<1>9. n \in 0..BlockLen
  BY <1>1, <1>4, <1>8
<1> HIDE DEF n
<1>10. ASSUME NEW m \in 0..BlockLen
       PROVE  SubSeq(o, 1, m) \in Seq(Byte) /\ Len(SubSeq(o, 1, m)) = m
  BY <1>6, Cut
<1>11. CASE keep_last(t) /\ ~u.ok
  <2>1. /\ ret' = -4 /\ spoilt' = TRUE
        /\ ctx' = [ctx EXCEPT !.last_block = SubSeq(o, 1, u.left)]
        /\ UNCHANGED <<out, ended, iv0, fed>>
    BY <1>2, <1>11
  <2>2. SubSeq(o, 1, u.left) \in Seq(Byte) /\ Len(SubSeq(o, 1, u.left)) <= BlockLen
    BY <1>1, <1>8, <1>10
  <2>3. ctx' \in Contexts /\ ctx'.encType = t /\ ctx'.last_block = SubSeq(o, 1, u.left)
    BY <2>1, <2>2 DEF OnlineTyped, Contexts, t
  <2>4. ret' \in -4..MaxFed + BlockLen
    BY <1>1, <2>1
  <2>5. ended' = NoType
    BY <1>2, <2>1 DEF OnlineTyped, t
  <2>6. /\ iv0' \in Block /\ fed' \in Seq(Byte) /\ Len(fed') <= MaxFed /\ out' \in Seq(Byte)
        /\ ended' \in Types \cup {NoType} /\ spoilt' \in BOOLEAN
    BY <2>1 DEF OnlineTyped
  <2>7. OnlineTyped'
    BY <1>11, <2>2, <2>3, <2>4, <2>5, <2>6, Zenon DEF OnlineTyped
  <2>8. PieceInv'
    BY <2>1 DEF PieceInv
  <2>9. EndedInv'
    BY <2>1 DEF EndedInv
  <2> QED BY <2>7, <2>8, <2>9
<1>12. CASE ~(keep_last(t) /\ ~u.ok)
  <2>1. /\ out' = out \o SubSeq(o, 1, n) /\ ret' = n /\ ctx' = Cleared
        /\ ended' = t /\ UNCHANGED <<spoilt, iv0, fed>>
    BY <1>2, <1>12
  <2>2. ctx' \in Contexts /\ ctx'.encType = NoType /\ ctx'.last_block = <<>>
    BY <2>1, <1>1 DEF Cleared, Contexts
  <2>3. Len(ctx'.last_block) <= BlockLen /\ Len(ctx'.last_block) < BlockLen
    BY <2>2, <1>1
  <2>4. out' \in Seq(Byte)
    <3>1. out \in Seq(Byte) /\ SubSeq(o, 1, n) \in Seq(Byte)
      BY <1>9, <1>10 DEF OnlineTyped
    <3> QED BY <2>1, <3>1, Concats
  <2>5. ret' \in -4..MaxFed + BlockLen
    BY <1>1, <1>9, <2>1
  <2>6. iv0' \in Block /\ fed' \in Seq(Byte) /\ Len(fed') <= MaxFed /\ spoilt' \in BOOLEAN
    BY <2>1 DEF OnlineTyped
  <2>7. ended' \in Types \cup {NoType}
    BY <2>1, <1>3
  <2>8. OnlineTyped'
    BY <2>2, <2>3, <2>4, <2>5, <2>6, <2>7, Zenon DEF OnlineTyped
  <2>9. PieceInv'
    BY <2>2 DEF PieceInv
  <2>10. ASSUME ~spoilt PROVE EndedInv'
    <3>1. PICK p : /\ Whole(p) /\ fed = p \o ctx.last_block
                   /\ out = Crypt(t, iv0, p).out /\ ctx.iv = Crypt(t, iv0, p).iv
      BY <1>14, <2>10
    <3>2. Crypt(t, iv0, p \o held).out = out \o SubSeq(o, 1, Len(held))
      <4>1. ASSUME NEW v, v = ctx.iv
            PROVE  Crypt(t, iv0, p \o held).out = Crypt(t, iv0, p).out \o SubSeq(o, 1, Len(held))
        <5>1. CipherLaws /\ t \in Types /\ iv0 \in Block /\ Whole(p)
          BY <1>1, <1>3, <3>1
        <5>2. held \in Seq(Byte) /\ Len(held) <= BlockLen
          BY <1>4
        <5>3. v = Crypt(t, iv0, p).iv /\ o = Crypt(t, v, BlockOf(held, 1)).out
          BY <1>15, <3>1, <4>1
        <5>4. Crypt(t, iv0, p \o held).out =
                Crypt(t, iv0, p).out
                  \o SubSeq(Crypt(t, Crypt(t, iv0, p).iv, BlockOf(held, 1)).out, 1, Len(held))
          BY ONLY <5>1, <5>2, LastJoins
        <5> QED BY ONLY <5>3, <5>4, Zenon
      <4> QED BY <4>1, <3>1
    <3>3. CASE t.pad = "none"
      <4>1. held = ctx.last_block /\ ~keep_last(t)
        BY <1>13, <3>3 DEF keep_last
      <4>2. out' = Crypt(t, iv0, fed).out
        BY <1>15, <2>1, <3>1, <3>2, <4>1
      <4>3. t.mode \in {"ECB", "CBC"} => Whole(fed)
        <5> SUFFICES ASSUME t.mode \in {"ECB", "CBC"} PROVE Whole(fed)
          OBVIOUS
        <5>1. Len(held) % BlockLen = 0
          <6>1. len16(t)
            BY <3>3 DEF len16
          <6>2. Len(held) % BlockLen \in Nat
            BY <1>1, <1>4
          <6> QED BY <6>1, <6>2, <1>2
        <5>2. Whole(held)
          <6>1. Len(held) = (Len(held) \div BlockLen) * BlockLen /\ Len(held) \div BlockLen \in Nat
            BY <1>1, <1>4, <5>1
          <6> QED BY <6>1, <1>4 DEF Whole
        <5> QED BY <5>2, <1>1, <3>1, <4>1, WholeJoins
      <4> QED BY <2>1, <3>3, <4>1, <4>2, <4>3, Zenon DEF EndedInv
    <3>4. CASE t.pad = "PKCS5" /\ t.dir = "ENC"
      <4>1. held = Padded(ctx.last_block) /\ ~keep_last(t)
        BY <1>13, <3>4 DEF keep_last
      <4>2. Len(ctx.last_block) < BlockLen
        BY <4>1, <1>3
      <4>3. Whole(held) /\ p \o held = WithPad(fed)
        BY <1>3, <3>1, <4>1, <4>2, PadIs
      <4>4. Whole(WithPad(fed))
        BY <1>1, <3>1, <4>3, WholeJoins
      <4>5. out' = Crypt(t, iv0, WithPad(fed)).out
        BY <1>15, <2>1, <3>2, <4>1, <4>3
      <4> QED BY <2>1, <3>4, <4>1, <4>4, <4>5 DEF EndedInv
    <3>5. CASE keep_last(t)
      <4>1. held = ctx.last_block /\ Len(held) = BlockLen /\ u.ok /\ n = u.left
            /\ t.pad = "PKCS5" /\ t.dir = "DEC"
        BY <1>2, <1>12, <1>13, <1>15, <3>5 DEF keep_last
      <4>2. SubSeq(o, 1, BlockLen) = o
        BY <1>6, SubSeqFull
      <4>3. Crypt(t, iv0, p \o held).out = Crypt(t, iv0, p).out \o o
        BY <3>1, <3>2, <4>1, <4>2
      <4>4. Unpads(t, iv0, p \o held, Crypt(t, iv0, p).out \o SubSeq(o, 1, Unpad(o).left))
        BY <1>1, <1>3, <1>4, <1>6, <1>15, <3>1, <4>1, <4>3, UnpadsIt
      <4>5. Unpads(t, iv0, fed, out')
        BY <1>15, <2>1, <3>1, <4>1, <4>4
      <4> QED BY <2>1, <4>1, <4>5 DEF EndedInv
    <3> QED BY <1>3, <3>3, <3>4, <3>5, TypesAre DEF keep_last
  <2>11. spoilt => EndedInv'
    BY <2>1 DEF EndedInv
  <2> QED BY <2>8, <2>9, <2>10, <2>11
<1> QED BY <1>11, <1>12

\* Until a message is completed, nothing is said of it; after that it stays.
LEMMA EndedKept ==
  ASSUME LeaOnlineAssumption, OnlineTyped, EndedInv, OnlineInit \/ Update \/ FinalError
  PROVE  EndedInv'
<1>1. CASE UNCHANGED <<ctx, iv0, fed, out, ended, spoilt>>
  BY <1>1 DEF EndedInv
<1>2. CASE ended' = NoType
  BY <1>2 DEF EndedInv
<1>3. CASE OnlineInit
  <2>1. UNCHANGED <<ctx, iv0, fed, out, ended, spoilt>> \/ ended' = NoType
    BY <1>3 DEF OnlineInit
  <2> QED BY <2>1, <1>1, <1>2
<1>4. CASE Update
  <2>1. UNCHANGED <<iv0, ended, spoilt>>
    BY <1>4, UpdateIs
  <2>2. CASE UNCHANGED <<ctx, fed, out>>
    BY <2>1, <2>2, <1>1
  <2>3. CASE ctx.encType \in Types
    <3>1. ctx.encType # NoType
      BY <2>3, NoTypeIs
    <3> QED BY <2>1, <3>1, <1>2 DEF OnlineTyped
  <2> QED BY <1>4, <2>2, <2>3, UpdateIs
<1>5. CASE FinalError
  BY <1>1, <1>5 DEF FinalError
<1> QED BY <1>3, <1>4, <1>5

\* The inductive invariant of the context.
LEMMA OnlineInductive ==
  ASSUME LeaOnlineAssumption PROVE Spec => [](OnlineTyped /\ PieceInv /\ EndedInv)
<1> DEFINE Inv == OnlineTyped /\ PieceInv /\ EndedInv
<1>1. Init => Inv
  <2>1. Init => EndedInv
    BY DEF Init, EndedInv
  <2> QED BY <2>1, OnlineStarts
<1>2. Inv /\ [Next]_vars => Inv'
  <2>1. ASSUME UNCHANGED vars, Inv PROVE Inv'
    BY <2>1 DEF vars, OnlineTyped, PieceInv, EndedInv
  <2>2. ASSUME OnlineInit \/ Update \/ FinalError, Inv PROVE Inv'
    BY <2>2, InitStep, UpdateStep, FinalErrorStep, EndedKept
  <2> QED BY <2>1, <2>2, FinalStep DEF Next
<1> QED BY <1>1, <1>2, PTL DEF Spec
-----------------------------------------------------------------------------
(* What the properties of the module say *)

\* The context is always well formed: never more than a block is held, a full one
\* only when unpadding, and no call returns more than it may.
THEOREM OnlineTypeCorrect ==
  ASSUME LeaOnlineAssumption PROVE Spec => []TypeOK
<1>1. OnlineTyped => TypeOK
  BY DEF OnlineTyped, TypeOK, Contexts
<1> QED BY <1>1, OnlineInductive, PTL

\* lea_online_update: however a message is cut into pieces, what has been given so
\* far is what one call of the mode's function gives for the same bytes, and what
\* is not processed yet is held.
THEOREM PiecesMakeWhole ==
  ASSUME LeaOnlineAssumption PROVE Spec => []PiecesAreOneMessage
<1>1. OnlineTyped /\ PieceInv => PiecesAreOneMessage
  <2> SUFFICES ASSUME OnlineTyped, PieceInv, ctx.encType # NoType, ~spoilt, NEW done,
                      done = Len(fed) - Len(ctx.last_block)
               PROVE  /\ out = Crypt(ctx.encType, iv0, Prefix(fed, done)).out
                      /\ ctx.last_block = SubSeq(fed, done + 1, Len(fed))
    BY Zenon DEF PiecesAreOneMessage
  <2>1. PICK p : /\ Whole(p) /\ fed = p \o ctx.last_block
                 /\ out = Crypt(ctx.encType, iv0, p).out
    BY DEF PieceInv
  <2>2. p \in Seq(Byte) /\ ctx.last_block \in Seq(Byte)
    BY <2>1 DEF Whole, OnlineTyped, Contexts
  <2> DEFINE h == ctx.last_block
  <2>3. h \in Seq(Byte)
    BY <2>2
  <2> HIDE DEF h
  <2>4. /\ SubSeq(p \o h, 1, Len(p)) = p /\ SubSeq(p \o h, Len(p) + 1, Len(p \o h)) = h
        /\ Len(p \o h) = Len(p) + Len(h) /\ Len(p) \in Nat /\ Len(h) \in Nat
    BY <2>2, <2>3, Joining, Concats
  <2>5. fed = p \o h /\ done = Len(fed) - Len(h)
    BY <2>1 DEF h
  <2>6. done = Len(p)
    BY <2>4, <2>5
  <2>7. Prefix(fed, done) = p /\ SubSeq(fed, done + 1, Len(fed)) = h
    BY <2>4, <2>5, <2>6 DEF Prefix
  <2> QED BY <2>1, <2>7 DEF h
<1> QED BY <1>1, OnlineInductive, PTL

\* lea_online_final: a message that was completed turns back.  What came out, put
\* through the other direction, is what went in, with its padding if it has one;
\* and a message that was unpadded lost its padding and nothing else.
THEOREM EndedComesBack ==
  ASSUME LeaOnlineAssumption PROVE Spec => []EndedTurnsBack
<1>1. OnlineTyped /\ EndedInv => EndedTurnsBack
  <2> SUFFICES ASSUME OnlineTyped, EndedInv, ended # NoType, ~spoilt
               PROVE  LET back == Crypt(Other(ended), iv0, out).out
                      IN CASE ended.pad = "none" -> back = fed
                           [] ended.pad = "PKCS5" /\ ended.dir = "ENC" -> back = WithPad(fed)
                           [] OTHER -> Unpads(ended, iv0, fed, out)
    BY Zenon DEF EndedTurnsBack, WithPad, Unpads
  <2>1. /\ CipherLaws /\ ended \in Types /\ iv0 \in Block /\ fed \in Seq(Byte)
        /\ ended.dir \in {"ENC", "DEC"} /\ ended.pad \in {"none", "PKCS5"}
    BY TypesAre DEF LeaOnlineAssumption, OnlineTyped
  <2>2. ASSUME ended.pad = "none" PROVE Crypt(Other(ended), iv0, out).out = fed
    <3>1. /\ ended.mode \in {"ECB", "CBC"} => Whole(fed)
          /\ out = Crypt(ended, iv0, fed).out
      BY <2>2 DEF EndedInv
    <3> QED BY <2>1, <3>1, CryptBack
  <2>3. ASSUME ended.pad = "PKCS5" /\ ended.dir = "ENC"
        PROVE  Crypt(Other(ended), iv0, out).out = WithPad(fed)
    <3>1. Whole(WithPad(fed)) /\ out = Crypt(ended, iv0, WithPad(fed)).out
      BY <2>3 DEF EndedInv
    <3>2. WithPad(fed) \in Seq(Byte)
      BY <3>1 DEF Whole
    <3> DEFINE x == WithPad(fed)
    <3>3. Whole(x) /\ x \in Seq(Byte) /\ out = Crypt(ended, iv0, x).out
      BY <3>1, <3>2
    <3> HIDE DEF x
    <3>4. Crypt(Other(ended), iv0, out).out = x
      BY <2>1, <3>3, CryptBack
    <3> QED BY <3>4 DEF x
  <2>4. ASSUME ended.pad # "none", ~(ended.pad = "PKCS5" /\ ended.dir = "ENC")
        PROVE  Unpads(ended, iv0, fed, out)
    <3>1. keep_last(ended)
      BY <2>1, <2>4 DEF keep_last
    <3> QED BY <3>1 DEF EndedInv
  <2> QED BY <2>2, <2>3, <2>4
<1> QED BY <1>1, OnlineInductive, PTL
=============================================================================
