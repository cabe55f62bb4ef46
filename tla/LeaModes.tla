------------------------------ MODULE LeaModes ------------------------------
(***************************************************************************)
(* The modes of operation of src/crypto/lea_ref (lea_ecb.h, lea_cbc.h,     *)
(* lea_ctr.h, lea_ofb.h, lea_cfb.h) over a block cipher that is left open. *)
(* Bytes are numbers, blocks and messages are sequences of them.  A mode   *)
(* that needs whole blocks does nothing with any other length.             *)
(*                                                                         *)
(* Whether the code takes eight blocks at a time, four, or one makes no    *)
(* difference to what it computes, and none here.                          *)
(***************************************************************************)
EXTENDS Integers, Sequences

CONSTANTS
    BlockLen,     \* bytes in a block: 16
    Byte,         \* the values of a byte: 0..255
    Exor(_, _),   \* of bytes
    Enc(_),       \* the block cipher under the context's key
    Dec(_)        \* and its inverse

Block == [1..BlockLen -> Byte]
Zeros == [i \in 1..BlockLen |-> 0]

\* What is asked of bytes, exclusive or and the block cipher.
CipherLaws ==
    /\ BlockLen \in Nat \ {0}
    /\ \E top \in Byte : top \in Nat /\ Byte = 0..top
    /\ \A a, b \in Byte : /\ Exor(a, b) \in Byte /\ Exor(a, b) = Exor(b, a)
                          /\ Exor(Exor(a, b), b) = a
    /\ \A b \in Block : /\ Enc(b) \in Block /\ Dec(b) \in Block
                        /\ Dec(Enc(b)) = b /\ Enc(Dec(b)) = b

\* Blocks of a message, counted from 1; the last may be short.
NumBlocks(x) == (Len(x) + BlockLen - 1) \div BlockLen
BlockOf(x, b) == [i \in 1..BlockLen |->
                    IF (b - 1) * BlockLen + i <= Len(x) THEN x[(b - 1) * BlockLen + i] ELSE 0]
LastBlock(x) == BlockOf(x, NumBlocks(x))

XorBlock(a, b) == [i \in 1..BlockLen |-> Exor(a[i], b[i])]

\* The message whose block b is f[b], as long as x.
Joined(f, x) == [i \in DOMAIN x |-> f[(i - 1) \div BlockLen + 1][((i - 1) % BlockLen) + 1]]

\* x masked with the blocks of f.
Masked(x, f) == [i \in DOMAIN x |-> Exor(x[i], f[(i - 1) \div BlockLen + 1][((i - 1) % BlockLen) + 1])]

-----------------------------------------------------------------------------
ecb_enc(x) == Joined([b \in 1..NumBlocks(x) |-> Enc(BlockOf(x, b))], x)
ecb_dec(x) == Joined([b \in 1..NumBlocks(x) |-> Dec(BlockOf(x, b))], x)

cbc_enc(iv, x) ==
    LET c[b \in 0..NumBlocks(x)] == IF b = 0 THEN iv ELSE Enc(XorBlock(BlockOf(x, b), c[b - 1]))
    IN Joined(c, x)

\* From the last block to the first: each needs the ciphertext before it.
cbc_dec(iv, x) ==
    Joined([b \in 1..NumBlocks(x) |->
              XorBlock(Dec(BlockOf(x, b)), IF b = 1 THEN iv ELSE BlockOf(x, b - 1))], x)

\* ctr128_inc: a byte moves when every byte after it overflows.
ctr128_inc(c) ==
    LET top == CHOOSE m \in Byte : \A b \in Byte : b <= m
    IN [i \in 1..BlockLen |->
          IF \A j \in i + 1..BlockLen : c[j] = top
          THEN (IF c[i] = top THEN 0 ELSE c[i] + 1) ELSE c[i]]

\* Counter blocks: the first is for block 1.
Counters(ctr, n) ==
    LET c[b \in 1..n + 1] == IF b = 1 THEN ctr ELSE ctr128_inc(c[b - 1]) IN c

\* Only whole blocks move the counter that is left in ctr.
ctr_enc(ctr, x) == Masked(x, [b \in 1..NumBlocks(x) |-> Enc(Counters(ctr, NumBlocks(x))[b])])
CtrAfter(ctr, x) == Counters(ctr, Len(x) \div BlockLen)[Len(x) \div BlockLen + 1]

\* The register is left at the last block of keystream, used up or not.
Register(iv, n) == LET s[b \in 0..n] == IF b = 0 THEN iv ELSE Enc(s[b - 1]) IN s
ofb_enc(iv, x) == Masked(x, Register(iv, NumBlocks(x)))
OfbAfter(iv, x) == Register(iv, NumBlocks(x))[NumBlocks(x)]

cfb128_enc(iv, x) ==
    LET c[b \in 0..NumBlocks(x)] == IF b = 0 THEN iv ELSE XorBlock(Enc(c[b - 1]), BlockOf(x, b))
    IN Joined(c, x)

cfb128_dec(iv, x) ==
    Masked(x, [b \in 1..NumBlocks(x) |-> Enc(IF b = 1 THEN iv ELSE BlockOf(x, b - 1))])
=============================================================================
