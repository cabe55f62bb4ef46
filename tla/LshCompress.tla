---------------------------- MODULE LshCompress ----------------------------
(***************************************************************************)
(* The compression of LSH, src/crypto/lsh_ref/src/lsh256.c and lsh512.c:   *)
(* the chaining value of a fresh context, the step function and its        *)
(* message expansion, and the hash taken from the chaining value.  One     *)
(* step of the code's loops is one action.                                 *)
(*                                                                         *)
(* The two files are one algorithm with different words and numbers, which *)
(* are the constants here.  cv_l and cv_r are words 0..7 and 8..15 of cv,  *)
(* submsg_e_l and submsg_e_r those of even, submsg_o_l and submsg_o_r      *)
(* those of odd.                                                           *)
(***************************************************************************)
EXTENDS Integers, Sequences

CONSTANTS
    Add(_, _), Exor(_, _), Rotl(_, _),   \* of words; Rotl by less than a word
    FromNat(_),      \* a small number as a word
    ByteOf(_, _),    \* byte k of a word, 0 the lowest
    WordBytes,       \* bytes in a word
    NumSteps, Alpha, Beta,   \* Alpha[p], Beta[p]: of the even and odd steps
    Gamma,           \* the rotations of rotate_msg_gamma, 0..7
    FirstRow,        \* the first eight step constants
    IV,              \* the chaining values in tables, by type
    Types,           \* hash types: bytes of the hash, bits cut off the last
    Messages         \* padded messages: sequences of blocks of 32 words

VARIABLES
    algtype, input,  \* the type and the message
    msg,             \* its blocks not yet compressed
    phase,           \* where the hash is
    j, sc,           \* the step, and const_v: its row of g_StepConstants
    cv, even, odd,   \* the chaining value and the two sub-messages
    gen,             \* the chaining value of the general initialisation
    hash             \* the bytes given by lsh256_final

vars == <<algtype, input, msg, phase, j, sc, cv, even, odd, gen, hash>>

Half == 0..7
Words == 0..15
NoHash == <<>>
MaxBytes == 8 * WordBytes

-----------------------------------------------------------------------------
\* g_StepConstants: a row is the row before it plus that row turned by 8.
NextRow(row) == [k \in Half |-> Add(row[k], Rotl(row[k], 8))]

even_of(block) == [k \in Words |-> block[k + 1]]
odd_of(block) == [k \in Words |-> block[k + 17]]

\* Wrong: the permutation of the first four words is used for all.
msg_exp_same(x, other) ==
    [k \in Words |-> Add(other[k], x[4 * (k \div 4) + <<3, 2, 0, 1>>[(k % 4) + 1]])]

\* msg_exp_even, and msg_exp_odd with the sub-messages exchanged.
msg_exp(x, other) ==
    [k \in Words |-> Add(other[k], x[8 * (k \div 8) + <<3, 2, 0, 1, 7, 4, 5, 6>>[(k % 8) + 1]])]

msg_add(c, m) == [k \in Words |-> Exor(c[k], m[k])]

rotate_msg_gamma(r) == [k \in Half |-> IF Gamma[k] = 0 THEN r[k] ELSE Rotl(r[k], Gamma[k])]

mix(c, row, p) ==
    LET l == [k \in Half |-> Exor(Rotl(Add(c[k], c[8 + k]), Alpha[p]), row[k])]
        r == [k \in Half |-> Rotl(Add(c[8 + k], l[k]), Beta[p])]
        turned == rotate_msg_gamma(r)
    IN [k \in Words |-> IF k < 8 THEN Add(l[k], r[k]) ELSE turned[k - 8]]

word_perm(c) ==
    LET from == <<6, 4, 5, 7, 12, 15, 14, 13, 2, 0, 1, 3, 8, 11, 10, 9>>
    IN [k \in Words |-> c[from[k + 1]]]

\* get_hash, with the bits cut off the last byte.
get_hash(t, l) ==
    [i \in 1..t.bytes |->
        LET b == ByteOf(l[(i - 1) \div WordBytes], (i - 1) % WordBytes)
        IN IF i = t.bytes THEN (b \div 2^t.small) * 2^t.small ELSE b]

-----------------------------------------------------------------------------
\* lsh256_init.  The general initialisation is run beside the tables' one, so
\* that the two can be compared; the code runs it for the types it has no
\* table for.
Init_(t, m) ==
    /\ phase \in {"new", "hashed"}
    /\ algtype' = t /\ input' = m /\ msg' = m
    /\ gen' = [k \in Words |-> FromNat(CASE k = 0 -> MaxBytes
                                         [] k = 1 -> 8 * t.bytes - t.small
                                         [] OTHER -> 0)]
    /\ phase' = "init" /\ j' = 0 /\ sc' = FirstRow
    /\ hash' = NoHash
    /\ UNCHANGED <<cv, even, odd>>

GenStep ==
    /\ phase = "init" /\ j < NumSteps
    /\ gen' = word_perm(mix(gen, sc, j % 2))
    /\ j' = j + 1 /\ sc' = NextRow(sc)
    /\ UNCHANGED <<algtype, input, msg, phase, cv, even, odd, hash>>

InitDone ==
    /\ phase = "init" /\ j = NumSteps
    /\ cv' = IF algtype \in DOMAIN IV THEN [k \in Words |-> IV[algtype][k + 1]] ELSE gen
    /\ phase' = "ready"
    /\ UNCHANGED <<algtype, input, msg, j, sc, even, odd, gen, hash>>

\* compress begins: load_msg_blk.
Load ==
    /\ phase = "ready" /\ msg # <<>>
    /\ even' = even_of(Head(msg)) /\ odd' = odd_of(Head(msg))
    /\ msg' = Tail(msg)
    /\ phase' = "compress" /\ j' = 0 /\ sc' = FirstRow
    /\ UNCHANGED <<algtype, input, cv, gen, hash>>

\* A step; from the third on the sub-message is expanded first.
Step ==
    LET e == IF j < 2 THEN even ELSE msg_exp(even, odd)
        o == IF j < 2 THEN odd ELSE msg_exp(odd, even)
        c == msg_add(cv, IF j % 2 = 0 THEN e ELSE o)
    IN /\ phase = "compress" /\ j < NumSteps
       /\ IF j % 2 = 0 THEN even' = e /\ UNCHANGED odd ELSE odd' = o /\ UNCHANGED even
       /\ cv' = word_perm(mix(c, sc, j % 2))
       /\ j' = j + 1 /\ sc' = NextRow(sc)
       /\ UNCHANGED <<algtype, input, msg, phase, gen, hash>>

\* The sub-message after the last step is only added.
LastAdd ==
    /\ phase = "compress" /\ j = NumSteps
    /\ even' = msg_exp(even, odd)
    /\ cv' = msg_add(cv, even')
    /\ phase' = "ready"
    /\ UNCHANGED <<algtype, input, msg, j, sc, odd, gen, hash>>

\* fin and get_hash; the context is cleared.
Final ==
    LET l == [k \in Half |-> Exor(cv[k], cv[8 + k])]
    IN /\ phase = "ready" /\ msg = <<>>
       /\ hash' = get_hash(algtype, l)
       /\ phase' = "hashed"
       /\ cv' = [k \in Words |-> FromNat(0)]
       /\ UNCHANGED <<algtype, input, msg, j, sc, even, odd, gen>>

Init ==
    LET zero == [k \in Words |-> FromNat(0)]
    IN /\ algtype \in Types /\ input = <<>> /\ msg = <<>>
       /\ phase = "new" /\ j = 0 /\ sc = FirstRow
       /\ cv = zero /\ even = zero /\ odd = zero /\ gen = zero
       /\ hash = NoHash

Next ==
    \/ \E t \in Types, m \in Messages : Init_(t, m)
    \/ GenStep \/ InitDone \/ Load \/ Step \/ LastAdd \/ Final

Spec == Init /\ [][Next]_vars

-----------------------------------------------------------------------------
(* Properties *)

\* The tables hold what the general initialisation computes for their types:
\* a type has one chaining value, whichever way lsh256_init goes.
TablesAreGenerated ==
    phase = "ready" /\ algtype \in DOMAIN IV =>
        \A k \in Words : gen[k] = IV[algtype][k + 1]
=============================================================================
