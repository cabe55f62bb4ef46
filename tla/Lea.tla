-------------------------------- MODULE Lea --------------------------------
(***************************************************************************)
(* The LEA block cipher of src/crypto/lea_ref/lea_core.c: the key schedule *)
(* lea_set_key_generic, lea_encrypt and lea_decrypt, one round key and one *)
(* round per step.                                                         *)
(*                                                                         *)
(* The code unrolls its loops: 144 to 192 assignments to key->rk and 96    *)
(* assignments to X0..X3 in each direction, whose indices, constants and   *)
(* rotations follow one rule.  The rule is what is modelled: in round r    *)
(* the words X[(1+r)%4], X[(2+r)%4], X[(3+r)%4] are replaced and X[r%4] is *)
(* kept, which is how the four variables of the code change roles.         *)
(*                                                                         *)
(* Words are abstract here, with the operations of the C type; LeaLaws     *)
(* says what the proofs need of them.                                      *)
(***************************************************************************)
EXTENDS Integers, Sequences

CONSTANTS
    Word,            \* the values of an unsigned int
    Add(_, _),       \* a + b modulo the width
    Sub(_, _),       \* a - b modulo the width
    Exor(_, _),       \* a ^ b
    Rol(_, _),       \* the macro ROL
    Ror(_, _),       \* the macro ROR
    Delta(_, _),     \* delta[k][i]: row k, column i
    NoWord,          \* an entry of key->rk nothing has written
    MasterKeys,      \* the keys a caller may pass, as sequences of words
    Plaintexts       \* the blocks a caller may encrypt

VARIABLES
    mk,      \* the master key being expanded
    rk,      \* key->rk
    round,   \* key->round, 0 before the first lea_set_key
    phase,   \* what the program is doing with the cipher
    r,       \* the next round key to compute, or the next round to run
    X,       \* X0..X3
    trace    \* history: the block before and after each round of encryption

vars == <<mk, rk, round, phase, r, X, trace>>

Rot == <<1, 3, 6, 11, 13, 17>>

\* mk_len (in bytes) of a key of Len(m) words.
MkLen(m) == 4 * Len(m)

-----------------------------------------------------------------------------
(* lea_set_key_generic *)

\* Wrong: the fourth word of the key reaches rk[6r+3] instead of rk[6r+4].
RoundWord128_column(n) ==
    LET t == n \div 6
        c == <<0, 1, 2, 3, 1, 1>>[(n % 6) + 1]
        prev == IF n < 6 THEN mk[c + 1] ELSE rk[n - 6]
    IN Rol(Add(prev, Delta(t % 4, (t + c) % 32)), Rot[c + 1])

\* case 16: four words; the second one feeds three of the six round keys.
RoundWord128(n) ==
    LET t == n \div 6
        c == <<0, 1, 2, 1, 3, 1>>[(n % 6) + 1]
        prev == IF n < 6 THEN mk[c + 1] ELSE rk[n - 6]
    IN Rol(Add(prev, Delta(t % 4, (t + c) % 32)), Rot[c + 1])

\* case 24: six words, one for each of the six round keys.
RoundWord192(n) ==
    LET t == n \div 6
        c == n % 6
        prev == IF n < 6 THEN mk[c + 1] ELSE rk[n - 6]
    IN Rol(Add(prev, Delta(t % 6, (t + c) % 32)), Rot[c + 1])

\* case 32: eight words take turns in filling six round keys a round.
RoundWord256(n) ==
    LET t == n \div 6
        c == n % 6
        prev == IF n < 8 THEN mk[n + 1] ELSE rk[n - 8]
    IN Rol(Add(prev, Delta(t % 8, (t + c) % 32)), Rot[c + 1])

RoundWord(n) == CASE MkLen(mk) = 16 -> RoundWord128(n)
                  [] MkLen(mk) = 24 -> RoundWord192(n)
                  [] MkLen(mk) = 32 -> RoundWord256(n)

\* key->round = (mk_len >> 1) + 16
RoundsOf(m) == (MkLen(m) \div 2) + 16

\* lea_set_key with a length the switch knows.
SetKey(m) ==
    /\ phase \in {"idle", "opened"}
    /\ MkLen(m) \in {16, 24, 32}
    /\ mk' = m
    /\ phase' = "keying"
    /\ r' = 0
    /\ X' = [i \in 0..3 |-> NoWord]
    /\ trace' = <<>>
    /\ UNCHANGED <<rk, round>>

\* One assignment to key->rk.
KeyStep ==
    /\ phase = "keying"
    /\ r < 6 * RoundsOf(mk)
    /\ rk' = [rk EXCEPT ![r] = RoundWord(r)]
    /\ r' = r + 1
    /\ UNCHANGED <<mk, round, phase, X, trace>>

\* The end of the switch: key->round is set.
KeyDone ==
    /\ phase = "keying"
    /\ r = 6 * RoundsOf(mk)
    /\ round' = RoundsOf(mk)
    /\ phase' = "idle"
    /\ UNCHANGED <<mk, rk, r, X, trace>>

-----------------------------------------------------------------------------
(* lea_encrypt *)

EncRound(b, t) ==
    [b EXCEPT
        ![(3 + t) % 4] = Ror(Add(Exor(b[(2 + t) % 4], rk[6 * t + 4]),
                                 Exor(b[(3 + t) % 4], rk[6 * t + 5])), 3),
        ![(2 + t) % 4] = Ror(Add(Exor(b[(1 + t) % 4], rk[6 * t + 2]),
                                 Exor(b[(2 + t) % 4], rk[6 * t + 3])), 5),
        ![(1 + t) % 4] = Rol(Add(Exor(b[t % 4], rk[6 * t]),
                                 Exor(b[(1 + t) % 4], rk[6 * t + 1])), 9)]

\* Which rounds the code runs: 24 always, 4 more if key->round > 24 and 4
\* more if key->round > 28.
Unrolled == IF round > 28 THEN 32 ELSE IF round > 24 THEN 28 ELSE 24

Encrypt(pt) ==
    /\ phase \in {"idle", "opened"}
    /\ round > 0
    /\ X' = pt
    /\ trace' = <<pt>>
    /\ r' = 0
    /\ phase' = "encrypting"
    /\ UNCHANGED <<mk, rk, round>>

EncStep ==
    /\ phase = "encrypting"
    /\ r < Unrolled
    /\ X' = EncRound(X, r)
    /\ trace' = Append(trace, EncRound(X, r))
    /\ r' = r + 1
    /\ UNCHANGED <<mk, rk, round, phase>>

EncDone ==
    /\ phase = "encrypting"
    /\ r = Unrolled
    /\ phase' = "sealed"
    /\ UNCHANGED <<mk, rk, round, r, X, trace>>

-----------------------------------------------------------------------------
(* lea_decrypt *)

\* Wrong: each word is undone with the neighbour the cipher left behind, not
\* with the one just recovered.
DecRound_neighbour(b, t) ==
    LET x1 == Exor(Sub(Ror(b[(1 + t) % 4], 9), Exor(b[t % 4], rk[6 * t])), rk[6 * t + 1])
        x2 == Exor(Sub(Rol(b[(2 + t) % 4], 5), Exor(b[(1 + t) % 4], rk[6 * t + 2])), rk[6 * t + 3])
        x3 == Exor(Sub(Rol(b[(3 + t) % 4], 3), Exor(x2, rk[6 * t + 4])), rk[6 * t + 5])
    IN [b EXCEPT ![(1 + t) % 4] = x1, ![(2 + t) % 4] = x2, ![(3 + t) % 4] = x3]

DecRound(b, t) ==
    LET x1 == Exor(Sub(Ror(b[(1 + t) % 4], 9), Exor(b[t % 4], rk[6 * t])), rk[6 * t + 1])
        x2 == Exor(Sub(Rol(b[(2 + t) % 4], 5), Exor(x1, rk[6 * t + 2])), rk[6 * t + 3])
        x3 == Exor(Sub(Rol(b[(3 + t) % 4], 3), Exor(x2, rk[6 * t + 4])), rk[6 * t + 5])
    IN [b EXCEPT ![(1 + t) % 4] = x1, ![(2 + t) % 4] = x2, ![(3 + t) % 4] = x3]

Decrypt ==
    /\ phase = "sealed"
    /\ phase' = "decrypting"
    /\ r' = Unrolled
    /\ UNCHANGED <<mk, rk, round, X, trace>>

DecStep ==
    /\ phase = "decrypting"
    /\ r > 0
    /\ X' = DecRound(X, r - 1)
    /\ r' = r - 1
    /\ UNCHANGED <<mk, rk, round, phase, trace>>

DecDone ==
    /\ phase = "decrypting"
    /\ r = 0
    /\ phase' = "opened"
    /\ UNCHANGED <<mk, rk, round, r, X, trace>>

-----------------------------------------------------------------------------
Init ==
    /\ mk = <<>>
    /\ rk = [n \in 0..191 |-> NoWord]
    /\ round = 0
    /\ phase = "idle"
    /\ r = 0
    /\ X = [i \in 0..3 |-> NoWord]
    /\ trace = <<>>

Next ==
    \/ \E m \in MasterKeys : SetKey(m)
    \/ \E pt \in Plaintexts : Encrypt(pt)
    \/ KeyStep \/ KeyDone
    \/ EncStep \/ EncDone
    \/ Decrypt \/ DecStep \/ DecDone

Spec == Init /\ [][Next]_vars

-----------------------------------------------------------------------------
(* Properties *)

Block == [0..3 -> Word]

\* The cipher's state: every round key a round can reach has been written.
TypeOK ==
    /\ round \in {0, 24, 28, 32}
    /\ phase \in {"idle", "keying", "encrypting", "sealed", "decrypting", "opened"}
    /\ r \in 0..192
    /\ rk \in [0..191 -> Word \cup {NoWord}]
    /\ phase # "keying" => \A n \in 0..(6 * round - 1) : rk[n] \in Word
    /\ trace \in Seq(Block)
    /\ phase \in {"encrypting", "sealed", "decrypting", "opened"} => X \in Block /\ trace # <<>>

\* lea_decrypt after lea_encrypt under one key gives the block back, for
\* every key length (lea_core.c 547-801: two unrolled functions that share no
\* code and must mirror each other to the last index).
DecryptUndoesEncrypt == phase = "opened" => X = trace[1]

\* The rounds the two `if(key->round > ...)` blocks run are the rounds the
\* key schedule announced, and they use no round key it did not write
\* (lea_core.c 544 against 637-661 and 687-717).
RoundsMatchSchedule == phase = "sealed" => Len(trace) = round + 1

=============================================================================
