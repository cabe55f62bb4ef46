----------------------------- MODULE Lea_proofs -----------------------------
(***************************************************************************)
(* lea_decrypt undoes lea_encrypt, for every word size and table that      *)
(* satisfies LeaLaws, every key the schedule accepts and every block.      *)
(*                                                                         *)
(* The argument: one round undoes one round (RoundUndone), and while       *)
(* decryption runs, the block before round r is the block encryption had   *)
(* before round r.  The history variable trace keeps those blocks, which   *)
(* makes the second half an invariant (Chain) of single steps.             *)
(***************************************************************************)
EXTENDS LeaLaws, TLAPS

Busy == {"encrypting", "sealed", "decrypting", "opened"}

\* The round keys a running cipher uses have all been written.
KeyReady == /\ phase = "keying" => /\ mk \in MasterKeys
                                   /\ MkLen(mk) \in {16, 24, 32}
                                   /\ r \in 0..(6 * RoundsOf(mk))
                                   /\ \A n \in 0..(r - 1) : rk[n] \in Word
            /\ phase # "keying" => \A n \in 0..(6 * round - 1) : rk[n] \in Word

\* The blocks of the encryption, one per round, and where the cipher is
\* among them.
Chain == phase \in Busy =>
            /\ round # 0
            /\ r \in 0..round
            /\ Len(trace) = IF phase = "encrypting" THEN r + 1 ELSE round + 1
            /\ X = trace[r + 1]
            /\ \A i \in 1..(Len(trace) - 1) : trace[i + 1] = EncRound(trace[i], i - 1)
            /\ phase = "sealed" => r = round
            /\ phase = "opened" => r = 0

IInv == TypeOK /\ KeyReady /\ Chain

-----------------------------------------------------------------------------
(* One round *)

\* The four words a round names are four different words.
LEMMA Roles ==
    ASSUME NEW t \in 0..31
    PROVE  \E q \in 0..3 :
             /\ t % 4 = q
             /\ (1 + t) % 4 = (IF q = 3 THEN 0 ELSE q + 1)
             /\ (2 + t) % 4 = (IF q >= 2 THEN q - 2 ELSE q + 2)
             /\ (3 + t) % 4 = (IF q = 0 THEN 3 ELSE q - 1)
  BY SMT

\* Undoing one word of a round: the right rotations and the left one.
LEMMA RightUndone ==
    ASSUME NEW i \in 1..17
    PROVE  \A a, b, k, l \in Word :
              LET mixed == Ror(Add(Exor(a, k), Exor(b, l)), i)
              IN mixed \in Word /\ Exor(Sub(Rol(mixed, i), Exor(a, k)), l) = b
  <1> TAKE a, b, k, l \in Word
  <1> DEFINE u == Exor(a, k)
             v == Exor(b, l)
  <1>1. u \in Word /\ v \in Word /\ Exor(v, l) = b BY WordLaws
  <1>2. Add(u, v) \in Word /\ Sub(Add(u, v), u) = v BY <1>1, WordLaws
  <1>3. Ror(Add(u, v), i) \in Word /\ Rol(Ror(Add(u, v), i), i) = Add(u, v)
    BY <1>2, WordLaws
  <1> QED BY <1>1, <1>2, <1>3

\* Likewise for the word of a round that is rotated to the left.
LEMMA LeftUndone ==
    ASSUME NEW i \in 1..17
    PROVE  \A a, b, k, l \in Word :
              LET mixed == Rol(Add(Exor(a, k), Exor(b, l)), i)
              IN mixed \in Word /\ Exor(Sub(Ror(mixed, i), Exor(a, k)), l) = b
  <1> TAKE a, b, k, l \in Word
  <1> DEFINE u == Exor(a, k)
             v == Exor(b, l)
  <1>1. u \in Word /\ v \in Word /\ Exor(v, l) = b BY WordLaws
  <1>2. Add(u, v) \in Word /\ Sub(Add(u, v), u) = v BY <1>1, WordLaws
  <1>3. Rol(Add(u, v), i) \in Word /\ Ror(Rol(Add(u, v), i), i) = Add(u, v)
    BY <1>2, WordLaws
  <1> QED BY <1>1, <1>2, <1>3

\* A round of lea_decrypt undoes the same round of lea_encrypt.
LEMMA RoundUndone ==
    ASSUME NEW b \in Block, NEW t \in 0..31,
           \A j \in 0..5 : rk[6 * t + j] \in Word
    PROVE  EncRound(b, t) \in Block /\ DecRound(EncRound(b, t), t) = b
  <1> DEFINE y0 == t % 4
             y1 == (1 + t) % 4
             y2 == (2 + t) % 4
             y3 == (3 + t) % 4
             k0 == rk[6 * t]
             k1 == rk[6 * t + 1]
             k2 == rk[6 * t + 2]
             k3 == rk[6 * t + 3]
             k4 == rk[6 * t + 4]
             k5 == rk[6 * t + 5]
             b0 == b[y0]
             b1 == b[y1]
             b2 == b[y2]
             b3 == b[y3]
             e3 == Ror(Add(Exor(b2, k4), Exor(b3, k5)), 3)
             e2 == Ror(Add(Exor(b1, k2), Exor(b2, k3)), 5)
             e1 == Rol(Add(Exor(b0, k0), Exor(b1, k1)), 9)
             e == EncRound(b, t)
             x1 == Exor(Sub(Ror(e[y1], 9), Exor(e[y0], k0)), k1)
             x2 == Exor(Sub(Rol(e[y2], 5), Exor(x1, k2)), k3)
             x3 == Exor(Sub(Rol(e[y3], 3), Exor(x2, k4)), k5)
  <1>1. /\ y0 \in 0..3 /\ y1 \in 0..3 /\ y2 \in 0..3 /\ y3 \in 0..3
        /\ y0 # y1 /\ y0 # y2 /\ y0 # y3 /\ y1 # y2 /\ y1 # y3 /\ y2 # y3
        /\ \A y \in 0..3 : y \in {y0, y1, y2, y3}
    BY Roles
  <1>2. k0 \in Word /\ k1 \in Word /\ k2 \in Word /\ k3 \in Word /\ k4 \in Word /\ k5 \in Word
    <2>1. rk[6 * t + 0] \in Word OBVIOUS
    <2> QED BY <2>1
  <1>3. b \in [0..3 -> Word] BY DEF Block
  <1>4. e = [b EXCEPT ![y3] = e3, ![y2] = e2, ![y1] = e1] BY DEF EncRound
  <1>5. DecRound(e, t) = [e EXCEPT ![y1] = x1, ![y2] = x2, ![y3] = x3] BY DEF DecRound
  <1> HIDE DEF e, y0, y1, y2, y3, k0, k1, k2, k3, k4, k5
  <1>6. b[y0] \in Word /\ b[y1] \in Word /\ b[y2] \in Word /\ b[y3] \in Word BY <1>1, <1>3
  <1>d. b0 \in Word /\ b1 \in Word /\ b2 \in Word /\ b3 \in Word BY <1>6
  <1>0. 3 \in 1..17 /\ 5 \in 1..17 /\ 9 \in 1..17 OBVIOUS
  <1>a. e1 \in Word /\ Exor(Sub(Ror(e1, 9), Exor(b0, k0)), k1) = b1
    <2> HIDE DEF b0, b1, b2, b3
    <2>1. \A p, q, k, l \in Word :
            LET mixed == Rol(Add(Exor(p, k), Exor(q, l)), 9)
            IN mixed \in Word /\ Exor(Sub(Ror(mixed, 9), Exor(p, k)), l) = q
      BY LeftUndone
    <2> QED BY <2>1, <1>2, <1>d
  <1>b. e2 \in Word /\ Exor(Sub(Rol(e2, 5), Exor(b1, k2)), k3) = b2
    <2> HIDE DEF b0, b1, b2, b3
    <2>1. \A p, q, k, l \in Word :
            LET mixed == Ror(Add(Exor(p, k), Exor(q, l)), 5)
            IN mixed \in Word /\ Exor(Sub(Rol(mixed, 5), Exor(p, k)), l) = q
      BY RightUndone
    <2> QED BY <2>1, <1>2, <1>d
  <1>c. e3 \in Word /\ Exor(Sub(Rol(e3, 3), Exor(b2, k4)), k5) = b3
    <2> HIDE DEF b0, b1, b2, b3
    <2>1. \A p, q, k, l \in Word :
            LET mixed == Ror(Add(Exor(p, k), Exor(q, l)), 3)
            IN mixed \in Word /\ Exor(Sub(Rol(mixed, 3), Exor(p, k)), l) = q
      BY RightUndone
    <2> QED BY <2>1, <1>2, <1>d
  <1>7. e1 \in Word /\ e2 \in Word /\ e3 \in Word BY <1>a, <1>b, <1>c
  <1>8. /\ Exor(Sub(Ror(e1, 9), Exor(b[y0], k0)), k1) = b[y1]
        /\ Exor(Sub(Rol(e2, 5), Exor(b[y1], k2)), k3) = b[y2]
        /\ Exor(Sub(Rol(e3, 3), Exor(b[y2], k4)), k5) = b[y3]
    BY <1>a, <1>b, <1>c
  <1> HIDE DEF e1, e2, e3
  <1>9. /\ e \in [0..3 -> Word]
        /\ e[y0] = b[y0] /\ e[y1] = e1 /\ e[y2] = e2 /\ e[y3] = e3
    BY <1>1, <1>3, <1>4, <1>7
  <1>10. x1 = b[y1] BY <1>8, <1>9
  <1>11. x2 = b[y2] BY <1>8, <1>9, <1>10
  <1>12. x3 = b[y3] BY <1>8, <1>9, <1>11
  <1> HIDE DEF x1, x2, x3
  <1>13. DecRound(e, t) = b
    <2> DEFINE d == [e EXCEPT ![y1] = x1, ![y2] = x2, ![y3] = x3]
    <2>1. d \in [0..3 -> Word] /\ d[y0] = b[y0] /\ d[y1] = b[y1] /\ d[y2] = b[y2] /\ d[y3] = b[y3]
      BY <1>1, <1>6, <1>9, <1>10, <1>11, <1>12
    <2>2. \A y \in 0..3 : d[y] = b[y] BY <1>1, <2>1
    <2> HIDE DEF d
    <2>3. d = b BY <1>3, <2>1, <2>2
    <2> QED BY <1>5, <2>3 DEF d
  <1> QED BY <1>9, <1>13 DEF Block, e

-----------------------------------------------------------------------------
(* The key schedule *)

\* The three lengths of a key, and the rounds each of them has.
LEMMA KeyLengths ==
    \A n \in Nat : 4 * n \in {16, 24, 32} =>
        n \in {4, 6, 8} /\ ((4 * n) \div 2) + 16 \in {24, 28, 32}
  <1> SUFFICES ASSUME NEW n \in Nat, 4 * n \in {16, 24, 32}
               PROVE  n \in {4, 6, 8} /\ ((4 * n) \div 2) + 16 \in {24, 28, 32}
    OBVIOUS
  <1>1. 4 * n = 16 \/ 4 * n = 24 \/ 4 * n = 32 OBVIOUS
  <1>2. n = 4 \/ n = 6 \/ n = 8 BY <1>1
  <1> QED BY <1>2

\* Word n of the round keys is word n % 6 of the key of round n \div 6.
LEMMA Position ==
    ASSUME NEW n \in 0..191
    PROVE  n \div 6 \in 0..31 /\ n % 6 \in 0..5
  BY SMT

\* The words of the round keys of a 128-bit key come from its four columns.
LEMMA Columns == \A c \in 0..5 : <<0, 1, 2, 1, 3, 1>>[c + 1] \in 0..3
  <1> SUFFICES ASSUME NEW c \in 0..5 PROVE <<0, 1, 2, 1, 3, 1>>[c + 1] \in 0..3 OBVIOUS
  <1>1. c = 0 \/ c = 1 \/ c = 2 \/ c = 3 \/ c = 4 \/ c = 5 OBVIOUS
  <1> QED BY <1>1

\* Every rotation of the key schedule is one the laws of words speak of.
LEMMA Rotations == \A c \in 0..5 : Rot[c + 1] \in 1..17
  <1> SUFFICES ASSUME NEW c \in 0..5 PROVE Rot[c + 1] \in 1..17 OBVIOUS
  <1>1. c = 0 \/ c = 1 \/ c = 2 \/ c = 3 \/ c = 4 \/ c = 5 OBVIOUS
  <1> QED BY <1>1 DEF Rot

\* One step of a key schedule stays among the words.
LEMMA Mixed ==
    ASSUME NEW prev \in Word, NEW k \in 0..7, NEW t \in 0..31, NEW c \in 0..5
    PROVE  Rol(Add(prev, Delta(k, (t + c) % 32)), Rot[c + 1]) \in Word
  <1> DEFINE i == (t + c) % 32
  <1>1. i \in 0..31 OBVIOUS
  <1> HIDE DEF i
  <1>2. Delta(k, i) \in Word BY <1>1, TableLaw
  <1> DEFINE d == Delta(k, i)
             j == Rot[c + 1]
  <1>3. d \in Word /\ j \in 1..17 BY <1>2, Rotations
  <1> HIDE DEF d, j
  <1>4. Add(prev, d) \in Word BY <1>3, WordLaws
  <1>5. Rol(Add(prev, d), j) \in Word BY <1>3, <1>4, WordLaws
  <1> QED BY <1>5 DEF d, i, j

\* Every round key the schedule computes is a word, because the one it is
\* derived from was written before it.
LEMMA ScheduleWord ==
    ASSUME IInv, phase = "keying", r < 6 * RoundsOf(mk)
    PROVE  RoundWord(r) \in Word
  <1>0. /\ r \in 0..192 /\ mk \in Seq(Word) /\ MkLen(mk) \in {16, 24, 32}
        /\ \A n \in 0..(r - 1) : rk[n] \in Word
    BY InputLaw DEF IInv, TypeOK, KeyReady
  <1>1. Len(mk) \in {4, 6, 8} /\ r \in 0..191
    <2>1. Len(mk) \in Nat BY <1>0
    <2>2. Len(mk) \in {4, 6, 8} /\ RoundsOf(mk) \in {24, 28, 32}
      BY <1>0, <2>1, KeyLengths DEF MkLen, RoundsOf
    <2> QED BY <1>0, <2>2
  <1>2. \A i \in 1..Len(mk) : mk[i] \in Word BY <1>0
  <1>3. r \div 6 \in 0..31 /\ r % 6 \in 0..5 BY <1>1, Position
  <1> DEFINE t == r \div 6
             c == r % 6
  <1>4. CASE Len(mk) = 4
    <2> DEFINE w == <<0, 1, 2, 1, 3, 1>>[c + 1]
               prev == IF r < 6 THEN mk[w + 1] ELSE rk[r - 6]
    <2>1. w \in 0..3 BY <1>3, Columns
    <2>2. MkLen(mk) = 16 BY <1>4 DEF MkLen
    <2>3. RoundWord(r) = Rol(Add(prev, Delta(t % 4, (t + w) % 32)), Rot[w + 1])
      BY <2>2 DEF RoundWord, RoundWord128
    <2> HIDE DEF w, t
    <2>4. prev \in Word BY <1>0, <1>1, <1>2, <1>4, <2>1
    <2>5. t % 4 \in 0..7 BY <1>3 DEF t
    <2> HIDE DEF prev
    <2> QED BY <1>3, <2>1, <2>3, <2>4, <2>5, Mixed, SMTT(30) DEF t
  <1>5. CASE Len(mk) = 6
    <2> DEFINE prev == IF r < 6 THEN mk[c + 1] ELSE rk[r - 6]
    <2>2. MkLen(mk) = 24 BY <1>5 DEF MkLen
    <2>3. RoundWord(r) = Rol(Add(prev, Delta(t % 6, (t + c) % 32)), Rot[c + 1])
      BY <2>2 DEF RoundWord, RoundWord192
    <2>4. prev \in Word
      <3> HIDE DEF t
      <3> QED BY <1>0, <1>1, <1>2, <1>3, <1>5
    <2>5. t % 6 \in 0..7 BY <1>3
    <2> HIDE DEF prev, t, c
    <2> QED BY <1>3, <2>3, <2>4, <2>5, Mixed DEF t, c
  <1>6. CASE Len(mk) = 8
    <2> DEFINE prev == IF r < 8 THEN mk[r + 1] ELSE rk[r - 8]
    <2>2. MkLen(mk) = 32 BY <1>6 DEF MkLen
    <2>3. RoundWord(r) = Rol(Add(prev, Delta(t % 8, (t + c) % 32)), Rot[c + 1])
      BY <2>2 DEF RoundWord, RoundWord256
    <2>4. prev \in Word BY <1>0, <1>1, <1>2, <1>6
    <2>5. t % 8 \in 0..7 BY <1>3
    <2> HIDE DEF prev, t, c
    <2> QED BY <1>3, <2>3, <2>4, <2>5, Mixed DEF t, c
  <1> QED BY <1>1, <1>4, <1>5, <1>6

\* A running cipher has the round keys of every round it runs, and runs as
\* many rounds as the schedule announced.
LEMMA RoundKeys ==
    ASSUME IInv, phase \in Busy
    PROVE  /\ Unrolled = round
           /\ round \in 24..32
           /\ \A t \in 0..(round - 1) : \A j \in 0..5 : rk[6 * t + j] \in Word
  <1>1. round \in {24, 28, 32} BY DEF IInv, TypeOK, Chain
  <1>2. Unrolled = round BY <1>1 DEF Unrolled
  <1>3. \A n \in 0..(6 * round - 1) : rk[n] \in Word BY DEF IInv, KeyReady, Busy
  <1>4. ASSUME NEW t \in 0..(round - 1), NEW j \in 0..5
        PROVE  rk[6 * t + j] \in Word
    <2>1. 6 * t + j \in 0..(6 * round - 1) BY <1>1
    <2> QED BY <1>3, <2>1
  <1> QED BY <1>1, <1>2, <1>4

-----------------------------------------------------------------------------
(* The invariant *)

\* The invariant holds before the first round.
LEMMA InitIInv == Init => IInv
  BY DEF Init, IInv, TypeOK, KeyReady, Chain, Busy, Block

\* Every round keeps it.
LEMMA StepIInv == IInv /\ [Next]_vars => IInv'
  <1> SUFFICES ASSUME IInv, [Next]_vars PROVE IInv' OBVIOUS
  <1>t. TypeOK /\ KeyReady /\ Chain BY DEF IInv
  <1>1. ASSUME NEW m \in MasterKeys, SetKey(m) PROVE IInv'
    <2>1. KeyReady' BY <1>1, <1>t DEF SetKey, KeyReady, RoundsOf, MkLen
    <2>2. TypeOK' BY <1>1, <1>t DEF SetKey, TypeOK, Block
    <2>3. Chain' BY <1>1 DEF SetKey, Chain, Busy
    <2> QED BY <2>1, <2>2, <2>3 DEF IInv
  <1>2. ASSUME NEW pt \in Plaintexts, Encrypt(pt) PROVE IInv'
    <2>0. pt \in Block BY InputLaw DEF Block
    <2>1. KeyReady' BY <1>2, <1>t DEF Encrypt, KeyReady
    <2>2. TypeOK' BY <1>2, <1>t, <2>0 DEF Encrypt, TypeOK
    <2>3. Chain' BY <1>2, <1>t, <2>0 DEF Encrypt, Chain, Busy, TypeOK
    <2> QED BY <2>1, <2>2, <2>3 DEF IInv
  <1>3. CASE KeyStep
    <2>0. RoundWord(r) \in Word BY <1>3, ScheduleWord DEF KeyStep
    <2>a. RoundsOf(mk) \in {24, 28, 32} BY <1>3, <1>t DEF KeyStep, KeyReady, RoundsOf, MkLen
    <2>b. r \in 0..191 BY <1>3, <1>t, <2>a DEF KeyStep, KeyReady
    <2>c. \A n \in 0..r : rk'[n] \in Word
      <3>1. rk \in [0..191 -> Word \cup {NoWord}] BY <1>t DEF TypeOK
      <3>2. \A n \in 0..(r - 1) : rk[n] \in Word BY <1>3, <1>t DEF KeyStep, KeyReady
      <3>3. rk' = [rk EXCEPT ![r] = RoundWord(r)] BY <1>3 DEF KeyStep
      <3> QED BY <2>0, <2>b, <3>1, <3>2, <3>3
    <2>1. KeyReady' BY <1>3, <1>t, <2>a, <2>b, <2>c DEF KeyStep, KeyReady, RoundsOf, MkLen
    <2>2. TypeOK'
      <3>1. rk' \in [0..191 -> Word \cup {NoWord}] BY <1>3, <1>t, <2>0 DEF KeyStep, TypeOK
      <3>2. r' \in 0..192 /\ phase' = "keying" /\ UNCHANGED <<round, trace>>
        BY <1>3, <2>b DEF KeyStep
      <3>3. round \in {0, 24, 28, 32} /\ trace \in Seq(Block) BY <1>t DEF TypeOK
      <3> QED BY <3>1, <3>2, <3>3 DEF TypeOK, Block
    <2>3. Chain' BY <1>3 DEF KeyStep, Chain, Busy
    <2> QED BY <2>1, <2>2, <2>3 DEF IInv
  <1>4. CASE KeyDone
    <2>a. RoundsOf(mk) \in {24, 28, 32} BY <1>4, <1>t DEF KeyDone, KeyReady, RoundsOf, MkLen
    <2>b. \A n \in 0..(6 * round' - 1) : rk'[n] \in Word
      BY <1>4, <1>t, <2>a DEF KeyDone, KeyReady
    <2>1. KeyReady' BY <1>4, <2>b DEF KeyDone, KeyReady
    <2>2. TypeOK' BY <1>4, <1>t, <2>a, <2>b DEF KeyDone, TypeOK
    <2>3. Chain' BY <1>4 DEF KeyDone, Chain, Busy
    <2> QED BY <2>1, <2>2, <2>3 DEF IInv
  <1>5. CASE EncStep
    <2>0. /\ phase \in Busy /\ r \in 0..31 /\ r < round /\ round \in 24..32 /\ X \in Block
          /\ \A j \in 0..5 : rk[6 * r + j] \in Word
      <3>1. phase \in Busy BY <1>5 DEF EncStep, Busy
      <3>2. /\ Unrolled = round /\ round \in 24..32
            /\ \A t \in 0..(round - 1) : \A j \in 0..5 : rk[6 * t + j] \in Word
        BY <3>1, RoundKeys
      <3>3. r \in 0..31 /\ r < round
        <4>1. r \in 0..192 BY <1>t DEF TypeOK
        <4>2. r < Unrolled BY <1>5 DEF EncStep
        <4> QED BY <3>2, <4>1, <4>2
      <3>4. X \in Block BY <1>5, <1>t DEF EncStep, TypeOK
      <3> QED BY <3>1, <3>2, <3>3, <3>4
    <2> DEFINE e == EncRound(X, r)
    <2>1. e \in Block BY <2>0, RoundUndone
    <2>3. KeyReady' BY <1>5, <1>t DEF EncStep, KeyReady
    <2>4. Chain'
      <3>1. trace \in Seq(Block) /\ Len(trace) = r + 1 /\ r \in Nat
        BY <1>5, <1>t DEF EncStep, TypeOK, Chain, Busy
      <3>2. /\ X' = e /\ trace' = Append(trace, e) /\ r' = r + 1
            /\ UNCHANGED <<mk, rk, round, phase>>
        BY <1>5 DEF EncStep
      <3>3. /\ Len(trace') = r + 2 /\ trace'[r + 2] = e
            /\ \A i \in 1..(r + 1) : trace'[i] = trace[i]
        <4> HIDE DEF e
        <4> QED BY <2>1, <3>1, <3>2
      <3>4. X = trace[r + 1] BY <1>5, <1>t DEF EncStep, Chain, Busy
      <3>5. ASSUME NEW i \in 1..(r + 1)
            PROVE  trace'[i + 1] = EncRound(trace'[i], i - 1)
        <4>1. CASE i = r + 1
          BY <3>1, <3>3, <3>4, <4>1
        <4>2. CASE i < r + 1
          <5>1. trace[i + 1] = EncRound(trace[i], i - 1)
            BY <1>5, <1>t, <3>1, <4>2 DEF EncStep, Chain, Busy
          <5> QED BY <3>1, <3>3, <4>2, <5>1
        <4> QED BY <3>1, <4>1, <4>2
      <3>6. (\A i \in 1..(Len(trace) - 1) : trace[i + 1] = EncRound(trace[i], i - 1))'
        <4>1. Len(trace') - 1 = r + 1 BY <3>1, <3>3
        <4>2. rk' = rk BY <3>2
        <4> QED BY <3>5, <4>1, <4>2 DEF EncRound
      <3>7. phase' = "encrypting" /\ round' = round BY <1>5 DEF EncStep
      <3>8. r' \in 0..round' /\ Len(trace') = r' + 1 /\ X' = trace'[r' + 1] /\ round' # 0
        <4> HIDE DEF e
        <4>1. r' = r + 1 /\ r' + 1 = r + 2 BY <3>1, <3>2
        <4>2. r' \in 0..round' /\ round' # 0 BY <2>0, <3>7, <4>1
        <4>3. Len(trace') = r' + 1 BY <3>3, <4>1
        <4>4. X' = trace'[r' + 1] BY <3>2, <3>3, <4>1
        <4> QED BY <4>2, <4>3, <4>4
      <3> QED BY <3>6, <3>7, <3>8 DEF Chain
    <2>5. TypeOK'
      <3> HIDE DEF e
      <3>1. trace' \in Seq(Block) /\ trace' # <<>> /\ X' \in Block
        <4>1. X' = e /\ trace' = Append(trace, e) BY <1>5 DEF EncStep, e
        <4>2. trace \in Seq(Block) BY <1>t DEF TypeOK
        <4>3. trace' \in Seq(Block) /\ Len(trace') = Len(trace) + 1 BY <2>1, <4>1, <4>2
        <4>4. trace' # <<>> BY <4>2, <4>3
        <4> QED BY <2>1, <4>1, <4>3, <4>4
      <3>2. r' \in 0..192 /\ UNCHANGED <<rk, round, phase>> /\ phase' = "encrypting"
        BY <1>5, <2>0 DEF EncStep
      <3> QED BY <1>t, <3>1, <3>2 DEF TypeOK
    <2> QED BY <2>3, <2>4, <2>5 DEF IInv
  <1>6. CASE EncDone
    <2>1. r = round BY <1>6, RoundKeys DEF EncDone, Busy
    <2>2. KeyReady' BY <1>6, <1>t DEF EncDone, KeyReady
    <2>3. TypeOK' BY <1>6, <1>t DEF EncDone, TypeOK
    <2>4. Chain' BY <1>6, <1>t, <2>1 DEF EncDone, Chain, Busy, EncRound
    <2> QED BY <2>2, <2>3, <2>4 DEF IInv
  <1>7. CASE Decrypt
    <2>1. r' = round BY <1>7, RoundKeys DEF Decrypt, Busy
    <2>2. r = round BY <1>7, <1>t DEF Decrypt, Chain, Busy
    <2>3. KeyReady' BY <1>7, <1>t DEF Decrypt, KeyReady
    <2>4. TypeOK' BY <1>7, <1>t, <2>1, <2>2, SMTT(30) DEF Decrypt, TypeOK
    <2>5. Chain' BY <1>7, <1>t, <2>1, <2>2 DEF Decrypt, Chain, Busy, EncRound
    <2> QED BY <2>3, <2>4, <2>5 DEF IInv
  <1>8. CASE DecStep
    <2>0. /\ phase \in Busy /\ r \in 1..round /\ round \in 24..32
          /\ X = trace[r + 1] /\ Len(trace) = round + 1 /\ trace \in Seq(Block)
      <3>1. phase = "decrypting" /\ r > 0 BY <1>8 DEF DecStep
      <3>2. phase \in Busy BY <3>1 DEF Busy
      <3>3. round \in 24..32 BY <3>2, RoundKeys
      <3>4. r \in 0..round /\ X = trace[r + 1] /\ Len(trace) = round + 1
        BY <1>t, <3>1, <3>2 DEF Chain
      <3>5. trace \in Seq(Block) BY <1>t DEF TypeOK
      <3> QED BY <3>1, <3>2, <3>3, <3>4, <3>5
    <2>1. \A j \in 0..5 : rk[6 * (r - 1) + j] \in Word
      <3>1. r - 1 \in 0..(round - 1) BY <2>0
      <3> QED BY <2>0, <3>1, RoundKeys
    <2>2. trace[r] \in Block /\ trace[r + 1] = EncRound(trace[r], r - 1)
      <3>1. r \in 1..Len(trace) BY <2>0
      <3>2. r \in 1..(Len(trace) - 1) BY <2>0
      <3> QED BY <2>0, <3>1, <3>2, <1>t DEF Chain
    <2>3. X' = trace[r]
      <3>1. r - 1 \in 0..31 BY <2>0
      <3>2. DecRound(EncRound(trace[r], r - 1), r - 1) = trace[r]
        BY <2>1, <2>2, <3>1, RoundUndone
      <3> QED BY <1>8, <2>0, <2>2, <3>2 DEF DecStep
    <2>4. KeyReady' BY <1>8, <1>t DEF DecStep, KeyReady
    <2>5. TypeOK' BY <1>8, <1>t, <2>0, <2>2, <2>3 DEF DecStep, TypeOK
    <2>6. Chain'
      <3>1. trace' = trace /\ r' = r - 1 /\ r' + 1 = r /\ round' = round /\ phase' = "decrypting"
        BY <1>8, <2>0 DEF DecStep
      <3>2. \A i \in 1..(Len(trace) - 1) : trace[i + 1] = EncRound(trace[i], i - 1)'
        BY <1>8, <2>0, <1>t DEF DecStep, Chain, EncRound
      <3> QED BY <2>0, <2>3, <3>1, <3>2, SMTT(30) DEF Chain, Busy
    <2> QED BY <2>4, <2>5, <2>6 DEF IInv
  <1>9. CASE DecDone
    <2>1. KeyReady' BY <1>9, <1>t DEF DecDone, KeyReady
    <2>2. TypeOK' BY <1>9, <1>t DEF DecDone, TypeOK
    <2>3. Chain' BY <1>9, <1>t DEF DecDone, Chain, Busy, EncRound
    <2> QED BY <2>1, <2>2, <2>3 DEF IInv
  <1>10. CASE UNCHANGED vars
    BY <1>10, <1>t, ZenonT(40) DEF vars, IInv, TypeOK, KeyReady, Chain, Busy, EncRound, MkLen, RoundsOf
  <1> QED BY <1>1, <1>2, <1>3, <1>4, <1>5, <1>6, <1>7, <1>8, <1>9, <1>10 DEF Next

-----------------------------------------------------------------------------
\* The cipher never uses a round key that was not written, and its blocks
\* stay blocks (type correctness of Lea, for every key and every word size).
THEOREM CipherTyped == Spec => []IInv
  <1>1. Init => IInv BY InitIInv
  <1>2. IInv /\ [Next]_vars => IInv' BY StepIInv
  <1> QED BY <1>1, <1>2, PTL DEF Spec

\* lea_decrypt gives back the block lea_encrypt took, for every key, block
\* and key length (lea_core.c 547-801).
THEOREM DecryptionIsInverse == Spec => []DecryptUndoesEncrypt
  <1>1. IInv => DecryptUndoesEncrypt
    BY DEF IInv, TypeOK, Chain, Busy, DecryptUndoesEncrypt
  <1> QED BY <1>1, CipherTyped, PTL

\* The unrolled code runs the number of rounds lea_set_key announced
\* (lea_core.c 544, 637 and 653).
THEOREM RoundsAgree == Spec => []RoundsMatchSchedule
  <1>1. IInv => RoundsMatchSchedule
    BY DEF IInv, Chain, Busy, RoundsMatchSchedule
  <1> QED BY <1>1, CipherTyped, PTL

=============================================================================
