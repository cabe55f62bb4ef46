------------------------------ MODULE MCCipher ------------------------------
(***************************************************************************)
(* The cipher and its messages in pieces, one part at a time:              *)
(*   blocks  Lea with words of two bits: every block under a key of each   *)
(*           length, so that decryption is compared with encryption on all *)
(*           256 blocks;                                                   *)
(*   words   Lea with the words it really has and the keys and blocks of   *)
(*           its published vectors;                                        *)
(*   online  LeaOnline with blocks of two bytes of three bits, over a      *)
(*           permutation of the 64 blocks: every message of up to five     *)
(*           bytes from Feed in every cut into pieces.                     *)
(* The variables of a part that is not looked at stay Unused.              *)
(***************************************************************************)
EXTENDS LeaLaws, Bitwise

VARIABLES
  part,
  ctx, ret, iv0, fed, out, ended, spoilt   \* LeaOnline

online == <<ctx, ret, iv0, fed, out, ended, spoilt>>

-----------------------------------------------------------------------------
(* Words of two bits. *)

MCWord == 0..3
MCAdd(a, b) == (a + b) % 4
MCSub(a, b) == (a - b) % 4
MCXor(a, b) == 2 * (((a \div 2) + (b \div 2)) % 2) + (((a % 2) + (b % 2)) % 2)
\* On two bits a rotation by an odd count swaps them.
MCRol(a, i) == IF i % 2 = 0 THEN a ELSE 2 * (a % 2) + (a \div 2)
MCRor(a, i) == MCRol(a, i)
MCDelta(k, i) == (3 * k + i + i \div 4) % 4
MCNoWord == 9
MCMasterKeys == {<<1, 2, 0, 3>>, <<3, 1, 2, 2, 0, 1>>, <<2, 0, 3, 1, 1, 3, 0, 2>>}
MCPlaintexts == [0..3 -> MCWord]

-----------------------------------------------------------------------------
(* Words of 32 bits: <<high half, low half>> of an unsigned int, so that   *)
(* TLC's integers hold every intermediate value.                           *)

Add32(a, b) == <<(a[1] + b[1] + (a[2] + b[2]) \div 65536) % 65536, (a[2] + b[2]) % 65536>>
Sub32(a, b) == <<(a[1] - b[1] - (IF a[2] < b[2] THEN 1 ELSE 0)) % 65536, (a[2] - b[2]) % 65536>>
Xor32(a, b) == <<a[1] ^^ b[1], a[2] ^^ b[2]>>
RECURSIVE Rol32(_, _)
Rol32(a, i) ==
  IF i >= 16 THEN Rol32(<<a[2], a[1]>>, i - 16)
  ELSE <<(a[1] * 2^i + a[2] \div 2^(16 - i)) % 65536,
         (a[2] * 2^i + a[1] \div 2^(16 - i)) % 65536>>
Ror32(a, i) == Rol32(a, 32 - i)

\* Each row of delta is its first column rotated one bit further per column.
Seed == <<<<50159, 59867>>, <<17506, 27394>>, <<31202, 31882>>, <<30943, 12524>>,
          <<29022, 42142>>, <<51077, 55818>>, <<57422, 61994>>, <<58820, 2391>>>>
Delta32(k, i) == Rol32(Seed[k + 1], i)

Key256 == <<<<15405, 7695>>, <<30825, 23115>>, <<46245, 38535>>, <<61665, 53955>>,
            <<50130, 57840>>, <<34710, 42420>>, <<19290, 27000>>, <<3870, 11580>>>>

\* The sixteen bytes 16*s, 16*s+1, ... as four little-endian words.
Bytes(s) == [i \in 0..3 |-> <<(16 * s + 4 * i + 3) * 256 + 16 * s + 4 * i + 2,
                              (16 * s + 4 * i + 1) * 256 + 16 * s + 4 * i>>]

Vector == [n \in {4, 6, 8} |->
  CASE n = 4 -> <<<<13646, 51359>>, <<6342, 50728>>, <<42951, 12885>>, <<64907, 25604>>>>
    [] n = 6 -> <<<<12894, 47471>>, <<34587, 44378>>, <<13813, 56460>>, <<62150, 29814>>>>
    [] n = 8 -> <<<<63151, 20950>>, <<49545, 45383>>, <<51712, 35130>>, <<38881, 63783>>>>]

Words == INSTANCE Lea WITH
  Word <- (0..65535) \X (0..65535), Add <- Add32, Sub <- Sub32, Exor <- Xor32,
  Rol <- Rol32, Ror <- Ror32, Delta <- Delta32,
  MasterKeys <- {SubSeq(Key256, 1, n) : n \in {4, 6, 8}},
  Plaintexts <- {Bytes(s) : s \in 1..3}

-----------------------------------------------------------------------------
(* The permutation of 64 blocks.  The nine blocks over Feed decrypt to     *)
(* every kind of padding: right, broken, zero, too long, far too long.     *)

Bit(a, k) == (a \div k) % 2
Xor8(a, b) == LET x(k) == k * ((Bit(a, k) + Bit(b, k)) % 2) IN x(1) + x(2) + x(4)

Num(b) == 8 * b[1] + b[2]
Perm ==
  <<52, 55, 7, 38, 51, 57, 9, 24, 58, 45, 13, 21, 27, 35, 39, 62,
    19, 48, 1, 36, 10, 37, 22, 15, 49, 0, 34, 8, 17, 30, 3, 14,
    5, 6, 33, 32, 63, 16, 12, 11, 59, 40, 26, 53, 29, 18, 56, 23,
    61, 42, 50, 60, 46, 28, 43, 44, 4, 25, 31, 41, 54, 20, 47, 2>>
Inverted == [n \in 0..63 |-> CHOOSE i \in 1..64 : Perm[i] = n]
Enc64(b) == <<Perm[Num(b) + 1] \div 8, Perm[Num(b) + 1] % 8>>
Dec64(b) == <<(Inverted[Num(b)] - 1) \div 8, (Inverted[Num(b)] - 1) % 8>>

\* The constants of lea.h and one there is none for.
OnlineTypes ==
  [mode : {"ECB", "CBC", "CTR", "OFB", "CFB128"}, pad : {"none"}, dir : {"ENC", "DEC"}]
  \cup [mode : {"ECB", "CBC"}, pad : {"PKCS5"}, dir : {"ENC", "DEC"}]
  \cup {[mode |-> "CTR", pad |-> "PKCS5", dir |-> "ENC"]}

\* The initial value is about to overflow as a counter.
Online == INSTANCE LeaOnline WITH
  BlockLen <- 2, Byte <- 0..7, Exor <- Xor8, Enc <- Enc64, Dec <- Dec64,
  EncTypes <- OnlineTypes, IVs <- {<<2, 7>>}, Feed <- {0, 1, 5}, PadLimit <- 3, MaxFed <- 5

ASSUME Online!LeaOnlineAssumption

-----------------------------------------------------------------------------
Unused == "unused"
NoBlocks == /\ mk = Unused /\ rk = Unused /\ round = Unused /\ phase = Unused
            /\ r = Unused /\ X = Unused /\ trace = Unused
NoOnline == /\ ctx = Unused /\ ret = Unused /\ iv0 = Unused /\ fed = Unused
            /\ out = Unused /\ ended = Unused /\ spoilt = Unused

CipherInit ==
  \/ part \in {"blocks", "words"} /\ Init /\ NoOnline
  \/ part = "online" /\ Online!Init /\ NoBlocks

OnBlocks == part = "blocks" /\ UNCHANGED <<part, online>>
OnWords == part = "words" /\ UNCHANGED <<part, online>>
OnOnline == part = "online" /\ UNCHANGED <<part, vars>>

CipherNext ==
  \/ OnBlocks /\ Next
  \/ OnWords /\ Words!Next
  \/ OnOnline /\ Online!Next

-----------------------------------------------------------------------------
\* With the real words and the real table the model computes the published
\* LEA-128, LEA-192 and LEA-256 ciphertexts, whatever key the LEA_KEY held
\* before: the three key schedules and the round of lea_core.c 49-673 to the
\* last index, constant and rotation.
PublishedVectors ==
  \A n \in {4, 6, 8} :
    part = "words" /\ phase = "sealed" /\ Len(mk) = n /\ trace[1] = Bytes((n \div 2) - 1)
      => X = [i \in 0..3 |-> Vector[n][i + 1]]

\* However a message is cut into pieces, the bytes given so far are those of
\* one call for the whole message, and a context never holds more than a block
\* (lea_online.c:87-237).
PiecesAreOneMessage ==
  part = "online" => Online!PiecesAreOneMessage /\ Online!TypeOK

\* A completed message turns back, padding and all (lea_online.c:258-381).
EndedTurnsBack == part = "online" => Online!EndedTurnsBack
=============================================================================
