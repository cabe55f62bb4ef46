------------------------------- MODULE MCHash -------------------------------
(***************************************************************************)
(* The hash and the HMAC that authenticates frames, one part at a time:    *)
(*   bits    LshStream with bytes of three bits and blocks of two and      *)
(*           three bytes.  A chaining value is the type and the blocks     *)
(*           absorbed so far, and so is the hash: two messages that should *)
(*           differ cannot collide;                                        *)
(*   tag     Hmac with the same bytes and blocks and hashes of up to       *)
(*           three bytes; the chaining value is a number modulo 4093;      *)
(*   lsh256  Lsh256 and                                                    *)
(*   lsh512  Lsh512 with their real words and tables, on the three bytes   *)
(*           "abc" and on a block that is full but for its last byte.      *)
(* The variables of a part that is not looked at stay Unused.              *)
(***************************************************************************)
EXTENDS Integers, Sequences

VARIABLES
  part,
  ctx, ret, begun, fed,                 \* a context: LshStream or Hmac
  opad,                                 \* and Hmac's second block
  algtype, input, msg, phase, j, sc, cv, even, odd, gen,   \* Lsh256 or Lsh512
  hash                                  \* what was given last

context == <<ctx, ret, begun, fed, opad>>
words == <<algtype, input, msg, phase, j, sc, cv, even, odd, gen>>

-----------------------------------------------------------------------------
SmallBlkLen(f) == IF f = 512 THEN 3 ELSE 2
HashType(family, bytes, small) == [family |-> family, bytes |-> bytes, small |-> small]

History(t) == <<t>>
Joined(cv_, block) == Append(cv_, block)
WholeHash(t, cv_) == <<cv_>>
MaxWhole(f) == IF f = 512 THEN 2 ELSE 1

\* Both families, a hash too long, one of no bytes, and no family.
StreamTypes == {HashType(256, 1, 0), HashType(512, 2, 1), HashType(256, 2, 0),
                HashType(512, 3, 0), HashType(256, 0, 0), HashType(128, 1, 0)}

Stream == INSTANCE LshStream WITH
  ByteBits <- 3, BlkLen <- SmallBlkLen, MaxHash <- MaxWhole, Start <- History,
  Compress <- Joined, Hash <- WholeHash, Types <- StreamTypes, Feed <- {2, 7}, MaxBits <- 11

-----------------------------------------------------------------------------
MaxNumber(f) == IF f = 512 THEN 3 ELSE 2
TypeNumber(t) == t.family + 8 * t.bytes - t.small

Number(b) == LET n[i \in 1..Len(b) + 1] == IF i > Len(b) THEN 1 ELSE b[i] + 8 * n[i + 1] IN n[1]
Mixed(cv_, block) == (cv_ * cv_ + 37 * cv_ + 11 * Number(block)) % 4093

NumberHash(t, cv_) ==
  [i \in 1..t.bytes |->
    LET b == (cv_ \div 8^(i - 1)) % 8
    IN IF i = t.bytes THEN (b \div 2^t.small) * 2^t.small ELSE b]

Xor8(a, b) == LET x(k) == k * (((a \div k) + (b \div k)) % 2) IN x(1) + x(2) + x(4)

TagTypes == {HashType(256, 2, 0), HashType(256, 2, 1), HashType(512, 2, 0),
             HashType(256, 3, 0), HashType(128, 1, 0)}
\* Shorter than a block, a block of either family, longer.
TagKeys == {<<>>, <<6, 1>>, <<6, 1, 4>>, <<6, 1, 4, 4>>}

Tag == INSTANCE Hmac WITH
  ByteBits <- 3, BlkLen <- SmallBlkLen, MaxHash <- MaxNumber, Start <- TypeNumber,
  Compress <- Mixed, Hash <- NumberHash, Exor <- Xor8, IPad <- 3, OPad <- 5,
  Types <- TagTypes, Keys <- TagKeys, Feed <- {2, 7}, MaxFed <- 2, digest <- hash

-----------------------------------------------------------------------------
Type(bytes, small) == [bytes |-> bytes, small |-> small]

\* Blocks of 128 and 256 bytes: the message, the bit that ends it, zeros.
W == INSTANCE LshWords
ABC256 == <<W!WBlock(2, <<97, 98, 99, 128>> \o [i \in 1..124 |-> 0])>>
Counting256 == <<W!WBlock(2, [i \in 1..127 |-> i] \o <<128>>)>>
ABC512 == <<W!WBlock(4, <<97, 98, 99, 128>> \o [i \in 1..252 |-> 0])>>
Counting512 == <<W!WBlock(4, [i \in 1..255 |-> i] \o <<128>>)>>
Messages256 == {ABC256, Counting256}
Messages512 == {ABC512, Counting512}

\* The types there is a table for, and one of 253 bits.
Types256 == {Type(32, 0), Type(28, 0), Type(32, 3)}
Types512 == {Type(64, 0), Type(48, 0), Type(32, 0), Type(28, 0)}

LSH256 == INSTANCE Lsh256 WITH Types <- Types256, Messages <- Messages256
LSH512 == INSTANCE Lsh512 WITH Types <- Types512, Messages <- Messages512

\* Of ABC as published (for 253 bits as the library gives it), of Counting as
\* the compiled library gives it.
OfAbc256(t) ==
  CASE t = Type(32, 0) -> <<
        95, 191, 54, 93, 174, 165, 68, 106, 112, 83, 197, 43, 87, 64, 77, 119,
        160, 122, 95, 72, 161, 247, 193, 150, 58, 8, 152, 186, 27, 113, 71, 65>>
    [] t = Type(28, 0) -> <<
        247, 197, 59, 164, 3, 78, 112, 142, 116, 251, 164, 46, 85, 153, 124,
        165, 18, 107, 183, 98, 54, 136, 248, 83, 66, 247, 55, 50>>
    [] t = Type(32, 3) -> <<
        227, 127, 202, 73, 109, 67, 54, 44, 72, 69, 155, 10, 198, 202, 8, 47,
        105, 14, 62, 211, 93, 111, 159, 130, 1, 206, 109, 77, 13, 126, 178, 64>>
OfCounting256(t) ==
  CASE t = Type(32, 0) -> <<
        112, 0, 102, 3, 160, 253, 0, 198, 129, 214, 202, 252, 242, 225, 251,
        201, 185, 179, 56, 15, 231, 96, 212, 130, 102, 242, 177, 177, 250,
        214, 245, 122>>
    [] t = Type(28, 0) -> <<
        37, 16, 206, 205, 188, 219, 65, 140, 56, 26, 84, 106, 205, 73, 211,
        62, 222, 45, 87, 0, 76, 60, 46, 64, 32, 9, 228, 182>>
    [] t = Type(32, 3) -> <<
        43, 8, 31, 35, 6, 107, 250, 255, 162, 97, 136, 8, 114, 70, 196, 46,
        251, 7, 123, 172, 147, 215, 131, 31, 161, 233, 215, 197, 37, 79, 38,
        88>>
OfAbc512(t) ==
  CASE t = Type(64, 0) -> <<
        163, 217, 60, 254, 96, 220, 26, 172, 221, 59, 212, 190, 240, 166, 152,
        83, 129, 163, 150, 199, 212, 157, 159, 209, 119, 121, 86, 151, 195,
        83, 82, 8, 181, 197, 114, 36, 190, 242, 16, 132, 212, 32, 131, 233,
        90, 75, 216, 235, 51, 232, 105, 129, 43, 101, 3, 28, 66, 136, 25, 161,
        231, 206, 89, 109>>
    [] t = Type(48, 0) -> <<
        95, 52, 78, 250, 160, 228, 60, 205, 46, 94, 25, 77, 96, 57, 121, 75,
        79, 180, 49, 241, 15, 180, 182, 95, 212, 94, 157, 164, 236, 222, 15,
        39, 182, 110, 141, 189, 250, 71, 37, 46, 13, 11, 116, 27, 253, 145,
        249, 254>>
    [] t = Type(32, 0) -> <<
        205, 137, 35, 16, 83, 38, 2, 51, 43, 97, 63, 30, 193, 26, 105, 98,
        252, 166, 30, 160, 158, 207, 252, 212, 188, 247, 88, 88, 216, 2, 237,
        236>>
    [] t = Type(28, 0) -> <<
        209, 104, 50, 52, 81, 62, 197, 105, 131, 148, 87, 30, 173, 18, 138,
        140, 213, 55, 62, 151, 102, 27, 162, 13, 207, 137, 228, 137>>
OfCounting512(t) ==
  CASE t = Type(64, 0) -> <<
        178, 106, 50, 13, 222, 140, 148, 154, 188, 225, 232, 255, 160, 254,
        61, 211, 38, 130, 31, 89, 104, 95, 162, 115, 69, 67, 194, 38, 152, 98,
        62, 200, 29, 28, 16, 233, 204, 95, 140, 236, 42, 208, 164, 75, 181,
        219, 190, 49, 248, 103, 251, 83, 84, 207, 188, 201, 103, 240, 144, 6,
        204, 191, 5, 242>>
    [] t = Type(48, 0) -> <<
        215, 51, 56, 85, 148, 63, 180, 177, 150, 206, 135, 57, 207, 166, 185,
        66, 228, 24, 184, 149, 128, 95, 105, 146, 208, 206, 193, 228, 106,
        159, 176, 240, 105, 194, 160, 219, 167, 138, 26, 72, 233, 113, 200,
        51, 84, 71, 32, 245>>
    [] t = Type(32, 0) -> <<
        81, 35, 249, 7, 64, 133, 189, 241, 102, 240, 167, 239, 159, 175, 27,
        2, 252, 181, 152, 42, 86, 78, 235, 25, 196, 225, 144, 115, 95, 3, 132,
        207>>
    [] t = Type(28, 0) -> <<
        66, 237, 172, 140, 34, 152, 77, 170, 93, 162, 108, 66, 218, 245, 108,
        81, 198, 236, 47, 229, 126, 25, 171, 35, 184, 129, 122, 118>>

-----------------------------------------------------------------------------
Unused == "unused"
NoContext == ctx = Unused /\ ret = Unused /\ begun = Unused /\ fed = Unused
NoWords == /\ algtype = Unused /\ input = Unused /\ msg = Unused /\ phase = Unused
           /\ j = Unused /\ sc = Unused /\ cv = Unused /\ even = Unused
           /\ odd = Unused /\ gen = Unused

Init ==
  \/ part = "bits" /\ Stream!Init /\ opad = Unused /\ NoWords
  \/ part = "tag" /\ Tag!Init /\ NoWords
  \/ part = "lsh256" /\ LSH256!Init /\ opad = Unused /\ NoContext
  \/ part = "lsh512" /\ LSH512!Init /\ opad = Unused /\ NoContext

OnBits == part = "bits" /\ UNCHANGED <<part, opad, words>>
OnTag == part = "tag" /\ UNCHANGED <<part, words>>
On256 == part = "lsh256" /\ UNCHANGED <<part, context>>
On512 == part = "lsh512" /\ UNCHANGED <<part, context>>

Next ==
  \/ OnBits /\ Stream!Next
  \/ OnTag /\ Tag!Next
  \/ On256 /\ LSH256!Next
  \/ On512 /\ LSH512!Next

-----------------------------------------------------------------------------
\* A hash is the one that is published or that the library gives: the tables,
\* the expansion, the permutation and the rotations of compress and the cut of
\* get_hash, to the last index (lsh256.c 306-342, 393-411; lsh512.c 348-388,
\* 473-491).  And every table holds what the general initialisation computes
\* for its type, so that a type has one chaining value.
HashesAgree ==
  /\ part = "lsh256" =>
        /\ phase = "hashed" =>
              hash = IF input = ABC256 THEN OfAbc256(algtype) ELSE OfCounting256(algtype)
        /\ LSH256!TablesAreGenerated
  /\ part = "lsh512" =>
        /\ phase = "hashed" =>
              hash = IF input = ABC512 THEN OfAbc512(algtype) ELSE OfCounting512(algtype)
        /\ LSH512!TablesAreGenerated

\* However a message is cut into pieces, and whatever the context held before,
\* a hash that is given is the hash of that message, and a context never holds
\* a full block (lsh256.c 475-571).
HashOfWhole == part = "bits" => Stream!HashOfWhole /\ Stream!TypeOK

\* A tag that is given is the HMAC of the message under the key the context was
\* begun with, and the one call for a frame gives the same (hmac.c 26-158).
TagIsHmac == part = "tag" => Tag!TagIsHmac /\ Tag!OneCallAgrees
=============================================================================
