----------------------------- MODULE LshBuffer -----------------------------
(***************************************************************************)
(* The calls of src/crypto/lsh_ref/src/lsh.c and what is around the        *)
(* compression in lsh256.c: types, the block that is not full yet, the     *)
(* bits of the last byte, the padding.  Each call is an operator that      *)
(* gives the context after it and what it returns; compression is left     *)
(* open.  Bytes have ByteBits bits.                                        *)
(***************************************************************************)
EXTENDS Integers, Sequences, SequencesExt

CONSTANTS
    ByteBits,            \* bits in a byte: 8
    BlkLen(_),           \* bytes in a block: 128 for family 256, 256 for 512
    MaxHash(_),          \* LSH256_HASH_VAL_MAX_BYTE_LEN, ..512..
    Start(_),            \* the chaining value of a type
    Compress(_, _),      \* a chaining value and a block
    Hash(_, _)           \* a type's hash, as bytes, of a chaining value

Byte == 0..(2^ByteBits) - 1
Families == {256, 512}

\* An lsh_type: its family, the bytes of its hash, the bits cut off the last.
Type(family, bytes, small) == [family |-> family, bytes |-> bytes, small |-> small]
NoType == Type(256, 0, 0)     \* the algtype 0
HashBits(t) == t.bytes * ByteBits - t.small

MaxBlk == BlkLen(512)
NoBlock == [i \in 1..MaxBlk |-> 0]
NoCv == Start(NoType)

\* What memset leaves of a context.
Cleared == [algtype |-> NoType, remain |-> 0, last_block |-> NoBlock, cv |-> NoCv]

SUCCESS == "SUCCESS"
NULL_PTR == "NULL_PTR"
INVALID_ALGTYPE == "INVALID_ALGTYPE"
INVALID_DATABITLEN == "INVALID_DATABITLEN"
INVALID_STATE == "INVALID_STATE"

-----------------------------------------------------------------------------
\* The type is noted before it is refused, unless it is of no family.
lsh_init(ctx, t) ==
    LET noted == [ctx EXCEPT !.algtype = t, !.remain = 0]
    IN IF t.family \notin Families THEN [ctx |-> ctx, ret |-> INVALID_ALGTYPE]
       ELSE IF t.bytes \notin 1..MaxHash(t.family) THEN [ctx |-> noted, ret |-> INVALID_ALGTYPE]
       ELSE [ctx |-> [noted EXCEPT !.cv = Start(t)], ret |-> SUCCESS]

Blk(ctx) == BlkLen(ctx.algtype.family)
Usable(ctx) ==
    /\ ctx.algtype # NoType /\ ctx.algtype.bytes <= MaxHash(ctx.algtype.family)
    /\ ctx.remain \div ByteBits < Blk(ctx)

\* bytes copied to position at (from 0) of a block.
Written(block, at, bytes) ==
    [i \in DOMAIN block |-> IF i - at \in DOMAIN bytes THEN bytes[i - at] ELSE block[i]]

\* The first n bits of a byte.
HighBits(b, n) == (b \div 2^(ByteBits - n)) * 2^(ByteBits - n)

\* The chaining value after the whole blocks of bytes.
Absorbed(cv, bytes, blk) ==
    LET c[n \in 0..Len(bytes) \div blk] ==
            IF n = 0 THEN cv ELSE Compress(c[n - 1], SubSeq(bytes, (n - 1) * blk + 1, n * blk))
    IN c[Len(bytes) \div blk]

\* Whether so many bytes are only stored.
Fits(bytes, blk) == bytes < blk

\* lsh256_update of databitlen bits of data: stored, or absorbed with what
\* was stored before.
lsh_update(ctx, data, databitlen) ==
    LET blk == Blk(ctx)
        have == ctx.remain \div ByteBits
        full == databitlen \div ByteBits
        pos2 == databitlen % ByteBits
        tail == IF pos2 = 0 THEN <<>> ELSE <<HighBits(data[full + 1], pos2)>>
        whole == SubSeq(data, 1, full)
        all == SubSeq(ctx.last_block, 1, have) \o whole
        left == Len(all) % blk
    IN IF databitlen = 0 THEN [ctx |-> ctx, ret |-> SUCCESS]
       ELSE IF ~Usable(ctx) THEN [ctx |-> ctx, ret |-> INVALID_STATE]
       ELSE IF ctx.remain % ByteBits > 0 THEN [ctx |-> ctx, ret |-> INVALID_DATABITLEN]
       ELSE IF Fits(full + have, blk)
       THEN [ctx |-> [ctx EXCEPT !.remain = @ + databitlen,
                                 !.last_block = Written(@, have, whole \o tail)],
             ret |-> SUCCESS]
       ELSE [ctx |-> [ctx EXCEPT
                !.cv = Absorbed(@, all, blk),
                !.remain = left * ByteBits + pos2,
                !.last_block = Written(IF have = 0 THEN @
                                       ELSE Written(@, have, SubSeq(whole, 1, blk - have)),
                                       0, SubSeq(all, Len(all) - left + 1, Len(all)) \o tail)],
             ret |-> SUCCESS]

\* Wrong: the rest of the block keeps what an earlier block left there.
Padded_stale(ctx) ==
    LET at == (ctx.remain \div ByteBits) + 1
        bit == ctx.remain % ByteBits
        mark == 2^(ByteBits - 1 - bit)
        b == ctx.last_block[at]
    IN [i \in 1..Blk(ctx) |-> IF i # at THEN ctx.last_block[i]
                              ELSE IF bit = 0 THEN mark
                              ELSE IF (b \div mark) % 2 = 1 THEN b ELSE b + mark]

\* The last block: the bit after the message is set, the rest is cleared.
Padded(ctx) ==
    LET at == (ctx.remain \div ByteBits) + 1
        bit == ctx.remain % ByteBits
        mark == 2^(ByteBits - 1 - bit)
        b == ctx.last_block[at]
    IN [i \in 1..Blk(ctx) |-> IF i < at THEN ctx.last_block[i] ELSE IF i > at THEN 0
                              ELSE IF bit = 0 THEN mark
                              ELSE IF (b \div mark) % 2 = 1 THEN b ELSE b + mark]

lsh_final(ctx) ==
    IF ~Usable(ctx) THEN [ctx |-> ctx, ret |-> INVALID_STATE, hash |-> <<>>]
    ELSE [ctx |-> Cleared, ret |-> SUCCESS,
          hash |-> Hash(ctx.algtype, Compress(ctx.cv, Padded(ctx)))]

-----------------------------------------------------------------------------
(* What a hash is, of a message given at once as bits. *)

Bits(bytes, n) ==
    [i \in 1..n |-> (bytes[((i - 1) \div ByteBits) + 1]
                        \div 2^(ByteBits - 1 - ((i - 1) % ByteBits))) % 2]

BytesOf(bits) ==
    LET sum[k \in 0..ByteBits, at \in Nat] ==
            IF k = 0 THEN 0 ELSE 2 * sum[k - 1, at] + bits[at + k]
    IN [i \in 1..Len(bits) \div ByteBits |-> sum[ByteBits, (i - 1) * ByteBits]]

\* A one, and zeros up to a whole block.
PaddedBits(bits, n) ==
    LET blocks == (Len(bits) \div n) + 1
    IN [i \in 1..blocks * n |-> IF i <= Len(bits) THEN bits[i]
                                ELSE IF i = Len(bits) + 1 THEN 1 ELSE 0]

HashOf(t, bits) ==
    LET blk == BlkLen(t.family)
    IN Hash(t, Absorbed(Start(t), BytesOf(PaddedBits(bits, blk * ByteBits)), blk))
=============================================================================
