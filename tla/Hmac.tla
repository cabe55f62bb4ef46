-------------------------------- MODULE Hmac -------------------------------
(***************************************************************************)
(* src/crypto/lsh_ref/src/hmac.c over the hash of LshBuffer, and the one   *)
(* call of src/crypto/hmac_lsh.c that authenticates every frame.  A        *)
(* context is used again for one key and message after another.            *)
(***************************************************************************)
EXTENDS LshBuffer

CONSTANTS
    Exor(_, _),     \* of bytes
    IPad, OPad,     \* 0x36 and 0x5c
    Types,          \* the lsh_types used
    Keys,           \* the keys used
    Feed,           \* bound: the bytes of the data
    MaxFed          \* bound: bytes of a message

VARIABLES
    ctx,      \* hash_ctx of the HMAC_LSH_Context
    opad,     \* its opad
    ret,      \* what the last call returned
    digest,   \* what the last hmac_lsh_final or hmac_lsh_digest gave
    begun,    \* history: type and key of the message
    fed       \* history: the message

vars == <<ctx, opad, ret, digest, begun, fed>>

NULL == <<-1>>     \* a pointer to no data
Nothing == [type |-> NoType, key |-> <<>>]

BlockBytes(t) == IF t.family = 256 THEN BlkLen(256) ELSE BlkLen(512)

\* Wrong: a key of exactly one block is hashed too.
LongKey_full(key, blockbytelen) == Len(key) >= blockbytelen

LongKey(key, blockbytelen) == Len(key) > blockbytelen

\* The three calls of lsh.c, each only if the one before succeeded.
HashedKey(c, t, key) ==
    LET i == lsh_init(c, t)
        u == lsh_update(i.ctx, key, Len(key) * ByteBits)
        f == lsh_final(u.ctx)
    IN IF i.ret # SUCCESS THEN [ctx |-> i.ctx, ret |-> i.ret, hash |-> <<>>]
       ELSE IF u.ret # SUCCESS THEN [ctx |-> u.ctx, ret |-> u.ret, hash |-> <<>>]
       ELSE f

\* The key with zeros up to a block, each byte masked.
Pad(key, blockbytelen, mask) ==
    [i \in 1..blockbytelen |-> IF i <= Len(key) THEN Exor(key[i], mask) ELSE mask]

hmac_lsh_init(c, o, t, key) ==
    LET n == BlockBytes(t)
        k == HashedKey(c, t, key)
        long == LongKey(key, n)
        used == IF long THEN k.hash ELSE key
        i == lsh_init(IF long THEN k.ctx ELSE c, t)
        u == lsh_update(i.ctx, Pad(used, n, IPad), n * ByteBits)
        opadded == Written(o, 0, Pad(used, n, OPad))
    IN IF long /\ k.ret # SUCCESS THEN [ctx |-> k.ctx, opad |-> o, ret |-> k.ret]
       ELSE IF i.ret # SUCCESS THEN [ctx |-> i.ctx, opad |-> opadded, ret |-> i.ret]
       ELSE [ctx |-> u.ctx, opad |-> opadded, ret |-> u.ret]

hmac_lsh_update(c, data) ==
    IF data = NULL THEN [ctx |-> c, ret |-> NULL_PTR]
    ELSE lsh_update(c, data, Len(data) * ByteBits)

\* How much of the inner hash goes into the outer one.
InnerBits(t) == HashBits(t)

hmac_lsh_final(c, o) ==
    LET t == c.algtype
        n == BlockBytes(t)
        inner == lsh_final(c)
        i == lsh_init(inner.ctx, t)
        u1 == lsh_update(i.ctx, SubSeq(o, 1, n), n * ByteBits)
        wiped == Written(o, 0, [k \in 1..n |-> 0])
        u2 == lsh_update(u1.ctx, inner.hash, InnerBits(t))
        f == lsh_final(u2.ctx)
        Stop(s, pad) == [ctx |-> s.ctx, opad |-> pad, ret |-> s.ret, hash |-> inner.hash]
    IN IF inner.ret # SUCCESS THEN Stop(inner, o)
       ELSE IF i.ret # SUCCESS THEN Stop(i, o)
       ELSE IF u1.ret # SUCCESS THEN Stop(u1, wiped)
       ELSE IF u2.ret # SUCCESS THEN Stop(u2, wiped)
       ELSE [ctx |-> f.ctx, opad |-> wiped, ret |-> f.ret, hash |-> f.hash]

\* On a context of its own.
hmac_lsh_digest(t, key, data) ==
    LET i == hmac_lsh_init(Cleared, NoBlock, t, key)
        u == hmac_lsh_update(i.ctx, data)
    IN IF i.ret # SUCCESS THEN [ret |-> i.ret, hash |-> <<>>]
       ELSE IF u.ret # SUCCESS THEN [ret |-> u.ret, hash |-> <<>>]
       ELSE LET f == hmac_lsh_final(u.ctx, i.opad) IN [ret |-> f.ret, hash |-> f.hash]

-----------------------------------------------------------------------------
Begin ==
    \E t \in Types, key \in Keys :
        LET h == hmac_lsh_init(ctx, opad, t, key)
        IN /\ ctx' = h.ctx /\ opad' = h.opad /\ ret' = h.ret
           /\ begun' = IF h.ret = SUCCESS THEN [type |-> t, key |-> key]
                       ELSE IF h.ctx = ctx /\ h.opad = opad THEN begun ELSE Nothing
           /\ fed' = IF h.ret = SUCCESS THEN <<>> ELSE fed
           /\ digest' = <<>>

Pieces == {NULL} \cup UNION {[1..n -> Feed] : n \in 0..MaxFed - Len(fed)}

Update ==
    \E data \in Pieces :
        LET h == hmac_lsh_update(ctx, data)
        IN /\ ctx' = h.ctx /\ ret' = h.ret
           /\ fed' = IF h.ret = SUCCESS THEN fed \o data ELSE fed
           /\ digest' = <<>>
           /\ UNCHANGED <<opad, begun>>

Final ==
    LET h == hmac_lsh_final(ctx, opad)
    IN /\ ctx' = h.ctx /\ opad' = h.opad /\ ret' = h.ret
       /\ digest' = IF h.ret = SUCCESS THEN h.hash ELSE <<>>
       /\ UNCHANGED <<begun, fed>>

Init ==
    /\ ctx = Cleared /\ opad = NoBlock /\ ret = SUCCESS
    /\ digest = <<>> /\ begun = Nothing /\ fed = <<>>

Next == Begin \/ Update \/ Final

Spec == Init /\ [][Next]_vars

-----------------------------------------------------------------------------
(* Properties *)

AllBits(bytes) == Bits(bytes, Len(bytes) * ByteBits)

\* HMAC as it is defined: of the key made one block long.
HmacOf(t, key, m) ==
    LET n == BlkLen(t.family)
        short == IF Len(key) > n THEN HashOf(t, AllBits(key)) ELSE key
        block == [i \in 1..n |-> IF i <= Len(short) THEN short[i] ELSE 0]
        Mask(x) == [i \in 1..n |-> Exor(block[i], x)]
        inner == HashOf(t, AllBits(Mask(IPad) \o m))
    IN HashOf(t, AllBits(Mask(OPad)) \o Bits(inner, HashBits(t)))

\* A tag was given, and hmac_lsh_init had not refused the context.  (A type
\* of no family is refused when opad is already that of the new key.)
Tagged == digest # <<>> /\ begun # Nothing

\* A tag that is given is the HMAC of the message under the key the context
\* was begun with, whatever the pieces and whatever was begun before and not
\* ended (hmac.c 26-141).
TagIsHmac == Tagged => digest = HmacOf(begun.type, begun.key, fed)

\* The one call gives what the pieces give: the tag of a frame does not depend
\* on how it was made (hmac.c 143-158).
OneCallAgrees ==
    Tagged => hmac_lsh_digest(begun.type, begun.key, fed) = [ret |-> SUCCESS, hash |-> digest]
=============================================================================
