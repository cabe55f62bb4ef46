----------------------------- MODULE LeaOnline -----------------------------
(***************************************************************************)
(* src/crypto/lea_ref/lea_online.c: encryption and decryption of a message *)
(* that comes in pieces of any length.  The context keeps what does not    *)
(* fill a block, and the chaining value; unpadding also has to keep a last *)
(* full block back.  lea_ctr_crypt sends every frame of the program        *)
(* through it.                                                             *)
(***************************************************************************)
EXTENDS LeaModes

CONSTANTS
    EncTypes,    \* the LEA_* constants used, see Type
    IVs,         \* initial values
    Feed,        \* bound: the bytes that are fed in
    PadLimit,    \* 0x16: a larger last byte is no padding
    MaxFed       \* bound: bytes fed into one context

\* Initial values are blocks, what is fed in is bytes, and the length of a pad
\* is a byte.
LeaOnlineAssumption ==
    /\ CipherLaws
    /\ IVs \subseteq Block /\ Feed \subseteq Byte
    /\ BlockLen \in Byte /\ PadLimit \in Nat /\ MaxFed \in Nat

VARIABLES
    ctx,     \* the context: encType, iv and last_block, which holds
             \* nlast_block bytes
    ret,     \* what the last call returned
    iv0,     \* history: the initial value of the message
    fed,     \* history: the message so far
    out,     \* history: what has been given for it
    ended,   \* history: the type of a message that was completed
    spoilt   \* history: its padding was refused

vars == <<ctx, ret, iv0, fed, out, ended, spoilt>>

\* The bits of an encType: mode, padding, direction.
Type(mode, pad, dir) == [mode |-> mode, pad |-> pad, dir |-> dir]
TypesOf(modes, pads) == [mode : modes, pad : pads, dir : {"ENC", "DEC"}]
Types == TypesOf({"ECB", "CBC", "CTR", "OFB", "CFB128"}, {"none"})
         \cup TypesOf({"ECB", "CBC"}, {"PKCS5"})
NoType == Type("none", "none", "none")
len16(t) == t.mode \in {"ECB", "CBC"} /\ ~(t.pad = "PKCS5" /\ t.dir = "ENC")
no_iv(t) == t.mode = "ECB"
keep_last(t) == t.pad = "PKCS5" /\ t.dir = "DEC"

NoIv == <<>>
Cleared == [encType |-> NoType, iv |-> Zeros, last_block |-> <<>>]

-----------------------------------------------------------------------------
\* lea_online_init: a key of a length there is no schedule for is -2, a
\* missing iv -1, an unknown type -3; none of them touches the context.  A
\* message that was begun and not ended is given up.
OnlineInit ==
    \/ ret' = -2 /\ UNCHANGED <<ctx, iv0, fed, out, ended, spoilt>>
    \/ \E t \in EncTypes, iv \in IVs \cup {NoIv} :
        LET refused == IF ~no_iv(t) /\ iv = NoIv THEN -1 ELSE IF t \notin Types THEN -3 ELSE 0
            start == IF iv = NoIv THEN Zeros ELSE iv
        IN /\ ret' = refused
           /\ IF refused # 0 THEN UNCHANGED <<ctx, iv0, fed, out, ended, spoilt>>
              ELSE /\ ctx' = [encType |-> t, iv |-> start, last_block |-> <<>>]
                   /\ iv0' = start
                   /\ fed' = <<>> /\ out' = <<>> /\ ended' = NoType /\ spoilt' = FALSE

\* What a call of the mode's function gives, and the chaining value after it.
Crypt(t, iv, x) ==
    LET enc == t.dir = "ENC"
        o == CASE t.mode = "ECB"    -> IF enc THEN ecb_enc(x) ELSE ecb_dec(x)
               [] t.mode = "CBC"    -> IF enc THEN cbc_enc(iv, x) ELSE cbc_dec(iv, x)
               [] t.mode = "CTR"    -> ctr_enc(iv, x)
               [] t.mode = "OFB"    -> ofb_enc(iv, x)
               [] t.mode = "CFB128" -> IF enc THEN cfb128_enc(iv, x) ELSE cfb128_dec(iv, x)
    IN IF x = <<>> THEN [out |-> <<>>, iv |-> iv]
       ELSE [out |-> o,
        iv |-> CASE t.mode = "ECB" -> iv
                 [] t.mode \in {"CBC", "CFB128"} -> LastBlock(IF enc THEN o ELSE x)
                 [] t.mode = "CTR" -> CtrAfter(iv, x)
                 [] t.mode = "OFB" -> OfbAfter(iv, x)]

\* How much of n bytes is processed now: whole blocks, and not the last one
\* if it may hold the padding.
BlocksNow(t, n) ==
    IF keep_last(t) /\ n % BlockLen = 0 THEN n - BlockLen ELSE n - (n % BlockLen)

\* Wrong: the chaining value is the one from before the pending block.
Chained_old(t, iv, pending, x) ==
    LET first == Crypt(t, iv, pending)
        next == Crypt(t, iv, x)
    IN [out |-> first.out \o next.out, iv |-> next.iv]

\* The pending block, then the blocks of the input.
Chained(t, iv, pending, x) ==
    LET first == Crypt(t, iv, pending)
        next == Crypt(t, first.iv, x)
    IN [out |-> first.out \o next.out, iv |-> next.iv]

\* lea_online_update of the bytes of piece.
Update ==
    /\ \E n \in 0..MaxFed - Len(fed) : \E piece \in [1..n -> Feed] :
        LET t == ctx.encType
            held == ctx.last_block
            fits == n + Len(held) <= BlockLen
            more == IF fits THEN n
                    ELSE IF held # <<>> /\ Len(held) # BlockLen THEN BlockLen - Len(held) ELSE 0
            pending == held \o SubSeq(piece, 1, more)
            rest == SubSeq(piece, more + 1, n)
            now == BlocksNow(t, Len(rest))
            c == Chained(t, ctx.iv, pending, SubSeq(rest, 1, now))
        IN IF n = 0 THEN ret' = 0 /\ UNCHANGED <<ctx, fed, out>>
           ELSE IF t = NoType THEN ret' = -3 /\ UNCHANGED <<ctx, fed, out>>
           ELSE /\ fed' = fed \o piece
                /\ IF fits /\ (keep_last(t) \/ Len(pending) # BlockLen)
                   THEN ctx' = [ctx EXCEPT !.last_block = pending] /\ ret' = 0 /\ UNCHANGED out
                   ELSE /\ ctx' = [ctx EXCEPT !.iv = c.iv,
                                              !.last_block = SubSeq(rest, now + 1, Len(rest))]
                        /\ out' = out \o c.out
                        /\ ret' = Len(c.out)
    /\ UNCHANGED <<iv0, ended, spoilt>>

Padded(x) == x \o [i \in 1..BlockLen - Len(x) |-> BlockLen - Len(x)]

\* Wrong: a pad of a whole block is not taken off.
Unpad_short(b) ==
    LET pad == b[BlockLen]
        n == IF pad < BlockLen THEN pad ELSE 0
    IN IF pad > PadLimit \/ \E i \in BlockLen - n + 1..BlockLen : b[i] # pad
       THEN [ok |-> FALSE, left |-> BlockLen]
       ELSE [ok |-> TRUE, left |-> BlockLen - n]

\* The bytes before the padding of a decrypted block, or how many bytes the
\* check had got to when it failed.
Unpad(b) ==
    LET pad == b[BlockLen]
        n == IF pad < BlockLen THEN pad ELSE BlockLen
        bad == {i \in BlockLen - n + 1..BlockLen : b[i] # pad}
    IN IF pad > PadLimit THEN [ok |-> FALSE, left |-> BlockLen]
       ELSE IF bad # {} THEN [ok |-> FALSE, left |-> (CHOOSE i \in bad : \A j \in bad : j <= i) - 1]
       ELSE [ok |-> TRUE, left |-> BlockLen - n]

\* lea_online_final refuses, and leaves the context as it is.
FinalError ==
    /\ ret' = (IF ctx.encType = NoType THEN -3 ELSE -2)
    /\ ctx.encType # NoType =>
          \/ len16(ctx.encType) /\ Len(ctx.last_block) % BlockLen > 0
          \/ keep_last(ctx.encType) /\ Len(ctx.last_block) # BlockLen
    /\ UNCHANGED <<ctx, iv0, fed, out, ended, spoilt>>

\* lea_online_final: the rest of the message, padded, cut or unpadded.
Final ==
    LET t == ctx.encType
        held == IF t.pad = "PKCS5" /\ t.dir = "ENC" THEN Padded(ctx.last_block) ELSE ctx.last_block
        o == Crypt(t, ctx.iv, BlockOf(held, 1)).out
        u == Unpad(o)
    IN /\ t # NoType
       /\ ~(len16(t) /\ Len(held) % BlockLen > 0)
       /\ keep_last(t) => Len(held) = BlockLen
       /\ IF keep_last(t) /\ ~u.ok
          THEN /\ ret' = -4 /\ spoilt' = TRUE
               /\ ctx' = [ctx EXCEPT !.last_block = SubSeq(o, 1, u.left)]
               /\ UNCHANGED <<out, ended>>
          ELSE /\ LET n == IF keep_last(t) THEN u.left ELSE Len(held)
                  IN out' = out \o SubSeq(o, 1, n) /\ ret' = n
               /\ ctx' = Cleared
               /\ ended' = t /\ UNCHANGED spoilt
       /\ UNCHANGED <<iv0, fed>>

Init ==
    /\ ctx = Cleared /\ ret = 0
    /\ iv0 = Zeros /\ fed = <<>> /\ out = <<>>
    /\ ended = NoType /\ spoilt = FALSE

Next == OnlineInit \/ Update \/ FinalError \/ Final

Spec == Init /\ [][Next]_vars

-----------------------------------------------------------------------------
(* Properties *)

TypeOK ==
    /\ ctx.encType \in Types \cup {NoType} /\ ctx.iv \in Block
    /\ Len(ctx.last_block) <= BlockLen
    /\ ~keep_last(ctx.encType) => Len(ctx.last_block) < BlockLen
    /\ ret \in -4..MaxFed + BlockLen
    /\ ended \in Types \cup {NoType}

Prefix(x, n) == SubSeq(x, 1, n)

\* However a message is cut into pieces, the bytes given so far are the ones
\* that one call of the mode's function gives for the whole message, and the
\* bytes not yet processed are exactly the ones held (update, 87-237).  Only
\* a refused padding leaves something else behind (final, 301-309).
PiecesAreOneMessage ==
    ctx.encType # NoType /\ ~spoilt =>
        LET done == Len(fed) - Len(ctx.last_block)
        IN /\ out = Crypt(ctx.encType, iv0, Prefix(fed, done)).out
           /\ ctx.last_block = SubSeq(fed, done + 1, Len(fed))

Other(t) == [t EXCEPT !.dir = IF t.dir = "ENC" THEN "DEC" ELSE "ENC"]

\* A completed message turns back: what came out, put through the other
\* direction, is what went in, with its padding if it has one (final, 258-381).
EndedTurnsBack ==
    ended # NoType /\ ~spoilt =>
        LET back == Crypt(Other(ended), iv0, out).out
        IN CASE ended.pad = "none" -> back = fed
             [] ended.pad = "PKCS5" /\ ended.dir = "ENC" ->
                  back = (fed \o [i \in 1..BlockLen - (Len(fed) % BlockLen) |->
                                    BlockLen - (Len(fed) % BlockLen)])
             [] OTHER ->
                  LET plain == Crypt(ended, iv0, fed).out
                  IN /\ out = Prefix(plain, Len(out))
                     /\ Len(fed) - Len(out) \in 0..BlockLen
                     /\ plain[Len(fed)] \in 1..BlockLen => Len(fed) - Len(out) = plain[Len(fed)]
=============================================================================
