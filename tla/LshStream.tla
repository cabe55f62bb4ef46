----------------------------- MODULE LshStream -----------------------------
(***************************************************************************)
(* One hash context and a caller that may make any call of lsh.c at any    *)
(* time: begin with a type, add a piece of any number of bits, take the    *)
(* hash.  The call goes to lsh256.c or lsh512.c by its family; they differ *)
(* in their numbers only.                                                  *)
(***************************************************************************)
EXTENDS LshBuffer

CONSTANTS
    Types,      \* the lsh_types a caller passes
    Feed,       \* bound: the bytes of the data
    MaxBits     \* bound: bits fed into one context

VARIABLES
    ctx,      \* the union LSH_Context
    ret,      \* what the last call returned
    begun,    \* history: the type the context was begun with
    fed,      \* history: the bits of the message
    hash      \* what the last lsh_final gave

vars == <<ctx, ret, begun, fed, hash>>

\* lsh_init.
Begin ==
    \E t \in Types :
        LET c == lsh_init(ctx, t)
        IN /\ ctx' = c.ctx /\ ret' = c.ret
           /\ begun' = IF c.ret = SUCCESS THEN t ELSE IF c.ctx = ctx THEN begun ELSE NoType
           /\ fed' = IF c.ret = SUCCESS THEN <<>> ELSE fed
           /\ hash' = <<>>

\* lsh_update; the unused bits of the last byte are whatever they are.
Update ==
    \E n \in 0..MaxBits - Len(fed) :
    \E data \in [1..(n + ByteBits - 1) \div ByteBits -> Feed] :
        LET c == lsh_update(ctx, data, n)
        IN /\ ctx' = c.ctx /\ ret' = c.ret
           /\ fed' = IF c.ret = SUCCESS /\ n > 0 THEN fed \o Bits(data, n) ELSE fed
           /\ hash' = <<>>
           /\ UNCHANGED begun

\* lsh_final.
Final ==
    LET c == lsh_final(ctx)
    IN /\ ctx' = c.ctx /\ ret' = c.ret /\ hash' = c.hash
       /\ UNCHANGED <<begun, fed>>

Init ==
    /\ ctx = Cleared /\ ret = SUCCESS
    /\ begun = NoType /\ fed = <<>> /\ hash = <<>>

Next == Begin \/ Update \/ Final

Spec == Init /\ [][Next]_vars

-----------------------------------------------------------------------------
(* Properties *)

\* A context never holds a full block, and what it holds is the end of the
\* message (lsh256_update, 500-537).
TypeOK ==
    /\ ctx.remain \in 0..MaxBits
    /\ begun # NoType /\ ctx.algtype = begun =>
          /\ ctx.remain < Blk(ctx) * ByteBits
          /\ ctx.remain = Len(fed) % (Blk(ctx) * ByteBits)
    /\ ret \in {SUCCESS, INVALID_ALGTYPE, INVALID_DATABITLEN, INVALID_STATE}

\* However a message is cut into pieces and whatever the context held before,
\* a hash that is given is the hash of that message under the type the context
\* was begun with; only the last piece may end inside a byte (475-571).
HashOfWhole == hash # <<>> => begun # NoType /\ hash = HashOf(begun, fed)
=============================================================================
