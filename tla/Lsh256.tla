------------------------------- MODULE Lsh256 -------------------------------
(***************************************************************************)
(* LSH-256: LshCompress with the words, numbers and tables of              *)
(* src/crypto/lsh_ref/src/lsh256.c.                                        *)
(***************************************************************************)
EXTENDS LshWords

CONSTANTS Types, Messages
VARIABLES algtype, input, msg, phase, j, sc, cv, even, odd, gen, hash

Type(bytes, small) == [bytes |-> bytes, small |-> small]

FirstRow == LET row == <<
        <<37244, 44944>>, <<27675, 4258>>, <<28469, 10563>>, <<53111, 33347>>,
        <<11499, 29810>>, <<10729, 28658>>, <<35483, 42024>>, <<12011, 9794>>>>
            IN [k \in 0..7 |-> row[k + 1]]

g_IV256 == <<
        <<18081, 3871>>, <<64988, 58502>>, <<46100, 17320>>, <<6542, 27549>>,
        <<13060, 14477>>, <<45301, 41927>>, <<45920, 25028>>,
        <<31451, 54611>>, <<4189, 21368>>, <<12148, 56916>>, <<23599, 11669>>,
        <<62037, 16318>>, <<32849, 13690>>, <<4998, 26824>>, <<18346, 17540>>,
        <<57370, 64321>>>>

g_IV224 == <<
        <<1670, 2259>>, <<25304, 63399>>, <<55142, 21163>>, <<19552, 2627>>,
        <<48580, 2728>>, <<7882, 2920>>, <<55834, 35262>>, <<12615, 54100>>,
        <<28798, 46329>>, <<63067, 14434>>, <<27403, 10942>>,
        <<22200, 60426>>, <<53027, 29318>>, <<60941, 5927>>, <<13155, 26005>>,
        <<35768, 53343>>>>

IV == [t \in {Type(32, 0), Type(28, 0)} |->
        CASE t.bytes = 32 -> g_IV256
          [] t.bytes = 28 -> g_IV224]

Gamma == LET g == <<0, 8, 16, 24, 24, 16, 8, 0>> IN [k \in 0..7 |-> g[k + 1]]
Alpha == [p \in 0..1 |-> IF p = 0 THEN 29 ELSE 5]
Beta == [p \in 0..1 |-> IF p = 0 THEN 1 ELSE 17]
NUM_STEPS == 26

FromNat(n) == WNat(2, n)

C == INSTANCE LshCompress WITH
        Add <- WAdd, Exor <- WXor, Rotl <- WRotl, ByteOf <- WByte,
        WordBytes <- 4, NumSteps <- NUM_STEPS

Init == C!Init
Next == C!Next
Spec == C!Spec

\* See LshCompress.
TablesAreGenerated == C!TablesAreGenerated
=============================================================================
