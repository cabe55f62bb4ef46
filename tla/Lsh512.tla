------------------------------- MODULE Lsh512 -------------------------------
(***************************************************************************)
(* LSH-512: LshCompress with the words, numbers and tables of              *)
(* src/crypto/lsh_ref/src/lsh512.c.                                        *)
(***************************************************************************)
EXTENDS LshWords

CONSTANTS Types, Messages
VARIABLES algtype, input, msg, phase, j, sc, cv, even, odd, gen, hash

Type(bytes, small) == [bytes |-> bytes, small |-> small]

FirstRow == LET row == <<
        <<38792, 17027, 51512, 38954>>, <<47647, 51859, 21310, 9045>>,
        <<50457, 41704, 31467, 7171>>, <<39439, 51540, 25263, 6065>>,
        <<64573, 55946, 45081, 43051>>, <<642, 23815, 39561, 21511>>,
        <<31218, 53415, 60934, 42743>>, <<55149, 5614, 55805, 62974>>>>
            IN [k \in 0..7 |-> row[k + 1]]

g_IV512 == <<
        <<44501, 3900, 32519, 2382>>, <<58355, 52968, 63809, 35407>>,
        <<46375, 60638, 23357, 2793>>, <<12022, 57030, 32886, 62721>>,
        <<36025, 38090, 58796, 41494>>, <<64441, 60132, 48036, 36039>>,
        <<25866, 21089, 29810, 24554>>, <<8090, 24999, 16269, 32901>>,
        <<46688, 29560, 5947, 21403>>, <<7113, 38995, 45248, 47597>>,
        <<57202, 32705, 39704, 11591>>, <<56303, 13836, 63635, 42071>>,
        <<18817, 62949, 28692, 32384>>, <<53260, 17552, 51837, 15920>>,
        <<23923, 37900, 3658, 57836>>, <<35136, 34274, 60850, 55321>>>>

g_IV384 == <<
        <<21269, 27238, 10536, 2294>>, <<45764, 62306, 45572, 49852>>,
        <<47179, 29203, 49056, 23630>>, <<38764, 60284, 6953, 40819>>,
        <<57100, 50748, 1392, 44695>>, <<55876, 16826, 42118, 52799>>,
        <<25945, 62937, 46578, 44226>>, <<8922, 53017, 46261, 10774>>,
        <<48077, 44271, 56960, 38202>>, <<51593, 6696, 31090, 23358>>,
        <<31903, 58931, 567, 58432>>, <<41739, 42320, 21823, 29745>>,
        <<47880, 1087, 45902, 15920>>, <<41182, 50317, 21601, 36525>>,
        <<5379, 5926, 29796, 48215>>, <<13009, 20511, 56931, 56467>>>>

g_IV256 == <<
        <<28101, 31795, 57240, 37923>>, <<55530, 32622, 33602, 49561>>,
        <<30431, 33622, 63584, 15044>>, <<16625, 46157, 59448, 8762>>,
        <<14847, 59343, 49940, 33997>>, <<14788, 12908, 50472, 5448>>,
        <<35375, 63578, 13408, 17880>>, <<65312, 10916, 28093, 54814>>,
        <<53112, 23356, 54780, 56203>>, <<7939, 9142, 19073, 20671>>,
        <<65397, 55666, 62110, 41813>>, <<11862, 32560, 48924, 43489>>,
        <<46486, 34651, 63743, 28090>>, <<64714, 14768, 35311, 17941>>,
        <<60671, 16407, 53280, 46262>>, <<32375, 14412, 30510, 55298>>>>

g_IV224 == <<
        <<3136, 7839, 59521, 14933>>, <<19039, 17506, 26877, 15669>>,
        <<65299, 58450, 13135, 24874>>, <<63522, 30305, 894, 13642>>,
        <<42482, 9074, 15516, 41629>>, <<38361, 26017, 6893, 14713>>,
        <<482, 14389, 47531, 716>>, <<21204, 40122, 54707, 1558>>,
        <<40540, 8231, 30527, 20179>>, <<26277, 51328, 6437, 46849>>,
        <<8891, 51291, 19559, 31193>>, <<49457, 29092, 11349, 39971>>,
        <<12770, 46717, 9662, 14355>>, <<54562, 50398, 60814, 19843>>,
        <<42911, 21769, 46143, 47870>>, <<57357, 11480, 35659, 27754>>>>

IV == [t \in {Type(64, 0), Type(48, 0), Type(32, 0), Type(28, 0)} |->
        CASE t.bytes = 64 -> g_IV512
          [] t.bytes = 48 -> g_IV384
          [] t.bytes = 32 -> g_IV256
          [] t.bytes = 28 -> g_IV224]

Gamma == LET g == <<0, 16, 32, 48, 8, 24, 40, 56>> IN [k \in 0..7 |-> g[k + 1]]
Alpha == [p \in 0..1 |-> IF p = 0 THEN 23 ELSE 7]
Beta == [p \in 0..1 |-> IF p = 0 THEN 59 ELSE 3]
NUM_STEPS == 28

FromNat(n) == WNat(4, n)

C == INSTANCE LshCompress WITH
        Add <- WAdd, Exor <- WXor, Rotl <- WRotl, ByteOf <- WByte,
        WordBytes <- 8, NumSteps <- NUM_STEPS

\* The functions of lsh512.c.
lsh512_init(t, m) == C!Init_(t, m)
general_init == C!GenStep
init_done == C!InitDone
load_msg_blk == C!Load
compress_step == C!Step
compress_end == C!LastAdd
lsh512_final == C!Final

Init == C!Init
Next ==
    \/ \E t \in Types, m \in Messages : lsh512_init(t, m)
    \/ general_init \/ init_done
    \/ load_msg_blk \/ compress_step \/ compress_end
    \/ lsh512_final
Spec == Init /\ [][Next]_<<algtype, input, msg, phase, j, sc, cv, even, odd, gen, hash>>

\* See LshCompress.
TablesAreGenerated == C!TablesAreGenerated
=============================================================================
