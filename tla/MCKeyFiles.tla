----------------------------- MODULE MCKeyFiles -----------------------------
(***************************************************************************)
(* A handful of keys.txt files for KeyStore: rows for one address, a row   *)
(* that is replaced further down, rows with a key too long or too short,   *)
(* with an address or a direction there is not, too few fields, a counter  *)
(* that is no number, and comments.                                        *)
(***************************************************************************)
EXTENDS Integers, Sequences

\* The texts, how long they are, and what they are as numbers.
TextLen ==
  [m2s |-> 3, s2m |-> 3, bc |-> 2, east |-> 4, keyA |-> 16, keyB |-> 16,
   key15 |-> 15, key32 |-> 32, key40 |-> 40, a1 |-> 1, a248 |-> 3,
   hash |-> 1, ctr0 |-> 8, ctr7 |-> 8, ctr9 |-> 9, junk |-> 2, prose |-> 253]
TextNumber == [a1 |-> 1, a248 |-> 248]
TextHex == [ctr0 |-> 0, ctr7 |-> 7, ctr9 |-> 256 + 9]

Words(ts) == [i \in DOMAIN ts |-> [text |-> ts[i], from |-> 1, to |-> TextLen[ts[i]]]]
Blank == <<>>
RowA == Words(<<"a1", "m2s", "keyA", "keyB", "ctr7">>)
RowA2 == Words(<<"a1", "m2s", "keyB", "keyA", "ctr9">>)
RowB == Words(<<"a1", "bc", "keyA", "keyA", "junk", "prose">>)
Comment == Words(<<"hash", "a1", "m2s", "keyB", "keyB", "ctr0">>)

KeysContents ==
    { <<>>,
      <<Comment, RowA, Blank, RowA2>>,
      <<RowA2, RowB>>,
      << Words(<<"a1", "m2s", "key32", "ctr0", "ctr0">>), Words(<<"a1", "m2s", "key15", "keyB", "ctr0">>),
         Words(<<"a1", "s2m", "keyB", "key40", "ctr0">>), Words(<<"a248", "m2s", "keyA", "keyB", "ctr0">>),
         Words(<<"a1", "east", "keyA", "keyB", "ctr0">>), Words(<<"a1", "m2s", "keyA", "keyB">>),
         Words(<<"hash", "m2s", "keyA", "keyB", "ctr0">>) >> }
=============================================================================
