------------------------ MODULE SecureFrame_proofs ------------------------
(***************************************************************************)
(* Proofs about SecureFrame: a frame that arrives as it was built and at   *)
(* its counter gives back the PDU, whatever the keystream and the keys;    *)
(* and, for an HMAC that lets no damaged frame through, nothing else is    *)
(* taken and no counter moves on anything else.                            *)
(***************************************************************************)
EXTENDS SecureFrame, SequenceTheorems, WellFoundedInduction, TLAPS

\* Exclusive or stays in its width and undoes itself; the keystream and the
\* tag are bytes, of the tag HMAC_LEN.
PrimitiveLaws ==
    /\ \A a, b \in Word : Exor(a, b) \in Word
    /\ ExorUndoes
    /\ \A s \in DOMAIN Keys :
          /\ \A c \in Nat : \A i \in 0..15 : Pad(Keys[s].enc, c, i) \in Byte
          /\ \A m \in Seq(Byte) : Hmac(Keys[s].mac, m) \in [1..HMAC_LEN -> Byte]

-----------------------------------------------------------------------------
(* What a register that takes one byte after the other ends with *)

\* Induction over the natural numbers, for a set of them.
LEMMA SetInduction ==
  ASSUME NEW S, 0 \in S, \A n \in Nat : n \in S => n + 1 \in S
  PROVE  Nat \subseteq S
<1>. DEFINE T == Nat \ S
<1>. SUFFICES ASSUME T # {}
              PROVE  FALSE
  OBVIOUS
<1>1. PICK x \in T : \A y \in T : <<y, x>> \notin OpToRel(<, Nat)
  <2>1. T \subseteq Nat
    OBVIOUS
  <2>. HIDE DEF T
  <2>. QED
    BY <2>1, WFMin, NatLessThanWellFounded, Zenon
<1>2. x \in Nat /\ x # 0 /\ x \notin S
  BY <1>1
<1>3. x - 1 \in Nat /\ x - 1 < x /\ (x - 1) + 1 = x
  BY <1>2
<1>4. <<x - 1, x>> \in OpToRel(<, Nat)
  BY <1>2, <1>3, Zenon DEF OpToRel
<1>5. x - 1 \in S
  BY <1>1, <1>3, <1>4
<1>. QED
  BY <1>2, <1>3, <1>5


\* A function on 0..n that is given at 0 and then by each value from the one
\* before it: there is one, and its values stay where a step stays.
Steps(S, a, n, h) == {f \in [0..n -> S] : f[0] = a /\ \A i \in 1..n : f[i] = h[i][f[i - 1]]}

LEMMA StepsExist ==
  ASSUME NEW S, NEW a \in S, NEW n \in Nat, NEW h \in [1..n -> [S -> S]]
  PROVE  Steps(S, a, n, h) # {}
<1> DEFINE P(k, f) == f \in [0..k -> S] /\ f[0] = a /\ \A i \in 1..k : f[i] = h[i][f[i - 1]]
           R(k) == \E f : P(k, f)
           K == {k \in Nat : k <= n => R(k)}
<1>1. R(0)
  <2>1. P(0, [i \in 0..0 |-> a])
    OBVIOUS
  <2> QED BY <2>1
<1>2. ASSUME NEW k \in Nat, R(k), k + 1 <= n PROVE R(k + 1)
  <2>3. k \in Nat /\ k + 1 \in 1..n /\ k \in 0..k /\ 0 \in 0..k + 1 /\ 0 # k + 1
    <3> HIDE DEF R
    <3> QED BY <1>2
  <2>1. PICK f : P(k, f)
    BY <1>2
  <2> DEFINE g == [i \in 0..k + 1 |-> IF i = k + 1 THEN h[k + 1][f[k]] ELSE f[i]]
  <2>2. f \in [0..k -> S] /\ f[0] = a
    BY <2>1
  <2>4. h[k + 1][f[k]] \in S
    BY <2>2, <2>3
  <2>5. g \in [0..k + 1 -> S]
    <3>1. \A i \in 0..k + 1 : i # k + 1 => i \in 0..k
      BY <2>3
    <3> QED BY <3>1, <2>2, <2>4
  <2>6. g[0] = a
    BY <2>2, <2>3
  <2>7. ASSUME NEW i \in 1..k + 1 PROVE g[i] = h[i][g[i - 1]]
    <3>1. i \in 0..k + 1 /\ i - 1 \in 0..k + 1 /\ i - 1 # k + 1
      BY <2>3, <2>7
    <3>2. CASE i = k + 1
      <4>1. i - 1 = k
        BY <3>2, <2>3
      <4>2. g[i] = h[k + 1][f[k]]
        BY <3>1, <3>2
      <4>3. g[i - 1] = f[k]
        BY <3>1, <4>1
      <4> QED BY <4>2, <4>3, <3>2
    <3>3. CASE i # k + 1
      <4>1. i \in 1..k
        BY <3>3, <2>3, <2>7
      <4>2. g[i] = f[i] /\ g[i - 1] = f[i - 1]
        BY <3>1, <3>3
      <4>3. f[i] = h[i][f[i - 1]]
        BY <4>1, <2>1
      <4> QED BY <4>2, <4>3
    <3> QED BY <3>2, <3>3
  <2> HIDE DEF g
  <2>8. P(k + 1, g)
    BY <2>5, <2>6, <2>7
  <2> QED BY <2>8
<1> HIDE DEF R
<1>3. 0 \in K
  BY <1>1
<1>4. \A k \in Nat : k \in K => k + 1 \in K
  BY <1>2
<1>5. n \in K
  <2> HIDE DEF K
  <2> QED BY <1>3, <1>4, SetInduction
<1>6. R(n)
  BY <1>5
<1> QED BY <1>6 DEF R, Steps

LEMMA StepsTyped ==
  ASSUME NEW S, NEW n \in Nat, NEW f, f[0] \in S,
         \A i \in 1..n : f[i - 1] \in S => f[i] \in S
  PROVE  \A i \in 0..n : f[i] \in S
<1> DEFINE K == {k \in Nat : k <= n => f[k] \in S}
<1>1. 0 \in K
  OBVIOUS
<1>2. ASSUME NEW k \in Nat, k \in K PROVE k + 1 \in K
  <2> SUFFICES ASSUME k + 1 <= n PROVE f[k + 1] \in S
    OBVIOUS
  <2>1. k + 1 \in 1..n /\ (k + 1) - 1 = k
    OBVIOUS
  <2>2. f[k] \in S
    BY <1>2
  <2> QED BY <2>1, <2>2
<1>3. Nat \subseteq K
  <2> HIDE DEF K
  <2> QED BY <1>1, <1>2, SetInduction
<1> QED BY <1>3

\* The numbers of one byte and of two.
LEMMA ByteIs ==
  \A n : n \in Byte <=> n \in Nat /\ n <= 255
<1>1. UINT8_MAX = 255
  BY DEF UINT8_MAX
<1> QED BY <1>1 DEF Byte

LEMMA WordIs ==
  \A n : n \in Word <=> n \in Nat /\ n <= 65535
<1>1. PICK top \in Nat : top = UINT16_MAX
  BY DEF UINT16_MAX
<1>2. \A n : n \in Word <=> n \in Nat /\ n <= top
  BY <1>1 DEF Word
<1>3. top = 65535
  BY <1>1 DEF UINT16_MAX
<1> QED BY ONLY <1>2, <1>3

LEMMA CrcBitTyped ==
  ASSUME PrimitiveLaws
  PROVE  CrcBit \in [Word -> Word]
<1>1. ASSUME NEW c \in Word PROVE CrcBit[c] \in Word
  <2>1. c \div 2 \in Word /\ 40961 \in Word
    BY <1>1, WordIs
  <2>2. Exor(c \div 2, 40961) \in Word
    BY <2>1 DEF PrimitiveLaws
  <2>3. CrcBit[c] \in {c \div 2, Exor(c \div 2, 40961)}
    BY <1>1 DEF CrcBit
  <2> QED BY <2>1, <2>2, <2>3
<1>2. CrcBit = [c \in Word |-> CrcBit[c]]
  BY DEF CrcBit
<1> QED BY <1>1, <1>2

LEMMA CrcByteTyped ==
  ASSUME PrimitiveLaws, NEW crc \in Word, NEW b \in Byte
  PROVE  CrcByte(crc, b) \in Word
<1> DEFINE first == Exor(crc, b)
           h == [i \in 1..8 |-> CrcBit]
           shift == CHOOSE shift : shift = [bits \in 0..8 |->
                       IF bits = 0 THEN Exor(crc, b) ELSE CrcBit[shift[bits - 1]]]
<1>1. first \in Word
  <2>1. b \in Word
    BY ByteIs, WordIs
  <2> QED BY <2>1 DEF PrimitiveLaws
<1>2. h \in [1..8 -> [Word -> Word]] /\ \A i \in 1..8 : h[i] = CrcBit
  BY CrcBitTyped
<1>3. PICK f \in [0..8 -> Word] : f[0] = first /\ \A i \in 1..8 : f[i] = h[i][f[i - 1]]
  <2>1. PICK n \in Nat : n = 8
    OBVIOUS
  <2>2. h \in [1..n -> [Word -> Word]]
    BY <1>2, <2>1
  <2> HIDE DEF h, first
  <2>3. Steps(Word, first, n, h) # {}
    BY ONLY <1>1, <2>1, <2>2, StepsExist
  <2> QED BY <2>1, <2>3 DEF Steps
<1>4. ASSUME NEW i \in 0..8, i # 0 PROVE f[i] = CrcBit[f[i - 1]]
  <2> HIDE DEF h
  <2>1. i \in 1..8 /\ f[i - 1] \in Word
    BY <1>4
  <2> QED BY <2>1, <1>2, <1>3
<1>5. f = [bits \in 0..8 |-> IF bits = 0 THEN Exor(crc, b) ELSE CrcBit[f[bits - 1]]]
  <2> HIDE DEF h
  <2> QED BY <1>3, <1>4
<1>6. shift = [bits \in 0..8 |-> IF bits = 0 THEN Exor(crc, b) ELSE CrcBit[shift[bits - 1]]]
  BY <1>5
<1>7. CrcByte(crc, b) = shift[8]
  BY DEF CrcByte
<1> HIDE DEF shift, h
<1>8. shift[0] \in Word
  BY <1>6, <1>1
<1>9. ASSUME NEW i \in 1..8, shift[i - 1] \in Word PROVE shift[i] \in Word
  <2>1. shift[i] = CrcBit[shift[i - 1]]
    BY <1>6, <1>9
  <2> QED BY <2>1, <1>9, CrcBitTyped
<1>10. \A i \in 0..8 : shift[i] \in Word
  BY ONLY <1>8, <1>9, StepsTyped
<1> QED BY <1>7, <1>10

\* The CRC of bytes is 16 bits wide.
LEMMA CrcTyped ==
  ASSUME PrimitiveLaws, NEW buf \in Seq(Byte)
  PROVE  secure_frame_crc16(buf) \in Word
<1> DEFINE next == [b \in Byte |-> [crc \in Word |-> CrcByte(crc, b)]]
           n == Len(buf)
           h == [i \in 1..n |-> next[buf[i]]]
           over == CHOOSE over : over = [i \in 0..Len(buf) |->
                      IF i = 0 THEN UINT16_MAX ELSE next[buf[i]][over[i - 1]]]
<1>1. n \in Nat /\ \A i \in 1..n : buf[i] \in Byte
  OBVIOUS
<1>2. secure_frame_crc16(buf) = over[n]
  BY DEF secure_frame_crc16
<1>3. next \in [Byte -> [Word -> Word]]
  <2>1. \A b \in Byte : \A c \in Word : CrcByte(c, b) \in Word
    BY CrcByteTyped
  <2> QED BY <2>1
<1>4. UINT16_MAX \in Word
  BY WordIs DEF UINT16_MAX
<1> HIDE DEF next
<1>5. h \in [1..n -> [Word -> Word]] /\ \A i \in 1..n : h[i] = next[buf[i]]
  BY <1>1, <1>3
<1>6. PICK f \in [0..n -> Word] : f[0] = UINT16_MAX /\ \A i \in 1..n : f[i] = h[i][f[i - 1]]
  <2>1. n \in Nat
    BY <1>1
  <2>2. h \in [1..n -> [Word -> Word]]
    BY <1>5
  <2> HIDE DEF h, n
  <2>3. Steps(Word, UINT16_MAX, n, h) # {}
    BY ONLY <2>1, <2>2, <1>4, StepsExist
  <2> QED BY <2>3 DEF Steps
<1>7. ASSUME NEW i \in 0..n, i # 0 PROVE f[i] = next[buf[i]][f[i - 1]]
  <2> HIDE DEF h, n
  <2>1. i \in 1..n /\ f[i - 1] \in Word
    BY <1>1, <1>7
  <2> QED BY <2>1, <1>5, <1>6
<1>8. f = [i \in 0..n |-> IF i = 0 THEN UINT16_MAX ELSE next[buf[i]][f[i - 1]]]
  <2> HIDE DEF h, n
  <2> QED BY <1>6, <1>7
<1>9. over = [i \in 0..n |-> IF i = 0 THEN UINT16_MAX ELSE next[buf[i]][over[i - 1]]]
  BY <1>8
<1> HIDE DEF over, n, h
<1>10. over[0] \in Word
  <2>1. 0 \in 0..n
    BY <1>1
  <2> QED BY <2>1, <1>4, <1>9
<1>11. ASSUME NEW i \in 1..n, over[i - 1] \in Word PROVE over[i] \in Word
  <2>1. i \in 0..n /\ i # 0
    BY <1>1, <1>11
  <2>2. over[i] = next[buf[i]][over[i - 1]]
    BY <1>9, <2>1
  <2> QED BY <2>2, <1>1, <1>3, <1>11
<1>12. \A i \in 0..n : over[i] \in Word
  BY ONLY <1>1, <1>10, <1>11, StepsTyped
<1>13. n \in 0..n
  BY <1>1
<1> QED BY <1>2, <1>12, <1>13

-----------------------------------------------------------------------------
(* The cipher, the ADU and the frame *)

\* The keystream byte that masks byte i of a message.
LEMMA MaskTyped ==
  ASSUME PrimitiveLaws, NEW s \in DOMAIN Keys, NEW ctr \in Nat, NEW i \in Nat \ {0}
  PROVE  Pad(Keys[s].enc, ctr + (i - 1) \div 16, (i - 1) % 16) \in Byte
<1>1. PICK q \in Nat : q = (i - 1) \div 16
  OBVIOUS
<1>2. PICK r \in 0..15 : r = (i - 1) % 16
  OBVIOUS
<1>3. ctr + q \in Nat
  OBVIOUS
<1>4. Pad(Keys[s].enc, ctr + q, r) \in Byte
  BY <1>3, Zenon DEF PrimitiveLaws
<1> QED BY <1>1, <1>2, <1>4

LEMMA CryptTyped ==
  ASSUME PrimitiveLaws, NEW s \in DOMAIN Keys, NEW ctr \in Nat, NEW in \in Seq(Byte)
  PROVE  /\ lea_ctr_crypt(Keys[s].enc, ctr, in) \in Seq(Byte)
         /\ Len(lea_ctr_crypt(Keys[s].enc, ctr, in)) = Len(in)
<1> DEFINE Mask(i) == Pad(Keys[s].enc, ctr + (i - 1) \div 16, (i - 1) % 16)
           out == [i \in 1..Len(in) |-> Exor(in[i], Mask(i))]
<1>1. out = lea_ctr_crypt(Keys[s].enc, ctr, in)
  <2>1. DOMAIN in = 1..Len(in)
    OBVIOUS
  <2> QED BY <2>1 DEF lea_ctr_crypt
<1>2. ASSUME NEW i \in 1..Len(in) PROVE Exor(in[i], Mask(i)) \in Byte
  <2>1. Mask(i) \in Byte
    BY <1>2, MaskTyped
  <2>2. in[i] \in Byte
    BY <1>2
  <2> HIDE DEF Mask
  <2> QED BY <2>1, <2>2 DEF PrimitiveLaws, ExorUndoes
<1> HIDE DEF Mask
<1>3. out \in Seq(Byte) /\ Len(out) = Len(in)
  BY <1>2
<1> QED BY <1>1, <1>3

\* Decrypting at the counter of the encryption gives the message back.
LEMMA CryptTwice ==
  ASSUME PrimitiveLaws, NEW s \in DOMAIN Keys, NEW ctr \in Nat, NEW in \in Seq(Byte)
  PROVE  lea_ctr_crypt(Keys[s].enc, ctr, lea_ctr_crypt(Keys[s].enc, ctr, in)) = in
<1> DEFINE Mask(i) == Pad(Keys[s].enc, ctr + (i - 1) \div 16, (i - 1) % 16)
           out == [i \in 1..Len(in) |-> Exor(in[i], Mask(i))]
           back == [i \in 1..Len(in) |-> Exor(out[i], Mask(i))]
<1>1. DOMAIN in = 1..Len(in) /\ DOMAIN out = 1..Len(in)
  OBVIOUS
<1>2. out = lea_ctr_crypt(Keys[s].enc, ctr, in)
  BY <1>1 DEF lea_ctr_crypt
<1>3. back = lea_ctr_crypt(Keys[s].enc, ctr, out)
  BY <1>1 DEF lea_ctr_crypt
<1>4. ASSUME NEW i \in 1..Len(in) PROVE back[i] = in[i]
  <2>1. Mask(i) \in Byte /\ in[i] \in Byte
    BY <1>4, MaskTyped
  <2> HIDE DEF Mask
  <2>2. back[i] = Exor(Exor(in[i], Mask(i)), Mask(i))
    BY <1>4
  <2> QED BY <2>1, <2>2 DEF PrimitiveLaws, ExorUndoes
<1>5. back = in
  <2> HIDE DEF Mask
  <2>1. back = [i \in 1..Len(in) |-> back[i]] /\ in = [i \in 1..Len(in) |-> in[i]]
    OBVIOUS
  <2> HIDE DEF back
  <2> QED BY <1>4, <2>1
<1> QED BY <1>2, <1>3, <1>5

\* The two bytes of a CRC, which the receiver puts together again.
LEMMA CrcBytesTyped ==
  ASSUME NEW crc \in Word
  PROVE  /\ CrcBytes(crc) \in Seq(Byte) /\ Len(CrcBytes(crc)) = 2
         /\ CrcBytes(crc)[1] + 256 * CrcBytes(crc)[2] = crc
<1>1. crc \in Nat /\ crc <= 65535
  BY WordIs
<1>2. PICK lo \in Nat, hi \in Nat : lo = crc % 256 /\ hi = crc \div 256
  BY <1>1
<1>3. lo <= 255 /\ hi <= 255 /\ lo + 256 * hi = crc
  BY <1>1, <1>2
<1>4. lo \in Byte /\ hi \in Byte
  BY ONLY <1>2, <1>3, ByteIs
<1>5. CrcBytes(crc) = <<lo, hi>>
  BY <1>2 DEF CrcBytes
<1> QED BY <1>3, <1>4, <1>5

\* An ADU has three bytes more than its PDU, and its parts are where the
\* receiver looks for them.
LEMMA AduParts ==
  ASSUME PrimitiveLaws, NEW addr \in Byte, NEW pdu \in Seq(Byte)
  PROVE  /\ Adu(addr, pdu) \in Seq(Byte) /\ Len(Adu(addr, pdu)) = Len(pdu) + 3
         /\ SubSeq(Adu(addr, pdu), 1, Len(pdu) + 1) = <<addr>> \o pdu
         /\ SubSeq(Adu(addr, pdu), 2, Len(pdu) + 1) = pdu
         /\ CrcOf(Adu(addr, pdu)) = secure_frame_crc16(<<addr>> \o pdu)
<1> DEFINE head == <<addr>> \o pdu
           crc == secure_frame_crc16(head)
           tail == CrcBytes(crc)
           adu == head \o tail
           n == Len(pdu)
<1>1. adu = Adu(addr, pdu)
  BY DEF Adu
<1>2. head \in Seq(Byte) /\ Len(head) = n + 1 /\ n \in Nat
  OBVIOUS
<1>3. \A i \in 1..n : head[i + 1] = pdu[i]
  OBVIOUS
<1>n. pdu \in Seq(Byte) /\ Len(pdu) = n
  OBVIOUS
<1> HIDE DEF head
<1>4. crc \in Word
  BY <1>2, CrcTyped
<1> HIDE DEF crc
<1>5. tail \in Seq(Byte) /\ Len(tail) = 2
  BY <1>4, CrcBytesTyped
<1>t. tail[1] + 256 * tail[2] = crc
  BY <1>4, CrcBytesTyped
<1> HIDE DEF tail
<1> HIDE DEF n
<1>6. adu \in Seq(Byte) /\ Len(adu) = n + 3
  <2>1. adu \in Seq(Byte) /\ Len(adu) = Len(head) + Len(tail)
    BY ONLY <1>2, <1>5, ConcatProperties
  <2> QED BY ONLY <2>1, <1>2, <1>5
<1>7. /\ \A i \in 1..n + 1 : adu[i] = head[i]
      /\ adu[n + 2] = tail[1] /\ adu[n + 3] = tail[2]
  <2>1. \A i \in 1..Len(head) + Len(tail) :
           adu[i] = IF i <= Len(head) THEN head[i] ELSE tail[i - Len(head)]
    BY ONLY <1>2, <1>5, ConcatProperties
  <2> HIDE DEF adu
  <2>2. \A i \in 1..n + 3 : adu[i] = IF i <= n + 1 THEN head[i] ELSE tail[i - (n + 1)]
    BY ONLY <2>1, <1>2, <1>5
  <2>3. \A i \in 1..n + 1 : i \in 1..n + 3 /\ i <= n + 1
    BY ONLY <1>2
  <2>5. \A i \in 1..n + 1 : adu[i] = head[i]
    BY ONLY <2>2, <2>3
  <2>6. ASSUME NEW k \in {1, 2} PROVE adu[n + 1 + k] = tail[k]
    <3>1. PICK i \in Nat : i = n + 1 + k
      BY <1>2, <2>6
    <3>2. i \in 1..n + 3 /\ ~(i <= n + 1) /\ i - (n + 1) = k
      BY <1>2, <2>6, <3>1
    <3>3. adu[i] = tail[i - (n + 1)]
      BY ONLY <2>2, <3>2
    <3> QED BY <3>1, <3>2, <3>3
  <2>7. n + 1 + 1 = n + 2 /\ n + 1 + 2 = n + 3
    BY <1>2
  <2> QED BY <2>5, <2>6, <2>7
<1> HIDE DEF adu
<1>8. SubSeq(adu, 1, n + 1) = head
  <2>1. /\ SubSeq(adu, 1, n + 1) \in Seq(Byte) /\ Len(SubSeq(adu, 1, n + 1)) = n + 1
        /\ \A i \in 1..n + 1 : SubSeq(adu, 1, n + 1)[i] = adu[i]
    BY <1>2, <1>6
  <2> QED BY ONLY <2>1, <1>2, <1>7, SeqEqual
<1>9. SubSeq(adu, 2, n + 1) = pdu
  <2>1. /\ SubSeq(adu, 2, n + 1) \in Seq(Byte) /\ Len(SubSeq(adu, 2, n + 1)) = n
        /\ \A i \in 1..n : SubSeq(adu, 2, n + 1)[i] = adu[i + 1]
    BY <1>2, <1>6
  <2>2. \A i \in 1..n : adu[i + 1] = head[i + 1]
    BY <1>2, <1>7
  <2> QED BY ONLY <2>1, <2>2, <1>2, <1>3, SeqEqual, <1>n
<1>10. CrcOf(adu) = crc
  <2>1. CrcOf(adu) = adu[n + 2] + 256 * adu[n + 3]
    BY <1>2, <1>6 DEF CrcOf
  <2> QED BY <2>1, <1>t, <1>7
<1> QED BY <1>1, <1>6, <1>8, <1>9, <1>10 DEF head, crc, n

\* The ciphertext in the frame of a PDU.
Sealed(s, ctr, pdu) == lea_ctr_crypt(Keys[s].enc, ctr, Adu(s[1], pdu))

LEMMA SlotIs ==
  ASSUME SecureFrameAssumption, NEW s \in DOMAIN Keys
  PROVE  s \in Slot /\ s[1] \in Addrs /\ s[1] \in Byte /\ s[2] \in Dirs /\ s = <<s[1], s[2]>>
BY DEF SecureFrameAssumption, Slot

LEMMA SealedTyped ==
  ASSUME SecureFrameAssumption, PrimitiveLaws,
         NEW s \in DOMAIN Keys, NEW ctr \in Nat, NEW pdu \in Seq(Byte)
  PROVE  Sealed(s, ctr, pdu) \in Seq(Byte) /\ Len(Sealed(s, ctr, pdu)) = Len(pdu) + 3
<1> DEFINE adu == Adu(s[1], pdu)
<1>1. adu \in Seq(Byte) /\ Len(adu) = Len(pdu) + 3
  <2>1. s[1] \in Byte
    BY SlotIs
  <2> QED BY <2>1, AduParts
<1> HIDE DEF adu
<1>2. lea_ctr_crypt(Keys[s].enc, ctr, adu) \in Seq(Byte) /\ Len(lea_ctr_crypt(Keys[s].enc, ctr, adu)) = Len(adu)
  BY <1>1, CryptTyped
<1> QED BY <1>1, <1>2 DEF Sealed, adu

\* A frame that is laid out is taken apart into what it was made of.
LEMMA ParseBuilt ==
  ASSUME SecureFrameAssumption, NEW addr \in Byte, NEW ct \in Seq(Byte), NEW tag \in Seq(Byte),
         Len(tag) = HMAC_LEN
  PROVE  /\ secure_frame_build(addr, ct, tag) \in Seq(Byte)
         /\ Len(secure_frame_build(addr, ct, tag)) = 1 + Len(ct) + HMAC_LEN
         /\ CiphertextLen(Len(secure_frame_build(addr, ct, tag))) = Len(ct)
         /\ secure_frame_parse(secure_frame_build(addr, ct, tag)) =
              [addr |-> addr, ciphertext |-> ct, hmac |-> tag]
<1> DEFINE front == <<addr>> \o ct
           w == front \o tag
           n == Len(ct)
           m == Len(tag)
<1>1. w = secure_frame_build(addr, ct, tag)
  <2>1. <<addr>> \in Seq(Byte)
    OBVIOUS
  <2> QED BY <2>1, ConcatAssociative DEF secure_frame_build
<1>2. n \in Nat /\ m \in Nat /\ m = HMAC_LEN
  OBVIOUS
<1>3. /\ front \in Seq(Byte) /\ Len(front) = n + 1
      /\ front[1] = addr /\ \A i \in 1..n : front[i + 1] = ct[i]
  OBVIOUS
<1>4. ct \in Seq(Byte) /\ Len(ct) = n /\ tag \in Seq(Byte) /\ Len(tag) = m
  OBVIOUS
<1> HIDE DEF front, n, m
<1>5. w \in Seq(Byte) /\ Len(w) = n + 1 + m
  <2>1. w \in Seq(Byte) /\ Len(w) = Len(front) + Len(tag)
    BY ONLY <1>3, <1>4, ConcatProperties
  <2> QED BY ONLY <2>1, <1>2, <1>3, <1>4
<1>6. \A i \in 1..n + 1 + m : w[i] = IF i <= n + 1 THEN front[i] ELSE tag[i - (n + 1)]
  <2>1. \A i \in 1..Len(front) + Len(tag) :
           w[i] = IF i <= Len(front) THEN front[i] ELSE tag[i - Len(front)]
    BY ONLY <1>3, <1>4, ConcatProperties
  <2> QED BY ONLY <2>1, <1>2, <1>3, <1>4
<1> HIDE DEF w
<1>7. CiphertextLen(Len(w)) = n
  BY <1>2, <1>5 DEF CiphertextLen, ADDR_LEN
<1>8. w[1] = addr
  <2>1. 1 \in 1..n + 1 + m /\ 1 <= n + 1
    BY <1>2
  <2> QED BY <2>1, <1>3, <1>6
<1>9. SubSeq(w, 2, 1 + n) = ct
  <2>1. /\ SubSeq(w, 2, 1 + n) \in Seq(Byte) /\ Len(SubSeq(w, 2, 1 + n)) = n
        /\ \A i \in 1..n : SubSeq(w, 2, 1 + n)[i] = w[i + 1]
    BY <1>2, <1>5
  <2>2. ASSUME NEW i \in 1..n PROVE w[i + 1] = ct[i]
    <3>1. PICK j \in Nat : j = i + 1
      BY <1>2, <2>2
    <3>2. j \in 1..n + 1 + m /\ j <= n + 1
      BY <1>2, <2>2, <3>1
    <3>3. w[j] = front[j]
      BY ONLY <3>2, <1>6
    <3> QED BY <3>1, <3>3, <2>2, <1>3
  <2> QED BY ONLY <2>1, <2>2, <1>4, SeqEqual
<1>10. SubSeq(w, 2 + n, Len(w)) = tag
  <2> DEFINE u == SubSeq(w, 2 + n, n + 1 + m)
  <2>1. u \in Seq(Byte) /\ Len(u) = m /\ \A i \in 1..m : u[i] = w[i + n + 1]
    BY <1>2, <1>5
  <2>2. ASSUME NEW i \in 1..m PROVE w[i + n + 1] = tag[i]
    <3>1. PICK j \in Nat : j = i + n + 1
      BY <1>2, <2>2
    <3>2. j \in 1..n + 1 + m /\ ~(j <= n + 1) /\ j - (n + 1) = i
      BY <1>2, <2>2, <3>1
    <3>3. w[j] = tag[j - (n + 1)]
      BY ONLY <3>2, <1>6
    <3> QED BY <3>1, <3>2, <3>3
  <2> HIDE DEF u
  <2>3. u = tag
    BY ONLY <2>1, <2>2, <1>4, SeqEqual
  <2> QED BY <2>3, <1>5 DEF u
<1>11. secure_frame_parse(w) = [addr |-> addr, ciphertext |-> ct, hmac |-> tag]
  BY <1>7, <1>8, <1>9, <1>10 DEF secure_frame_parse
<1>12. Len(w) = 1 + n + HMAC_LEN
  BY ONLY <1>2, <1>5
<1> QED BY <1>1, <1>5, <1>7, <1>11, <1>12 DEF n

\* The frame of a PDU: bytes, of a length the receiver parses, with the tag
\* it looks for.
LEMMA FrameParts ==
  ASSUME SecureFrameAssumption, PrimitiveLaws,
         NEW s \in DOMAIN Keys, NEW ctr \in Nat, NEW pdu \in Seq(Byte)
  PROVE  /\ FrameOf(s, ctr, pdu) \in Seq(Byte)
         /\ Len(FrameOf(s, ctr, pdu)) = Len(pdu) + 4 + HMAC_LEN
         /\ CiphertextLen(Len(FrameOf(s, ctr, pdu))) = Len(pdu) + 3
         /\ secure_frame_parse(FrameOf(s, ctr, pdu)) =
              [addr |-> s[1], ciphertext |-> Sealed(s, ctr, pdu),
               hmac |-> Hmac(Keys[s].mac, <<s[1]>> \o Sealed(s, ctr, pdu))]
<1> DEFINE ct == Sealed(s, ctr, pdu)
           tag == Hmac(Keys[s].mac, <<s[1]>> \o ct)
<1>1. FrameOf(s, ctr, pdu) = secure_frame_build(s[1], ct, tag)
  BY DEF FrameOf, Sealed
<1>2. ct \in Seq(Byte) /\ Len(ct) = Len(pdu) + 3
  BY SealedTyped
<1> HIDE DEF ct
<1>3. s[1] \in Byte
  BY SlotIs
<1>4. tag \in Seq(Byte) /\ Len(tag) = HMAC_LEN
  <2>1. <<s[1]>> \o ct \in Seq(Byte)
    BY <1>2, <1>3
  <2>2. tag \in [1..HMAC_LEN -> Byte]
    BY <2>1 DEF PrimitiveLaws
  <2>3. HMAC_LEN \in Nat
    BY DEF SecureFrameAssumption
  <2> HIDE DEF tag
  <2> QED BY <2>2, <2>3
<1> HIDE DEF tag
<1> DEFINE w == secure_frame_build(s[1], ct, tag)
<1>5. /\ w \in Seq(Byte) /\ Len(w) = 1 + Len(ct) + HMAC_LEN /\ CiphertextLen(Len(w)) = Len(ct)
      /\ secure_frame_parse(w) = [addr |-> s[1], ciphertext |-> ct, hmac |-> tag]
  BY <1>2, <1>3, <1>4, ParseBuilt
<1>6. 1 + Len(ct) + HMAC_LEN = Len(pdu) + 4 + HMAC_LEN
  BY <1>2 DEF SecureFrameAssumption
<1> HIDE DEF w
<1> QED BY <1>1, <1>2, <1>5, <1>6 DEF w, ct, tag

LEMMA FrameFields ==
  ASSUME SecureFrameAssumption, PrimitiveLaws,
         NEW s \in DOMAIN Keys, NEW ctr \in Nat, NEW pdu \in Seq(Byte)
  PROVE  LET f == secure_frame_parse(FrameOf(s, ctr, pdu))
         IN /\ f.addr = s[1] /\ f.ciphertext = Sealed(s, ctr, pdu)
            /\ f.hmac = Hmac(Keys[s].mac, <<f.addr>> \o f.ciphertext)
<1> DEFINE f == secure_frame_parse(FrameOf(s, ctr, pdu))
           ct == Sealed(s, ctr, pdu)
           tag == Hmac(Keys[s].mac, <<s[1]>> \o ct)
<1>1. f = [addr |-> s[1], ciphertext |-> ct, hmac |-> tag]
  BY FrameParts
<1> HIDE DEF f, tag, ct
<1>2. f.addr = s[1] /\ f.ciphertext = ct /\ f.hmac = tag
  BY ONLY <1>1
<1>3. tag = Hmac(Keys[s].mac, <<f.addr>> \o f.ciphertext)
  BY <1>2 DEF tag
<1> QED BY <1>2, <1>3 DEF f, ct

\* Damage leaves bytes.
LEMMA DamagedTyped ==
  ASSUME SecureFrameAssumption, NEW w \in Seq(Byte), NEW v \in Damaged(w)
  PROVE  v \in Seq(Byte)
<1>1. Damages \subseteq Byte
  BY DEF SecureFrameAssumption
<1>2. CASE v \in Changed(w)
  <2>1. PICK i \in DOMAIN w, b \in Damages : v = [w EXCEPT ![i] = b]
    BY <1>2 DEF Changed
  <2> QED BY <2>1, <1>1
<1>3. CASE v \in CutShort(w)
  <2>1. CASE v \in {SubSeq(w, 1, n) : n \in 0..Len(w) - 1}
    BY <2>1
  <2>2. CASE v \in {SubSeq(w, n, Len(w)) : n \in 2..Len(w)}
    <3>1. PICK n \in 2..Len(w) : v = SubSeq(w, n, Len(w))
      BY <2>2
    <3>2. n \in 1..Len(w) /\ \A i \in n..Len(w) : w[i] \in Byte
      OBVIOUS
    <3> QED BY <3>1, <3>2, SubSeqProperties
  <2> QED BY <1>3, <2>1, <2>2 DEF CutShort
<1>4. CASE v \in Lengthened(w)
  <2>1. CASE v = w \o w
    BY <2>1, ConcatProperties
  <2>2. CASE v # w \o w
    <3>1. PICK b \in Damages : v \in {<<b>> \o w, w \o <<b>>, w \o <<b, b>>}
      BY <1>4, <2>2, Zenon DEF Lengthened
    <3>2. <<b>> \in Seq(Byte) /\ <<b, b>> \in Seq(Byte)
      BY <1>1
    <3> QED BY <3>1, <3>2, ConcatProperties
  <2> QED BY <2>1, <2>2
<1> QED BY <1>2, <1>3, <1>4 DEF Damaged

-----------------------------------------------------------------------------
(* What the receiver makes of a frame *)

LEMMA SendableIs ==
  ASSUME SecureFrameAssumption, NEW pdu \in Sendable
  PROVE  pdu \in Seq(Byte) /\ Len(pdu) \in 0..MAX_PDU
BY DEF SecureFrameAssumption, Sendable, TooLong

\* A frame that nothing refuses parses, has a key in the direction it is
\* asked for, and a tag that verifies under it.
LEMMA RefusalNone ==
  ASSUME NEW w, NEW a, NEW d, Refusal(w, a, d) = "none"
  PROVE  /\ Parses(w)
         /\ <<secure_frame_parse(w).addr, d>> \in DOMAIN Keys
         /\ Authentic(<<secure_frame_parse(w).addr, d>>, secure_frame_parse(w))
<1> DEFINE f == secure_frame_parse(w)
<1> HIDE DEF f
<1>1. Parses(w) /\ <<f.addr, d>> \in DOMAIN Keys /\ Authentic(<<f.addr, d>>, f)
  BY DEF Refusal, f
<1> QED BY <1>1 DEF f

Refusals == {"ERR_MALFORMED", "ERR_WRONG_ADDR", "ERR_NO_KEY", "ERR_HMAC"}

LEMMA RefusalIs ==
  \A w, a, d : Refusal(w, a, d) \in Refusals \cup {"none"}
BY DEF Refusal, Refusals

\* A frame as it was built passes where its address and direction are asked
\* for.
LEMMA BuiltPasses ==
  ASSUME SecureFrameAssumption, PrimitiveLaws,
         NEW s \in DOMAIN Keys, NEW ctr \in Nat, NEW pdu \in Sendable,
         NEW a \in {s[1], ANY_ADDR}
  PROVE  Refusal(FrameOf(s, ctr, pdu), a, s[2]) = "none"
<1> DEFINE w == FrameOf(s, ctr, pdu)
           f == secure_frame_parse(w)
<1>1. pdu \in Seq(Byte) /\ Len(pdu) \in 0..MAX_PDU
  BY SendableIs
<1>2. /\ CiphertextLen(Len(w)) = Len(pdu) + 3
      /\ f.addr = s[1] /\ f.hmac = Hmac(Keys[s].mac, <<f.addr>> \o f.ciphertext)
  <2>1. CiphertextLen(Len(w)) = Len(pdu) + 3
    BY <1>1, FrameParts
  <2> QED BY <1>1, <2>1, FrameFields
<1> HIDE DEF w, f
<1>3. Parses(w)
  BY <1>1, <1>2 DEF Parses, MAX_ADU, ADDR_LEN, CRC_LEN, SecureFrameAssumption
<1>4. <<f.addr, s[2]>> = s
  BY <1>2, SlotIs
<1>5. Authentic(s, f)
  BY <1>2 DEF Authentic
<1>6. Refusal(w, a, s[2]) = "none"
  BY <1>2, <1>3, <1>4, <1>5 DEF Refusal, f
<1> QED BY <1>6 DEF w

\* A damaged frame is refused, and a whole one where another direction is
\* asked for.
LEMMA DamagedFails ==
  ASSUME NoForgery,
         NEW s \in DOMAIN Keys, NEW pdu \in Sendable, NEW ctr \in 0..MaxSent * NumBlocks(MAX_ADU),
         NEW v \in Damaged(FrameOf(s, ctr, pdu)), NEW a, NEW d
  PROVE  Refusal(v, a, d) # "none"
<1> SUFFICES ASSUME Refusal(v, a, d) = "none"
             PROVE  FALSE
  OBVIOUS
<1> DEFINE f == secure_frame_parse(v)
           t == <<f.addr, d>>
<1>1. Parses(v) /\ t \in DOMAIN Keys /\ Authentic(t, f)
  BY RefusalNone
<1> HIDE DEF f
<1>2. t[1] = f.addr
  OBVIOUS
<1>3. Hmac(Keys[t].mac, <<f.addr>> \o f.ciphertext) = f.hmac
  BY <1>1 DEF Authentic
<1> HIDE DEF t
<1> QED BY <1>1, <1>2, <1>3 DEF NoForgery, f

LEMMA OtherDirFails ==
  ASSUME SecureFrameAssumption, PrimitiveLaws, NoForgery,
         NEW s \in DOMAIN Keys, NEW pdu \in Sendable, NEW ctr \in 0..MaxSent * NumBlocks(MAX_ADU),
         NEW a, NEW d, Refusal(FrameOf(s, ctr, pdu), a, d) = "none"
  PROVE  d = s[2]
<1> DEFINE w == FrameOf(s, ctr, pdu)
           f == secure_frame_parse(w)
           t == <<f.addr, d>>
<1>1. Parses(w) /\ t \in DOMAIN Keys /\ Authentic(t, f)
  BY RefusalNone
<1> HIDE DEF f
<1>2. t[1] = f.addr /\ t[2] = d
  OBVIOUS
<1>3. Hmac(Keys[t].mac, <<f.addr>> \o f.ciphertext) = f.hmac
  BY <1>1 DEF Authentic
<1> HIDE DEF t
<1>4. t = s
  BY <1>1, <1>2, <1>3 DEF NoForgery, f
<1> QED BY <1>2, <1>4

\* The decryption of the ADU that was sent.
LEMMA DecryptedBuilt ==
  ASSUME PrimitiveLaws, NEW addr \in Byte, NEW pdu \in Seq(Byte), NEW f
  PROVE  Decrypted(f, Adu(addr, pdu)) =
           [status |-> "OK", addr |-> f.addr, pdu_len |-> Len(pdu), pdu |-> pdu]
<1> DEFINE adu == Adu(addr, pdu)
           n == Len(pdu)
<1>1. n \in Nat
  OBVIOUS
<1>2. /\ Len(adu) = n + 3 /\ SubSeq(adu, 1, n + 1) = <<addr>> \o pdu
      /\ SubSeq(adu, 2, n + 1) = pdu /\ CrcOf(adu) = secure_frame_crc16(<<addr>> \o pdu)
  BY AduParts
<1> HIDE DEF adu, n
<1>3. /\ ~(Len(adu) < CRC_LEN) /\ Len(adu) - CRC_LEN = n + 1
      /\ Len(adu) - ADDR_LEN - CRC_LEN = n /\ 1 + ADDR_LEN = 2 /\ ADDR_LEN + n = n + 1
  BY <1>1, <1>2 DEF CRC_LEN, ADDR_LEN
<1>4. secure_frame_crc16(SubSeq(adu, 1, Len(adu) - CRC_LEN)) = CrcOf(adu)
  BY ONLY <1>2, <1>3
<1>5. SubSeq(adu, 1 + ADDR_LEN, ADDR_LEN + (Len(adu) - ADDR_LEN - CRC_LEN)) = pdu
  BY ONLY <1>2, <1>3
<1>6. Decrypted(f, adu) = [status |-> "OK", addr |-> f.addr, pdu_len |-> n, pdu |-> pdu]
  BY ONLY <1>3, <1>4, <1>5 DEF Decrypted
<1> QED BY <1>6 DEF adu, n

\* What any decryption gives is as long as the ciphertext makes it.
LEMMA DecryptedIs ==
  ASSUME NEW f, NEW adu \in Seq(Byte), NEW n \in Nat, Len(adu) = n + 3
  PROVE  /\ Decrypted(f, adu).status \in {"OK", "ERR_CRC"}
         /\ Decrypted(f, adu).status = "OK" =>
              /\ Decrypted(f, adu).addr = f.addr
              /\ Decrypted(f, adu).pdu_len = n /\ Len(Decrypted(f, adu).pdu) = n
<1>1. /\ Len(adu) - ADDR_LEN - CRC_LEN = n /\ 1 + ADDR_LEN = 2 /\ ADDR_LEN + n = n + 1
  BY DEF CRC_LEN, ADDR_LEN
<1>2. Len(SubSeq(adu, 2, n + 1)) = n
  OBVIOUS
<1>3. Decrypted(f, adu) \in
        {[status |-> "ERR_CRC"],
         [status |-> "OK", addr |-> f.addr, pdu_len |-> n, pdu |-> SubSeq(adu, 2, n + 1)]}
  BY ONLY <1>1 DEF Decrypted
<1> QED BY <1>2, <1>3

-----------------------------------------------------------------------------
(* The invariant *)

NB == NumBlocks(MAX_ADU)

\* The sender's counters never pass what its frames can need.
Counters ==
  /\ sent \in 0..MaxSent /\ reads \in Nat
  /\ ctr_out \in [Slot -> Nat] /\ ctr_in \in [Slot -> Nat]
  /\ \A s \in Slot : ctr_out[s] <= sent * NB

Frame(s, c, pdu) ==
  [addr |-> s[1], dir |-> s[2], at |-> c, pdu |-> pdu, bytes |-> FrameOf(s, c, pdu)]

\* What is on the wire was built for a PDU that may be sent, at a counter the
\* sender can have, and is whole or damaged once.
OnWire ==
  \/ wire = <<>> /\ origin = NoFrame
  \/ \E s \in DOMAIN Keys, pdu \in Sendable, c \in 0..MaxSent * NB :
        /\ origin = Frame(s, c, pdu)
        /\ wire = origin.bytes \/ wire \in Damaged(origin.bytes)

Told ==
  /\ result.status \in {"NONE", "OK", "ERR_CRC"} \cup Refusals
  /\ result.status = "OK" => /\ result.pdu_len \in 0..MAX_PDU
                             /\ Len(result.pdu) = result.pdu_len

LEMMA BlocksTyped ==
  /\ \A len \in Nat : NumBlocks(len) \in Nat
  /\ SecureFrameAssumption =>
       /\ NB \in Nat /\ MAX_ADU \in Nat
       /\ \A len \in 0..MAX_ADU : NumBlocks(len) <= NB
<1>1. \A len \in Nat : NumBlocks(len) \in Nat
  BY DEF NumBlocks
<1>2. ASSUME SecureFrameAssumption PROVE MAX_ADU \in Nat
  BY <1>2 DEF SecureFrameAssumption, MAX_ADU, ADDR_LEN, CRC_LEN
<1>3. ASSUME NEW m \in Nat, NEW len \in 0..m PROVE NumBlocks(len) <= NumBlocks(m)
  BY <1>3 DEF NumBlocks
<1> QED BY <1>1, <1>2, <1>3 DEF NB

LEMMA CountersInit ==
  ASSUME SecureFrameAssumption, Init
  PROVE  Counters
<1>1. NB \in Nat /\ MaxSent \in Nat
  BY BlocksTyped DEF SecureFrameAssumption
<1>2. 0 * NB = 0
  BY <1>1
<1> QED BY <1>1, <1>2 DEF Init, Counters

LEMMA BuildStep ==
  ASSUME SecureFrameAssumption, PrimitiveLaws, Counters, OnWire, EncryptAndBuild
  PROVE  Counters' /\ OnWire'
<1>1. NB \in Nat /\ MaxSent \in Nat
  BY BlocksTyped DEF SecureFrameAssumption
<1>2. /\ sent \in Nat /\ sent + 1 <= MaxSent /\ sent' = sent + 1 /\ UNCHANGED <<ctr_in, reads>>
      /\ reads \in Nat /\ ctr_in \in [Slot -> Nat] /\ ctr_out \in [Slot -> Nat]
      /\ \A s \in Slot : ctr_out[s] <= sent * NB
  BY DEF EncryptAndBuild, Counters, SecureFrameAssumption
<1>3. PICK room \in Nat : room = sent * NB
  BY <1>1, <1>2
<1>4. sent' * NB = room + NB
  BY <1>1, <1>2, <1>3
<1>5. room <= MaxSent * NB /\ MaxSent * NB \in Nat
  <2>1. PICK more \in Nat : MaxSent = sent + more
    BY <1>1, <1>2
  <2>2. MaxSent * NB = room + more * NB /\ more * NB \in Nat
    BY <1>1, <1>2, <1>3, <2>1
  <2> QED BY <2>2
<1>6. PICK addr \in Addrs, dir \in Dirs, pdu \in Pdus :
         LET s == <<addr, dir>>
             bytes == FrameOf(s, ctr_out[s], pdu)
         IN IF TooLong(pdu) \/ s \notin DOMAIN Keys
            THEN UNCHANGED <<ctr_out, wire, origin>>
            ELSE /\ ctr_out' = [ctr_out EXCEPT ![s] = @ + NumBlocks(Len(Adu(addr, pdu)))]
                 /\ wire' = bytes
                 /\ origin' = [addr |-> addr, dir |-> dir, at |-> ctr_out[s], pdu |-> pdu, bytes |-> bytes]
  BY Zenon DEF EncryptAndBuild
<1> DEFINE s == <<addr, dir>>
<1>7. s \in Slot
  BY DEF Slot
<1>8. CASE TooLong(pdu) \/ s \notin DOMAIN Keys
  <2>1. UNCHANGED <<ctr_out, wire, origin>>
    BY <1>6, <1>8
  <2>2. Counters'
    BY <2>1, <1>1, <1>2, <1>3, <1>4 DEF Counters
  <2> QED BY <2>1, <2>2 DEF OnWire
<1>9. CASE ~TooLong(pdu) /\ s \in DOMAIN Keys
  <2>1. /\ ctr_out' = [ctr_out EXCEPT ![s] = @ + NumBlocks(Len(Adu(addr, pdu)))]
        /\ wire' = FrameOf(s, ctr_out[s], pdu)
        /\ origin' = [addr |-> addr, dir |-> dir, at |-> ctr_out[s], pdu |-> pdu,
                      bytes |-> FrameOf(s, ctr_out[s], pdu)]
    BY <1>6, <1>9
  <2>2. pdu \in Sendable
    BY <1>9 DEF Sendable
  <2>3. PICK len \in 0..MAX_ADU : len = Len(Adu(addr, pdu))
    <3>1. pdu \in Seq(Byte) /\ Len(pdu) \in 0..MAX_PDU /\ addr \in Byte /\ MAX_PDU \in Nat
      BY <2>2, SendableIs DEF SecureFrameAssumption
    <3>2. Len(Adu(addr, pdu)) = Len(pdu) + 3
      BY <3>1, AduParts
    <3> QED BY <3>1, <3>2 DEF MAX_ADU, ADDR_LEN, CRC_LEN
  <2>4. NumBlocks(len) \in Nat /\ NumBlocks(len) <= NB
    BY <2>3, BlocksTyped
  <2>5. Counters'
    <3>1. ctr_out' \in [Slot -> Nat]
      BY <1>2, <1>7, <2>1, <2>3, <2>4
    <3>2. ASSUME NEW t \in Slot PROVE ctr_out'[t] <= room + NB
      <4>1. ctr_out[t] \in Nat /\ ctr_out[t] <= room
        BY <1>2, <1>3, <3>2
      <4>2. ctr_out'[t] = IF t = s THEN ctr_out[t] + NumBlocks(len) ELSE ctr_out[t]
        BY <1>2, <1>7, <2>1, <2>3, <3>2
      <4> QED BY <1>1, <2>4, <4>1, <4>2
    <3> QED BY <1>1, <1>2, <1>4, <3>1, <3>2 DEF Counters
  <2>6. ctr_out[s] \in 0..MaxSent * NB
    <3>1. ctr_out[s] \in Nat /\ ctr_out[s] <= room
      BY <1>2, <1>3, <1>7
    <3> QED BY <1>5, <3>1
  <2>7. origin' = Frame(s, ctr_out[s], pdu) /\ wire' = origin'.bytes
    BY <2>1 DEF Frame
  <2>8. OnWire'
    <3> HIDE DEF s
    <3> QED BY <1>9, <2>2, <2>6, <2>7, Zenon DEF OnWire
  <2> QED BY <2>5, <2>8
<1> QED BY <1>8, <1>9

LEMMA DamageStep ==
  ASSUME SecureFrameAssumption, Counters, OnWire, Damage
  PROVE  Counters' /\ OnWire'
<1>1. wire # <<>> /\ wire = origin.bytes /\ wire' \in Damaged(origin.bytes)
      /\ UNCHANGED <<ctr_out, ctr_in, origin, asked, result, sent, reads>>
  BY DEF Damage
<1>2. Counters'
  BY <1>1 DEF Counters
<1>3. PICK s \in DOMAIN Keys, pdu \in Sendable, c \in 0..MaxSent * NB : origin = Frame(s, c, pdu)
  BY <1>1 DEF OnWire
<1>4. OnWire'
  BY <1>1, <1>3, Zenon DEF OnWire
<1> QED BY <1>2, <1>4

LEMMA LoseStep ==
  ASSUME Counters, Lose
  PROVE  Counters' /\ OnWire'
BY DEF Lose, Counters, OnWire

LEMMA WireTyped ==
  ASSUME SecureFrameAssumption, PrimitiveLaws, OnWire
  PROVE  /\ wire \in Seq(Byte)
         /\ origin.bytes \in Seq(Byte) /\ Len(origin.bytes) <= MAX_WIRE_LEN
<1>1. {MAX_PDU, HMAC_LEN, MaxSent} \subseteq Nat /\ NB \in Nat
  BY BlocksTyped DEF SecureFrameAssumption
<1>2. CASE wire = <<>> /\ origin = NoFrame
  BY <1>1, <1>2 DEF NoFrame, MAX_WIRE_LEN, MAX_ADU, ADDR_LEN, CRC_LEN
<1>3. ASSUME NEW s \in DOMAIN Keys, NEW pdu \in Sendable, NEW c \in 0..MaxSent * NB,
             origin = Frame(s, c, pdu), wire = origin.bytes \/ wire \in Damaged(origin.bytes)
      PROVE  /\ wire \in Seq(Byte)
             /\ origin.bytes \in Seq(Byte) /\ Len(origin.bytes) <= MAX_WIRE_LEN
  <2>1. origin.bytes = FrameOf(s, c, pdu)
    BY <1>3 DEF Frame
  <2>2. c \in Nat /\ pdu \in Seq(Byte) /\ Len(pdu) \in 0..MAX_PDU
    BY <1>1, <1>3, SendableIs
  <2>3. origin.bytes \in Seq(Byte) /\ Len(origin.bytes) = Len(pdu) + 4 + HMAC_LEN
    BY <1>3, <2>1, <2>2, FrameParts
  <2>4. Len(origin.bytes) <= MAX_WIRE_LEN
    BY <1>1, <2>2, <2>3 DEF MAX_WIRE_LEN, MAX_ADU, ADDR_LEN, CRC_LEN
  <2> QED BY <1>3, <2>3, <2>4, DamagedTyped
<1> QED BY <1>2, <1>3 DEF OnWire

LEMMA ParsesIs ==
  ASSUME SecureFrameAssumption, NEW w \in Seq(Byte), Parses(w)
  PROVE  /\ w # <<>>
         /\ secure_frame_parse(w).ciphertext \in Seq(Byte)
         /\ Len(secure_frame_parse(w).ciphertext) \in Nat
<1> DEFINE n == CiphertextLen(Len(w))
<1>0. MAX_ADU \in Nat /\ Len(w) \in Nat
  BY BlocksTyped
<1>1. HMAC_LEN \in Nat /\ MAX_ADU \in Nat /\ Len(w) \in Nat
  BY <1>0 DEF SecureFrameAssumption
<1>2. n \in Nat /\ n = Len(w) - 1 - HMAC_LEN
  BY <1>1 DEF Parses, CiphertextLen, ADDR_LEN
<1>3. secure_frame_parse(w).ciphertext = SubSeq(w, 2, 1 + n)
  BY DEF secure_frame_parse
<1> HIDE DEF n
<1>4. 1 + n \in Nat /\ 1 + n <= Len(w)
  BY <1>1, <1>2
<1>5. SubSeq(w, 2, 1 + n) \in Seq(Byte)
  BY <1>4
<1>6. w # <<>>
  BY <1>1, <1>2
<1> HIDE DEF n
<1> QED BY <1>3, <1>5, <1>6

\* The two ways a call of secure_frame_verify_and_decrypt can go.
Refused(a, d) ==
  /\ Refusal(wire, a, d) # "none"
  /\ result' = [status |-> Refusal(wire, a, d)] /\ ctr_in' = ctr_in

Opened(a, d) ==
  LET f == secure_frame_parse(wire)
      s == <<f.addr, d>>
  IN /\ Refusal(wire, a, d) = "none"
     /\ ctr_in' = [ctr_in EXCEPT ![s] = @ + NumBlocks(Len(f.ciphertext))]
     /\ result' = Decrypted(f, lea_ctr_crypt(Keys[s].enc, ctr_in[s], f.ciphertext))

LEMMA VerifyIs ==
  ASSUME VerifyAndDecrypt
  PROVE  /\ reads' = reads + 1 /\ UNCHANGED <<ctr_out, wire, origin, sent>>
         /\ \E a, d : asked' = [addr |-> a, dir |-> d] /\ (Refused(a, d) \/ Opened(a, d))
<1>1. PICK a \in Addrs \cup {ANY_ADDR}, d \in Dirs :
        LET r == Refusal(wire, a, d)
            f == secure_frame_parse(wire)
            s == <<f.addr, d>>
        IN /\ asked' = [addr |-> a, dir |-> d]
           /\ IF r # "none"
              THEN result' = [status |-> r] /\ UNCHANGED ctr_in
              ELSE /\ ctr_in' = [ctr_in EXCEPT ![s] = @ + NumBlocks(Len(f.ciphertext))]
                   /\ result' = Decrypted(f, lea_ctr_crypt(Keys[s].enc, ctr_in[s], f.ciphertext))
  BY Zenon DEF VerifyAndDecrypt
<1>2. asked' = [addr |-> a, dir |-> d]
  BY <1>1
<1>3. Refused(a, d) \/ Opened(a, d)
  <2>1. CASE Refusal(wire, a, d) = "none"
    BY <1>1, <2>1, Zenon DEF Opened
  <2>2. CASE Refusal(wire, a, d) # "none"
    BY <1>1, <2>2 DEF Refused
  <2> QED BY <2>1, <2>2
<1>4. reads' = reads + 1 /\ UNCHANGED <<ctr_out, wire, origin, sent>>
  BY DEF VerifyAndDecrypt
<1> QED BY <1>2, <1>3, <1>4

LEMMA VerifyStep ==
  ASSUME SecureFrameAssumption, PrimitiveLaws, Counters, OnWire, VerifyAndDecrypt
  PROVE  Counters' /\ OnWire'
<1>1. reads' = reads + 1 /\ UNCHANGED <<ctr_out, wire, origin, sent>>
  BY VerifyIs
<1>2. PICK a, d : Refused(a, d) \/ Opened(a, d)
  BY VerifyIs
<1>3. ctr_in' \in [Slot -> Nat]
  <2>1. CASE Refused(a, d)
    BY <2>1 DEF Refused, Counters
  <2>2. CASE Opened(a, d)
    <3> DEFINE f == secure_frame_parse(wire)
               s == <<f.addr, d>>
    <3>1. s \in Slot /\ Parses(wire)
      BY <2>2, RefusalNone DEF Opened, SecureFrameAssumption
    <3>2. Len(f.ciphertext) \in Nat
      BY <3>1, WireTyped, ParsesIs
    <3>3. ctr_in' = [ctr_in EXCEPT ![s] = @ + NumBlocks(Len(f.ciphertext))]
      BY <2>2 DEF Opened
    <3>4. NumBlocks(Len(f.ciphertext)) \in Nat
      BY <3>2, BlocksTyped
    <3> HIDE DEF f, s
    <3> QED BY <3>1, <3>3, <3>4 DEF Counters
  <2> QED BY <1>2, <2>1, <2>2
<1>4. Counters'
  BY <1>1, <1>3 DEF Counters
<1> QED BY <1>1, <1>4 DEF OnWire

\* The whole frame, asked for at its counter, gives back its PDU.
LEMMA ExpectedStep ==
  ASSUME SecureFrameAssumption, PrimitiveLaws, Counters, OnWire, VerifyAndDecrypt, Expected
  PROVE  /\ result' = [status |-> "OK", addr |-> origin.addr, pdu_len |-> Len(origin.pdu),
                       pdu |-> origin.pdu]
         /\ ctr_in'[origin.addr, origin.dir] = origin.at + NumBlocks(Len(origin.pdu) + 3)
<1>1. PICK a, d : asked' = [addr |-> a, dir |-> d] /\ (Refused(a, d) \/ Opened(a, d))
  BY VerifyIs
<1>2. /\ wire # <<>> /\ wire = origin.bytes
      /\ a \in {origin.addr, ANY_ADDR} /\ d = origin.dir
      /\ ctr_in[<<origin.addr, origin.dir>>] = origin.at
  BY <1>1 DEF Expected
<1>3. PICK s \in DOMAIN Keys, pdu \in Sendable, c \in 0..MaxSent * NB : origin = Frame(s, c, pdu)
  BY <1>2 DEF OnWire
<1>4. c \in Nat /\ pdu \in Seq(Byte) /\ s \in Slot /\ s[1] \in Byte /\ s = <<s[1], s[2]>>
  BY SendableIs, SlotIs
<1>5. /\ origin.addr = s[1] /\ origin.dir = s[2] /\ origin.at = c /\ origin.pdu = pdu
      /\ origin.bytes = FrameOf(s, c, pdu)
  BY <1>3 DEF Frame
<1>6. Refusal(wire, a, d) = "none"
  BY <1>2, <1>4, <1>5, BuiltPasses
<1>7. Opened(a, d)
  BY <1>1, <1>6 DEF Refused
<1> DEFINE f == secure_frame_parse(wire)
           ct == Sealed(s, c, pdu)
<1>8. f.addr = s[1] /\ f.ciphertext = ct
  <2>1. wire = FrameOf(s, c, pdu)
    BY <1>2, <1>5
  <2> QED BY <1>4, <2>1, FrameFields
<1>9. Len(ct) = Len(pdu) + 3
  BY <1>4, SealedTyped
<1>10. lea_ctr_crypt(Keys[s].enc, c, ct) = Adu(s[1], pdu)
  BY <1>4, AduParts, CryptTwice DEF Sealed
<1>11. <<f.addr, d>> = s
  BY <1>2, <1>4, <1>5, <1>8
<1>12. /\ ctr_in' = [ctr_in EXCEPT ![s] = @ + NumBlocks(Len(f.ciphertext))]
       /\ result' = Decrypted(f, lea_ctr_crypt(Keys[s].enc, ctr_in[s], f.ciphertext))
  BY <1>7, <1>11, Zenon DEF Opened
<1> HIDE DEF f, ct
<1>13. ctr_in[s] = c
  BY <1>2, <1>4, <1>5
<1>14. result' = Decrypted(f, Adu(s[1], pdu))
  BY <1>8, <1>10, <1>12, <1>13
<1>15. result' = [status |-> "OK", addr |-> s[1], pdu_len |-> Len(pdu), pdu |-> pdu]
  BY <1>4, <1>8, <1>14, DecryptedBuilt
<1>16. ctr_in'[s] = c + NumBlocks(Len(pdu) + 3)
  BY <1>4, <1>8, <1>9, <1>12, <1>13 DEF Counters
<1> QED BY <1>4, <1>5, <1>15, <1>16

\* With an HMAC that cannot be forged, nothing but the whole frame is taken,
\* in its direction; whatever was damaged leaves the counter alone.
LEMMA OnlyWhole ==
  ASSUME SecureFrameAssumption, PrimitiveLaws, NoForgery, Counters, OnWire, VerifyAndDecrypt
  PROVE  /\ Told'
         /\ result'.status = "OK" => /\ wire = origin.bytes /\ result'.addr = origin.addr
                                     /\ asked'.dir = origin.dir
         /\ wire # origin.bytes => ctr_in' = ctr_in
<1>1. PICK a, d : asked' = [addr |-> a, dir |-> d] /\ (Refused(a, d) \/ Opened(a, d))
  BY VerifyIs
<1>2. CASE Refused(a, d)
  <2>1. result'.status \in Refusals
    BY <1>2, RefusalIs DEF Refused
  <2>2. result'.status # "OK"
    BY <2>1 DEF Refusals
  <2>3. Told'
    BY <2>1, <2>2 DEF Told
  <2> QED BY <1>2, <2>2, <2>3 DEF Refused
<1>3. CASE Opened(a, d)
  <2>1. Refusal(wire, a, d) = "none"
    BY <1>3 DEF Opened
  <2>2. wire # <<>>
    <3>1. Parses(wire)
      BY <2>1, RefusalNone
    <3> QED BY <3>1, WireTyped, ParsesIs
  <2>3. PICK s \in DOMAIN Keys, pdu \in Sendable, c \in 0..MaxSent * NB :
           origin = Frame(s, c, pdu) /\ (wire = origin.bytes \/ wire \in Damaged(origin.bytes))
    BY <2>2 DEF OnWire
  <2>4. c \in Nat /\ pdu \in Seq(Byte) /\ Len(pdu) \in 0..MAX_PDU /\ s \in Slot /\ s = <<s[1], s[2]>>
    BY SendableIs, SlotIs
  <2>5. /\ origin.addr = s[1] /\ origin.dir = s[2] /\ origin.bytes = FrameOf(s, c, pdu)
    BY <2>3 DEF Frame
  <2>6. c \in 0..MaxSent * NumBlocks(MAX_ADU)
    BY DEF NB
  <2>7. wire = FrameOf(s, c, pdu)
    <3> SUFFICES ASSUME wire \in Damaged(FrameOf(s, c, pdu))
                 PROVE  FALSE
      BY <2>3, <2>5
    <3> QED BY <2>1, <2>6, DamagedFails
  <2>8. d = s[2]
    BY <2>1, <2>6, <2>7, OtherDirFails
  <2> DEFINE f == secure_frame_parse(wire)
             adu == lea_ctr_crypt(Keys[s].enc, ctr_in[s], f.ciphertext)
  <2>9. f.addr = s[1] /\ f.ciphertext = Sealed(s, c, pdu)
    BY <2>4, <2>7, FrameFields
  <2>10. <<f.addr, d>> = s
    BY <2>4, <2>8, <2>9
  <2>11. result' = Decrypted(f, adu)
    BY <1>3, <2>10, Zenon DEF Opened
  <2> HIDE DEF f
  <2>12. adu \in Seq(Byte) /\ Len(adu) = Len(pdu) + 3
    <3>1. ctr_in[s] \in Nat
      BY <2>4 DEF Counters
    <3>2. f.ciphertext \in Seq(Byte) /\ Len(f.ciphertext) = Len(pdu) + 3
      BY <2>4, <2>9, SealedTyped
    <3> QED BY <3>1, <3>2, CryptTyped
  <2> HIDE DEF adu
  <2>13. /\ result'.status \in {"OK", "ERR_CRC"}
         /\ result'.status = "OK" =>
              /\ result'.addr = s[1]
              /\ result'.pdu_len = Len(pdu) /\ Len(result'.pdu) = Len(pdu)
    <3>1. Len(pdu) \in Nat
      BY <2>4
    <3> QED BY <2>9, <2>11, <2>12, <3>1, DecryptedIs
  <2>14. Told'
    BY <2>4, <2>13 DEF Told
  <2> QED BY <1>1, <2>5, <2>7, <2>8, <2>13, <2>14
<1> QED BY <1>1, <1>2, <1>3

-----------------------------------------------------------------------------
(* The theorems *)

\* The counters and the wire, for any HMAC.
LEMMA Keeps ==
  ASSUME SecureFrameAssumption, PrimitiveLaws, Counters, OnWire, [Next]_vars
  PROVE  Counters' /\ OnWire'
<1>1. CASE EncryptAndBuild
  BY <1>1, BuildStep
<1>2. CASE Damage
  BY <1>2, DamageStep
<1>3. CASE VerifyAndDecrypt
  BY <1>3, VerifyStep
<1>4. CASE Lose
  BY <1>4, LoseStep
<1>5. CASE UNCHANGED vars
  BY <1>5 DEF vars, Counters, OnWire
<1> QED BY <1>1, <1>2, <1>3, <1>4, <1>5 DEF Next

LEMMA Starts ==
  ASSUME SecureFrameAssumption, Init
  PROVE  Counters /\ OnWire /\ Told
BY CountersInit DEF Init, OnWire, Told, NoResult

\* Only a call of secure_frame_verify_and_decrypt reads.
LEMMA ReadsIs ==
  ASSUME Counters, [Next]_vars, reads' > reads
  PROVE  VerifyAndDecrypt
<1>1. reads \in Nat
  BY DEF Counters
<1>2. CASE EncryptAndBuild \/ Damage \/ Lose \/ UNCHANGED vars
  BY <1>1, <1>2 DEF EncryptAndBuild, Damage, Lose, vars
<1> QED BY <1>2 DEF Next

\* A frame that arrives as it was built, is asked for and finds the receiver
\* at its counter is accepted, gives back the PDU that was sent and leaves
\* the receiver's counter where the sender's was left: for every keystream
\* and every HMAC (verify_and_decrypt 141-191 against encrypt_and_build
\* 93-116).
Accepted ==
  [][reads' > reads /\ Expected =>
       /\ result' = [status |-> "OK", addr |-> origin.addr, pdu_len |-> Len(origin.pdu),
                     pdu |-> origin.pdu]
       /\ ctr_in'[origin.addr, origin.dir] = origin.at + NumBlocks(Len(origin.pdu) + 3)]_vars

THEOREM WholeIsAccepted ==
  SecureFrameAssumption /\ PrimitiveLaws => (Spec => Accepted)
<1> SUFFICES ASSUME SecureFrameAssumption, PrimitiveLaws
             PROVE  Spec => Accepted
  OBVIOUS
<1>1. Init => Counters /\ OnWire
  BY Starts
<1>2. (Counters /\ OnWire) /\ [Next]_vars => (Counters /\ OnWire)'
  BY Keeps
<1>3. (Counters /\ OnWire) /\ [Next]_vars =>
        [reads' > reads /\ Expected =>
           /\ result' = [status |-> "OK", addr |-> origin.addr, pdu_len |-> Len(origin.pdu),
                         pdu |-> origin.pdu]
           /\ ctr_in'[origin.addr, origin.dir] = origin.at + NumBlocks(Len(origin.pdu) + 3)]_vars
  BY ReadsIs, ExpectedStep
<1> QED BY <1>1, <1>2, <1>3, PTL DEF Spec, Accepted

\* With an HMAC that lets no damaged frame through, every part of RoundTrip:
\* what is accepted is what the peer built, for the address and direction
\* asked for, and a damaged frame moves no counter.
THEOREM TripIsRound ==
  SecureFrameAssumption /\ PrimitiveLaws /\ NoForgery => (Spec => RoundTrip)
<1> SUFFICES ASSUME SecureFrameAssumption, PrimitiveLaws, NoForgery
             PROVE  Spec => RoundTrip
  OBVIOUS
<1>1. Init => Counters /\ OnWire
  BY Starts
<1>2. (Counters /\ OnWire) /\ [Next]_vars => (Counters /\ OnWire)'
  BY Keeps
<1>3. (Counters /\ OnWire) /\ [Next]_vars =>
        [reads' > reads =>
           /\ Expected =>
                 /\ result' = [status |-> "OK", addr |-> origin.addr, pdu_len |-> Len(origin.pdu),
                               pdu |-> origin.pdu]
                 /\ ctr_in'[origin.addr, origin.dir] = origin.at + NumBlocks(Len(origin.pdu) + 3)
           /\ result'.status = "OK" => /\ wire = origin.bytes /\ result'.addr = origin.addr
                                       /\ asked'.dir = origin.dir
           /\ wire # origin.bytes => UNCHANGED ctr_in]_vars
  BY ReadsIs, ExpectedStep, OnlyWhole
<1> QED BY <1>1, <1>2, <1>3, PTL DEF Spec, RoundTrip

\* Frames fit the buffers that are kept for them, whatever is on the wire is
\* bytes, and what is given to the caller has a length a PDU can have, though
\* it is a difference (secure_frame.h 18-24, secure_frame.c 188).
THEOREM FramesTyped ==
  SecureFrameAssumption /\ PrimitiveLaws /\ NoForgery => (Spec => []TypeOK)
<1> SUFFICES ASSUME SecureFrameAssumption, PrimitiveLaws, NoForgery
             PROVE  Spec => []TypeOK
  OBVIOUS
<1> DEFINE FrameInv == Counters /\ OnWire /\ Told
<1>1. Init => FrameInv
  BY Starts
<1>2. FrameInv /\ [Next]_vars => FrameInv'
  <2> SUFFICES ASSUME FrameInv, [Next]_vars
               PROVE  FrameInv'
    OBVIOUS
  <2>1. Counters' /\ OnWire'
    BY Keeps
  <2>2. Told'
    <3>1. CASE VerifyAndDecrypt
      BY <3>1, OnlyWhole
    <3>2. CASE EncryptAndBuild \/ Damage \/ Lose \/ UNCHANGED vars
      BY <3>2 DEF EncryptAndBuild, Damage, Lose, vars, Told
    <3> QED BY <3>1, <3>2 DEF Next
  <2> QED BY <2>1, <2>2
<1>3. FrameInv => TypeOK
  <2> SUFFICES ASSUME FrameInv
               PROVE  TypeOK
    OBVIOUS
  <2>1. \A i \in DOMAIN wire : wire[i] \in Byte
    BY WireTyped
  <2>2. Len(origin.bytes) <= MAX_WIRE_LEN
    BY WireTyped
  <2> QED BY <2>1, <2>2 DEF TypeOK, Told, Refusals
<1> QED BY <1>1, <1>2, <1>3, PTL DEF Spec

=============================================================================
