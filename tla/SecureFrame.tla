---------------------------- MODULE SecureFrame ----------------------------
(***************************************************************************)
(* src/framing/secure_frame.c byte by byte, with the wrappers it calls     *)
(* (crypto/lea_ctr.c, crypto/hmac_lsh.c): a PDU becomes an ADU with a CRC, *)
(* is encrypted at the sender's counter, tagged and laid out as a frame;   *)
(* the other end takes a frame apart again.  SecureLink treats the same    *)
(* frames as whole; here are their lengths, their bytes and what happens   *)
(* to them on the way.                                                     *)
(*                                                                         *)
(* The block cipher's keystream and the HMAC are constants.  What the      *)
(* receiver relies on a tag for is NoForgery; what proofs take for granted *)
(* of their arithmetic is PrimitiveLaws of SecureFrame_proofs.             *)
(***************************************************************************)
EXTENDS Integers, Sequences

CONSTANTS
    MAX_PDU,          \* SECURE_FRAME_MAX_PDU
    HMAC_LEN,         \* SECURE_FRAME_HMAC_LEN
    Pdus,             \* PDUs that are sent; some may be too long
    Addrs,            \* addresses
    Dirs,             \* directions
    Keys,             \* <<addr, dir>> -> [enc, mac], as keys.txt says it
    Damages,          \* values a byte is changed to
    Exor(_, _),       \* of integers
    Pad(_, _, _),     \* keystream byte i of a counter block under a key
    Hmac(_, _),       \* HMAC-LSH256 of a message under a key: HMAC_LEN bytes
    MaxSent, MaxReads  \* bounds: frames built, frames read

ADDR_LEN == 1
CRC_LEN == 2
MAX_ADU == ADDR_LEN + MAX_PDU + CRC_LEN
MAX_WIRE_LEN == ADDR_LEN + MAX_ADU + HMAC_LEN
ANY_ADDR == 255

VARIABLES
    ctr_out,   \* the sender's counters, per address and direction
    ctr_in,    \* the receiver's
    wire,      \* the bytes on the wire, or kept in sent_frame.bin
    origin,    \* history: what they were when they were built
    asked,     \* history: the address and direction it was asked for
    result,    \* what verify_and_decrypt gave its caller
    sent, reads

vars == <<ctr_out, ctr_in, wire, origin, asked, result, sent, reads>>

Slot == Addrs \X Dirs
NoFrame == [addr |-> ANY_ADDR, dir |-> 0, at |-> 0, pdu |-> <<>>, bytes |-> <<>>]
NoResult == [status |-> "NONE"]

-----------------------------------------------------------------------------
(* CRC, cipher, layout *)

UINT8_MAX == 255
UINT16_MAX == 65535
Byte == 0..UINT8_MAX
Word == 0..UINT16_MAX

CrcBit == [c \in Word |-> IF c % 2 = 1 THEN Exor(c \div 2, 40961) ELSE c \div 2]

CrcByte(crc, b) ==
    LET shift[bits \in 0..8] == IF bits = 0 THEN Exor(crc, b) ELSE CrcBit[shift[bits - 1]]
    IN shift[8]

secure_frame_crc16(buf) ==
    LET next == [b \in Byte |-> [crc \in Word |-> CrcByte(crc, b)]]
        over[i \in 0..Len(buf)] == IF i = 0 THEN UINT16_MAX ELSE next[buf[i]][over[i - 1]]
    IN over[Len(buf)]

CrcBytes(crc) == <<crc % 256, crc \div 256>>

\* lea_ctr_crypt: byte i is masked with the block of counter + i div 16; the
\* same call encrypts and decrypts.
lea_ctr_crypt(key, ctr, in) ==
    [i \in DOMAIN in |-> Exor(in[i], Pad(key, ctr + (i - 1) \div 16, (i - 1) % 16))]

\* What the receiver puts together from an ADU's last two bytes.
CrcOf(adu) == adu[Len(adu) - 1] + 256 * adu[Len(adu)]

NumBlocks(len) == IF len = 0 THEN 1 ELSE (len + 15) \div 16

secure_frame_build(addr, ciphertext, hmac) == <<addr>> \o ciphertext \o hmac

CiphertextLen(len) == len - ADDR_LEN - HMAC_LEN

Parses(w) == CiphertextLen(Len(w)) \in 0..MAX_ADU

secure_frame_parse(w) ==
    LET n == CiphertextLen(Len(w))
    IN [addr |-> w[1], ciphertext |-> SubSeq(w, 2, 1 + n), hmac |-> SubSeq(w, 2 + n, Len(w))]

-----------------------------------------------------------------------------
TooLong(pdu) == Len(pdu) > MAX_PDU
Sendable == {pdu \in Pdus : ~TooLong(pdu)}

Adu(addr, pdu) ==
    LET head == <<addr>> \o pdu
        crc == secure_frame_crc16(head)
    IN head \o CrcBytes(crc)

\* The frame of a PDU for an address and direction, at a counter.
FrameOf(s, ctr, pdu) ==
    LET adu == Adu(s[1], pdu)
        ct == lea_ctr_crypt(Keys[s].enc, ctr, adu)
    IN secure_frame_build(s[1], ct, Hmac(Keys[s].mac, <<s[1]>> \o ct))

\* secure_frame_encrypt_and_build; a PDU that is too long or a missing key
\* stops it before the counter moves.
EncryptAndBuild ==
    /\ sent < MaxSent
    /\ sent' = sent + 1
    /\ \E addr \in Addrs, dir \in Dirs, pdu \in Pdus :
        LET s == <<addr, dir>>
            bytes == FrameOf(s, ctr_out[s], pdu)
        IN IF TooLong(pdu) \/ s \notin DOMAIN Keys
           THEN UNCHANGED <<ctr_out, wire, origin>>
           ELSE /\ ctr_out' = [ctr_out EXCEPT ![s] = @ + NumBlocks(Len(Adu(addr, pdu)))]
                /\ wire' = bytes
                /\ origin' = [addr |-> addr, dir |-> dir, at |-> ctr_out[s], pdu |-> pdu, bytes |-> bytes]
    /\ UNCHANGED <<ctr_in, asked, result, reads>>

\* What may become of a frame: a byte changes, bytes get lost or are added.
Changed(w) == {[w EXCEPT ![i] = b] : i \in DOMAIN w, b \in Damages} \ {w}
CutShort(w) == {SubSeq(w, 1, n) : n \in 0..Len(w) - 1} \cup {SubSeq(w, n, Len(w)) : n \in 2..Len(w)}
Lengthened(w) ==
    {w \o w} \cup UNION {{<<b>> \o w, w \o <<b>>, w \o <<b, b>>} : b \in Damages}

Damaged(w) == Changed(w) \cup CutShort(w) \cup Lengthened(w)

Damage ==
    /\ wire # <<>> /\ wire = origin.bytes
    /\ wire' \in Damaged(wire)
    /\ UNCHANGED <<ctr_out, ctr_in, origin, asked, result, sent, reads>>

\* Wrong: the tag is not compared.
Authentic_any(s, f) == TRUE

Authentic(s, f) == Hmac(Keys[s].mac, <<f.addr>> \o f.ciphertext) = f.hmac

\* What is asked of the constants: bytes, and keys for some of the slots.
SecureFrameAssumption ==
    /\ {MAX_PDU, HMAC_LEN, MaxSent} \subseteq Nat
    /\ \A pdu \in Pdus : pdu \in Seq(Byte)
    /\ Addrs \subseteq Byte /\ Damages \subseteq Byte
    /\ DOMAIN Keys \subseteq Slot

ExorUndoes == \A a, b \in Byte : Exor(a, b) \in Byte /\ Exor(Exor(a, b), b) = a

\* No damage of a frame that may be sent leaves it with a tag that verifies,
\* and its tag verifies in no other direction.
NoForgery ==
    \A s, t \in DOMAIN Keys : \A pdu \in Sendable : \A ctr \in 0..MaxSent * NumBlocks(MAX_ADU) :
        LET w == FrameOf(s, ctr, pdu)
            Passes(v) ==
                /\ Parses(v)
                /\ LET f == secure_frame_parse(v)
                   IN f.addr = t[1] /\ Hmac(Keys[t].mac, <<f.addr>> \o f.ciphertext) = f.hmac
        IN /\ \A v \in Damaged(w) : ~Passes(v)
           /\ t # s => ~Passes(w)

\* What the checks before the decryption say: the counter stays untouched.
Refusal(w, expected_addr, dir) ==
    IF ~Parses(w) THEN "ERR_MALFORMED"
    ELSE LET f == secure_frame_parse(w)
         IN IF expected_addr # ANY_ADDR /\ f.addr # expected_addr THEN "ERR_WRONG_ADDR"
            ELSE IF <<f.addr, dir>> \notin DOMAIN Keys THEN "ERR_NO_KEY"
            ELSE IF ~Authentic(<<f.addr, dir>>, f) THEN "ERR_HMAC"
            ELSE "none"

\* The last checks, on the decrypted ADU.
Decrypted(f, adu) ==
    LET n == Len(adu)
        body == SubSeq(adu, 1, n - CRC_LEN)
        pdu_len == n - ADDR_LEN - CRC_LEN
    IN IF n < CRC_LEN THEN [status |-> "ERR_CRC"]
       ELSE IF secure_frame_crc16(body) # CrcOf(adu) THEN [status |-> "ERR_CRC"]
       ELSE [status |-> "OK", addr |-> f.addr, pdu_len |-> pdu_len,
             pdu |-> SubSeq(adu, 1 + ADDR_LEN, ADDR_LEN + pdu_len)]

\* secure_frame_verify_and_decrypt.  What was read stays where it is: a file
\* is read again.
VerifyAndDecrypt ==
    /\ reads < MaxReads
    /\ reads' = reads + 1
    /\ \E expected_addr \in Addrs \cup {ANY_ADDR}, dir \in Dirs :
        LET r == Refusal(wire, expected_addr, dir)
            f == secure_frame_parse(wire)
            s == <<f.addr, dir>>
        IN /\ asked' = [addr |-> expected_addr, dir |-> dir]
           /\ IF r # "none"
              THEN result' = [status |-> r] /\ UNCHANGED ctr_in
              ELSE /\ ctr_in' = [ctr_in EXCEPT ![s] = @ + NumBlocks(Len(f.ciphertext))]
                   /\ result' = Decrypted(f, lea_ctr_crypt(Keys[s].enc, ctr_in[s], f.ciphertext))
    /\ UNCHANGED <<ctr_out, wire, origin, sent>>

\* A frame is lost on the way.
Lose ==
    /\ wire # <<>>
    /\ wire' = <<>> /\ origin' = NoFrame
    /\ UNCHANGED <<ctr_out, ctr_in, asked, result, sent, reads>>

Init ==
    /\ ctr_out = [s \in Slot |-> 0] /\ ctr_in = [s \in Slot |-> 0]
    /\ wire = <<>> /\ origin = NoFrame
    /\ asked = [addr |-> ANY_ADDR, dir |-> 0] /\ result = NoResult
    /\ sent = 0 /\ reads = 0

Next == EncryptAndBuild \/ Damage \/ VerifyAndDecrypt \/ Lose

Spec == Init /\ [][Next]_vars

-----------------------------------------------------------------------------
(* Properties *)

\* Whatever the decryption gives is a PDU of a length a PDU can have, though
\* it is a difference of two lengths; and every frame built fits the buffers
\* that are kept for one (secure_frame.h 18-24, secure_frame.c 188).
TypeOK ==
    /\ result.status = "OK" => /\ result.pdu_len \in 0..MAX_PDU
                               /\ Len(result.pdu) = result.pdu_len
    /\ Len(origin.bytes) <= MAX_WIRE_LEN
    /\ \A i \in DOMAIN wire : wire[i] \in Byte
    /\ result.status \in {"NONE", "OK", "ERR_MALFORMED", "ERR_WRONG_ADDR", "ERR_NO_KEY",
                          "ERR_HMAC", "ERR_CRC"}

\* The frame on the wire is the one that was built, the receiver asks for it
\* and has the counter it was built at.
Expected ==
    /\ wire # <<>> /\ wire = origin.bytes
    /\ asked'.addr \in {origin.addr, ANY_ADDR} /\ asked'.dir = origin.dir
    /\ ctr_in[origin.addr, origin.dir] = origin.at

\* A frame that arrives as it was built, at the counter it was built at, is
\* accepted, gives back the PDU and leaves the two counters in step; and what
\* is accepted was built by the peer, for this address and direction.  A
\* damaged frame never moves the receiver's counter, wherever the damage is:
\* the counters only part company when a frame is lost or read twice
\* (verify_and_decrypt 141-191 against encrypt_and_build 93-116).
RoundTrip ==
    [][reads' > reads =>
        /\ Expected =>
              /\ result' = [status |-> "OK", addr |-> origin.addr, pdu_len |-> Len(origin.pdu),
                            pdu |-> origin.pdu]
              /\ ctr_in'[origin.addr, origin.dir] = origin.at + NumBlocks(Len(origin.pdu) + 3)
        /\ result'.status = "OK" => /\ wire = origin.bytes /\ result'.addr = origin.addr
                                    /\ asked'.dir = origin.dir
        /\ wire # origin.bytes => UNCHANGED ctr_in]_vars
=============================================================================
