------------------------------ MODULE MCCrypto ------------------------------
(***************************************************************************)
(* The parts of MCCipher and those of MCHash, one at a time.  The cipher's *)
(* and the hash's variables stay Unused in each other's parts.             *)
(***************************************************************************)
EXTENDS MCCipher

VARIABLES
  hctx, hret, hfed, hphase,
  begun, opad, algtype, input, msg, j, sc, cv, even, odd, gen, hash   \* MCHash

Digest == INSTANCE MCHash WITH ctx <- hctx, ret <- hret, fed <- hfed, phase <- hphase

hashing == <<hctx, hret, hfed, hphase, begun, opad, algtype, input, msg, j, sc, cv, even, odd,
             gen, hash>>

NoHash == /\ hctx = Unused /\ hret = Unused /\ hfed = Unused /\ hphase = Unused
          /\ begun = Unused /\ opad = Unused /\ algtype = Unused /\ input = Unused
          /\ msg = Unused /\ j = Unused /\ sc = Unused /\ cv = Unused
          /\ even = Unused /\ odd = Unused /\ gen = Unused /\ hash = Unused

CryptoInit ==
  \/ CipherInit /\ NoHash
  \/ Digest!Init /\ NoBlocks /\ NoOnline

CryptoNext ==
  \/ part \in {"blocks", "words", "online"} /\ CipherNext /\ UNCHANGED hashing
  \/ part \in {"bits", "tag", "lsh256", "lsh512"} /\ Digest!Next /\ UNCHANGED <<vars, online>>

CryptoSpec == CryptoInit /\ [][CryptoNext]_<<part, vars, online, hashing>>

-----------------------------------------------------------------------------
\* The hashes are the published ones, and every table is what the general
\* initialisation computes (MCHash!HashesAgree; lsh256.c 306-342, 393-411).
HashesAgree == Digest!HashesAgree

\* A hash that is given is that of the whole message, in every cut (lsh256.c
\* 475-571).
HashOfWhole == Digest!HashOfWhole

\* A tag that is given is the HMAC of the message (hmac.c 26-158).
TagIsHmac == Digest!TagIsHmac
=============================================================================
