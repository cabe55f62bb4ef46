------------------------------ MODULE LeaLaws ------------------------------
(***************************************************************************)
(* What the cipher of Lea needs of the machine's words: unsigned addition  *)
(* can be undone by subtraction, exclusive or by itself, and ROL and ROR   *)
(* by each other.                                                          *)
(***************************************************************************)
EXTENDS Lea

ASSUME WordLaws ==
    /\ \A a, b \in Word : /\ Add(a, b) \in Word
                          /\ Sub(a, b) \in Word
                          /\ Exor(a, b) \in Word
                          /\ Sub(Add(a, b), a) = b
                          /\ Exor(Exor(a, b), b) = a
    /\ \A a \in Word : \A i \in 1..17 : /\ Rol(a, i) \in Word
                                        /\ Ror(a, i) \in Word
                                        /\ Ror(Rol(a, i), i) = a
                                        /\ Rol(Ror(a, i), i) = a

ASSUME TableLaw == \A k \in 0..7 : \A i \in 0..31 : Delta(k, i) \in Word

ASSUME InputLaw ==
    /\ NoWord \notin Word
    /\ \A m \in MasterKeys : m \in Seq(Word)
    /\ Plaintexts \subseteq [0..3 -> Word]
=============================================================================
