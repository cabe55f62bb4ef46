----------------------------- MODULE MCPrograms -----------------------------
(***************************************************************************)
(* What the programs do on their own ground, one part of them at a time:   *)
(*   device    ModbusPdu, small, see MCModbusPdu;                          *)
(*   selftest  ModbusSelfTest with the sizes of the code, and between its  *)
(*             runs exchanges apart from the entries it looks at;          *)
(*   keys      KeyStore on the files of MCKeyFiles;                        *)
(*   menu      EnvConfig with answers on both sides of every range;        *)
(*   frame     SecureFrame with PDUs of at most 14 bytes, so that an ADU   *)
(*             of the largest size takes two cipher blocks.                *)
(* The variables of a part that is not looked at stay Unused.              *)
(***************************************************************************)
EXTENDS MCModbusPdu, MCKeyFiles, Bitwise, TLC

VARIABLES
  part,
  tables8, ready8, exchange8,                  \* ModbusPdu with bytes of 8 bits
  next, failed,                                \* ModbusSelfTest
  files, argv0, table, pc, tried, rest, loaded, result, before, cut, loads, edits, faults,
  at, isMaster, config, stdin, eof, wanted,    \* EnvConfig
  ctr_out, ctr_in, wire, origin, asked, told, sent, reads  \* SecureFrame

slave8 == <<tables8, ready8, exchange8>>
test == <<next, failed>>
store == <<files, argv0, table, pc, tried, rest, loaded, result, before, cut, loads, edits, faults>>
menu == <<at, isMaster, config, stdin, eof, wanted>>
frame == <<ctr_out, ctr_in, wire, origin, asked, told, sent, reads>>

-----------------------------------------------------------------------------
Build(f, a, v) ==
  LET P == INSTANCE ModbusPdu WITH
        Width <- 8, TableSize <- 128, MaxReadBits <- 2000, MaxWriteBits <- 1968,
        MaxReadRegs <- 125, MaxWriteRegs <- 123, HoldingSeed <- 4096, InputSeed <- 8192,
        MaxPdu <- 253, Requests <- {}
  IN P!BuildRequest(f, a, v)

Apart == {Build(WriteRegisters, 40, 2), Build(WriteCoils, 46, 9), Build(WriteCoil, 51, 0),
          Build(WriteRegister, 126, 7), Build(WriteRegisters, 2, 122),
          Build(WriteCoils, 2, 124), Build(ReadHolding, 0, 125),
          Build(WriteRegisters, 65535, 2)}

Test == INSTANCE ModbusSelfTest WITH
  Width <- 8, TableSize <- 128, MaxReadBits <- 2000, MaxWriteBits <- 1968,
  MaxReadRegs <- 125, MaxWriteRegs <- 123, HoldingSeed <- 4096, InputSeed <- 8192,
  MaxPdu <- 253, Requests <- Apart, tables <- tables8, ready <- ready8, exchange <- exchange8

Store == INSTANCE KeyStore WITH
  Addrs <- {1}, Places <- {"./keys.txt", "exe/keys.txt", "../keymgmt/keys.txt"},
  Contents <- KeysContents, Argv0 <- {"null", "bare", "dir", "long"}, TextLen <- TextLen,
  Comments <- {"hash"}, Number <- TextNumber, Hex <- TextHex, CtrMod <- 256,
  MaxLoads <- 2, MaxEdits <- 2, MaxFaults <- 1

Answers == {"", "-", "1", "4", "6", "248", "65536"}
AnswerNumber == [a \in Answers |->
  CASE a = "1" -> 1 [] a = "4" -> 4 [] a = "6" -> 6
    [] a = "248" -> 248 [] a = "65536" -> 65536 [] OTHER -> 0]
Console == INSTANCE EnvConfig WITH
  Piece <- Answers, Line <- {<<a>> : a \in Answers}, Number <- AnswerNumber,
  MaxChanged <- 2

ASSUME Store!KeyStoreAssumption /\ Console!EnvConfigAssumption

-----------------------------------------------------------------------------
(* Stand-ins for the keystream and the HMAC of a frame, which differ in    *)
(* every key, counter, position and byte; the CRC is the real one.         *)

XorTable == [a \in 0..255 |-> [b \in 0..255 |-> a ^^ b]]
Xor16(a, b) ==
  256 * XorTable[a \div 256][b \div 256] + XorTable[a % 256][b % 256]

Pad(key, ctr, i) == (key * 37 + ctr * 101 + i * 29 + 17 * ((ctr + i) % 7)) % 256

\* Two polynomials of the message, evaluated at points the key chooses.
Poly(x, key, msg) ==
  LET p[acc \in 0..65520, i \in 1..Len(msg) + 1] ==
        IF i > Len(msg) THEN acc ELSE p[(acc * x + msg[i] + 1) % 65521, i + 1]
  IN p[key, 1]
Mac(key, msg) ==
  LET a == Poly(key + 31, key, msg)
      b == Poly(2 * key + 77, key, msg)
  IN <<a % 256, a \div 256, b % 256, b \div 256>>

\* Address 2 has no keys; the last PDU is too long.
FrameKeys == [s \in {<<1, 0>>, <<1, 1>>} |->
                [enc |-> 10 * s[1] + s[2], mac |-> 100 + 10 * s[1] + s[2]]]
FramePdus == {<<>>, [i \in 1..14 |-> 255 - i], [i \in 1..15 |-> i]}

Frame == INSTANCE SecureFrame WITH
  MAX_PDU <- 14, HMAC_LEN <- 4, Pdus <- FramePdus, Addrs <- {1, 2}, Dirs <- {0, 1},
  Keys <- FrameKeys, Damages <- {128}, Exor <- Xor16, Pad <- Pad, Hmac <- Mac,
  MaxSent <- 2, MaxReads <- 2, result <- told

ASSUME Frame!SecureFrameAssumption /\ Frame!ExorUndoes /\ Frame!NoForgery

-----------------------------------------------------------------------------
Unused == "unused"
NoSlave8 == tables8 = Unused /\ ready8 = Unused /\ exchange8 = Unused
NoTest == next = Unused /\ failed = Unused
NoStore == /\ files = Unused /\ argv0 = Unused /\ table = Unused /\ pc = Unused
           /\ tried = Unused /\ rest = Unused /\ loaded = Unused /\ result = Unused
           /\ before = Unused /\ cut = Unused /\ loads = Unused /\ edits = Unused
           /\ faults = Unused
NoMenu == /\ at = Unused /\ isMaster = Unused /\ config = Unused /\ stdin = Unused
          /\ eof = Unused /\ wanted = Unused

ProgramsInit ==
  /\ Init /\ Frame!Init
  /\ \/ part = "device" /\ NoSlave8 /\ NoTest /\ NoStore /\ NoMenu
     \/ part = "selftest" /\ Test!TestInit /\ NoStore /\ NoMenu
     \/ part = "keys" /\ Store!Init /\ NoSlave8 /\ NoTest /\ NoMenu
     \/ part = "menu" /\ Console!Init /\ NoSlave8 /\ NoTest /\ NoStore
     \/ part = "frame" /\ NoSlave8 /\ NoTest /\ NoStore /\ NoMenu

OnDevice == part = "device" /\ UNCHANGED <<part, slave8, test, store, menu, frame>>
OnTest == part = "selftest" /\ UNCHANGED <<part, vars, store, menu, frame>>
OnKeys == part = "keys" /\ UNCHANGED <<part, vars, slave8, test, menu, frame>>
OnMenu == part = "menu" /\ UNCHANGED <<part, vars, slave8, test, store, frame>>
OnFrame == part = "frame" /\ UNCHANGED <<part, vars, slave8, test, store, menu>>

\* All frames have been built and read.
FramesDone == sent = 2 /\ reads = 2 /\ UNCHANGED frame

ProgramsNext ==
  \/ OnDevice /\ Next
  \/ OnTest /\ Test!TestNext
  \/ OnKeys /\ Store!Next
  \/ OnMenu /\ Console!Next
  \/ OnFrame /\ Frame!Next
  \/ OnFrame /\ FramesDone

ProgramsSpec == ProgramsInit /\ [][ProgramsNext]_<<part, vars, slave8, test, store, menu, frame>>

-----------------------------------------------------------------------------
\* The self-test passes, however often it is run and whatever the slave of
\* the process has done in between, as long as that keeps off the entries
\* ReadCases look at: "repeated calls are safe" (modbus_pdu_selftest.c:174).
SelfTestPasses == part = "selftest" => Test!SelfTestPasses

\* The keys come from one file, the first that has a row, and from the last
\* row for each slot (key_paths.c:27-54; KeyStore!FirstFileWins); every key
\* has its length and every initial counter its width.
FirstFileWins == Store!FirstFileWins /\ [](part = "keys" => Store!TypeOK)

\* Every setting is the last answer that was typed at its question and that
\* it admits (MANUAL.md:560; EnvConfig!AnswersKept), and within its range.
AnswersKept == part = "menu" => Console!AnswersKept /\ Console!TypeOK

\* A frame that arrives as it was built, at the counter it was built at, gives
\* back the PDU; a damaged one is refused and moves no counter; and whatever is
\* given is no longer than a PDU, though it is a difference of two lengths
\* (secure_frame.c 141-191 against 93-116).
RoundTrip == Frame!RoundTrip /\ []Frame!TypeOK
=============================================================================
