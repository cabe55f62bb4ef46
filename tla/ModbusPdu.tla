----------------------------- MODULE ModbusPdu -----------------------------
(***************************************************************************)
(* modbus/modbus_pdu.c: the master's modbus_build_request, the slave's     *)
(* modbus_build_response, and the tables the latter works on.              *)
(*                                                                         *)
(* A PDU is its function code and the bytes after it, so body[i] is pdu[i] *)
(* of the code. A byte has Width bits: 8 in the code, fewer in a small     *)
(* instance, where a word is still two bytes and a byte of coils Width of  *)
(* them. How a PDU gets from one end to the other is SecureLink's subject. *)
(***************************************************************************)
EXTENDS Integers, Sequences

CONSTANTS
  Width,         \* bits of a byte
  TableSize,     \* MODBUS_TABLE_SIZE
  MaxReadBits, MaxWriteBits, MaxReadRegs, MaxWriteRegs,  \* MODBUS_MAX_*
  HoldingSeed, InputSeed,  \* 0x1000 and 0x2000: what the registers start at
  MaxPdu,        \* SECURE_FRAME_MAX_PDU, the size of a PDU's buffer
  Requests       \* the requests a master may send

Base == 2^Width
Byte == 0 .. Base - 1
Word == 0 .. Base * Base - 1
Index == 0 .. TableSize - 1

Pdu == [func : 0 .. 255, body : Seq(Byte)]
NoPdu == [func |-> -1, body |-> <<>>]

ReadCoils == 1
ReadDiscrete == 2
ReadHolding == 3
ReadInput == 4
WriteCoil == 5
WriteRegister == 6
WriteCoils == 15
WriteRegisters == 16
BitReads == {ReadCoils, ReadDiscrete}
Reads == 1 .. 4
Functions8 == 1 .. 6 \cup {WriteCoils, WriteRegisters}

IllegalFunction == 1
IllegalAddress == 2
IllegalValue == 3

BitsToBytes(n) == (n + Width - 1) \div Width

\* The bits of a byte that are set, and the byte that has these.
BitsOf(x) == {j \in 0 .. Width - 1 : (x \div 2^j) % 2 = 1}
ByteOf(bits) == CHOOSE x \in Byte : BitsOf(x) = bits

\* A request and a reply must fit their buffer, a byte count and the code of
\* a refusal a byte, and every choice of bits is a byte.
ASSUME ModbusAssumption ==
  /\ Width \in Nat \ {0} /\ Base \in Nat /\ Base > IllegalValue
  /\ \A bits \in SUBSET (0 .. Width - 1) : \E x \in Byte : BitsOf(x) = bits
  /\ TableSize \in Nat \ {0}
  /\ {MaxReadBits, MaxWriteBits, MaxReadRegs, MaxWriteRegs} \subseteq Nat \ {0}
  /\ \A n \in 0 .. MaxReadBits : BitsToBytes(n) \in Byte
                                 /\ 2 + BitsToBytes(n) <= MaxPdu
  /\ \A n \in 0 .. MaxWriteBits : BitsToBytes(n) \in Byte
                                  /\ 6 + BitsToBytes(n) <= MaxPdu
  /\ 2 * MaxReadRegs \in Byte /\ 2 + 2 * MaxReadRegs <= MaxPdu
  /\ 2 * MaxWriteRegs \in Byte /\ 6 + 2 * MaxWriteRegs <= MaxPdu
  /\ HoldingSeed \in Word /\ InputSeed \in Word
  /\ MaxPdu \in Nat
  /\ Requests \subseteq Pdu \cup {NoPdu}

\* A word can name every entry: the code's addresses are of 16 bits, its tables
\* have 128 entries.
ASSUME EntriesAreAddressed == TableSize <= Base * Base

VARIABLES
  tables,    \* coils, discrete_inputs, holding_registers, input_registers
  ready,     \* table_initialized
  exchange   \* the request under way and the reply to it

vars == <<tables, ready, exchange>>

(***************************************************************************)
(* Bytes, words and bits.                                                  *)
(***************************************************************************)
PutU16(w) == <<w \div Base, w % Base>>

GetU16(body, i) == body[i] * Base + body[i + 1]

\* The words of w, a function on 0 .. n - 1, one after the other.
PackWords(w, n) ==
  [i \in 1 .. 2 * n |-> PutU16(w[(i - 1) \div 2])[1 + ((i - 1) % 2)]]

\* The bits of b, a function on 0 .. n - 1, Width to a byte, low bit first;
\* the bits of the last byte from n on are 0.
PackBits(b, n) ==
  [k \in 1 .. BitsToBytes(n) |->
     ByteOf({j \in 0 .. Width - 1 : LET i == (k - 1) * Width + j
                                    IN i < n /\ b[i] = 1})]

\* Bit i of the bits packed from body[at] on.
BitAt(body, at, i) ==
  IF i % Width \in BitsOf(body[at + (i \div Width)]) THEN 1 ELSE 0

(***************************************************************************)
(* modbus_build_request: NoPdu where the code returns 0. The values of a   *)
(* multiple write are made up from the index.                              *)
(***************************************************************************)
MaxRead(f) == IF f \in BitReads THEN MaxReadBits ELSE MaxReadRegs
On == (Base - 1) * Base

Head4(addr, w) == PutU16(addr) \o PutU16(w)

\* Wrong: one byte for every Width coils, none for the rest.
CoilsRequest_floor(addr, n) ==
  Head4(addr, n) \o <<n \div Width>> \o PackBits([i \in 0 .. n - 1 |-> i % 2], n)
CoilsRequest(addr, n) ==
  Head4(addr, n) \o <<BitsToBytes(n)>>
                 \o PackBits([i \in 0 .. n - 1 |-> i % 2], n)

RegistersRequest(addr, n) ==
  Head4(addr, n) \o <<2 * n>>
    \o PackWords([i \in 0 .. n - 1 |-> (addr + i) % (Base * Base)], n)

BuildRequest(f, addr, v) ==
  LET pdu(body) == [func |-> f, body |-> body] IN
  CASE f \in Reads /\ v \in 1 .. MaxRead(f) -> pdu(Head4(addr, v))
    [] f = WriteCoil -> pdu(Head4(addr, IF v # 0 THEN On ELSE 0))
    [] f = WriteRegister -> pdu(Head4(addr, v))
    [] f = WriteCoils /\ v \in 1 .. MaxWriteBits -> pdu(CoilsRequest(addr, v))
    [] f = WriteRegisters /\ v \in 1 .. MaxWriteRegs ->
         pdu(RegistersRequest(addr, v))
    [] OTHER -> NoPdu

(***************************************************************************)
(* modbus_build_response: which requests are refused, and with what code.  *)
(***************************************************************************)
Addr(req) == GetU16(req.body, 1)
Qty(req) == GetU16(req.body, 3)

\* The entries a request names; a single write has a value where others have
\* a quantity.
Span(req) == IF req.func \in {WriteCoil, WriteRegister} THEN 1 ELSE Qty(req)

\* A multiple write of n bytes of data and at most max entries.
BadWrite(req, max, n) ==
  \/ Len(req.body) < 5
  \/ Qty(req) \notin 1 .. max
  \/ req.body[5] # n
  \/ Len(req.body) < 5 + req.body[5]

Malformed(req) ==
  \/ /\ req.func \in Reads
     /\ Len(req.body) < 4 \/ Qty(req) \notin 1 .. MaxRead(req.func)
  \/ /\ req.func = WriteCoil
     /\ Len(req.body) < 4 \/ Qty(req) \notin {0, On}
  \/ req.func = WriteRegister /\ Len(req.body) < 4
  \/ /\ req.func = WriteCoils
     /\ BadWrite(req, MaxWriteBits, BitsToBytes(Qty(req)))
  \/ /\ req.func = WriteRegisters
     /\ BadWrite(req, MaxWriteRegs, 2 * Qty(req))

Beyond(req) == Addr(req) + Span(req) > TableSize

\* 0: the request is carried out.
Refusal(req) ==
  IF req.func \notin Functions8 THEN IllegalFunction
  ELSE IF Malformed(req) THEN IllegalValue
  ELSE IF Beyond(req) THEN IllegalAddress
  ELSE 0

\* build_exception: func | MODBUS_EXCEPTION_BIT
Exception(f, code) == [func |-> IF f < 128 THEN f + 128 ELSE f,
                       body |-> <<code>>]

(***************************************************************************)
(* What a request that is carried out does, and what it is answered with.  *)
(***************************************************************************)
InitialTables ==
  [coils    |-> [i \in Index |-> i % 2],
   discrete |-> [i \in Index |-> (i + 1) % 2],
   holding  |-> [i \in Index |-> (HoldingSeed + i) % (Base * Base)],
   input    |-> [i \in Index |-> (InputSeed + i) % (Base * Base)]]

ZeroTables == [t \in DOMAIN InitialTables |-> [i \in Index |-> 0]]

\* ensure_table_initialized
EnsureTables == IF ready THEN tables ELSE InitialTables

TableOf(f) ==
  CASE f \in {ReadCoils, WriteCoil, WriteCoils} -> "coils"
    [] f = ReadDiscrete -> "discrete"
    [] f \in {ReadHolding, WriteRegister, WriteRegisters} -> "holding"
    [] f = ReadInput -> "input"

\* What a write stores in entry Addr(req) + i.
\* Wrong: the value of a single coil is stored as it came.
NewValue_raw(req, i) ==
  CASE req.func \in {WriteCoil, WriteRegister} -> Qty(req)
    [] req.func = WriteCoils -> BitAt(req.body, 6, i)
    [] req.func = WriteRegisters -> GetU16(req.body, 6 + 2 * i)
NewValue(req, i) ==
  CASE req.func = WriteCoil -> IF Qty(req) = On THEN 1 ELSE 0
    [] req.func = WriteRegister -> Qty(req)
    [] req.func = WriteCoils -> BitAt(req.body, 6, i)
    [] req.func = WriteRegisters -> GetU16(req.body, 6 + 2 * i)

Named(req) == {i \in Index : Addr(req) <= i /\ i < Addr(req) + Span(req)}

\* Wrong: the range is checked entry by entry, while the table is written.
Carried_partial(t, req) ==
  IF req.func \in Reads \/ req.func \notin Functions8 \/ Malformed(req) THEN t
  ELSE [t EXCEPT ![TableOf(req.func)] =
         [i \in Index |-> IF i \in Named(req) THEN NewValue(req, i - Addr(req))
                          ELSE @[i]]]
Carried(t, req) ==
  IF req.func \in Reads \/ Refusal(req) # 0 THEN t
  ELSE [t EXCEPT ![TableOf(req.func)] =
         [i \in Index |-> IF i \in Named(req) THEN NewValue(req, i - Addr(req))
                          ELSE @[i]]]

\* Wrong: the byte count leaves out a byte that is not full.
ReadBits_floor(t, req) ==
  <<Qty(req) \div Width>>
    \o PackBits([i \in 0 .. Qty(req) - 1 |-> t[TableOf(req.func)][Addr(req) + i]],
                Qty(req))
ReadBits(t, req) ==
  <<BitsToBytes(Qty(req))>>
    \o PackBits([i \in 0 .. Qty(req) - 1 |-> t[TableOf(req.func)][Addr(req) + i]],
                Qty(req))

ReadRegisters(t, req) ==
  <<2 * Qty(req)>>
    \o PackWords([i \in 0 .. Qty(req) - 1 |-> t[TableOf(req.func)][Addr(req) + i]],
                 Qty(req))

\* A write is answered with its first four bytes, single or multiple.
Reply(t, req) ==
  IF Refusal(req) # 0 THEN Exception(req.func, Refusal(req))
  ELSE [func |-> req.func,
        body |-> CASE req.func \in BitReads -> ReadBits(t, req)
                   [] req.func \in Reads \ BitReads -> ReadRegisters(t, req)
                   [] OTHER -> SubSeq(req.body, 1, 4)]

(***************************************************************************)
(* One exchange after the other. The slave that gets no function code      *)
(* builds no reply.                                                        *)
(***************************************************************************)
Idle == [stage |-> "idle"]

Init ==
  /\ tables = ZeroTables
  /\ ready = FALSE
  /\ exchange = Idle

MasterAsks(req) ==
  /\ exchange = Idle
  /\ exchange' = [stage |-> "asked", request |-> req]
  /\ UNCHANGED <<tables, ready>>

SlaveAnswers ==
  /\ exchange.stage = "asked"
  /\ exchange.request # NoPdu
  /\ tables' = Carried(EnsureTables, exchange.request)
  /\ ready' = TRUE
  /\ exchange' = [stage |-> "answered", request |-> exchange.request,
                  reply |-> Reply(EnsureTables, exchange.request)]

Finish ==
  /\ \/ exchange.stage = "answered"
     \/ exchange.stage = "asked" /\ exchange.request = NoPdu
  /\ exchange' = Idle
  /\ UNCHANGED <<tables, ready>>

Next == (\E req \in Requests : MasterAsks(req)) \/ SlaveAnswers \/ Finish

Spec == Init /\ [][Next]_vars

-----------------------------------------------------------------------------
(***************************************************************************)
(* Properties.                                                             *)
(***************************************************************************)
\* Type correctness: tables hold bits and words, exchanges hold PDUs.
TypeOK ==
  /\ tables \in [coils : [Index -> {0, 1}], discrete : [Index -> {0, 1}],
                 holding : [Index -> Word], input : [Index -> Word]]
  /\ ready \in BOOLEAN
  /\ \/ exchange = Idle
     \/ exchange \in [stage : {"asked"}, request : Requests]
     \/ exchange \in [stage : {"answered"}, request : Requests, reply : Pdu]

\* No reply overruns the SECURE_FRAME_MAX_PDU bytes its callers reserve, nor
\* does a byte count overrun its byte (modbus_pdu.h:46, 56; the casts to
\* uint8_t in modbus_build_response).
ReplyFits ==
  exchange.stage = "answered" =>
    /\ 1 + Len(exchange.reply.body) <= MaxPdu
    /\ exchange.reply.func \in Reads =>
         exchange.reply.body[1] = Len(exchange.reply.body) - 1

\* Master and slave agree on what a request is: what modbus_build_request
\* makes is refused only for a range that leaves the tables
\* (modbus_pdu.h:47-49); otherwise a write leaves the values the master made
\* up, coils by turns 0 and 1, registers their own address
\* (modbus_pdu.c:97-102, 117-120).
Built(req) == /\ Len(req.body) >= 4
              /\ req = BuildRequest(req.func, Addr(req), Qty(req))
Meant(req, i) ==
  CASE req.func = WriteCoil -> IF Qty(req) = 0 THEN 0 ELSE 1
    [] req.func = WriteRegister -> Qty(req)
    [] req.func = WriteCoils -> i % 2
    [] req.func = WriteRegisters -> Addr(req) + i
BuiltIsDone ==
  exchange.stage = "answered" /\ Built(exchange.request) =>
    LET req == exchange.request IN
    IF Addr(req) + Span(req) > TableSize
    THEN exchange.reply = Exception(req.func, IllegalAddress)
    ELSE /\ exchange.reply.func = req.func
         /\ req.func \notin Reads => \A i \in 0 .. Span(req) - 1 :
              tables[TableOf(req.func)][Addr(req) + i] = Meant(req, i)

(***************************************************************************)
(* The refinement: a master that decodes what it sent and what it got back *)
(* (as the Modbus protocol lays them out) sees the device DataModel        *)
(* promises, each answer one atomic step on the tables.                    *)
(***************************************************************************)
Answer ==
  LET req == exchange.request
      rep == exchange.reply
      n == Span(req)
      seen(i) == IF req.func \in BitReads THEN BitAt(rep.body, 2, i)
                 ELSE IF req.func \in Reads THEN GetU16(rep.body, 2 + 2 * i)
                 ELSE NewValue(req, i)
  IN IF exchange.stage # "answered" THEN [op |-> "none"]
     ELSE IF rep.func >= 128 THEN [op |-> "refused"]
     ELSE [op |-> IF req.func \in Reads THEN "read" ELSE "wrote",
           table |-> TableOf(req.func), addr |-> Addr(req),
           values |-> [i \in 1 .. n |-> seen(i - 1)]]

Device == INSTANCE DataModel WITH Size <- TableSize, Defaults <- InitialTables,
                                  bank <- EnsureTables, answer <- Answer

\* Every answer of modbus_build_response is one atomic step of the promised
\* device: a read returns the entries as they are, a write changes exactly
\* the entries it names, an exception changes nothing (modbus_pdu.c:136-299).
DeviceKept == Device!Spec
=============================================================================
