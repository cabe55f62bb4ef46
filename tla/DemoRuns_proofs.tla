-------------------------- MODULE DemoRuns_proofs --------------------------
(***************************************************************************)
(* First, modbus_pdu.c keeps what DataModel promises, for tables and limits*)
(* of any size that satisfies ModbusAssumption and any bytes a request     *)
(* carries.  A request that passes the checks names entries that exist     *)
(* (Accepted), what the reply packs is what the tables hold there          *)
(* (WordsRead, BitsRead), and a refusal is seen as one (RefusalSeen). So   *)
(* each answer is one step of the device (AnswerStep).                     *)
(*                                                                         *)
(* Then, what a run of secure_send_demo.c that exits with 0 has brought    *)
(* about, for runs of any length that SweepFits admits and slaves of any   *)
(* size.  Every frame of a sweep is one the slave carries out (SweepFrame, *)
(* SweepCarried), the last one covers all registers (RegsRange), and a run *)
(* without a failed frame had its last one executed, or has written all of *)
(* its files (ExitInv, FilesInv).                                          *)
(***************************************************************************)
EXTENDS DemoRuns, TLAPS

USE DEF ReadCoils, ReadDiscrete, ReadHolding, ReadInput, WriteCoil,
        WriteRegister, WriteCoils, WriteRegisters, Reads, BitReads

-----------------------------------------------------------------------------
(***************************************************************************)
(* PDUs: packing, addresses, the slave and its replies.                    *)
(***************************************************************************)
\* Division leaves a remainder below the divisor.
LEMMA DivMod ==
  ASSUME NEW a \in Nat, NEW b \in Nat \ {0}
  PROVE  /\ a \div b \in Nat
         /\ a % b \in 0 .. b - 1
         /\ a = b * (a \div b) + (a % b)
  OBVIOUS

\* Entry i of n, w to a unit, is in one of the units that n entries take.
LEMMA DivBelow ==
  ASSUME NEW i \in Nat, NEW n \in Nat, i < n, NEW w \in Nat \ {0}
  PROVE  1 + (i \div w) \in 1 .. ((n + w - 1) \div w)
<1> DEFINE q == i \div w
           m == (n + w - 1) \div w
<1>1. /\ q \in Nat /\ i = w * q + (i % w) /\ i % w \in 0 .. w - 1
  BY DivMod
<1>0. n + w - 1 \in Nat
  OBVIOUS
<1>2. /\ m \in Nat /\ n + w - 1 = w * m + ((n + w - 1) % w)
      /\ (n + w - 1) % w \in 0 .. w - 1
  BY <1>0, DivMod
<1>3. w * q <= i
  BY <1>1
<1>4. w * m >= n
  BY <1>2
<1>5. w * q < w * m
  BY <1>3, <1>4, <1>1, <1>2
<1>6. q < m
  BY <1>5, <1>1, <1>2
<1> QED BY <1>6, <1>1, <1>2

\* A byte has at least two values, and the tables at least one entry.
LEMMA BaseFacts == Base \in Nat /\ Base > 1 /\ TableSize \in Nat \ {0}
                   /\ Width \in Nat \ {0}
  BY ModbusAssumption DEF IllegalValue

\* A word is put as two bytes, and these say which word it was.
LEMMA WordBytes ==
  ASSUME NEW w \in Word
  PROVE  /\ PutU16(w) \in Byte \X Byte
         /\ PutU16(w)[1] * Base + PutU16(w)[2] = w
<1>0. w \in Nat /\ Base \in Nat \ {0} /\ w < Base * Base
  BY BaseFacts DEF Word
<1>1. /\ w \div Base \in Nat /\ w % Base \in 0 .. Base - 1
      /\ w = Base * (w \div Base) + (w % Base)
  BY <1>0, DivMod
<1>2. w \div Base < Base
  <2>1. Base * (w \div Base) < Base * Base
    BY <1>0, <1>1
  <2> QED BY <2>1, <1>0, <1>1
<1> QED BY <1>1, <1>2, BaseFacts DEF PutU16, Byte

\* What PackWords packs, GetU16 finds: register i is at bytes 2 + 2i and
\* 3 + 2i of a read's reply.
LEMMA WordsRead ==
  ASSUME NEW n \in Nat, NEW w \in [0 .. n - 1 -> Word], NEW c,
         NEW i \in 0 .. n - 1
  PROVE  GetU16(<<c>> \o PackWords(w, n), 2 + 2 * i) = w[i]
<1> DEFINE p == PackWords(w, n)
           b == <<c>> \o p
<1>1. p \in Seq(Int) /\ Len(p) = 2 * n
  <2>1. \A j \in 1 .. 2 * n : (j - 1) \div 2 \in 0 .. n - 1 /\ (j - 1) % 2 \in {0, 1}
    OBVIOUS
  <2>2. \A j \in 1 .. 2 * n : w[(j - 1) \div 2] \in Word
    BY <2>1
  <2>3. \A x \in Word : PutU16(x)[1] \in Int /\ PutU16(x)[2] \in Int
    BY WordBytes, BaseFacts DEF Byte
  <2>4. \A j \in 1 .. 2 * n : p[j] \in Int
    BY <2>1, <2>2, <2>3 DEF PackWords
  <2> QED BY <2>4 DEF PackWords
<1>2. b[2 + 2 * i] = p[1 + 2 * i] /\ b[3 + 2 * i] = p[2 + 2 * i]
  BY <1>1
<1>3. p[1 + 2 * i] = PutU16(w[i])[1] /\ p[2 + 2 * i] = PutU16(w[i])[2]
  <2>1. 1 + 2 * i \in 1 .. 2 * n /\ 2 + 2 * i \in 1 .. 2 * n
    OBVIOUS
  <2>2. ((1 + 2 * i) - 1) \div 2 = i /\ ((2 + 2 * i) - 1) \div 2 = i
    OBVIOUS
  <2>3. 1 + (((1 + 2 * i) - 1) % 2) = 1 /\ 1 + (((2 + 2 * i) - 1) % 2) = 2
    OBVIOUS
  <2> QED BY <2>1, <2>2, <2>3 DEF PackWords
<1>4. w[i] \in Word
  OBVIOUS
<1>5. (2 + 2 * i) + 1 = 3 + 2 * i
  OBVIOUS
<1>6. GetU16(b, 2 + 2 * i) = b[2 + 2 * i] * Base + b[3 + 2 * i]
  BY <1>5 DEF GetU16
<1> QED BY <1>2, <1>3, <1>4, <1>6, WordBytes

\* What PackBits packs, BitAt finds.
LEMMA BitsRead ==
  ASSUME NEW n \in Nat, NEW v \in [0 .. n - 1 -> {0, 1}], NEW c,
         NEW i \in 0 .. n - 1
  PROVE  BitAt(<<c>> \o PackBits(v, n), 2, i) = v[i]
<1> DEFINE p == PackBits(v, n)
           k == 1 + (i \div Width)
           S(m) == {j \in 0 .. Width - 1 : LET e == (m - 1) * Width + j
                                          IN e < n /\ v[e] = 1}
<1>1. k \in 1 .. BitsToBytes(n)
  BY DivBelow, BaseFacts DEF BitsToBytes
<1>2. /\ i % Width \in 0 .. Width - 1
      /\ i = (k - 1) * Width + (i % Width)
  BY DivMod, BaseFacts
<1>3. BitsToBytes(n) \in Nat
  BY DivMod, BaseFacts DEF BitsToBytes
<1>4. p = [m \in 1 .. BitsToBytes(n) |-> ByteOf(S(m))]
  BY DEF PackBits
<1>5. \A m \in Nat : ByteOf(S(m)) \in Byte /\ BitsOf(ByteOf(S(m))) = S(m)
  <2>1. \A m \in Nat : S(m) \in SUBSET (0 .. Width - 1)
    OBVIOUS
  <2>2. \A m \in Nat : \E x \in Byte : BitsOf(x) = S(m)
    BY <2>1, ModbusAssumption
  <2> HIDE DEF S
  <2> QED BY <2>2 DEF ByteOf
<1>6. (<<c>> \o p)[2 + (i \div Width)] = ByteOf(S(k))
  <2>1. p \in Seq(Byte)
    <3> HIDE DEF S
    <3>1. \A m \in 1 .. BitsToBytes(n) : ByteOf(S(m)) \in Byte
      BY <1>3, <1>5
    <3> QED BY <3>1, <1>3, <1>4
  <2>2. Len(p) = BitsToBytes(n) /\ p[k] = ByteOf(S(k))
    <3> HIDE DEF S
    <3> QED BY <1>1, <1>3, <1>4
  <2> HIDE DEF p
  <2>3. i \div Width \in Nat
    BY DivMod, BaseFacts
  <2> QED BY <2>1, <2>2, <2>3, <1>1
<1>7. BitsOf(ByteOf(S(k))) = S(k)
  <2>1. k \in Nat
    BY <1>1, <1>3
  <2> HIDE DEF S, k
  <2> QED BY <2>1, <1>5
<1>8. i % Width \in S(k) <=> v[i] = 1
  BY <1>2
<1> QED BY <1>6, <1>7, <1>8 DEF BitAt

-----------------------------------------------------------------------------
(***************************************************************************)
(* The tables keep their types, and nothing but a request is answered.     *)
(***************************************************************************)
TablesType ==
  [coils : [Index -> {0, 1}], discrete : [Index -> {0, 1}],
   holding : [Index -> Word], input : [Index -> Word]]

IInv ==
  /\ tables \in TablesType
  /\ ready \in BOOLEAN
  /\ exchange.stage \in {"idle", "asked", "answered"}
  /\ exchange.stage # "idle" => exchange.request \in Requests

\* What ensure_table_initialized writes is made of bits and words.
LEMMA InitialType == InitialTables \in TablesType /\ ZeroTables \in TablesType
<1>1. \A i \in Index : i % 2 \in {0, 1} /\ (i + 1) % 2 \in {0, 1}
  BY BaseFacts DEF Index
<1>2. \A i \in Index : /\ (HoldingSeed + i) % (Base * Base) \in Word
                       /\ (InputSeed + i) % (Base * Base) \in Word
  <2>1. Base * Base \in Nat \ {0} /\ HoldingSeed \in Nat /\ InputSeed \in Nat
    BY BaseFacts, ModbusAssumption DEF Word
  <2>2. \A i \in Index : HoldingSeed + i \in Nat /\ InputSeed + i \in Nat
    BY <2>1, BaseFacts DEF Index
  <2> QED BY <2>1, <2>2, DivMod DEF Word
<1>3. InitialTables \in TablesType
  BY <1>1, <1>2 DEF InitialTables, TablesType
<1>4. 0 \in Word
  BY BaseFacts DEF Word
<1> QED BY <1>3, <1>4 DEF ZeroTables, InitialTables, TablesType

\* So are the tables as a request finds them.
LEMMA EnsureType == tables \in TablesType => EnsureTables \in TablesType
  BY InitialType DEF EnsureTables

\* Two bytes of a request are read as a word.
LEMMA Field ==
  ASSUME NEW req \in Pdu, NEW i \in 1 .. Len(req.body), i + 1 <= Len(req.body)
  PROVE  GetU16(req.body, i) \in Word
<1>1. req.body \in Seq(Byte)
  BY DEF Pdu
<1>2. req.body[i] \in Byte /\ req.body[i + 1] \in Byte
  BY <1>1
<1>3. ASSUME NEW x \in Byte, NEW y \in Byte PROVE x * Base + y \in Word
  <2>1. x \in Nat /\ y \in Nat /\ x <= Base - 1 /\ y <= Base - 1
    BY BaseFacts DEF Byte
  <2>2. x * Base <= (Base - 1) * Base
    BY <2>1, BaseFacts
  <2>3. x * Base \in Nat /\ Base * Base \in Nat /\ (Base - 1) * Base = Base * Base - Base
    BY <2>1, BaseFacts
  <2> QED BY <2>1, <2>2, <2>3, BaseFacts DEF Word
<1> QED BY <1>2, <1>3 DEF GetU16

\* What holds of a request that is carried out.
LEMMA Accepted ==
  ASSUME NEW req \in Pdu, Refusal(req) = 0
  PROVE  /\ req.func \in Functions8
         /\ ~Malformed(req)
         /\ Len(req.body) >= 4
         /\ Addr(req) \in Word /\ Qty(req) \in Word
         /\ Span(req) \in Nat \ {0}
         /\ Addr(req) + Span(req) <= TableSize
<1>1. /\ req.func \in Functions8 /\ ~Malformed(req) /\ ~Beyond(req)
  BY DEF Refusal, IllegalFunction, IllegalValue, IllegalAddress
<1>2. Len(req.body) \in Nat
  BY DEF Pdu
<1>3. Len(req.body) >= 4 /\ (req.func \notin {WriteCoil, WriteRegister} => Qty(req) >= 1)
  <2>0. \A f : MaxRead(f) \in Nat
    BY ModbusAssumption DEF MaxRead
  <2>1. CASE req.func \in Reads
    <3>1. /\ ~(Len(req.body) < 4 \/ Qty(req) \notin 1 .. MaxRead(req.func))
          /\ MaxRead(req.func) \in Nat
      BY <1>1, <2>0, <2>1, SMTT(20) DEF Malformed
    <3> QED BY <3>1, <1>2
  <2>2. CASE req.func = WriteCoil
    <3>1. ~(Len(req.body) < 4)
      BY <1>1, <2>2 DEF Malformed
    <3> QED BY <3>1, <1>2, <2>2
  <2>3. CASE req.func = WriteRegister
    <3>1. ~(Len(req.body) < 4)
      BY <1>1, <2>3 DEF Malformed
    <3> QED BY <3>1, <1>2, <2>3
  <2>4. CASE req.func = WriteCoils
    <3>1. ~(Len(req.body) < 5) /\ Qty(req) \in 1 .. MaxWriteBits
      BY <1>1, <2>4 DEF Malformed, BadWrite
    <3> QED BY <3>1, <1>2, ModbusAssumption
  <2>5. CASE req.func = WriteRegisters
    <3>1. ~(Len(req.body) < 5) /\ Qty(req) \in 1 .. MaxWriteRegs
      BY <1>1, <2>5 DEF Malformed, BadWrite
    <3> QED BY <3>1, <1>2, ModbusAssumption
  <2> QED BY <1>1, <2>1, <2>2, <2>3, <2>4, <2>5 DEF Functions8
<1>4. Addr(req) \in Word /\ Qty(req) \in Word
  BY <1>2, <1>3, Field DEF Addr, Qty
<1>5. Span(req) \in Nat \ {0}
  BY <1>3, <1>4, BaseFacts DEF Span, Word
<1>6. Addr(req) \in Nat
  BY <1>4, BaseFacts DEF Word
<1> QED BY <1>1, <1>3, <1>4, <1>5, <1>6, BaseFacts DEF Beyond

\* What the slave answers is a PDU.
LEMMA AskedIsPdu ==
  ASSUME IInv, exchange.stage = "asked", exchange.request # NoPdu
  PROVE  exchange.request \in Pdu
  BY ModbusAssumption DEF IInv

\* A request that is carried out leaves bits in the coils and words in the
\* registers.
LEMMA CarriedType ==
  ASSUME NEW t \in TablesType, NEW req \in Pdu
  PROVE  Carried(t, req) \in TablesType
<1>1. CASE req.func \in Reads \/ Refusal(req) # 0
  BY <1>1 DEF Carried
<1>2. CASE ~(req.func \in Reads \/ Refusal(req) # 0)
  <2>0. req.func \in {WriteCoil, WriteRegister, WriteCoils, WriteRegisters}
    BY <1>2, Accepted DEF Functions8
  <2>1. req.body \in Seq(Byte) /\ Len(req.body) >= 4 /\ Qty(req) \in Word
    BY <1>2, Accepted DEF Pdu
  <2> DEFINE v(i) == NewValue(req, i - Addr(req))
  <2>2. CASE req.func \in {WriteCoil, WriteCoils}
    <3>1. \A i \in Named(req) : v(i) \in {0, 1}
      BY <2>2 DEF NewValue, BitAt
    <3>2. TableOf(req.func) = "coils"
      BY <2>2 DEF TableOf
    <3> HIDE DEF v
    <3> QED BY <1>2, <3>1, <3>2 DEF Carried, TablesType, v
  <2>3. CASE req.func \in {WriteRegister, WriteRegisters}
    <3>1. \A i \in Named(req) : v(i) \in Word
      <4>1. CASE req.func = WriteRegister
        BY <4>1, <2>1 DEF NewValue
      <4>2. CASE req.func = WriteRegisters
        <5>1. /\ req.body[5] = 2 * Qty(req) /\ ~(Len(req.body) < 5 + req.body[5])
          BY <1>2, <4>2, Accepted DEF Malformed, BadWrite
        <5>2. Qty(req) \in Nat /\ Addr(req) \in Nat /\ Len(req.body) \in Nat
          BY <1>2, <2>1, Accepted, BaseFacts DEF Word
        <5>3. \A i \in Named(req) : i - Addr(req) \in 0 .. Qty(req) - 1
          BY <5>2, <4>2, BaseFacts DEF Named, Span, Index
        <5>4. \A k \in 0 .. Qty(req) - 1 : /\ 6 + 2 * k \in 1 .. Len(req.body)
                                          /\ (6 + 2 * k) + 1 <= Len(req.body)
          BY <5>1, <5>2
        <5>5. \A k \in 0 .. Qty(req) - 1 : GetU16(req.body, 6 + 2 * k) \in Word
          BY <5>4, Field
        <5> QED BY <5>3, <5>5, <4>2 DEF NewValue
      <4> QED BY <2>3, <4>1, <4>2
    <3>2. TableOf(req.func) = "holding"
      BY <2>3 DEF TableOf
    <3> HIDE DEF v
    <3> QED BY <1>2, <3>1, <3>2 DEF Carried, TablesType, v
  <2> QED BY <2>0, <2>2, <2>3
<1> QED BY <1>1, <1>2

\* The tables hold bits and words, whatever a request carries.
THEOREM TablesTyped == Spec => []IInv
<1>1. Init => IInv
  <2> SUFFICES ASSUME Init PROVE IInv
    OBVIOUS
  <2>1. tables \in TablesType /\ ready = FALSE /\ exchange.stage = "idle"
    BY InitialType DEF Init, Idle
  <2> QED BY <2>1 DEF IInv
<1>2. IInv /\ [Next]_vars => IInv'
  <2> SUFFICES ASSUME IInv, [Next]_vars PROVE IInv'
    OBVIOUS
  <2>1. ASSUME NEW req \in Requests, MasterAsks(req) PROVE IInv'
    BY <2>1 DEF IInv, MasterAsks
  <2>2. CASE SlaveAnswers
    <3>1. tables' \in TablesType
      BY <2>2, AskedIsPdu, EnsureType, CarriedType DEF IInv, SlaveAnswers
    <3> QED BY <2>2, <3>1 DEF IInv, SlaveAnswers
  <2>3. CASE Finish
    BY <2>3 DEF IInv, Finish, Idle
  <2>4. CASE UNCHANGED vars
    BY <2>4 DEF IInv, vars
  <2> QED BY <2>1, <2>2, <2>3, <2>4 DEF Next
<1> QED BY <1>1, <1>2, PTL DEF Spec

-----------------------------------------------------------------------------
(***************************************************************************)
(* The slave implements the promised device.                               *)
(***************************************************************************)
\* What a master decodes from the reply to a read is what the table holds.
LEMMA ReadBack ==
  ASSUME NEW t \in TablesType, NEW req \in Pdu,
         Refusal(req) = 0, req.func \in Reads, NEW i \in 0 .. Span(req) - 1
  PROVE  LET body == Reply(t, req).body
             seen == IF req.func \in BitReads THEN BitAt(body, 2, i)
                     ELSE GetU16(body, 2 + 2 * i)
         IN seen = t[TableOf(req.func)][Addr(req) + i]
<1> DEFINE n == Qty(req)
           w == [k \in 0 .. n - 1 |-> t[TableOf(req.func)][Addr(req) + k]]
<1>1. /\ Span(req) = n /\ n \in Nat \ {0} /\ Addr(req) \in Nat
      /\ Addr(req) + n <= TableSize
  BY Accepted, BaseFacts DEF Span, Word
<1>2. \A k \in 0 .. n - 1 : Addr(req) + k \in Index
  BY <1>1, BaseFacts DEF Index
<1>3. CASE req.func \in BitReads
  <2>1. TableOf(req.func) \in {"coils", "discrete"}
    BY <1>3 DEF TableOf
  <2>2. w \in [0 .. n - 1 -> {0, 1}]
    BY <1>2, <2>1 DEF TablesType
  <2>3. Reply(t, req).body = <<BitsToBytes(n)>> \o PackBits(w, n)
    BY <1>3 DEF Reply, ReadBits
  <2>4. BitAt(<<BitsToBytes(n)>> \o PackBits(w, n), 2, i) = w[i]
    <3> HIDE DEF w
    <3> QED BY <1>1, <2>2, BitsRead, SMTT(30)
  <2> QED BY <1>1, <1>3, <2>3, <2>4
<1>4. CASE req.func \in Reads \ BitReads
  <2>1. TableOf(req.func) \in {"holding", "input"}
    BY <1>4 DEF TableOf
  <2>2. w \in [0 .. n - 1 -> Word]
    BY <1>2, <2>1 DEF TablesType
  <2>3. Reply(t, req).body = <<2 * n>> \o PackWords(w, n)
    BY <1>4 DEF Reply, ReadRegisters
  <2>4. GetU16(<<2 * n>> \o PackWords(w, n), 2 + 2 * i) = w[i]
    <3> i \in 0 .. n - 1
      BY <1>1
    <3> HIDE DEF w, n
    <3> QED BY <1>1, <2>2, WordsRead
  <2> QED BY <1>1, <1>4, <2>3, <2>4
<1> QED BY <1>3, <1>4

\* A request that is refused is answered with an exception, and only then.
LEMMA RefusalSeen ==
  ASSUME NEW t, NEW req \in Pdu
  PROVE  Reply(t, req).func >= 128 <=> Refusal(req) # 0
<1>1. CASE Refusal(req) # 0
  <2>1. Reply(t, req).func = IF req.func < 128 THEN req.func + 128 ELSE req.func
    BY <1>1 DEF Reply, Exception
  <2>2. req.func \in 0 .. 255
    BY DEF Pdu
  <2> QED BY <1>1, <2>1, <2>2
<1>2. CASE Refusal(req) = 0
  <2>1. Reply(t, req).func = req.func
    BY <1>2 DEF Reply
  <2> QED BY <1>2, <2>1, Accepted DEF Functions8
<1> QED BY <1>1, <1>2

\* Every answer of the slave is a step of the device: refused, read or written.
LEMMA AnswerStep ==
  ASSUME IInv, SlaveAnswers
  PROVE  Device!Refuse \/ Device!Read \/ Device!Write
<1> DEFINE req == exchange.request
           t == EnsureTables
           n == Span(req)
<1>1. req \in Pdu
  BY AskedIsPdu DEF SlaveAnswers
<1>2. t \in TablesType
  BY EnsureType DEF IInv
<1>3. /\ exchange'.stage = "answered" /\ exchange'.request = req
      /\ exchange'.reply = Reply(t, req)
      /\ EnsureTables' = Carried(t, req)
  BY DEF SlaveAnswers, EnsureTables
<1>4. CASE Refusal(req) # 0
  <2>1. Answer' = [op |-> "refused"]
    BY <1>1, <1>3, <1>4, RefusalSeen DEF Answer
  <2>2. EnsureTables' = EnsureTables
    BY <1>3, <1>4 DEF Carried
  <2> QED BY <2>1, <2>2 DEF Device!Refuse
<1>5. CASE Refusal(req) = 0
  <2>1. /\ req.func \in Functions8 /\ Addr(req) \in Nat /\ n \in Nat \ {0}
        /\ Addr(req) + n <= TableSize
    BY <1>1, <1>5, Accepted, BaseFacts DEF Word
  <2> DEFINE seen(i) ==
        IF req.func \in BitReads THEN BitAt(Reply(t, req).body, 2, i)
        ELSE IF req.func \in Reads THEN GetU16(Reply(t, req).body, 2 + 2 * i)
        ELSE NewValue(req, i)
  <2>2. Answer' = [op |-> IF req.func \in Reads THEN "read" ELSE "wrote",
                   table |-> TableOf(req.func), addr |-> Addr(req),
                   values |-> [i \in 1 .. n |-> seen(i - 1)]]
    BY <1>1, <1>3, <1>5, RefusalSeen DEF Answer
  <2>3. /\ Answer'.values = [i \in 1 .. n |-> seen(i - 1)]
        /\ Answer'.table = TableOf(req.func) /\ Answer'.addr = Addr(req)
        /\ Answer'.op = IF req.func \in Reads THEN "read" ELSE "wrote"
    BY <2>2
  <2> HIDE DEF seen
  <2>4. Len(Answer'.values) = n /\ Answer'.values # <<>>
    BY <2>1, <2>3
  <2>5. Device!Entries(Answer') = Addr(req) .. Addr(req) + n - 1
    BY <2>3, <2>4 DEF Device!Entries
  <2>6. Device!InRange(Answer')
    BY <2>1, <2>4, <2>5, BaseFacts DEF Device!InRange
  <2>7. CASE req.func \in Reads
    <3>1. \A i \in 1 .. n : seen(i - 1) = t[TableOf(req.func)][Addr(req) + i - 1]
      <4> SUFFICES ASSUME NEW i \in 1 .. n
                   PROVE  seen(i - 1) = t[TableOf(req.func)][Addr(req) + i - 1]
        OBVIOUS
      <4>1. i - 1 \in 0 .. Span(req) - 1 /\ Addr(req) + (i - 1) = Addr(req) + i - 1
        BY <2>1
      <4> QED BY <1>1, <1>2, <1>5, <2>7, <4>1, ReadBack DEF seen
    <3>2. EnsureTables' = EnsureTables
      BY <1>3, <2>7 DEF Carried
    <3>3. TableOf(req.func) \in Device!Tables
      BY <2>7 DEF TableOf, Device!Tables
    <3> QED BY <2>3, <2>4, <2>6, <2>7, <3>1, <3>2, <3>3 DEF Device!Read
  <2>8. CASE req.func \notin Reads
    <3>1. TableOf(req.func) \in {"coils", "holding"}
      BY <2>1, <2>8 DEF TableOf, Functions8
    <3>2. DOMAIN t[TableOf(req.func)] = Index
      BY <1>2, <3>1 DEF TablesType
    <3>3. \A e \in Index : e \in Named(req) <=> e \in Device!Entries(Answer')
      BY <2>1, <2>5, BaseFacts DEF Named, Index
    <3>4. \A e \in Named(req) : Answer'.values[e - Addr(req) + 1]
                                = NewValue(req, e - Addr(req))
      <4> SUFFICES ASSUME NEW e \in Named(req)
                   PROVE  Answer'.values[e - Addr(req) + 1]
                            = NewValue(req, e - Addr(req))
        OBVIOUS
      <4>1. e - Addr(req) + 1 \in 1 .. n /\ (e - Addr(req) + 1) - 1 = e - Addr(req)
        BY <2>1, BaseFacts DEF Named, Index
      <4>2. seen(e - Addr(req)) = NewValue(req, e - Addr(req))
        BY <2>8 DEF seen
      <4> QED BY <2>3, <4>1, <4>2
    <3>5. EnsureTables' = [t EXCEPT ![TableOf(req.func)] =
            [i \in Index |-> IF i \in Named(req) THEN NewValue(req, i - Addr(req))
                             ELSE @[i]]]
      BY <1>3, <1>5, <2>8 DEF Carried
    <3>6. EnsureTables' = [t EXCEPT ![Answer'.table] =
            [e \in DOMAIN @ |-> IF e \in Device!Entries(Answer')
                                THEN Answer'.values[e - Answer'.addr + 1]
                                ELSE @[e]]]
      <4> DEFINE tab == t[TableOf(req.func)]
                 mine == [i \in Index |-> IF i \in Named(req)
                            THEN NewValue(req, i - Addr(req)) ELSE tab[i]]
                 its == [e \in DOMAIN tab |-> IF e \in Device!Entries(Answer')
                            THEN Answer'.values[e - Addr(req) + 1] ELSE tab[e]]
      <4>1. mine = its
        BY <3>2, <3>3, <3>4
      <4>2. EnsureTables' = [t EXCEPT ![TableOf(req.func)] = mine]
        BY <3>5
      <4> HIDE DEF mine
      <4> QED BY <2>3, <4>1, <4>2
    <3> QED BY <2>3, <2>6, <2>8, <3>1, <3>6 DEF Device!Write, Device!Writable
  <2> QED BY <2>7, <2>8
<1> QED BY <1>4, <1>5

\* modbus_build_response implements DataModel: for tables, limits and bytes of
\* any size, and for every request, malformed ones included.
THEOREM SlaveImplementsDevice == Spec => DeviceKept
<1>1. Init => Device!Init
  BY DEF Init, Device!Init, EnsureTables, Answer, Device!NoAnswer, Idle
<1>2. IInv /\ [Next]_vars => [Device!Next]_<<EnsureTables, Answer>>
  <2> SUFFICES ASSUME IInv, [Next]_vars
               PROVE  [Device!Next]_<<EnsureTables, Answer>>
    OBVIOUS
  <2>1. ASSUME NEW req \in Requests, MasterAsks(req)
        PROVE  UNCHANGED <<EnsureTables, Answer>>
    BY <2>1 DEF MasterAsks, EnsureTables, Answer, Idle
  <2>2. CASE SlaveAnswers
    BY <2>2, AnswerStep DEF Device!Next
  <2>3. CASE Finish
    <3>1. UNCHANGED EnsureTables /\ Answer' = Device!NoAnswer
      BY <2>3 DEF Finish, EnsureTables, Answer, Device!NoAnswer, Idle
    <3> QED BY <3>1 DEF Device!Next, Device!Forget
  <2>4. CASE UNCHANGED vars
    BY <2>4 DEF vars, EnsureTables, Answer
  <2> QED BY <2>1, <2>2, <2>3, <2>4 DEF Next
<1> QED BY <1>1, <1>2, TablesTyped, PTL DEF Spec, DeviceKept, Device!Spec

-----------------------------------------------------------------------------
(***************************************************************************)
(* No reply overruns its buffer.                                           *)
(***************************************************************************)
LEMMA WordsLength ==
  ASSUME NEW n \in Nat, NEW w, NEW c
  PROVE  /\ Len(<<c>> \o PackWords(w, n)) = 1 + 2 * n
         /\ (<<c>> \o PackWords(w, n))[1] = c
<1> DEFINE f(i) == PutU16(w[(i - 1) \div 2])[1 + ((i - 1) % 2)]
           p == [i \in 1 .. 2 * n |-> f(i)]
<1>1. PackWords(w, n) = p
  BY DEF PackWords
<1> HIDE DEF f
<1>2. p \in Seq({f(i) : i \in 1 .. 2 * n}) /\ Len(p) = 2 * n
  OBVIOUS
<1> HIDE DEF p
<1> QED BY <1>1, <1>2

\* A reply with n bits has the bytes they need and their count before them.
LEMMA BitsLength ==
  ASSUME NEW n \in Nat, NEW v, NEW c
  PROVE  /\ Len(<<c>> \o PackBits(v, n)) = 1 + BitsToBytes(n)
         /\ (<<c>> \o PackBits(v, n))[1] = c
<1> DEFINE f(k) == ByteOf({j \in 0 .. Width - 1 : LET i == (k - 1) * Width + j
                                                 IN i < n /\ v[i] = 1})
           p == [k \in 1 .. BitsToBytes(n) |-> f(k)]
<1>1. PackBits(v, n) = p
  BY DEF PackBits
<1>2. BitsToBytes(n) \in Nat
  BY DivMod, BaseFacts DEF BitsToBytes
<1> HIDE DEF f
<1>3. p \in Seq({f(k) : k \in 1 .. BitsToBytes(n)}) /\ Len(p) = BitsToBytes(n)
  BY <1>2
<1> HIDE DEF p
<1> QED BY <1>1, <1>2, <1>3

\* No reply is longer than its buffer, and a read's byte count is its length.
LEMMA ReplyLength ==
  ASSUME NEW t, NEW req \in Pdu
  PROVE  /\ 1 + Len(Reply(t, req).body) <= MaxPdu
         /\ Reply(t, req).func \in Reads =>
              Reply(t, req).body[1] = Len(Reply(t, req).body) - 1
<1> DEFINE n == Qty(req)
<1>0. MaxPdu \in Nat /\ MaxPdu >= 6
  <2>1. BitsToBytes(0) \in Byte /\ 6 + BitsToBytes(0) <= MaxPdu /\ MaxPdu \in Nat
    BY ModbusAssumption
  <2> QED BY <2>1, BaseFacts DEF Byte
<1>1. CASE Refusal(req) # 0
  <2>1. Reply(t, req) = Exception(req.func, Refusal(req)) /\ req.func \in 0 .. 255
    BY <1>1 DEF Reply, Pdu
  <2>2. Reply(t, req).func >= 128
    BY <1>1, RefusalSeen
  <2>3. Len(Reply(t, req).body) = 1
    BY <2>1 DEF Exception
  <2> QED BY <1>0, <2>1, <2>2, <2>3
<1>2. CASE Refusal(req) = 0
  <2>1. /\ Reply(t, req).func = req.func /\ req.func \in Functions8 /\ n \in Nat
        /\ ~Malformed(req) /\ Len(req.body) >= 4
    BY <1>2, Accepted, BaseFacts DEF Reply, Word
  <2>2. CASE req.func \in BitReads
    <3>1. Reply(t, req).body = ReadBits(t, req)
      BY <1>2, <2>2 DEF Reply
    <3>2. n \in 0 .. MaxReadBits
      BY <2>1, <2>2 DEF Malformed, MaxRead
    <3>3. BitsToBytes(n) \in Byte /\ 2 + BitsToBytes(n) <= MaxPdu
      BY <3>2, ModbusAssumption
    <3> QED BY <1>0, <2>1, <3>1, <3>3, BitsLength, BaseFacts DEF ReadBits, Byte
  <2>3. CASE req.func \in Reads \ BitReads
    <3>1. Reply(t, req).body = ReadRegisters(t, req)
      BY <1>2, <2>3 DEF Reply
    <3>2. n \in 1 .. MaxReadRegs /\ MaxReadRegs \in Nat /\ 2 + 2 * MaxReadRegs <= MaxPdu
      BY <2>1, <2>3, ModbusAssumption DEF Malformed, MaxRead
    <3> QED BY <1>0, <2>1, <3>1, <3>2, WordsLength DEF ReadRegisters
  <2>4. CASE req.func \notin Reads
    <3>1. Reply(t, req).body = SubSeq(req.body, 1, 4)
      BY <1>2, <2>4 DEF Reply
    <3>2. Len(SubSeq(req.body, 1, 4)) = 4
      BY <2>1 DEF Pdu
    <3> QED BY <1>0, <2>1, <2>4, <3>1, <3>2
  <2> QED BY <2>2, <2>3, <2>4
<1> QED BY <1>1, <1>2

\* Every reply fits the buffer of SECURE_FRAME_MAX_PDU bytes, and the byte
\* count of a read is the number of bytes that follow it.
THEOREM RepliesFit == Spec => []ReplyFits
<1>1. Init => ReplyFits
  BY DEF Init, ReplyFits, Idle
<1>2. IInv /\ ReplyFits /\ [Next]_vars => ReplyFits'
  <2> SUFFICES ASSUME IInv, ReplyFits, [Next]_vars PROVE ReplyFits'
    OBVIOUS
  <2>1. ASSUME NEW req \in Requests, MasterAsks(req) PROVE ReplyFits'
    BY <2>1 DEF MasterAsks, ReplyFits
  <2>2. CASE SlaveAnswers
    <3>1. exchange.request \in Pdu
      BY <2>2, AskedIsPdu DEF SlaveAnswers
    <3>2. exchange'.reply = Reply(EnsureTables, exchange.request)
      BY <2>2 DEF SlaveAnswers
    <3> QED BY <3>1, <3>2, ReplyLength DEF ReplyFits
  <2>3. CASE Finish
    BY <2>3 DEF Finish, ReplyFits, Idle
  <2>4. CASE UNCHANGED vars
    BY <2>4 DEF vars, ReplyFits
  <2> QED BY <2>1, <2>2, <2>3, <2>4 DEF Next
<1> QED BY <1>1, <1>2, TablesTyped, PTL DEF Spec
-----------------------------------------------------------------------------
(***************************************************************************)
(* A reply is a PDU: its bytes are bytes.                                  *)
(***************************************************************************)
LEMMA WordsAreBytes ==
  ASSUME NEW n \in Nat, NEW w \in [0 .. n - 1 -> Word]
  PROVE  PackWords(w, n) \in Seq(Byte)
<1> DEFINE f(i) == PutU16(w[(i - 1) \div 2])[1 + ((i - 1) % 2)]
           p == [i \in 1 .. 2 * n |-> f(i)]
<1>1. \A i \in 1 .. 2 * n : f(i) \in Byte
  <2> SUFFICES ASSUME NEW i \in 1 .. 2 * n PROVE f(i) \in Byte
    OBVIOUS
  <2>1. (i - 1) \div 2 \in 0 .. n - 1 /\ (i - 1) % 2 \in 0 .. 1
    OBVIOUS
  <2>2. PutU16(w[(i - 1) \div 2]) \in Byte \X Byte
    BY <2>1, WordBytes
  <2> QED BY <2>1, <2>2
<1> HIDE DEF f
<1>2. p \in Seq(Byte)
  BY <1>1
<1> QED BY <1>2 DEF PackWords, f

\* Packed bits are bytes.
LEMMA BitsAreBytes ==
  ASSUME NEW n \in Nat, NEW v
  PROVE  PackBits(v, n) \in Seq(Byte)
<1> DEFINE s(k) == {j \in 0 .. Width - 1 : LET i == (k - 1) * Width + j
                                          IN i < n /\ v[i] = 1}
           f(k) == ByteOf(s(k))
           p == [k \in 1 .. BitsToBytes(n) |-> f(k)]
<1>1. ASSUME NEW k PROVE f(k) \in Byte
  <2>1. s(k) \in SUBSET (0 .. Width - 1)
    OBVIOUS
  <2> HIDE DEF s
  <2>2. \E x \in Byte : BitsOf(x) = s(k)
    BY <2>1, ModbusAssumption
  <2> QED BY <2>2 DEF ByteOf
<1>2. BitsToBytes(n) \in Nat
  BY DivMod, BaseFacts DEF BitsToBytes
<1>3. PackBits(v, n) = p
  BY DEF PackBits
<1> HIDE DEF f
<1>4. p \in Seq(Byte)
  BY <1>1, <1>2
<1> QED BY <1>3, <1>4

\* The function code of a refusal is still a byte.
LEMMA ExceptionByte ==
  ASSUME NEW f \in 0 .. 255
  PROVE  (IF f < 128 THEN f + 128 ELSE f) \in 0 .. 255
  OBVIOUS

\* Whatever is asked, the reply is made of bytes.
LEMMA ReplyIsPdu ==
  ASSUME NEW t \in TablesType, NEW req \in Pdu
  PROVE  Reply(t, req) \in Pdu
<1> DEFINE n == Qty(req)
           w == [i \in 0 .. n - 1 |-> t[TableOf(req.func)][Addr(req) + i]]
<1>0. req.func \in 0 .. 255 /\ req.body \in Seq(Byte)
  BY DEF Pdu
<1>1. CASE Refusal(req) # 0
  <2>1. Refusal(req) \in 1 .. 3
    BY <1>1 DEF Refusal, IllegalFunction, IllegalValue, IllegalAddress
  <2>2. <<Refusal(req)>> \in Seq(Byte)
    BY <2>1, ModbusAssumption DEF Byte, IllegalValue
  <2>3. Reply(t, req) = Exception(req.func, Refusal(req))
    BY <1>1 DEF Reply
  <2>4. (IF req.func < 128 THEN req.func + 128 ELSE req.func) \in 0 .. 255
    BY <1>0, ExceptionByte
  <2> HIDE DEF n, w
  <2> QED BY <2>2, <2>3, <2>4 DEF Exception, Pdu
<1>2. CASE Refusal(req) = 0
  <2>1. /\ req.func \in Functions8 /\ ~Malformed(req) /\ Len(req.body) >= 4
        /\ Addr(req) \in Nat /\ n \in Nat
    BY <1>2, Accepted, BaseFacts DEF Word
  <2>2. Reply(t, req).body \in Seq(Byte)
    <3>1. CASE req.func \in BitReads
      <4>1. n \in 0 .. MaxReadBits
        BY <2>1, <3>1 DEF Malformed, MaxRead
      <4>2. BitsToBytes(n) \in Byte /\ PackBits(w, n) \in Seq(Byte)
        BY <2>1, <4>1, BitsAreBytes, ModbusAssumption
      <4>3. Reply(t, req).body = <<BitsToBytes(n)>> \o PackBits(w, n)
        BY <1>2, <3>1 DEF Reply, ReadBits
      <4> QED BY <4>2, <4>3
    <3>2. CASE req.func \in Reads \ BitReads
      <4>0. req.func \in {3, 4} /\ TableOf(req.func) \in {"holding", "input"}
        BY <3>2 DEF TableOf
      <4>1. n \in 1 .. MaxReadRegs
        BY <2>1, <3>2 DEF Malformed, MaxRead
      <4>2. 2 * n \in Byte
        BY <4>1, ModbusAssumption, BaseFacts DEF Byte
      <4>3. \A i \in 0 .. n - 1 : Addr(req) + i \in Index
        <5>1. Addr(req) + n <= TableSize
          BY <1>2, <3>2, Accepted DEF Span
        <5> QED BY <2>1, <5>1, BaseFacts DEF Index
      <4>4. w \in [0 .. n - 1 -> Word]
        BY <4>0, <4>3 DEF TablesType
      <4>5. PackWords(w, n) \in Seq(Byte)
        BY <2>1, <4>4, WordsAreBytes
      <4>6. Reply(t, req).body = <<2 * n>> \o PackWords(w, n)
        BY <1>2, <3>2 DEF Reply, ReadRegisters
      <4> QED BY <4>2, <4>5, <4>6
    <3>3. CASE req.func \notin Reads
      <4>1. Reply(t, req).body = SubSeq(req.body, 1, 4)
        BY <1>2, <3>3 DEF Reply
      <4> QED BY <1>0, <2>1, <4>1
    <3> QED BY <3>1, <3>2, <3>3
  <2> QED BY <1>0, <1>2, <2>2 DEF Reply, Pdu
<1> QED BY <1>1, <1>2

\* Tables hold bits and words, and the exchange under way a request and, once
\* it is answered, a reply made of bytes.
THEOREM TypeCorrect == Spec => []TypeOK
<1>1. Init => TypeOK
  BY InitialType DEF Init, TypeOK, TablesType
<1>2. IInv /\ IInv' /\ TypeOK /\ [Next]_vars => TypeOK'
  <2> SUFFICES ASSUME IInv, IInv', TypeOK, [Next]_vars PROVE TypeOK'
    OBVIOUS
  <2>0. tables' \in TablesType /\ ready' \in BOOLEAN
    BY DEF IInv
  <2>1. ASSUME NEW req \in Requests, MasterAsks(req) PROVE TypeOK'
    BY <2>0, <2>1 DEF TypeOK, TablesType, MasterAsks
  <2>2. CASE SlaveAnswers
    <3>1. exchange.request \in Requests /\ exchange.request \in Pdu
      BY <2>2, AskedIsPdu DEF SlaveAnswers, IInv
    <3>2. EnsureTables \in TablesType
      BY EnsureType DEF IInv
    <3>3. Reply(EnsureTables, exchange.request) \in Pdu
      BY <3>1, <3>2, ReplyIsPdu
    <3> QED BY <2>0, <2>2, <3>1, <3>3 DEF TypeOK, TablesType, SlaveAnswers
  <2>3. CASE Finish
    BY <2>0, <2>3 DEF TypeOK, TablesType, Finish
  <2>4. CASE UNCHANGED vars
    BY <2>4 DEF TypeOK, vars
  <2> QED BY <2>1, <2>2, <2>3, <2>4 DEF Next
<1> QED BY <1>1, <1>2, TablesTyped, PTL DEF Spec

-----------------------------------------------------------------------------
(***************************************************************************)
(* What modbus_build_request makes is what modbus_build_response carries   *)
(* out: where the bytes of a multiple write are, and that no check of the  *)
(* slave but the one on the range can refuse a request the master built.   *)
(***************************************************************************)
\* The address and the quantity at the head of a request are four bytes.
LEMMA HeadBytes ==
  ASSUME NEW a \in Word, NEW w \in Word
  PROVE  /\ Head4(a, w) \in Seq(Byte) /\ Len(Head4(a, w)) = 4
         /\ GetU16(Head4(a, w), 1) = a /\ GetU16(Head4(a, w), 3) = w
<1>1. PutU16(a) \in Byte \X Byte /\ PutU16(w) \in Byte \X Byte
  BY WordBytes
<1>2. /\ PutU16(a) = <<a \div Base, a % Base>>
      /\ PutU16(w) = <<w \div Base, w % Base>>
  BY DEF PutU16
<1>3. Head4(a, w) = <<a \div Base, a % Base, w \div Base, w % Base>>
  <2>1. ASSUME NEW q \in Byte, NEW r \in Byte, NEW x \in Byte, NEW y \in Byte
        PROVE  <<q, r>> \o <<x, y>> = <<q, r, x, y>>
    <3> DEFINE s == <<q, r>> \o <<x, y>>
    <3>1. s \in Seq(Byte) /\ Len(s) = 4
      OBVIOUS
    <3>2. s[1] = q /\ s[2] = r /\ s[3] = x /\ s[4] = y
      OBVIOUS
    <3> HIDE DEF s
    <3>3. s = <<q, r, x, y>>
      BY <3>1, <3>2
    <3> QED BY <3>3 DEF s
  <2>2. /\ a \div Base \in Byte /\ a % Base \in Byte
        /\ w \div Base \in Byte /\ w % Base \in Byte
    BY <1>1, <1>2
  <2>3. Head4(a, w) = <<a \div Base, a % Base>> \o <<w \div Base, w % Base>>
    BY <1>2, Zenon DEF Head4
  <2> QED BY <2>1, <2>2, <2>3, Zenon
<1>4. /\ a \div Base \in Byte /\ a % Base \in Byte
      /\ w \div Base \in Byte /\ w % Base \in Byte
  BY <1>1, <1>2
<1>5. /\ GetU16(Head4(a, w), 1) = (a \div Base) * Base + (a % Base)
      /\ GetU16(Head4(a, w), 3) = (w \div Base) * Base + (w % Base)
  BY <1>3 DEF GetU16
<1>6. /\ (a \div Base) * Base + (a % Base) = a
      /\ (w \div Base) * Base + (w % Base) = w
  BY WordBytes, <1>2
<1> QED BY <1>3, <1>4, <1>5, <1>6

\* In a multiple write the byte count follows the head of the request and the
\* data follow the byte count, as they do in the reply to a read.
LEMMA WriteLayout ==
  ASSUME NEW h \in Seq(Byte), NEW c \in Byte, NEW p \in Seq(Byte)
  PROVE  LET body == h \o <<c>> \o p IN
         /\ Len(body) = Len(h) + 1 + Len(p) /\ body[Len(h) + 1] = c
         /\ \A k \in 1 .. Len(p) :
              body[Len(h) + 1 + k] = (<<c>> \o p)[1 + k]
         /\ \A k \in 1 .. Len(h) : body[k] = h[k]
         /\ body \in Seq(Byte)
<1> DEFINE hc == h \o <<c>>
<1>1. /\ hc \in Seq(Byte) /\ Len(hc) = Len(h) + 1 /\ hc[Len(h) + 1] = c
      /\ \A k \in 1 .. Len(h) : hc[k] = h[k]
  OBVIOUS
<1>2. ASSUME NEW a \in Seq(Byte), NEW i \in 1 .. Len(a)
      PROVE  (a \o p)[i] = a[i]
  OBVIOUS
<1>3. ASSUME NEW a \in Seq(Byte)
      PROVE  /\ Len(a \o p) = Len(a) + Len(p)
             /\ \A k \in 1 .. Len(p) : (a \o p)[Len(a) + k] = p[k]
  OBVIOUS
<1>4. \A k \in 1 .. Len(p) : (<<c>> \o p)[1 + k] = p[k]
  OBVIOUS
<1> HIDE DEF hc
<1>5. Len(h) + 1 \in 1 .. Len(hc)
  BY <1>1
<1>6. (hc \o p)[Len(h) + 1] = c
  BY <1>1, <1>2, <1>5
<1>7. /\ Len(hc \o p) = Len(h) + 1 + Len(p)
      /\ \A k \in 1 .. Len(p) : (hc \o p)[Len(h) + 1 + k] = p[k]
  BY <1>1, <1>3
<1>8. \A k \in 1 .. Len(h) : k \in 1 .. Len(hc)
  BY <1>1
<1>9. \A k \in 1 .. Len(h) : (hc \o p)[k] = h[k]
  BY <1>1, <1>2, <1>8
<1>10. hc \o p \in Seq(Byte)
  BY <1>1
<1> QED BY <1>4, <1>6, <1>7, <1>9, <1>10 DEF hc

\* The coils of a request built for n of them: as many bytes as they need, and
\* coil i is i % 2.
LEMMA CoilsBuilt ==
  ASSUME NEW a \in Word, NEW n \in Word, n >= 1, BitsToBytes(n) \in Byte
  PROVE  LET body == CoilsRequest(a, n) IN
         /\ Len(body) = 5 + BitsToBytes(n) /\ body[5] = BitsToBytes(n)
         /\ \A i \in 0 .. n - 1 : BitAt(body, 6, i) = i % 2
<1> DEFINE v == [i \in 0 .. n - 1 |-> i % 2]
           c == BitsToBytes(n)
           p == PackBits(v, n)
           h == Head4(a, n)
           body == h \o <<c>> \o p
<1>0. n \in Nat
  BY BaseFacts DEF Word
<1>1. v \in [0 .. n - 1 -> {0, 1}]
  BY <1>0
<1>2. CoilsRequest(a, n) = body
  BY DEF CoilsRequest
<1>3. h \in Seq(Byte) /\ Len(h) = 4
  BY HeadBytes
<1> HIDE DEF h, v
<1>4. p \in Seq(Byte)
  BY <1>0, BitsAreBytes
<1>5. Len(p) = c
  <2>1. Len(<<c>> \o p) = 1 + c
    BY <1>0, BitsLength
  <2>2. Len(<<c>> \o p) = 1 + Len(p) /\ Len(p) \in Nat
    <3> HIDE DEF p
    <3> QED BY <1>4
  <2>3. c \in Nat
    BY BaseFacts DEF Byte
  <2> HIDE DEF p, c
  <2> QED BY <2>1, <2>2, <2>3
<1>6. \A i \in 0 .. n - 1 : BitAt(<<c>> \o p, 2, i) = v[i]
  BY <1>0, <1>1, BitsRead
<1>7. c \in Byte
  OBVIOUS
<1>8. \A i \in 0 .. n - 1 : 1 + (i \div Width) \in 1 .. c
  <2> TAKE i \in 0 .. n - 1
  <2>1. i \in Nat /\ i < n
    BY <1>0
  <2> QED BY <1>0, <2>1, DivBelow, BaseFacts DEF BitsToBytes
<1>9. \A i \in 0 .. n - 1 : i \div Width \in Nat
  <2> TAKE i \in 0 .. n - 1
  <2>1. i \in Nat /\ Width \in Nat \ {0}
    BY <1>0, BaseFacts
  <2> QED BY <2>1, DivMod
<1> HIDE DEF p, c
<1>10. /\ Len(body) = 5 + Len(p) /\ body[5] = c
       /\ \A k \in 1 .. Len(p) : body[5 + k] = (<<c>> \o p)[1 + k]
  <2>0. h \in Seq(Byte)
    BY <1>3
  <2>1. /\ Len(body) = Len(h) + 1 + Len(p) /\ body[Len(h) + 1] = c
        /\ \A k \in 1 .. Len(p) : body[Len(h) + 1 + k] = (<<c>> \o p)[1 + k]
    BY <2>0, <1>4, <1>7, WriteLayout, ZenonT(30)
  <2> HIDE DEF body
  <2> QED BY <1>3, <2>1
<1> HIDE DEF body
<1>11. \A i \in 0 .. n - 1 : BitAt(body, 6, i) = i % 2
  <2> TAKE i \in 0 .. n - 1
  <2> DEFINE k == 1 + (i \div Width)
  <2>1. k \in 1 .. Len(p) /\ 5 + k = 6 + (i \div Width)
        /\ 1 + k = 2 + (i \div Width)
    BY <1>5, <1>8, <1>9
  <2>2. body[6 + (i \div Width)] = (<<c>> \o p)[2 + (i \div Width)]
    BY <1>10, <2>1
  <2>3. BitAt(body, 6, i) = BitAt(<<c>> \o p, 2, i)
    BY <2>2 DEF BitAt
  <2>4. v[i] = i % 2
    BY DEF v
  <2> QED BY <1>6, <2>3, <2>4
<1> QED BY <1>2, <1>5, <1>10, <1>11 DEF c

\* A write of the n words of w from entry a on, as a master lays it out.
Laid(a, n, w) == Head4(a, n) \o <<2 * n>> \o PackWords(w, n)

\* What the slave finds at each place of a write of the words of w.
HasWords(body, a, n, w) ==
  /\ body \in Seq(Byte)
  /\ Len(body) = 5 + 2 * n /\ body[5] = 2 * n
  /\ GetU16(body, 1) = a /\ GetU16(body, 3) = n
  /\ \A i \in 0 .. n - 1 : GetU16(body, 6 + 2 * i) = w[i]

\* The slave finds in a write what the master laid out.
LEMMA WordsWritten ==
  ASSUME NEW a \in Word, NEW n \in Word, n >= 1, 2 * n \in Byte,
         NEW w \in [0 .. n - 1 -> Word]
  PROVE  HasWords(Laid(a, n, w), a, n, w)
<1> DEFINE c == 2 * n
           p == PackWords(w, n)
           h == Head4(a, n)
           laid == h \o <<c>> \o p
<1>0. n \in Nat /\ a \in Nat
  BY BaseFacts DEF Word
<1>3. h \in Seq(Byte) /\ Len(h) = 4 /\ GetU16(h, 1) = a /\ GetU16(h, 3) = n
  BY HeadBytes
<1> HIDE DEF h
<1>4. p \in Seq(Byte)
  BY <1>0, WordsAreBytes
<1>5. Len(p) = c
  <2>1. Len(<<c>> \o p) = 1 + c
    BY <1>0, WordsLength
  <2>2. Len(<<c>> \o p) = 1 + Len(p) /\ Len(p) \in Nat
    <3> HIDE DEF p
    <3> QED BY <1>4
  <2>3. c \in Nat
    BY <1>0
  <2> HIDE DEF p, c
  <2> QED BY <2>1, <2>2, <2>3
<1>6. \A i \in 0 .. n - 1 : GetU16(<<c>> \o p, 2 + 2 * i) = w[i]
  BY <1>0, WordsRead
<1>7. c \in Byte
  OBVIOUS
<1>8. /\ Len(laid) = 5 + Len(p) /\ laid[5] = c
      /\ \A k \in 1 .. Len(p) : laid[5 + k] = (<<c>> \o p)[1 + k]
      /\ \A k \in 1 .. 4 : laid[k] = h[k]
      /\ laid \in Seq(Byte)
  <2>1. /\ Len(laid) = Len(h) + 1 + Len(p) /\ laid[Len(h) + 1] = c
        /\ \A k \in 1 .. Len(p) : laid[Len(h) + 1 + k] = (<<c>> \o p)[1 + k]
        /\ \A k \in 1 .. Len(h) : laid[k] = h[k]
        /\ laid \in Seq(Byte)
    <3> HIDE DEF c, p
    <3> QED BY <1>3, <1>4, <1>7, WriteLayout
  <2> HIDE DEF laid, c, p
  <2> QED BY <1>3, <2>1
<1> HIDE DEF laid, p
<1>9. \A i \in 0 .. n - 1 : GetU16(laid, 6 + 2 * i) = w[i]
  <2> TAKE i \in 0 .. n - 1
  <2>1. /\ 1 + 2 * i \in 1 .. Len(p) /\ 2 + 2 * i \in 1 .. Len(p)
        /\ 5 + (1 + 2 * i) = 6 + 2 * i /\ 5 + (2 + 2 * i) = (6 + 2 * i) + 1
        /\ 1 + (1 + 2 * i) = 2 + 2 * i /\ 1 + (2 + 2 * i) = (2 + 2 * i) + 1
    BY <1>0, <1>5
  <2> HIDE DEF c
  <2>2. /\ laid[6 + 2 * i] = (<<c>> \o p)[2 + 2 * i]
        /\ laid[(6 + 2 * i) + 1] = (<<c>> \o p)[(2 + 2 * i) + 1]
    BY <1>8, <2>1
  <2>3. GetU16(laid, 6 + 2 * i) = GetU16(<<c>> \o p, 2 + 2 * i)
    BY <2>2 DEF GetU16
  <2> QED BY <1>6, <2>3
<1>10. GetU16(laid, 1) = a /\ GetU16(laid, 3) = n
  BY <1>3, <1>8 DEF GetU16
<1>11. Laid(a, n, w) = laid
  BY DEF Laid, laid, p, h
<1>12. HasWords(laid, a, n, w)
  BY <1>5, <1>8, <1>9, <1>10 DEF HasWords
<1> QED BY <1>11, <1>12

\* The registers of a request built for n of them: two bytes each, and
\* register i is its own address, as far as a word holds it.
LEMMA RegistersBuilt ==
  ASSUME NEW a \in Word, NEW n \in Word, n >= 1, 2 * n \in Byte
  PROVE  LET body == RegistersRequest(a, n) IN
         /\ Len(body) = 5 + 2 * n /\ body[5] = 2 * n
         /\ \A i \in 0 .. n - 1 :
              GetU16(body, 6 + 2 * i) = (a + i) % (Base * Base)
<1> DEFINE w == [i \in 0 .. n - 1 |-> (a + i) % (Base * Base)]
<1>0. n \in Nat /\ a \in Nat
  BY BaseFacts DEF Word
<1>1. w \in [0 .. n - 1 -> Word]
  <2>1. Base * Base \in Nat \ {0}
    BY BaseFacts
  <2>2. \A i \in 0 .. n - 1 : (a + i) % (Base * Base) \in Word
    <3> TAKE i \in 0 .. n - 1
    <3>1. a + i \in Nat
      BY <1>0
    <3> QED BY <2>1, <3>1, DivMod DEF Word
  <2> QED BY <2>2
<1>2. RegistersRequest(a, n) = Laid(a, n, w)
  BY DEF RegistersRequest, Laid
<1>3. \A i \in 0 .. n - 1 : w[i] = (a + i) % (Base * Base)
  OBVIOUS
<1> HIDE DEF w
<1>4. HasWords(Laid(a, n, w), a, n, w)
  BY <1>1, WordsWritten
<1> QED BY <1>2, <1>3, <1>4 DEF HasWords

\* The slave finds nothing wrong with a request the master built.
LEMMA BuiltAccepted ==
  ASSUME NEW req \in Pdu, Built(req)
  PROVE  /\ req.func \in Functions8 /\ ~Malformed(req)
         /\ Addr(req) \in Word /\ Qty(req) \in Word
         /\ req.func = WriteCoil => Qty(req) \in {0, On}
         /\ req.func = WriteCoils =>
              /\ Qty(req) \in 1 .. MaxWriteBits
              /\ req.body = CoilsRequest(Addr(req), Qty(req))
         /\ req.func = WriteRegisters =>
              /\ Qty(req) \in 1 .. MaxWriteRegs
              /\ req.body = RegistersRequest(Addr(req), Qty(req))
<1> DEFINE f == req.func
           a == Addr(req)
           v == Qty(req)
<1>1. f \in 0 .. 255 /\ req # NoPdu
  <2>1. f \in 0 .. 255
    BY DEF Pdu
  <2>2. NoPdu.func = -1
    BY DEF NoPdu
  <2> QED BY <2>1, <2>2
<1>2. Len(req.body) \in Nat /\ Len(req.body) >= 4 /\ req = BuildRequest(f, a, v)
  BY DEF Pdu, Built
<1>3. a \in Word /\ v \in Word
  BY <1>2, Field DEF Addr, Qty
<1>4. BuildRequest(f, a, v) # NoPdu
  BY <1>1, <1>2
<1> HIDE DEF a, v, f
<1>5. CASE f \in Reads
  <2>1. v \in 1 .. MaxRead(f)
    BY <1>4, <1>5 DEF BuildRequest
  <2>2. ~(Len(req.body) < 4)
    BY <1>2
  <2> QED BY <1>3, <1>5, <2>1, <2>2 DEF Malformed, Functions8, f, a, v
<1>6. CASE f = WriteCoil
  <2>1. BuildRequest(f, a, v)
          = [func |-> f, body |-> Head4(a, IF v # 0 THEN On ELSE 0)]
    BY <1>6 DEF BuildRequest
  <2>2. req.body = Head4(a, IF v # 0 THEN On ELSE 0)
    BY <1>2, <2>1
  <2>3. 0 \in Word /\ On \in Word
    <3>1. (Base - 1) * Base \in Nat /\ Base * Base \in Nat
          /\ (Base - 1) * Base = Base * Base - Base
      BY BaseFacts
    <3> QED BY <3>1, BaseFacts DEF Word, On
  <2>4. v = IF v # 0 THEN On ELSE 0
    BY <1>3, <2>2, <2>3, HeadBytes DEF v, Qty
  <2>5. ~(Len(req.body) < 4) /\ v \in {0, On}
    BY <1>2, <2>4
  <2> QED BY <1>3, <1>6, <2>5 DEF Malformed, Functions8, f, a, v
<1>7. CASE f = WriteRegister
  <2>1. ~(Len(req.body) < 4)
    BY <1>2
  <2> QED BY <1>3, <1>7, <2>1 DEF Malformed, Functions8, f, a, v
<1>8. CASE f = WriteCoils
  <2>1. v \in 1 .. MaxWriteBits
    BY <1>4, <1>8 DEF BuildRequest
  <2>2. BuildRequest(f, a, v) = [func |-> f, body |-> CoilsRequest(a, v)]
    BY <1>8, <2>1 DEF BuildRequest
  <2>3. req.body = CoilsRequest(a, v)
    BY <1>2, <2>2
  <2>4. BitsToBytes(v) \in Byte
    BY <2>1, ModbusAssumption
  <2>5. Len(req.body) = 5 + BitsToBytes(v) /\ req.body[5] = BitsToBytes(v)
    BY <1>3, <2>1, <2>3, <2>4, CoilsBuilt, ModbusAssumption
  <2>6. BitsToBytes(v) \in Nat
    BY <2>4, BaseFacts DEF Byte
  <2>7. ~BadWrite(req, MaxWriteBits, BitsToBytes(v))
    <3>1. ~(Len(req.body) < 5) /\ ~(Len(req.body) < 5 + req.body[5])
      BY <2>5, <2>6
    <3> QED BY <2>1, <2>5, <3>1 DEF BadWrite, v
  <2> QED BY <1>3, <1>8, <2>1, <2>3, <2>7 DEF Malformed, Functions8, f, a, v
<1>9. CASE f = WriteRegisters
  <2>1. v \in 1 .. MaxWriteRegs
    BY <1>4, <1>9 DEF BuildRequest
  <2>2. BuildRequest(f, a, v) = [func |-> f, body |-> RegistersRequest(a, v)]
    BY <1>9, <2>1 DEF BuildRequest
  <2>3. req.body = RegistersRequest(a, v)
    BY <1>2, <2>2
  <2>4. 2 * v \in Byte /\ v \in Nat
    BY <2>1, ModbusAssumption, BaseFacts DEF Byte
  <2>5. Len(req.body) = 5 + 2 * v /\ req.body[5] = 2 * v
    BY <1>3, <2>1, <2>3, <2>4, RegistersBuilt, ModbusAssumption
  <2>6. ~BadWrite(req, MaxWriteRegs, 2 * v)
    <3>1. ~(Len(req.body) < 5) /\ ~(Len(req.body) < 5 + req.body[5])
      BY <2>4, <2>5
    <3> QED BY <2>1, <2>5, <3>1 DEF BadWrite, v
  <2> QED BY <1>3, <1>9, <2>1, <2>3, <2>6 DEF Malformed, Functions8, f, a, v
<1>10. f \in Functions8
  <2> SUFFICES ASSUME f \notin Functions8 PROVE FALSE
    OBVIOUS
  <2>1. f \notin Reads /\ f # WriteCoil /\ f # WriteRegister
        /\ f # WriteCoils /\ f # WriteRegisters
    BY DEF Functions8
  <2> QED BY <1>4, <2>1 DEF BuildRequest
<1> QED BY <1>5, <1>6, <1>7, <1>8, <1>9, <1>10 DEF Functions8

\* What a write the master built leaves in the entries it names.
LEMMA BuiltValue ==
  ASSUME NEW req \in Pdu, Built(req), req.func \notin Reads,
         Addr(req) + Span(req) <= TableSize, NEW i \in 0 .. Span(req) - 1
  PROVE  NewValue(req, i) = Meant(req, i)
<1> DEFINE a == Addr(req)
           n == Qty(req)
<1>1. /\ req.func \in Functions8 /\ a \in Word /\ n \in Word
      /\ a \in Nat /\ n \in Nat
  BY BuiltAccepted, BaseFacts DEF Word
<1>2. CASE req.func = WriteCoil
  <2>1. n \in {0, On} /\ On # 0
    BY <1>2, BuiltAccepted, BaseFacts DEF On
  <2> QED BY <1>2, <2>1 DEF NewValue, Meant
<1>3. CASE req.func = WriteRegister
  BY <1>3 DEF NewValue, Meant
<1>4. CASE req.func = WriteCoils
  <2>1. n \in 1 .. MaxWriteBits /\ req.body = CoilsRequest(a, n)
    BY <1>4, BuiltAccepted
  <2>2. BitsToBytes(n) \in Byte /\ n >= 1 /\ Span(req) = n
    BY <1>1, <1>4, <2>1, ModbusAssumption DEF Span
  <2> HIDE DEF a, n
  <2>3. \A k \in 0 .. n - 1 : BitAt(CoilsRequest(a, n), 6, k) = k % 2
    BY <1>1, <2>2, CoilsBuilt
  <2>4. BitAt(req.body, 6, i) = i % 2
    BY <2>1, <2>2, <2>3
  <2> QED BY <1>4, <2>4 DEF NewValue, Meant
<1>5. CASE req.func = WriteRegisters
  <2>1. n \in 1 .. MaxWriteRegs /\ req.body = RegistersRequest(a, n)
    BY <1>5, BuiltAccepted
  <2>2. 2 * n \in Byte /\ n >= 1 /\ Span(req) = n
    BY <1>1, <1>5, <2>1, ModbusAssumption, BaseFacts DEF Span, Byte
  <2>3. i \in Nat /\ a + i < TableSize
    BY <1>1, <2>2, BaseFacts
  <2> HIDE DEF a, n
  <2>4. \A k \in 0 .. n - 1 :
          GetU16(RegistersRequest(a, n), 6 + 2 * k) = (a + k) % (Base * Base)
    BY <1>1, <2>2, RegistersBuilt
  <2>5. GetU16(req.body, 6 + 2 * i) = (a + i) % (Base * Base)
    BY <2>1, <2>2, <2>4
  <2>6. (a + i) % (Base * Base) = a + i
    <3>1. ASSUME NEW x \in Nat, NEW m \in Nat, x < m PROVE x % m = x
      BY <3>1
    <3>2. a + i \in Nat /\ Base * Base \in Nat /\ a + i < Base * Base
      BY <1>1, <2>3, BaseFacts, EntriesAreAddressed
    <3> QED BY <3>1, <3>2
  <2> QED BY <1>5, <2>5, <2>6 DEF NewValue, Meant, a
<1> QED BY <1>1, <1>2, <1>3, <1>4, <1>5 DEF Functions8

\* A request the master built is refused only for its range, and a write of
\* it leaves what was meant.
LEMMA BuiltAnswered ==
  ASSUME IInv, SlaveAnswers, Built(exchange.request)
  PROVE  LET req == exchange.request IN
         IF Addr(req) + Span(req) > TableSize
         THEN exchange'.reply = Exception(req.func, IllegalAddress)
         ELSE /\ exchange'.reply.func = req.func
              /\ req.func \notin Reads => \A i \in 0 .. Span(req) - 1 :
                   tables'[TableOf(req.func)][Addr(req) + i] = Meant(req, i)
<1> DEFINE req == exchange.request
           t == EnsureTables
<1>1. req \in Pdu
  BY AskedIsPdu DEF SlaveAnswers
<1>2. /\ tables' = Carried(t, req) /\ exchange'.reply = Reply(t, req)
      /\ t \in TablesType
  BY EnsureType DEF SlaveAnswers, IInv
<1>3. /\ req.func \in Functions8 /\ ~Malformed(req) /\ Addr(req) \in Nat
      /\ Qty(req) \in Nat
  BY <1>1, BuiltAccepted, BaseFacts DEF Word
<1> HIDE DEF req, t
<1>4. CASE Addr(req) + Span(req) > TableSize
  <2>1. Refusal(req) = IllegalAddress /\ IllegalAddress # 0
    BY <1>3, <1>4 DEF Refusal, Beyond, IllegalAddress
  <2>2. Reply(t, req) = Exception(req.func, IllegalAddress)
    BY <2>1 DEF Reply
  <2> QED BY <1>2, <1>4, <2>2 DEF req
<1>5. CASE ~(Addr(req) + Span(req) > TableSize)
  <2>1. Refusal(req) = 0
    BY <1>3, <1>5 DEF Refusal, Beyond
  <2>2. Reply(t, req).func = req.func
    BY <2>1 DEF Reply
  <2>3. /\ Span(req) \in Nat \ {0} /\ Addr(req) + Span(req) <= TableSize
    BY <1>1, <2>1, Accepted
  <2>4. ASSUME req.func \notin Reads, NEW i \in 0 .. Span(req) - 1
        PROVE  tables'[TableOf(req.func)][Addr(req) + i] = Meant(req, i)
    <3>1. TableOf(req.func) \in {"coils", "holding"}
      BY <1>3, <2>4 DEF TableOf, Functions8
    <3>2. Addr(req) + i \in Index /\ (Addr(req) + i) - Addr(req) = i
      BY <1>3, <2>3, BaseFacts DEF Index
    <3>3. Addr(req) + i \in Named(req)
      BY <1>3, <2>3, <3>2 DEF Named
    <3> DEFINE new == [e \in Index |->
                         IF e \in Named(req) THEN NewValue(req, e - Addr(req))
                         ELSE t[TableOf(req.func)][e]]
    <3>4. Carried(t, req) = [t EXCEPT ![TableOf(req.func)] = new]
      BY <2>1, <2>4 DEF Carried
    <3>5. new[Addr(req) + i] = NewValue(req, i)
      BY <3>2, <3>3
    <3> HIDE DEF new
    <3>6. Carried(t, req)[TableOf(req.func)] = new
      BY <1>2, <3>1, <3>4 DEF TablesType
    <3>7. NewValue(req, i) = Meant(req, i)
      BY <1>1, <2>3, <2>4, BuiltValue DEF req
    <3> QED BY <1>2, <3>5, <3>6, <3>7
  <2> QED BY <1>2, <1>5, <2>2, <2>4 DEF req
<1> QED BY <1>4, <1>5 DEF req

\* What modbus_build_request makes is carried out as it was meant, or refused
\* because it leaves the tables and for no other reason.
THEOREM BuiltIsCarriedOut == Spec => []BuiltIsDone
<1>1. Init => BuiltIsDone
  BY DEF Init, BuiltIsDone, Idle
<1>2. IInv /\ BuiltIsDone /\ [Next]_vars => BuiltIsDone'
  <2> SUFFICES ASSUME IInv, BuiltIsDone, [Next]_vars PROVE BuiltIsDone'
    OBVIOUS
  <2>1. ASSUME NEW req \in Requests, MasterAsks(req) PROVE BuiltIsDone'
    BY <2>1 DEF MasterAsks, BuiltIsDone
  <2>2. CASE SlaveAnswers
    <3>1. exchange'.request = exchange.request
      BY <2>2 DEF SlaveAnswers
    <3> SUFFICES ASSUME Built(exchange.request)
                 PROVE  BuiltIsDone'
      BY <3>1 DEF BuiltIsDone
    <3> QED BY <2>2, <3>1, BuiltAnswered DEF BuiltIsDone
  <2>3. CASE Finish
    BY <2>3 DEF Finish, BuiltIsDone, Idle
  <2>4. CASE UNCHANGED vars
    BY <2>4 DEF vars, BuiltIsDone
  <2> QED BY <2>1, <2>2, <2>3, <2>4 DEF Next
<1> QED BY <1>1, <1>2, TablesTyped, PTL DEF Spec

-----------------------------------------------------------------------------
(***************************************************************************)
(* Sweeps: the runs of secure_send_demo.c on top of them.                  *)
(***************************************************************************)
USE DEF MaxRegisters, StartRegister

(***************************************************************************)
(* The sizes of a sweep.                                                   *)
(***************************************************************************)
\* A frame has between one register and MAX_REGISTERS, the first frame of a
\* longer run one, the last frame of any run all of them.
LEMMA RegsRange ==
  ASSUME NEW n \in Nat \ {0}, NEW i \in 0 .. n - 1
  PROVE  /\ Regs(n, i) \in 1 .. MaxRegisters
         /\ i = n - 1 => Regs(n, i) = MaxRegisters
         /\ n > 1 /\ i = 0 => Regs(n, i) = 1
<1>1. CASE n = 1
  BY <1>1 DEF Regs
<1>2. CASE n > 1
  <2> DEFINE b == n - 1
             x == i * 122
             q == x \div b
             r == x % b
  <2>1. b \in Nat \ {0} /\ x \in Nat /\ i \in Nat /\ i <= b
    BY <1>2
  <2>2. Regs(n, i) = 1 + q
    BY <1>2 DEF Regs
  <2>x. x = 122 * i
    OBVIOUS
  <2> HIDE DEF b, x
  <2>3. q \in Nat /\ x = b * q + r /\ r \in 0 .. b - 1
    BY <2>1, DivMod
  <2> HIDE DEF q, r
  <2>4. q <= 122
    <3> SUFFICES ASSUME q >= 123 PROVE FALSE
      BY <2>3
    <3>1. b * q >= b * 123
      BY <2>1, <2>3
    <3> QED BY <2>1, <2>3, <2>x, <3>1
  <2>5. ASSUME i = b PROVE q = 122
    <3> SUFFICES ASSUME q <= 121 PROVE FALSE
      BY <2>3, <2>4
    <3>1. b * q <= b * 121
      BY <2>1, <2>3
    <3> QED BY <2>1, <2>3, <2>x, <2>5, <3>1
  <2>6. ASSUME i = 0 PROVE q = 0
    <3> SUFFICES ASSUME q >= 1 PROVE FALSE
      BY <2>3
    <3>1. b * q >= b
      BY <2>1, <2>3
    <3> QED BY <2>1, <2>3, <2>x, <2>6, <3>1
  <2> QED BY <2>2, <2>3, <2>4, <2>5, <2>6 DEF b
<1> QED BY <1>1, <1>2

\* Up to MAX_REGISTERS frames, each has more registers than the one before.
LEMMA RegsGrow ==
  ASSUME NEW n \in 2 .. MaxRegisters, NEW i \in 1 .. n - 1
  PROVE  Regs(n, i) > Regs(n, i - 1)
<1> DEFINE b == n - 1
           x == (i - 1) * 122
           y == i * 122
           p == x \div b
           q == y \div b
           r == x % b
           s == y % b
<1>1. b \in 1 .. 122 /\ b \in Nat \ {0} /\ x \in Nat /\ y \in Nat /\ y = x + 122
  OBVIOUS
<1>2. Regs(n, i) = 1 + q /\ Regs(n, i - 1) = 1 + p
  BY DEF Regs
<1> HIDE DEF b, x, y
<1>3. p \in Nat /\ x = b * p + r /\ r \in 0 .. b - 1
  BY <1>1, DivMod
<1>4. q \in Nat /\ y = b * q + s /\ s \in 0 .. b - 1
  BY <1>1, DivMod
<1> HIDE DEF p, q, r, s
<1>5. q > p
  <2> SUFFICES ASSUME q <= p PROVE FALSE
    BY <1>3, <1>4
  <2>1. b * q <= b * p /\ b * p \in Nat /\ b * q \in Nat
    BY <1>1, <1>3, <1>4
  <2> QED BY <1>1, <1>3, <1>4, <2>1
<1> QED BY <1>2, <1>3, <1>4, <1>5


-----------------------------------------------------------------------------
(***************************************************************************)
(* The frames of a sweep.                                                  *)
(***************************************************************************)
\* The values of frame i: register r is r + i, as far as a word holds it.
Values(n, i) == [r \in 0 .. Regs(n, i) - 1 |-> (r + i) % (Base * Base)]

\* Lengths of a run that a sender may be given.
Length == (Counts \cup {1}) \cap (Nat \ {0})

\* No value of a frame wraps, and its size is a word and its byte count a byte.
LEMMA SweepValues ==
  ASSUME SweepFits, NEW n \in Length, NEW i \in 0 .. n - 1
  PROVE  /\ Values(n, i) \in [0 .. Regs(n, i) - 1 -> Word]
         /\ \A r \in 0 .. Regs(n, i) - 1 : Values(n, i)[r] = r + i
         /\ Regs(n, i) \in Word /\ Regs(n, i) >= 1 /\ 2 * Regs(n, i) \in Byte
         /\ Regs(n, i) \in 1 .. MaxWriteRegs /\ StartRegister \in Word
<1> DEFINE k == Regs(n, i)
<1>0. n \in Nat \ {0} /\ n \in Counts \cup {1}
  BY DEF Length
<1>1. k \in 1 .. 123 /\ n + 121 < Base * Base /\ 123 <= MaxWriteRegs
  BY <1>0, RegsRange DEF SweepFits
<1>2. Base \in Nat /\ Base * Base \in Nat /\ MaxWriteRegs \in Nat
  BY BaseFacts, ModbusAssumption
<1>3. \A r \in 0 .. k - 1 : r + i \in 0 .. Base * Base - 1
  BY <1>0, <1>1, <1>2
<1>4. \A r \in 0 .. k - 1 : (r + i) % (Base * Base) = r + i
  BY <1>2, <1>3
<1>5. 2 * k \in Byte
  BY <1>1, <1>2, ModbusAssumption DEF Byte
<1>6. k \in Word /\ StartRegister \in Word
  BY <1>0, <1>1, <1>2 DEF Word
<1> HIDE DEF k
<1>7. Values(n, i) = [r \in 0 .. k - 1 |-> (r + i) % (Base * Base)]
  BY DEF Values, k
<1>8. \A r \in 0 .. k - 1 : Values(n, i)[r] = r + i
  BY <1>4, <1>7
<1>9. Values(n, i) \in [0 .. k - 1 -> Word]
  BY <1>3, <1>4, <1>7 DEF Word
<1>10. k >= 1 /\ k \in 1 .. MaxWriteRegs
  BY <1>1, <1>2
<1> QED BY <1>5, <1>6, <1>8, <1>9, <1>10, Zenon DEF k

\* Every frame of a sweep is a write of its registers that no slave refuses,
\* and register r of it is written r + i (secure_send_demo.c:169-187).
LEMMA SweepFrame ==
  ASSUME SweepFits, NEW n \in Length, NEW i \in 0 .. n - 1
  PROVE  LET pdu == SweepPdu(n, i) IN
         /\ pdu \in Pdu /\ pdu.func = WriteRegisters
         /\ Addr(pdu) = StartRegister /\ Qty(pdu) = Regs(n, i)
         /\ Refusal(pdu) = 0
         /\ \A r \in 0 .. Regs(n, i) - 1 : NewValue(pdu, r) = r + i
<1> DEFINE k == Regs(n, i)
           w == Values(n, i)
           pdu == SweepPdu(n, i)
<1>1. HasWords(Laid(StartRegister, k, w), StartRegister, k, w)
  BY SweepValues, WordsWritten
<1>2. pdu = [func |-> WriteRegisters, body |-> Laid(StartRegister, k, w)]
  BY DEF SweepPdu, Laid, Head4, Values
<1>3. pdu.func = WriteRegisters /\ pdu.body = Laid(StartRegister, k, w)
  BY <1>2
<1>4. pdu \in Pdu
  BY <1>1, <1>2 DEF Pdu, HasWords
<1>5. Addr(pdu) = StartRegister /\ Qty(pdu) = k
  BY <1>1, <1>3 DEF HasWords, Addr, Qty
<1>6. /\ k \in 1 .. MaxWriteRegs /\ MaxWriteRegs \in Nat
      /\ \A r \in 0 .. k - 1 : w[r] = r + i
  BY SweepValues, ModbusAssumption
<1>7. ~Malformed(pdu)
  <2>1. Len(pdu.body) = 5 + 2 * k /\ pdu.body[5] = 2 * k
    BY <1>1, <1>3 DEF HasWords
  <2>2. ~BadWrite(pdu, MaxWriteRegs, 2 * Qty(pdu))
    BY <1>5, <1>6, <2>1 DEF BadWrite
  <2> QED BY <1>3, <2>2 DEF Malformed
<1>8. ~Beyond(pdu)
  <2>1. n \in Nat \ {0}
    BY DEF Length
  <2>2. k \in 1 .. 123
    BY <2>1, RegsRange
  <2>3. 124 <= TableSize
    BY DEF SweepFits
  <2>4. Span(pdu) = k
    BY <1>3, <1>5 DEF Span
  <2> QED BY <1>5, <2>2, <2>3, <2>4, BaseFacts DEF Beyond
<1>9. Refusal(pdu) = 0
  BY <1>3, <1>7, <1>8 DEF Refusal, Functions8
<1>10. ASSUME NEW r \in 0 .. k - 1 PROVE NewValue(pdu, r) = r + i
  <2>1. NewValue(pdu, r) = GetU16(pdu.body, 6 + 2 * r)
    BY <1>3 DEF NewValue
  <2> QED BY <1>1, <1>3, <1>6, <2>1 DEF HasWords
<1> QED BY <1>3, <1>4, <1>5, <1>9, <1>10

\* What is left in the slave's registers when a frame has been carried out,
\* and what it answers.
LEMMA SweepCarried ==
  ASSUME SweepFits, NEW n \in Length, NEW i \in 0 .. n - 1, NEW t \in TablesType
  PROVE  LET pdu == SweepPdu(n, i) IN
         /\ Carried(t, pdu) \in TablesType
         /\ \A r \in 0 .. Regs(n, i) - 1 :
              Carried(t, pdu).holding[StartRegister + r] = r + i
         /\ Reply(t, pdu) \in Pdu /\ Reply(t, pdu).func = WriteRegisters
<1> DEFINE pdu == SweepPdu(n, i)
           k == Regs(n, i)
<1>1. /\ pdu \in Pdu /\ pdu.func = WriteRegisters
      /\ Addr(pdu) = StartRegister /\ Qty(pdu) = k /\ Refusal(pdu) = 0
      /\ \A r \in 0 .. k - 1 : NewValue(pdu, r) = r + i
  BY SweepFrame
<1>2. k \in 1 .. 123 /\ 124 <= TableSize /\ TableSize \in Nat
  <2>1. n \in Nat \ {0}
    BY DEF Length
  <2> QED BY SMTT(30), <2>1, RegsRange, BaseFacts DEF SweepFits
<1> HIDE DEF pdu, k
<1>3. Carried(t, pdu) \in TablesType /\ Reply(t, pdu) \in Pdu
  BY <1>1, CarriedType, ReplyIsPdu
<1>4. Reply(t, pdu).func = WriteRegisters
  BY <1>1 DEF Reply
<1>5. Carried(t, pdu).holding
        = [e \in Index |-> IF e \in Named(pdu) THEN NewValue(pdu, e - Addr(pdu))
                           ELSE t.holding[e]]
  <2>1. TableOf(pdu.func) = "holding"
    BY <1>1 DEF TableOf
  <2> QED BY <1>1, <2>1 DEF Carried, TablesType
<1>6. ASSUME NEW r \in 0 .. k - 1
      PROVE  Carried(t, pdu).holding[StartRegister + r] = r + i
  <2> DEFINE e == StartRegister + r
  <2>1. e \in Index /\ e - Addr(pdu) = r /\ e \in Named(pdu)
    BY <1>1, <1>2 DEF Index, Named, Span
  <2>2. NewValue(pdu, r) = r + i
    BY <1>1
  <2> HIDE DEF e
  <2>3. Carried(t, pdu).holding[e] = NewValue(pdu, e - Addr(pdu))
    BY <1>5, <2>1
  <2>4. Carried(t, pdu).holding[e] = r + i
    BY <2>1, <2>2, <2>3
  <2> QED BY <2>4 DEF e
<1> QED BY <1>3, <1>4, <1>6 DEF pdu, k

\* A frame has a whole number of blocks.
LEMMA BlocksNat ==
  ASSUME NEW pdu \in Pdu
  PROVE  Blocks(pdu) \in Nat
<1> DEFINE bytes == Len(pdu.body) + 4 + 15
<1>1. bytes \in Nat
  BY DEF Pdu
<1> HIDE DEF bytes
<1>2. bytes \div 16 \in Nat
  BY <1>1, DivMod
<1> QED BY <1>2 DEF Blocks, bytes

-----------------------------------------------------------------------------
(***************************************************************************)
(* A run counts its frames, a frame at a time.                             *)
(***************************************************************************)
RunRecord ==
  [at : {"off", "running", "ended"}, count : Length, i : Nat, ok : Nat, failed : Nat]

\* A run has counted what is behind it, and has ended at its last frame.
RunOK(run) ==
  /\ run \in RunRecord
  /\ run.i <= run.count /\ run.ok + run.failed = run.i
  /\ run.at = "running" => run.i < run.count
  /\ run.at = "ended" => run.i = run.count

RunsInv ==
  /\ sender \in [run : {run \in RunRecord : RunOK(run)}, port : BOOLEAN, runs : 0 .. MaxRuns]
  /\ RunOK(receiver)
  /\ master \in [m2s : Nat, s2m : Nat] /\ slave \in [m2s : Nat, s2m : Nat]
  /\ tables \in TablesType /\ ready \in BOOLEAN
  /\ DOMAIN sentFiles \subseteq Nat \cup {-1}
  /\ NoneRefused

\* A run that begins has counted nothing, and one that was stopped is gone.
LEMMA RunBegins ==
  ASSUME DemoRunsAssumption
  PROVE  RunOK(NoRun) /\ \A arg \in Counts : RunOK(NewRun(arg))
<1>1. RunOK(NoRun)
  BY DEF RunOK, RunRecord, NoRun, Length
<1>2. ASSUME NEW arg \in Counts PROVE RunOK(NewRun(arg))
  <2>1. (IF arg < 1 THEN 1 ELSE arg) \in Length
    BY DEF DemoRunsAssumption, Length
  <2> QED BY <2>1 DEF RunOK, RunRecord, NewRun, Length
<1> QED BY <1>1, <1>2

\* Each frame of a run is counted once, as good or as failed.
LEMMA RunGoesOn ==
  ASSUME NEW run, RunOK(run), run.at = "running", NEW good \in BOOLEAN
  PROVE  /\ RunOK(Counted(run, good))
         /\ Counted(run, good).count = run.count /\ Counted(run, good).i = run.i + 1
         /\ Counted(run, good).failed = (IF good THEN run.failed ELSE run.failed + 1)
         /\ Counted(run, good).at = (IF run.i + 1 = run.count THEN "ended" ELSE "running")
<1>1. /\ run \in RunRecord /\ run.count \in Nat \ {0}
      /\ run.i < run.count /\ run.ok + run.failed = run.i
  BY DEF RunOK, RunRecord, Length
<1> DEFINE ok == IF good THEN run.ok + 1 ELSE run.ok
           failed == IF good THEN run.failed ELSE run.failed + 1
           at == IF run.i + 1 = run.count THEN "ended" ELSE run.at
           c == Counted(run, good)
<1>2. c = [run EXCEPT !.i = run.i + 1, !.ok = ok, !.failed = failed, !.at = at]
  BY <1>1 DEF Counted, RunRecord
<1>3. /\ at \in {"running", "ended"} /\ ok \in Nat /\ failed \in Nat
      /\ run.i + 1 \in Nat /\ run.i + 1 <= run.count /\ ok + failed = run.i + 1
      /\ at = (IF run.i + 1 = run.count THEN "ended" ELSE "running")
  BY <1>1 DEF RunRecord
<1> HIDE DEF ok, failed, at
<1>4. /\ c \in RunRecord /\ c.i = run.i + 1 /\ c.ok = ok /\ c.failed = failed
      /\ c.at = at /\ c.count = run.count
  BY <1>1, <1>2, <1>3 DEF RunRecord
<1> HIDE DEF c
<1>5. RunOK(c)
  BY <1>1, <1>3, <1>4 DEF RunOK
<1> QED BY <1>3, <1>4, <1>5 DEF c, failed

\* What the sender's count does to its record.
LEMMA TalliedRun ==
  ASSUME RunsInv, BuildsFrame, NEW good \in BOOLEAN, Tallied(good)
  PROVE  /\ sender' \in [run : {run \in RunRecord : RunOK(run)}, port : BOOLEAN, runs : 0 .. MaxRuns]
         /\ sender'.run.count = sender.run.count /\ sender'.run.i = sender.run.i + 1
         /\ sender'.run.failed = (IF good THEN sender.run.failed ELSE sender.run.failed + 1)
         /\ sender'.run.at = (IF sender.run.i + 1 = sender.run.count THEN "ended" ELSE "running")
         /\ sender'.port = sender.port
<1>1. RunOK(sender.run) /\ sender.run.at = "running"
  BY DEF RunsInv, BuildsFrame
<1> DEFINE c == Counted(sender.run, good)
<1>2. /\ RunOK(c) /\ c.count = sender.run.count /\ c.i = sender.run.i + 1
      /\ c.failed = (IF good THEN sender.run.failed ELSE sender.run.failed + 1)
      /\ c.at = (IF sender.run.i + 1 = sender.run.count THEN "ended" ELSE "running")
  BY <1>1, RunGoesOn
<1>3. sender' = [sender EXCEPT !.run = c]
  BY DEF Tallied
<1> HIDE DEF c
<1>4. c \in RunRecord
  BY <1>2 DEF RunOK
<1>5. sender'.run = c /\ sender'.port = sender.port /\ sender'.runs = sender.runs
  BY <1>3 DEF RunsInv
<1>6. sender' \in [run : {run \in RunRecord : RunOK(run)}, port : BOOLEAN, runs : 0 .. MaxRuns]
  BY <1>2, <1>3, <1>4 DEF RunsInv
<1> QED BY <1>2, <1>5, <1>6

\* The frame under way is one of the sweep.
LEMMA ThisFrame ==
  ASSUME RunsInv, BuildsFrame
  PROVE  /\ sender.run.count \in Length /\ sender.run.i \in 0 .. sender.run.count - 1
         /\ sender.run.failed \in Nat
         /\ ThisPdu = SweepPdu(sender.run.count, sender.run.i)
<1>1. RunOK(sender.run) /\ sender.run.at = "running"
  BY DEF RunsInv, BuildsFrame
<1> QED BY <1>1 DEF RunOK, RunRecord, ThisPdu, Length

-----------------------------------------------------------------------------
(***************************************************************************)
(* The steps.                                                              *)
(***************************************************************************)
\* Building a frame spends a whole number of blocks of the sender's counter.
LEMMA MasterSpends ==
  ASSUME SweepFits, RunsInv, BuildsFrame
  PROVE  /\ Blocks(ThisPdu) \in Nat /\ ThisPdu \in Pdu
         /\ [master EXCEPT !.m2s = @ + Blocks(ThisPdu)] \in [m2s : Nat, s2m : Nat]
         /\ [slave EXCEPT !.m2s = @ + Blocks(ThisPdu)] \in [m2s : Nat, s2m : Nat]
         /\ [master EXCEPT !.m2s = @ + Blocks(ThisPdu)].m2s = master.m2s + Blocks(ThisPdu)
<1>1. ThisPdu \in Pdu
  BY ThisFrame, SweepFrame
<1>2. Blocks(ThisPdu) \in Nat
  BY <1>1, BlocksNat
<1> QED BY <1>1, <1>2 DEF RunsInv

\* A frame that is executed leaves its values in the slave's registers, and
\* is answered as a write is.
LEMMA ExecutedStep ==
  ASSUME SweepFits, RunsInv, NEW heard \in BOOLEAN, FrameExecuted(heard)
  PROVE  /\ tables' \in TablesType /\ ready' \in BOOLEAN
         /\ master' \in [m2s : Nat, s2m : Nat] /\ slave' \in [m2s : Nat, s2m : Nat]
         /\ NoneRefused'
         /\ \A r \in 0 .. Regs(sender.run.count, sender.run.i) - 1 :
              tables'.holding[StartRegister + r] = r + sender.run.i
<1> DEFINE t == EnsureTables
           n == sender.run.count
           i == sender.run.i
           pdu == ThisPdu
           reply == Reply(t, pdu)
<1>1. /\ BuildsFrame
      /\ tables' = Carried(t, pdu) /\ ready' = TRUE
      /\ exchange' = [stage |-> "answered", request |-> pdu, reply |-> reply]
      /\ slave' = [m2s |-> slave.m2s + Blocks(pdu), s2m |-> slave.s2m + Blocks(reply)]
      /\ master' = [m2s |-> master.m2s + Blocks(pdu),
                    s2m |-> IF heard THEN master.s2m + Blocks(reply) ELSE master.s2m]
  BY DEF FrameExecuted
<1>2. t \in TablesType
  BY EnsureType DEF RunsInv
<1>3. n \in Length /\ i \in 0 .. n - 1 /\ pdu = SweepPdu(n, i)
  BY <1>1, ThisFrame
<1> HIDE DEF t, n, i, pdu
<1>4. /\ Carried(t, pdu) \in TablesType
      /\ \A r \in 0 .. Regs(n, i) - 1 : Carried(t, pdu).holding[StartRegister + r] = r + i
      /\ reply \in Pdu /\ reply.func = WriteRegisters
  BY <1>2, <1>3, SweepCarried
<1>5. Blocks(pdu) \in Nat /\ Blocks(reply) \in Nat
  BY <1>1, <1>4, MasterSpends, BlocksNat DEF pdu
<1> HIDE DEF reply
<1>6. master' \in [m2s : Nat, s2m : Nat] /\ slave' \in [m2s : Nat, s2m : Nat]
  BY <1>1, <1>5 DEF RunsInv
<1>7. NoneRefused'
  BY <1>1, <1>4 DEF NoneRefused
<1> QED BY <1>1, <1>4, <1>6, <1>7 DEF n, i

\* A run, and what it leaves, keep their types.
LEMMA InitRunsInv ==
  ASSUME DemoRunsAssumption, RunInit
  PROVE  RunsInv
<1>1. tables \in TablesType /\ ready \in BOOLEAN /\ NoneRefused
  BY InitialType DEF RunInit, Init, NoneRefused, Idle
<1>2. RunOK(NoRun) /\ NoRun \in RunRecord
  BY RunBegins DEF RunOK
<1>3. DOMAIN sentFiles = {}
  BY DEF RunInit
<1> QED BY <1>1, <1>2, <1>3 DEF RunInit, RunsInv, DemoRunsAssumption

\* Every step of the two programs keeps the types, and what is answered is a
\* write.
LEMMA StepRunsInv ==
  ASSUME DemoRunsAssumption, SweepFits, RunsInv, [RunNext]_runVars
  PROVE  RunsInv'
<1>1. ASSUME NEW arg \in Counts, StartReceiver(arg) PROVE RunsInv'
  <2>1. RunOK(NewRun(arg)) /\ ZeroTables \in TablesType
    BY RunBegins, InitialType
  <2>2. RunOK(receiver)' /\ tables' \in TablesType
    BY <1>1, <2>1 DEF StartReceiver
  <2>3. NoneRefused' /\ ready' \in BOOLEAN
    BY <1>1 DEF StartReceiver, NoneRefused, Idle
  <2> QED BY <1>1, <2>2, <2>3 DEF StartReceiver, RunsInv
<1>2. ASSUME NEW arg \in Counts, NEW port \in Ports, StartSender(arg, port) PROVE RunsInv'
  <2>1. RunOK(NewRun(arg)) /\ NewRun(arg) \in RunRecord
    BY RunBegins DEF RunOK
  <2>2. port \in BOOLEAN /\ sender.runs + 1 \in 0 .. MaxRuns
    BY <1>2 DEF StartSender, RunsInv, DemoRunsAssumption
  <2>3. sender' \in [run : {run \in RunRecord : RunOK(run)}, port : BOOLEAN, runs : 0 .. MaxRuns]
    BY <1>2, <2>1, <2>2 DEF StartSender
  <2> QED BY <1>2, <2>3 DEF StartSender, RunsInv, RunOK, NoneRefused, vars
<1>3. ASSUME NEW damaged \in BOOLEAN, FrameRejected(damaged) PROVE RunsInv'
  <2>1. BuildsFrame /\ Tallied(FALSE) /\ receiver.at = "running"
        /\ receiver' = Counted(receiver, FALSE) /\ exchange' = Idle
        /\ UNCHANGED <<tables, ready, sentFiles>>
    BY <1>3 DEF FrameRejected
  <2>2. RunOK(receiver)'
    BY <2>1, RunGoesOn DEF RunsInv
  <2>3. master' \in [m2s : Nat, s2m : Nat] /\ slave' \in [m2s : Nat, s2m : Nat]
    BY <1>3, <2>1, MasterSpends DEF FrameRejected, RunsInv
  <2>4. NoneRefused'
    BY <2>1 DEF NoneRefused, Idle
  <2> QED BY <2>1, <2>2, <2>3, <2>4, TalliedRun DEF RunsInv
<1>4. ASSUME NEW heard \in BOOLEAN, FrameExecuted(heard) PROVE RunsInv'
  <2>1. BuildsFrame /\ Tallied(heard /\ master.s2m = slave.s2m) /\ receiver.at = "running"
        /\ receiver' = Counted(receiver, TRUE) /\ UNCHANGED sentFiles
    BY <1>4 DEF FrameExecuted
  <2>2. RunOK(receiver)'
    BY <2>1, RunGoesOn DEF RunsInv
  <2>3. (heard /\ master.s2m = slave.s2m) \in BOOLEAN
    OBVIOUS
  <2>4. sender' \in [run : {run \in RunRecord : RunOK(run)}, port : BOOLEAN, runs : 0 .. MaxRuns]
    BY <2>1, <2>3, TalliedRun
  <2> QED BY <1>4, <2>1, <2>2, <2>4, ExecutedStep DEF RunsInv
<1>5. ASSUME NEW opened \in BOOLEAN, NEW whole \in BOOLEAN, FrameToFile(opened, whole)
      PROVE  RunsInv'
  <2>1. BuildsFrame /\ Tallied(opened) /\ UNCHANGED <<vars, receiver, slave>>
    BY <1>5 DEF FrameToFile
  <2>2. FileIndex(sender.run.count, sender.run.i) \in Nat \cup {-1}
    BY <2>1, ThisFrame DEF FileIndex
  <2>3. DOMAIN sentFiles' \subseteq Nat \cup {-1}
    BY <1>5, <2>2 DEF FrameToFile, RunsInv
  <2>4. master' \in [m2s : Nat, s2m : Nat]
    BY <1>5, <2>1, MasterSpends DEF FrameToFile
  <2> QED BY <2>1, <2>3, <2>4, TalliedRun DEF RunsInv, NoneRefused, RunOK, vars
<1>6. CASE FrameLost
  <2>1. BuildsFrame /\ Tallied(FALSE) /\ exchange' = Idle
        /\ UNCHANGED <<tables, ready, receiver, slave, sentFiles>>
    BY <1>6 DEF FrameLost
  <2>2. master' \in [m2s : Nat, s2m : Nat]
    BY <1>6, <2>1, MasterSpends DEF FrameLost
  <2>3. NoneRefused'
    BY <2>1 DEF NoneRefused, Idle
  <2> QED BY <2>1, <2>2, <2>3, TalliedRun DEF RunsInv, RunOK
<1>7. CASE SenderStops
  <2>1. RunOK(NoRun) /\ NoRun \in RunRecord
    BY RunBegins DEF RunOK
  <2>2. sender' \in [run : {run \in RunRecord : RunOK(run)}, port : BOOLEAN, runs : 0 .. MaxRuns]
    BY <1>7, <2>1 DEF SenderStops, RunsInv
  <2> QED BY <1>7, <2>2 DEF SenderStops, RunsInv, NoneRefused, RunOK, vars
<1>8. CASE ReceiverStops
  <2>1. RunOK(receiver)'
    BY <1>8, RunBegins DEF ReceiverStops
  <2> QED BY <1>8, <2>1 DEF ReceiverStops, RunsInv, NoneRefused, vars
<1>9. CASE UNCHANGED runVars
  BY <1>9 DEF runVars, vars, RunsInv, NoneRefused, RunOK
<1> QED BY <1>1, <1>2, <1>3, <1>4, <1>5, <1>6, <1>7, <1>8, <1>9 DEF RunNext

-----------------------------------------------------------------------------
(***************************************************************************)
(* What a run over a port that exits with 0 has written.                   *)
(***************************************************************************)
\* The types of a run and of what it leaves, and that no slave refuses a frame
\* of a sweep: for runs of any length that SweepFits admits.
THEOREM SweepsAreServed ==
  DemoRunsAssumption /\ SweepFits => (RunSpec => [](RunsInv /\ NoneRefused))
<1> SUFFICES ASSUME DemoRunsAssumption, SweepFits
             PROVE  RunSpec => [](RunsInv /\ NoneRefused)
  OBVIOUS
<1>1. RunInit => RunsInv
  BY InitRunsInv
<1>2. RunsInv /\ [RunNext]_runVars => RunsInv'
  BY StepRunsInv
<1>3. RunsInv => NoneRefused
  BY DEF RunsInv
<1> QED BY <1>1, <1>2, <1>3, PTL DEF RunSpec

\* A run that has failed once does not exit with 0, one that is under way or
\* was stopped has not ended, and no other step touches a sender that has.
LEMMA StepExit ==
  ASSUME DemoRunsAssumption, SweepFits, RunsInv, ExitMeansWritten, [RunNext]_runVars
  PROVE  ExitMeansWritten'
<1>1. ASSUME NEW arg \in Counts, StartReceiver(arg) PROVE ExitMeansWritten'
  BY <1>1 DEF StartReceiver, ExitMeansWritten
<1>2. ASSUME NEW arg \in Counts, NEW port \in Ports, StartSender(arg, port)
      PROVE  ExitMeansWritten'
  <2>1. sender'.run.at = "running"
    BY <1>2 DEF StartSender, NewRun
  <2> QED BY <2>1 DEF ExitMeansWritten, Ended
<1>3. ASSUME BuildsFrame, Tallied(FALSE) PROVE ExitMeansWritten'
  <2>1. sender'.run.failed = sender.run.failed + 1 /\ sender.run.failed \in Nat
    BY <1>3, TalliedRun, ThisFrame
  <2>2. sender'.run.failed # 0
    BY <2>1
  <2> QED BY <2>2 DEF ExitMeansWritten, ExitCode
<1>4. ASSUME NEW heard \in BOOLEAN, FrameExecuted(heard) PROVE ExitMeansWritten'
  <2> DEFINE n == sender.run.count
             i == sender.run.i
             good == heard /\ master.s2m = slave.s2m
  <2>1. BuildsFrame /\ Tallied(good) /\ good \in BOOLEAN
    BY <1>4 DEF FrameExecuted
  <2>2. n \in Length /\ n \in Nat \ {0} /\ i \in 0 .. n - 1
    BY <2>1, ThisFrame DEF Length
  <2>3. \A r \in 0 .. Regs(n, i) - 1 : tables'.holding[StartRegister + r] = r + i
    BY <1>4, ExecutedStep
  <2> HIDE DEF good
  <2>4. sender'.run.at = (IF i + 1 = n THEN "ended" ELSE "running") /\ sender'.run.count = n
    BY <2>1, TalliedRun
  <2> HIDE DEF n, i
  <2>5. CASE i + 1 = n
    <3>1. i = n - 1
      BY <1>4, <2>2, <2>5
    <3>2. Regs(n, i) = 123
      BY <2>2, <3>1, RegsRange
    <3>3. \A r \in 0 .. 122 : tables'.holding[StartRegister + r] = r + n - 1
      BY <2>2, <2>3, <3>1, <3>2
    <3> QED BY <2>4, <3>3 DEF ExitMeansWritten
  <2>6. CASE i + 1 # n
    BY <2>4, <2>6 DEF ExitMeansWritten, Ended
  <2> QED BY <2>5, <2>6
<1>5. ASSUME NEW opened \in BOOLEAN, NEW whole \in BOOLEAN, FrameToFile(opened, whole)
      PROVE  ExitMeansWritten'
  <2>1. ~sender'.port
    BY <1>5, TalliedRun DEF FrameToFile
  <2> QED BY <2>1 DEF ExitMeansWritten
<1>6. CASE SenderStops
  <2>1. sender'.run.at = "off"
    BY <1>6 DEF SenderStops, NoRun, RunsInv
  <2> QED BY <2>1 DEF ExitMeansWritten, Ended
<1>7. CASE ReceiverStops
  BY <1>7 DEF ReceiverStops, ExitMeansWritten, Ended, ExitCode, vars
<1>8. CASE UNCHANGED runVars
  BY <1>8 DEF runVars, vars, ExitMeansWritten, Ended, ExitCode
<1> QED BY <1>1, <1>2, <1>3, <1>4, <1>5, <1>6, <1>7, <1>8 DEF RunNext, FrameRejected, FrameLost

\* A run over a port that exits with 0 has left all of its last frame in the
\* slave's registers (secure_send_demo.c:4, 37-39): for runs of any length
\* that SweepFits admits, whatever was lost, rejected or started again.
THEOREM ExitIsWritten ==
  DemoRunsAssumption /\ SweepFits => (RunSpec => []ExitMeansWritten)
<1> SUFFICES ASSUME DemoRunsAssumption, SweepFits
             PROVE  RunSpec => []ExitMeansWritten
  OBVIOUS
<1>1. RunInit => ExitMeansWritten
  BY DEF RunInit, ExitMeansWritten, Ended, NoRun
<1>2. RunsInv /\ ExitMeansWritten /\ [RunNext]_runVars => ExitMeansWritten'
  BY StepExit
<1>3. RunSpec => []RunsInv
  BY SweepsAreServed, PTL
<1> QED BY <1>1, <1>2, <1>3, PTL DEF RunSpec

-----------------------------------------------------------------------------
(***************************************************************************)
(* What a run without a port has written to its files.                     *)
(***************************************************************************)
\* While no file could not be opened: each frame so far is in the file of its
\* number, at the counter at which the one before ended, and the sender's
\* counter is where the last of them ended.
FilesInv ==
  LET n == sender.run.count
      File(j) == sentFiles[FileIndex(n, j)]
  IN ~sender.port /\ sender.run.at # "off" /\ sender.run.failed = 0 =>
       \A j \in 0 .. sender.run.i - 1 :
         /\ FileIndex(n, j) \in DOMAIN sentFiles
         /\ File(j).pdu = SweepPdu(n, j)
         /\ File(j).pos + Blocks(SweepPdu(n, j))
              = IF j + 1 < sender.run.i THEN File(j + 1).pos ELSE master.m2s

\* The files of a run have different names.
LEMMA FilesApart ==
  ASSUME NEW n \in Nat \ {0}, NEW i \in 0 .. n - 1, NEW j \in 0 .. n - 1, i # j
  PROVE  FileIndex(n, i) # FileIndex(n, j)
  BY DEF FileIndex

\* A frame that gets its file follows the ones before it.
LEMMA FileAdded ==
  ASSUME SweepFits, RunsInv, FilesInv, NEW whole \in BOOLEAN, FrameToFile(TRUE, whole)
  PROVE  FilesInv'
<1> DEFINE n == sender.run.count
           i == sender.run.i
           name == FileIndex(n, i)
           file == [pos |-> master.m2s, pdu |-> ThisPdu, whole |-> whole]
<1>1. /\ BuildsFrame /\ Tallied(TRUE) /\ ~sender.port
      /\ master' = [master EXCEPT !.m2s = @ + Blocks(ThisPdu)]
      /\ sentFiles' = [x \in DOMAIN sentFiles \cup {name} |->
                         IF x = name THEN file ELSE sentFiles[x]]
  BY DEF FrameToFile
<1>2. /\ n \in Nat \ {0} /\ i \in 0 .. n - 1 /\ ThisPdu = SweepPdu(n, i)
      /\ sender.run.at = "running"
  BY <1>1, ThisFrame DEF Length, BuildsFrame
<1>3. /\ sender'.run.count = n /\ sender'.run.i = i + 1 /\ ~sender'.port
      /\ sender'.run.failed = sender.run.failed
  BY <1>1, TalliedRun
<1>4. master'.m2s = master.m2s + Blocks(ThisPdu)
  BY <1>1, MasterSpends
<1>5. /\ name \in DOMAIN sentFiles' /\ sentFiles'[name].pos = master.m2s
      /\ sentFiles'[name].pdu = SweepPdu(n, i)
  BY <1>1, <1>2
<1>6. ASSUME NEW j \in 0 .. n - 1, j # i, FileIndex(n, j) \in DOMAIN sentFiles
      PROVE  /\ FileIndex(n, j) \in DOMAIN sentFiles'
             /\ sentFiles'[FileIndex(n, j)] = sentFiles[FileIndex(n, j)]
  <2>1. FileIndex(n, j) # name
    BY <1>2, <1>6, FilesApart
  <2> HIDE DEF name, file
  <2> QED BY <1>1, <1>6, <2>1
<1> SUFFICES ASSUME sender.run.failed = 0, NEW j \in 0 .. i
             PROVE  /\ FileIndex(n, j) \in DOMAIN sentFiles'
                    /\ sentFiles'[FileIndex(n, j)].pdu = SweepPdu(n, j)
                    /\ sentFiles'[FileIndex(n, j)].pos + Blocks(SweepPdu(n, j))
                         = IF j + 1 < i + 1 THEN sentFiles'[FileIndex(n, j + 1)].pos
                           ELSE master'.m2s
  <2> HIDE DEF n, i
  <2>1. (i + 1) - 1 = i
    BY <1>2
  <2> QED BY <1>3, <2>1 DEF FilesInv
<1>7. CASE j = i
  BY <1>2, <1>4, <1>5, <1>7
<1>8. CASE j < i
  <2>1. j \in 0 .. i - 1 /\ j \in 0 .. n - 1 /\ j # i
    BY <1>2, <1>8
  <2>2. /\ FileIndex(n, j) \in DOMAIN sentFiles
        /\ sentFiles[FileIndex(n, j)].pdu = SweepPdu(n, j)
        /\ sentFiles[FileIndex(n, j)].pos + Blocks(SweepPdu(n, j))
             = IF j + 1 < i THEN sentFiles[FileIndex(n, j + 1)].pos ELSE master.m2s
    BY <1>1, <1>2, <2>1 DEF FilesInv
  <2>3. /\ FileIndex(n, j) \in DOMAIN sentFiles'
        /\ sentFiles'[FileIndex(n, j)] = sentFiles[FileIndex(n, j)]
    BY <1>6, <2>1, <2>2
  <2>4. CASE j + 1 = i
    BY <1>5, <2>2, <2>3, <2>4
  <2>5. CASE j + 1 < i
    <3>1. j + 1 \in 0 .. i - 1 /\ j + 1 \in 0 .. n - 1 /\ j + 1 # i
      BY <1>2, <2>5
    <3>2. FileIndex(n, j + 1) \in DOMAIN sentFiles
      BY <1>1, <1>2, <3>1 DEF FilesInv
    <3>3. sentFiles'[FileIndex(n, j + 1)] = sentFiles[FileIndex(n, j + 1)]
      BY <1>6, <3>1, <3>2
    <3>4. j + 1 < i + 1
      BY <1>2, <2>5
    <3> HIDE DEF n, i
    <3> QED BY <2>2, <2>3, <2>5, <3>3, <3>4
  <2> QED BY <1>2, <1>8, <2>4, <2>5
<1> QED BY <1>2, <1>7, <1>8

\* Frames of a run to files are added one after the other, and nothing else
\* touches what they are about.
LEMMA StepFiles ==
  ASSUME DemoRunsAssumption, SweepFits, RunsInv, FilesInv, [RunNext]_runVars
  PROVE  FilesInv'
<1>1. ASSUME NEW arg \in Counts, StartReceiver(arg) PROVE FilesInv'
  BY <1>1 DEF StartReceiver, FilesInv
<1>2. ASSUME NEW arg \in Counts, NEW port \in Ports, StartSender(arg, port)
      PROVE  FilesInv'
  <2>1. sender'.run.i = 0
    BY <1>2 DEF StartSender, NewRun
  <2> QED BY <2>1 DEF FilesInv
<1>3. ASSUME BuildsFrame, Tallied(FALSE) PROVE FilesInv'
  <2>1. sender'.run.failed = sender.run.failed + 1 /\ sender.run.failed \in Nat
    BY <1>3, TalliedRun, ThisFrame
  <2>2. sender'.run.failed # 0
    BY <2>1
  <2> QED BY <2>2 DEF FilesInv
<1>4. ASSUME NEW heard \in BOOLEAN, FrameExecuted(heard) PROVE FilesInv'
  <2>1. sender.port /\ BuildsFrame /\ Tallied(heard /\ master.s2m = slave.s2m)
    BY <1>4 DEF FrameExecuted
  <2>2. sender'.port = sender.port
    <3>1. (heard /\ master.s2m = slave.s2m) \in BOOLEAN
      OBVIOUS
    <3> QED BY <2>1, <3>1, TalliedRun
  <2> QED BY <2>1, <2>2 DEF FilesInv
<1>5. ASSUME NEW opened \in BOOLEAN, NEW whole \in BOOLEAN, FrameToFile(opened, whole)
      PROVE  FilesInv'
  <2>1. CASE opened
    <3>1. FrameToFile(TRUE, whole)
      BY <1>5, <2>1
    <3> QED BY <3>1, FileAdded
  <2>2. CASE ~opened
    BY <1>3, <1>5, <2>2 DEF FrameToFile
  <2> QED BY <2>1, <2>2
<1>6. CASE SenderStops
  <2>1. sender'.run.at = "off"
    BY <1>6 DEF SenderStops, NoRun, RunsInv
  <2> QED BY <2>1 DEF FilesInv
<1>7. CASE ReceiverStops
  BY <1>7 DEF ReceiverStops, FilesInv
<1>8. CASE UNCHANGED runVars
  BY <1>8 DEF runVars, FilesInv
<1> QED BY <1>1, <1>2, <1>3, <1>4, <1>5, <1>6, <1>7, <1>8 DEF RunNext, FrameRejected, FrameLost

\* When a run of at most MAX_REGISTERS frames has ended, its files hold a sweep.
LEMMA FilesSwept ==
  ASSUME SweepFits, RunsInv, FilesInv, \A arg \in Counts : arg <= MaxRegisters
  PROVE  FilesAreSweep
<1> DEFINE n == sender.run.count
           File(j) == sentFiles[FileIndex(n, j)]
<1> SUFFICES ASSUME Ended, ~sender.port, ExitCode = 0
             PROVE  /\ \A j \in 0 .. n - 1 : FileIndex(n, j) \in DOMAIN sentFiles
                    /\ Qty(File(n - 1).pdu) = MaxRegisters
                    /\ n > 1 => Qty(File(0).pdu) = 1
                    /\ \A j \in 1 .. n - 1 :
                         /\ Qty(File(j).pdu) > Qty(File(j - 1).pdu)
                         /\ File(j).pos = File(j - 1).pos + Blocks(File(j - 1).pdu)
  BY DEF FilesAreSweep
<1>1. n \in Length /\ n \in Nat \ {0} /\ n \in 1 .. 123 /\ sender.run.i = n
  BY DEF RunsInv, RunOK, RunRecord, Length, Ended
<1>2. \A j \in 0 .. n - 1 :
        /\ FileIndex(n, j) \in DOMAIN sentFiles
        /\ File(j).pdu = SweepPdu(n, j)
        /\ File(j).pos + Blocks(SweepPdu(n, j))
             = IF j + 1 < n THEN File(j + 1).pos ELSE master.m2s
  BY <1>1 DEF FilesInv, Ended, ExitCode
<1> HIDE DEF n, File
<1>3. \A j \in 0 .. n - 1 : Qty(File(j).pdu) = Regs(n, j)
  BY <1>1, <1>2, SweepFrame
<1>4. Qty(File(n - 1).pdu) = MaxRegisters /\ (n > 1 => Qty(File(0).pdu) = 1)
  <2>1. n - 1 \in 0 .. n - 1 /\ 0 \in 0 .. n - 1
    BY <1>1
  <2>2. Regs(n, n - 1) = MaxRegisters /\ (n > 1 => Regs(n, 0) = 1)
    BY <1>1, <2>1, RegsRange
  <2> QED BY <1>3, <2>1, <2>2
<1>5. ASSUME NEW j \in 1 .. n - 1
      PROVE  /\ Qty(File(j).pdu) > Qty(File(j - 1).pdu)
             /\ File(j).pos = File(j - 1).pos + Blocks(File(j - 1).pdu)
  <2>1. j \in 0 .. n - 1 /\ j - 1 \in 0 .. n - 1 /\ (j - 1) + 1 = j /\ j < n /\ n \in 2 .. 123
    BY <1>1
  <2>2. Regs(n, j) > Regs(n, j - 1)
    BY <2>1, RegsGrow
  <2>3. File(j - 1).pos + Blocks(SweepPdu(n, j - 1)) = File(j).pos
    BY <1>2, <2>1
  <2> QED BY <1>2, <1>3, <2>1, <2>2, <2>3
<1> QED BY <1>2, <1>4, <1>5 DEF n, File

\* A run to files that exits with 0 leaves one file for each frame, of growing
\* size up to the largest, at counters a slave that reads them in order can
\* follow (secure_send_demo.c:14-15; secure_recv_demo.c:11), for runs of up to
\* MAX_REGISTERS frames: in a longer one two frames have the same size.
THEOREM FilesHoldSweep ==
  DemoRunsAssumption /\ SweepFits /\ (\A arg \in Counts : arg <= MaxRegisters)
    => (RunSpec => []FilesAreSweep)
<1> SUFFICES ASSUME DemoRunsAssumption, SweepFits, \A arg \in Counts : arg <= MaxRegisters
             PROVE  RunSpec => []FilesAreSweep
  OBVIOUS
<1>1. RunInit => FilesInv
  BY DEF RunInit, FilesInv, NoRun
<1>2. RunsInv /\ FilesInv /\ [RunNext]_runVars => FilesInv'
  BY StepFiles
<1>3. RunsInv /\ FilesInv => FilesAreSweep
  BY FilesSwept
<1>4. RunSpec => []RunsInv
  BY SweepsAreServed, PTL
<1> QED BY <1>1, <1>2, <1>3, <1>4, PTL DEF RunSpec

=============================================================================
