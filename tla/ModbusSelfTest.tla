--------------------------- MODULE ModbusSelfTest ---------------------------
(***************************************************************************)
(* modbus/modbus_pdu_selftest.c: modbus_pdu_self_test runs its cases one   *)
(* after the other on the same tables the slave of the process works on,   *)
(* as option 3 of main.c does between exchanges (main.c:455). The sizes are*)
(* those of the code.                                                      *)
(***************************************************************************)
EXTENDS ModbusPdu

VARIABLES
  next,     \* the case to run, 0: no self-test is running
  failed    \* g_fail # 0 in this self-test, or in the last one

testVars == <<vars, next, failed>>

\* A case: the request, and the reply's function code and bytes.
Case(f, body, g, expected) == [req |-> [func |-> f, body |-> body],
                               reply |-> [func |-> g, body |-> expected]]
Success(f, body, expected) == Case(f, body, f, expected)
Refused(f, body, code) == Case(f, body, f + 128, <<code>>)

\* 1 - 16: reads, limits and exceptions. They change nothing.
ReadCases == <<
  Success(1, <<0, 0, 0, 2>>, <<1, 2>>),
  Success(2, <<0, 0, 0, 2>>, <<1, 1>>),
  Success(3, <<0, 0, 0, 2>>, <<4, 16, 0, 16, 1>>),
  Success(4, <<0, 0, 0, 2>>, <<4, 32, 0, 32, 1>>),
  Success(1, <<0, 126, 0, 2>>, <<1, 2>>),
  Refused(1, <<0, 127, 0, 2>>, IllegalAddress),
  Success(3, <<0, 0, 0, 125>>, <<250, 16, 0, 16, 124>>),  \* spot check, see Passes
  Refused(3, <<0, 0, 0, 126>>, IllegalValue),
  Refused(3, <<0, 0>>, IllegalValue),
  Refused(3, <<0, 0, 0, 0>>, IllegalValue),
  Refused(3, <<0, 127, 0, 2>>, IllegalAddress),
  Refused(7, <<>>, IllegalFunction),
  Refused(5, <<0, 0, 18, 52>>, IllegalValue),
  Refused(15, <<0, 0, 0, 2, 2, 0, 0>>, IllegalValue),
  Refused(16, <<0, 0, 0, 2, 3, 0, 0, 0>>, IllegalValue),
  Refused(15, <<0, 127, 0, 2, 1, 2>>, IllegalAddress) >>

\* Wrong: registers are written at an address that case 7 reads.
WriteCases_overlap == <<
  Success(5, <<0, 50, 255, 0>>, <<0, 50, 255, 0>>),
  Success(1, <<0, 50, 0, 1>>, <<1, 1>>),
  Success(16, <<0, 124, 0, 2, 4, 0, 10, 0, 11>>, <<0, 124, 0, 2>>),
  Success(3, <<0, 124, 0, 2>>, <<4, 0, 10, 0, 11>>) >>
\* 17 - 24: each write, and a read that looks whether it was kept.
WriteCases == <<
  Success(5, <<0, 50, 255, 0>>, <<0, 50, 255, 0>>),
  Success(1, <<0, 50, 0, 1>>, <<1, 1>>),
  Success(6, <<0, 125, 18, 52>>, <<0, 125, 18, 52>>),
  Success(3, <<0, 125, 0, 1>>, <<2, 18, 52>>),
  Success(15, <<0, 50, 0, 2, 1, 2>>, <<0, 50, 0, 2>>),
  Success(1, <<0, 50, 0, 2>>, <<1, 2>>),
  Success(16, <<0, 125, 0, 2, 4, 0, 10, 0, 11>>, <<0, 125, 0, 2>>),
  Success(3, <<0, 125, 0, 2>>, <<4, 0, 10, 0, 11>>) >>

Cases == ReadCases \o WriteCases

\* Case 7 has 252 bytes to compare and compares the ends.
SpotChecked == 7

\* check_exact, check_exception
Passes(c, reply) ==
  IF c = SpotChecked
  THEN LET b == reply.body IN
       /\ reply.func = 3 /\ Len(b) = 251
       /\ <<b[1], b[2], b[3], b[250], b[251]>> = Cases[c].reply.body
  ELSE reply = Cases[c].reply

TestInit == Init /\ next = 0 /\ failed = FALSE

\* Option 3. The program has one thread: no exchange is under way.
StartSelfTest ==
  /\ next = 0
  /\ exchange = Idle
  /\ next' = 1
  /\ failed' = FALSE
  /\ UNCHANGED vars

RunCase ==
  /\ next \in DOMAIN Cases
  /\ tables' = Carried(EnsureTables, Cases[next].req)
  /\ ready' = TRUE
  /\ failed' = (failed \/ ~Passes(next, Reply(EnsureTables, Cases[next].req)))
  /\ next' = IF next = Len(Cases) THEN 0 ELSE next + 1
  /\ UNCHANGED exchange

Exchange == next = 0 /\ Next /\ UNCHANGED <<next, failed>>

TestNext == StartSelfTest \/ RunCase \/ Exchange

TestSpec == TestInit /\ [][TestNext]_testVars

-----------------------------------------------------------------------------
\* The self-test passes, however often it is run and whatever the slave of
\* the process has done in between: "this function may be called several
\* times in one process" (modbus_pdu_selftest.c:4, "repeated calls are safe":
\* 174). True while exchanges keep off the entries ReadCases look at.
SelfTestPasses == ~failed
=============================================================================
