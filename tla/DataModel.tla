----------------------------- MODULE DataModel -----------------------------
(***************************************************************************)
(* What a Modbus device promises about its data: every answer is one atomic*)
(* step on four tables. A read returns the entries it names as they are, a *)
(* write changes exactly the entries it names, and a refusal changes       *)
(* nothing. How requests and replies are laid out is ModbusPdu's subject.  *)
(***************************************************************************)
EXTENDS Integers, Sequences

CONSTANTS
  Size,      \* entries of each table
  Defaults   \* the tables before the first write

VARIABLES
  bank,      \* table -> entry -> value
  answer     \* the answer the master is looking at

Tables == {"coils", "discrete", "holding", "input"}
Writable == {"coils", "holding"}
NoAnswer == [op |-> "none"]

Entries(a) == a.addr .. a.addr + Len(a.values) - 1

InRange(a) == a.values # <<>> /\ Entries(a) \subseteq 0 .. Size - 1

Init == bank = Defaults /\ answer = NoAnswer

Refuse ==
  /\ answer'.op = "refused"
  /\ UNCHANGED bank

Read ==
  /\ answer'.op = "read"
  /\ answer'.table \in Tables
  /\ InRange(answer')
  /\ \A i \in 1 .. Len(answer'.values) :
        answer'.values[i] = bank[answer'.table][answer'.addr + i - 1]
  /\ UNCHANGED bank

Write ==
  /\ answer'.op = "wrote"
  /\ answer'.table \in Writable
  /\ InRange(answer')
  /\ bank' = [bank EXCEPT ![answer'.table] =
       [e \in DOMAIN @ |-> IF e \in Entries(answer')
                           THEN answer'.values[e - answer'.addr + 1]
                           ELSE @[e]]]

Forget == answer # NoAnswer /\ answer' = NoAnswer /\ UNCHANGED bank

Next == Refuse \/ Read \/ Write \/ Forget

Spec == Init /\ [][Next]_<<bank, answer>>
=============================================================================
