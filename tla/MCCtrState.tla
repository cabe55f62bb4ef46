----------------------------- MODULE MCCtrState -----------------------------
(***************************************************************************)
(* Small instances of CtrState. A message of no bytes takes one block and  *)
(* one of 17 bytes two; a counter of CtrMod values wraps within a few.     *)
(*                                                                         *)
(* Of the two slots of the table one is used, with every length, counter   *)
(* and fault, or both, with one length and no fopen for writing that       *)
(* fails: enough for a call to disturb another slot's row.                 *)
(***************************************************************************)
EXTENDS CtrState

VARIABLE both

Slots == {1, 2}
OneAddr == {1}
OneDir == {0}
MCInitialCtr == [s \in Slot |-> IF s[1] = 1 THEN 0 ELSE 2]
EdgeLengths == {0, 17}
OneLength == {17}
TwoCounters == {1, 3}
OneCounter == {3}
AllFaults == {"open_fails", "read_fails", "disk_full", "torn_write"}
OpenFails == {"open_fails"}

\* A call begins; it is one of those looked at.
Looked ==
  call = NoCall /\ call' # NoCall =>
    IF both THEN /\ call'.op = "out" => call'.len = 17
                 /\ call'.op = "in" => call'.value = 3 /\ call'.slot = <<1, 0>>
    ELSE call'.slot = <<1, 0>>

Opened == both /\ stage = "persist" => stage' # "return"

SlotsInit == Init /\ both \in BOOLEAN

SlotsNext == Next /\ Looked /\ Opened /\ UNCHANGED both

SlotsSpec == SlotsInit /\ [][SlotsNext]_<<vars, both>>
=============================================================================
