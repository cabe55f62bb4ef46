------------------------------ MODULE CtrTable ------------------------------
(***************************************************************************)
(* keymgmt/ctr_state.c without its state: entries of the counter table, the*)
(* arithmetic of a reservation, and the rows of the file. Shared by the    *)
(* modules that run the table (CtrState, SecureDemo). An operator with an  *)
(* underscore in its name is a wrong variant of the one after it, which the*)
(* properties must tell from it.                                           *)
(***************************************************************************)
EXTENDS Integers, FiniteSets

CONSTANTS
  Addr,        \* slave addresses in use
  Dir,         \* direction indices in use: 0 = m2s, 1 = s2m, 2 = bc
  CtrMod       \* 2^32 in the code: next_out is a uint32_t

ASSUME CtrTableAssumption ==
  /\ Addr \subseteq 0 .. 247
  /\ Dir \subseteq 0 .. 2
  /\ CtrMod \in Nat \ {0}

Slot == Addr \X Dir
Ctr == 0 .. CtrMod - 1

Entry == [valid_out : BOOLEAN, next_out : Ctr, valid_in : BOOLEAN, high_in : Ctr]
EmptyEntry ==
  [valid_out |-> FALSE, next_out |-> 0, valid_in |-> FALSE, high_in |-> 0]

(***************************************************************************)
(* The arithmetic of a reservation, and what a message really consumes.    *)
(***************************************************************************)

\* Wrong: rounds down, so the last partial block is not reserved.
NumBlocks_floor(len) == len \div 16

\* Blocks reserved for a message: ceil(len / 16), and never none.
NumBlocks(len) == LET n == (len + 15) \div 16 IN IF n = 0 THEN 1 ELSE n

\* Wrong: a counter wider than its field.
Wrap_wide(n) == n

\* next_out is a uint32_t.
Wrap(n) == n % CtrMod

\* The counter the next message starts at, for a slot seeded with seed.
NextCtr(e, seed) == IF e.valid_out THEN e.next_out ELSE seed

\* LEA-CTR encrypts byte i of a message with counter block value + i \div 16;
\* the block counter is 128 bits wide, so it does not wrap at CtrMod.
Keystream(value, len) == {c \in value .. value + len : 16 * (c - value) < len}

(***************************************************************************)
(* The file.                                                               *)
(***************************************************************************)

\* Wrong: a slot that has only received is not worth a row.
IsRow_out(e) == e.valid_out

IsRow(e) == e.valid_out \/ e.valid_in

\* What a completed persist leaves in the file.
Rows(t) == [s \in {x \in Slot : IsRow(t[x])} |-> t[s]]

NoRows == [s \in {} |-> EmptyEntry]

\* Wrong: of the file only the outgoing counters are looked at.
Merge_out(t, f) ==
  [s \in Slot |-> IF s \in DOMAIN f /\ f[s].valid_out THEN f[s] ELSE t[s]]

\* Loading overwrites the slots the file has a row for and no others.
Merge(t, f) == [s \in Slot |-> IF s \in DOMAIN f THEN f[s] ELSE t[s]]

\* Rows are written by ascending address, then by direction.
RowBefore(a, b) == a[1] < b[1] \/ (a[1] = b[1] /\ a[2] < b[2])

\* The sets of rows a write cut short can have left behind.
Prefixes(rows) ==
  {P \in SUBSET rows : \A a \in P, b \in rows : RowBefore(b, a) => b \in P}
=============================================================================
