------------------------------ MODULE CtrState ------------------------------
(***************************************************************************)
(* keymgmt/ctr_state.c: the table of LEA-CTR counters of one process, and  *)
(* the text file it is persisted to.                                       *)
(*                                                                         *)
(* A call that persists is split where a crash can fall between its steps: *)
(*   "persist"  the table is updated, fopen(state_path, "w") comes next    *)
(*   "writing"  the file is truncated, rows are in flight until fclose     *)
(*   "return"   the file is closed, the caller has not used the value yet  *)
(* "idle" is a process outside ctr_state.c, "down" a process not running.  *)
(***************************************************************************)
EXTENDS CtrTable

CONSTANTS
  InitialCtr,  \* per slot, what key_store_get_initial_ctr yields (0: no key)
  MsgLen,      \* lengths of the messages the counters are reserved for
  InCtr,       \* counters presented to ctr_state_validate_incoming
  Radix,       \* 10 in the code: the base of the numbers in the file
  Faults       \* which failures of the file system the model admits

ASSUME CtrStateAssumption ==
  /\ InitialCtr \in [Slot -> Ctr]
  /\ MsgLen \subseteq Nat
  /\ InCtr \subseteq Ctr
  /\ Radix \in Nat \ {0, 1}
  /\ Faults \subseteq {"open_fails", "read_fails", "disk_full", "torn_write"}

VARIABLES
  table,       \* the static table[addr][dir]
  file,        \* rows of the file at state_path, by slot; absent = no rows
  stage,       \* where the process is, see above
  call,        \* the call in progress
  stale,       \* history: slots whose row is not the table's: a persist failed
  unread,      \* history: slots with a row the last load did not get to
  lost,        \* history: slots whose counters came from a stale or damaged
               \* row, or were made anew though the file had a row
  wrapped,     \* history: slots whose counter has passed CtrMod
  used,        \* history: per slot, keystream blocks consumed under its key
  reused,      \* history: slots a block of which was consumed twice
  lastAccepted \* history: per slot, the last incoming counter accepted, or -1

code == <<table, file, stage, call>>
vars == <<table, file, stage, call, stale, unread, lost, wrapped, used, reused,
          lastAccepted>>

\* The counter the next message of slot s starts at.
NextValue(e, s) == NextCtr(e, InitialCtr[s])

NoCall == [op |-> "none"]
Call == [op : {"out"}, slot : Slot, value : Ctr, len : MsgLen]
          \cup [op : {"in"}, slot : Slot, value : Ctr]
          \cup [op : {"reset"}, slot : Slot]

(***************************************************************************)
(* Init: the program has never run.                                        *)
(***************************************************************************)
Init ==
  /\ table = [s \in Slot |-> EmptyEntry]
  /\ file = NoRows
  /\ stage = "down"
  /\ call = NoCall
  /\ stale = {} /\ unread = {}
  /\ lost = {}
  /\ wrapped = {}
  /\ used = [s \in Slot |-> {}]
  /\ reused = {}
  /\ lastAccepted = [s \in Slot |-> -1]

(***************************************************************************)
(* The operations, up to the point where they persist.                     *)
(***************************************************************************)

\* A call that persists writes the table without the rows that have not been
\* read. (History only; a slot that gets a new key has nothing to lose.)
GiveUp(forgiven) ==
  /\ lost' = (lost \cup unread) \ forgiven
  /\ stale' = stale \cup unread
  /\ unread' = {}

\* ctr_state_next_outgoing: seed on first use, reserve, go on to persist.
NextOutgoing(s, len) ==
  LET value == NextValue(table[s], s)
      next  == value + NumBlocks(len)
  IN /\ stage = "idle"
     /\ table' = [table EXCEPT ![s].valid_out = TRUE,
                               ![s].next_out = Wrap(next)]
     /\ call' = [op |-> "out", slot |-> s, value |-> value, len |-> len]
     /\ stage' = "persist"
     /\ wrapped' = IF next >= CtrMod THEN wrapped \cup {s} ELSE wrapped
     /\ GiveUp({})
     /\ UNCHANGED <<file, used, reused, lastAccepted>>

\* Wrong: compares with the seed only, not with what was accepted.
Replayed_seed(s, ctr) == ctr < InitialCtr[s]

\* ctr_state_validate_incoming, by the three answers it can come to.
Replayed(s, ctr) ==
  ctr < (IF table[s].valid_in THEN table[s].high_in ELSE InitialCtr[s])

Retried(s, ctr) == table[s].valid_in /\ ctr = table[s].high_in

RejectIncoming(s, ctr) ==
  /\ stage = "idle"
  /\ Replayed(s, ctr)
  /\ UNCHANGED vars

AcceptRetry(s, ctr) ==
  /\ stage = "idle"
  /\ Retried(s, ctr)
  /\ lastAccepted' = [lastAccepted EXCEPT ![s] = ctr]
  /\ UNCHANGED <<code, stale, unread, lost, wrapped, used, reused>>

AcceptFresh(s, ctr) ==
  /\ stage = "idle"
  /\ ~Replayed(s, ctr)
  /\ ~Retried(s, ctr)
  /\ table' = [table EXCEPT ![s].valid_in = TRUE, ![s].high_in = ctr]
  /\ call' = [op |-> "in", slot |-> s, value |-> ctr]
  /\ stage' = "persist"
  /\ GiveUp({})
  /\ UNCHANGED <<file, wrapped, used, reused, lastAccepted>>

\* ctr_state_reset, as its header allows it: the slot is about to get a new
\* key, so what was consumed and accepted under the old one no longer counts.
Reset(s) ==
  /\ stage = "idle"
  /\ table' = [table EXCEPT ![s].valid_out = FALSE, ![s].valid_in = FALSE]
  /\ call' = [op |-> "reset", slot |-> s]
  /\ stage' = "persist"
  /\ GiveUp({s})
  /\ wrapped' = wrapped \ {s}
  /\ used' = [used EXCEPT ![s] = {}]
  /\ reused' = reused \ {s}
  /\ lastAccepted' = [lastAccepted EXCEPT ![s] = -1]
  /\ UNCHANGED file

(***************************************************************************)
(* ctr_state_persist, whose result no caller looks at, and the return.     *)
(***************************************************************************)

PersistOpen ==
  /\ stage = "persist"
  /\ file' = NoRows
  /\ stage' = "writing"
  /\ UNCHANGED <<table, call, stale, unread, lost, wrapped, used, reused, lastAccepted>>

PersistOpenFails ==
  /\ "open_fails" \in Faults
  /\ stage = "persist"
  /\ stage' = "return"
  /\ stale' = stale \cup {call.slot}
  /\ UNCHANGED <<table, file, call, unread, lost, wrapped, used, reused, lastAccepted>>

PersistClose ==
  /\ stage = "writing"
  /\ file' = Rows(table)
  /\ stage' = "return"
  /\ stale' = {}
  /\ UNCHANGED <<table, call, unread, lost, wrapped, used, reused, lastAccepted>>

\* A number that has lost its last digits, but not all of them.
Shortened(n) == {m \in 1 .. n : \E k \in 1 .. n : m = n \div Radix ^ k}

\* The file has the first rows only; the last number of the last of them may
\* be cut as well, and is read back as what is left of it. A row cut before
\* its last number is no row.
WriteCutShort ==
  \E P \in Prefixes(DOMAIN Rows(table)) :
    \/ file' = [s \in P |-> table[s]]
    \/ \E s \in P : \E high \in Shortened(table[s].high_in) :
         /\ \A x \in P : ~RowBefore(s, x)
         /\ file' = [[x \in P |-> table[x]] EXCEPT ![s].high_in = high]

\* The slots whose row such a file lacks or has cut.
Damaged(f) == {s \in DOMAIN Rows(table) : s \notin DOMAIN f \/ f[s] # table[s]}

\* The results of fprintf and fclose are not looked at: the process goes on.
PersistIncomplete ==
  /\ "disk_full" \in Faults
  /\ stage = "writing"
  /\ WriteCutShort
  /\ stage' = "return"
  /\ stale' = Damaged(file')
  /\ UNCHANGED <<table, call, unread, lost, wrapped, used, reused, lastAccepted>>

\* The caller gets its answer and acts on it: a returned counter is consumed
\* by one message, an accepted counter's frame is processed. The history of
\* a slot ends once its counter has wrapped or a block has been reused.
ReturnOutgoing ==
  /\ stage = "return"
  /\ call.op = "out"
  /\ LET s      == call.slot
         blocks == Keystream(call.value, call.len)
     IN IF s \in wrapped \cup reused
        THEN UNCHANGED <<used, reused>>
        ELSE /\ used' = [used EXCEPT ![s] = @ \cup blocks]
             /\ reused' = IF used[s] \cap blocks = {} THEN reused ELSE reused \cup {s}
  /\ stage' = "idle"
  /\ call' = NoCall
  /\ UNCHANGED <<table, file, stale, unread, lost, wrapped, lastAccepted>>

ReturnIncoming ==
  /\ stage = "return"
  /\ call.op = "in"
  /\ lastAccepted' = [lastAccepted EXCEPT ![call.slot] = call.value]
  /\ stage' = "idle"
  /\ call' = NoCall
  /\ UNCHANGED <<table, file, stale, unread, lost, wrapped, used, reused>>

ReturnReset ==
  /\ stage = "return"
  /\ call.op = "reset"
  /\ stage' = "idle"
  /\ call' = NoCall
  /\ UNCHANGED <<table, file, stale, unread, lost, wrapped, used, reused, lastAccepted>>

(***************************************************************************)
(* ctr_state_load, at the start of the program and again in a running one, *)
(* and the end of the process at any point.                                *)
(***************************************************************************)

\* The rows a load has merged when it is done: all, or the first ones when
\* fgets comes to a read error, or none when fopen fails. The callers do not
\* look at the result.
RowsRead == IF "read_fails" \in Faults THEN Prefixes(DOMAIN file) ELSE {DOMAIN file}

Loaded(P) == table' = Merge(table, [s \in P |-> file[s]])

Start ==
  /\ stage = "down"
  /\ \E P \in RowsRead : Loaded(P) /\ unread' = DOMAIN file \ P
  /\ stage' = "idle"
  /\ UNCHANGED <<file, call, stale, lost, wrapped, used, reused, lastAccepted>>

Reload ==
  /\ stage = "idle"
  /\ \E P \in RowsRead :
       /\ Loaded(P)
       /\ unread' = unread \ P
       /\ stale' = stale \ P
       /\ lost' = lost \cup (stale \cap P)
  /\ UNCHANGED <<file, stage, call, wrapped, used, reused, lastAccepted>>

Stopped ==
  /\ table' = [s \in Slot |-> EmptyEntry]
  /\ stage' = "down"
  /\ call' = NoCall
  /\ stale' = {} /\ unread' = {}
  /\ UNCHANGED <<wrapped, used, reused, lastAccepted>>

Crash ==
  /\ stage \in {"idle", "persist", "return"}
  /\ lost' = lost \cup stale
  /\ UNCHANGED file
  /\ Stopped

CrashWhileWriting ==
  /\ "torn_write" \in Faults
  /\ stage = "writing"
  /\ WriteCutShort
  /\ lost' = lost \cup Damaged(file')
  /\ Stopped

Next ==
  \/ \E s \in Slot, len \in MsgLen : NextOutgoing(s, len)
  \/ \E s \in Slot, ctr \in InCtr :
       RejectIncoming(s, ctr) \/ AcceptRetry(s, ctr) \/ AcceptFresh(s, ctr)
  \/ \E s \in Slot : Reset(s)
  \/ PersistOpen \/ PersistOpenFails \/ PersistClose \/ PersistIncomplete
  \/ ReturnOutgoing \/ ReturnIncoming \/ ReturnReset
  \/ Start \/ Reload \/ Crash \/ CrashWhileWriting

Spec == Init /\ [][Next]_vars

(***************************************************************************)
(* Properties.                                                             *)
(***************************************************************************)

\* Every variable has its type: counters stay below CtrMod, a call in progress
\* names a slot, the file has rows for slots only.
TypeOK ==
  /\ table \in [Slot -> Entry]
  /\ DOMAIN file \subseteq Slot
  /\ file \in [DOMAIN file -> Entry]
  /\ stage \in {"down", "idle", "persist", "writing", "return"}
  /\ call \in Call \cup {NoCall}
  /\ stage \in {"persist", "writing", "return"} <=> call # NoCall
  /\ stale \subseteq Slot /\ unread \subseteq Slot
  /\ lost \subseteq Slot
  /\ wrapped \subseteq Slot
  /\ used \in [Slot -> SUBSET Nat]
  /\ reused \subseteq Slot
  /\ lastAccepted \in [Slot -> Ctr \cup {-1}]

\* No keystream block of a slot is consumed by two messages under one key,
\* across any sequence of calls, crashes between any two steps of a persist,
\* restarts and reloads, unless this slot's own row was damaged, left behind by
\* a persist that failed, or not read before it was overwritten, or its 32-bit
\* counter has gone round (ctr_state.h:1-2). What happens to the other rows of
\* the file is no excuse.
NoCounterReuse == reused \subseteq lost \cup wrapped

\* The file's row of slot s is the table's entry.
SameRow(s) ==
  /\ s \in DOMAIN file <=> IsRow(table[s])
  /\ s \in DOMAIN file => file[s] = table[s]

\* Between calls the file holds exactly the valid slots of the table, so no
\* operation on one slot, and no load, leaves another slot's counter behind.
\* Only two things make a row differ: a persist that did not write it, and a
\* load that did not get to it (ctr_state_persist, ctr_state_load).
FileMatchesTable ==
  stage = "idle" => \A s \in Slot \ (stale \cup unread) : SameRow(s)

\* An accepted incoming counter never falls below one accepted earlier, not
\* even across restarts: validate_incoming records the high-water mark in the
\* file before it accepts (ctr_state_validate_incoming, which no program calls
\* yet: ctr_state.h:18). A reset starts afresh, and so does a slot whose own row
\* was lost.
AcceptedNeverDecreases ==
  [][\A s \in Slot \ lost' :
       lastAccepted'[s] >= lastAccepted[s] \/ lastAccepted'[s] = -1]_vars

\* ctr_state.h:1-2 without the proviso on failed persists: a counter used
\* under a key is never used again, restarts included.
HeaderPromise == reused \subseteq wrapped

(***************************************************************************)
(* The inductive invariant behind the properties: what has been consumed   *)
(* (or accepted) under a slot's key lies below the table's counter while   *)
(* the process runs, and below the file's whenever a crash would leave the *)
(* file as the only copy.                                                  *)
(***************************************************************************)
Excused == lost \cup wrapped

FileValue(s) == IF s \in DOMAIN file THEN NextValue(file[s], s) ELSE InitialCtr[s]

High(e) == IF e.valid_in THEN e.high_in ELSE -1

FileHigh(s) == IF s \in DOMAIN file THEN High(file[s]) ELSE -1

\* Between calls and at the return of one, a row is the table's entry unless a
\* persist did not write it or a load did not get to it; of the latter the table
\* has nothing, and the first call that persists gives them up. A call changes
\* no entry but its slot's. A process starts with a table of no entries.
DurableInv ==
  /\ \A s \in DOMAIN file : IsRow(file[s])
  /\ stage \in {"idle", "return"} => \A s \in Slot \ (stale \cup unread) : SameRow(s)
  /\ stage = "persist" => \A s \in Slot \ (stale \cup {call.slot}) : SameRow(s)
  /\ \A s \in unread : ~IsRow(table[s])
  /\ unread # {} => stage = "idle"
  /\ stage = "down" => stale = {} /\ table = [s \in Slot |-> EmptyEntry]

UsedBelowTable ==
  stage # "down" =>
    \A s \in Slot \ (Excused \cup unread) : \A c \in used[s] : c < NextValue(table[s], s)

UsedBelowFile ==
  stage # "writing" =>
    \A s \in Slot \ (Excused \cup stale) : \A c \in used[s] : c < FileValue(s)

InFlightFresh ==
  call.op = "out" /\ call.slot \notin Excused =>
    /\ \A c \in used[call.slot] : c < call.value
    /\ call.value + NumBlocks(call.len) <= NextValue(table[call.slot], call.slot)

AcceptedBelowTable ==
  stage # "down" => \A s \in Slot \ (lost \cup unread) : lastAccepted[s] <= High(table[s])

AcceptedBelowFile ==
  stage # "writing" =>
    \A s \in Slot \ (lost \cup stale) : lastAccepted[s] <= FileHigh(s)

InFlightAccepted ==
  call.op = "in" /\ call.slot \notin lost =>
    /\ lastAccepted[call.slot] <= call.value
    /\ call.value <= High(table[call.slot])

\* The counter half: what was consumed, and what is in flight, lies below the
\* counter that survives (ctr_state_next_outgoing persists before it returns).
CounterInv ==
  /\ UsedBelowTable
  /\ UsedBelowFile
  /\ InFlightFresh
  /\ NoCounterReuse

\* The receive half: the high-water mark covers everything accepted
\* (ctr_state_validate_incoming persists before it returns).
AcceptInv ==
  /\ AcceptedBelowTable
  /\ AcceptedBelowFile
  /\ InFlightAccepted

IInv == DurableInv /\ CounterInv /\ AcceptInv
=============================================================================
