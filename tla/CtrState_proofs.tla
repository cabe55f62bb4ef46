-------------------------- MODULE CtrState_proofs --------------------------
(***************************************************************************)
(* Proofs about CtrState, for every value of its constants.                *)
(***************************************************************************)
EXTENDS CtrState, TLAPS

-----------------------------------------------------------------------------
(* Counters, rows and merges *)

\* A reservation is at least one block long and at least as long as the
\* keystream the message consumes.
LEMMA NumBlocksCoversKeystream ==
  ASSUME NEW len \in Nat, NEW value \in Nat
  PROVE  /\ NumBlocks(len) \in Nat \ {0}
         /\ \A c \in Keystream(value, len) : value <= c /\ c < value + NumBlocks(len)
<1>1. NumBlocks(len) \in Nat \ {0}
  BY DEF NumBlocks
<1>2. ASSUME NEW c \in Keystream(value, len)
      PROVE  value <= c /\ c < value + NumBlocks(len)
  <2>1. c \in value .. value + len /\ 16 * (c - value) < len
    BY DEF Keystream
  <2>2. len > 0 /\ c - value < (len + 15) \div 16
    BY <2>1
  <2>3. NumBlocks(len) = (len + 15) \div 16
    BY <2>2 DEF NumBlocks
  <2>. QED
    BY <2>1, <2>2, <2>3
<1>. QED
  BY <1>1, <1>2

\* The uint32_t addition: exact as long as it does not pass CtrMod.
LEMMA CtrModulo ==
  /\ \A n \in Nat : Wrap(n) \in Ctr
  /\ \A n \in Ctr : Wrap(n) = n
BY CtrTableAssumption DEF Ctr, Wrap

\* The files a process can leave: rows for some of the slots.
FileType == UNION {[S -> Entry] : S \in SUBSET Slot}

\* A file is a function from the slots it has a row for to entries.
LEMMA FileTypeFacts ==
  ASSUME NEW f
  PROVE  f \in FileType <=> /\ DOMAIN f \subseteq Slot
                           /\ f = [s \in DOMAIN f |-> f[s]]
                           /\ \A s \in DOMAIN f : f[s] \in Entry
BY DEF FileType

\* ctr_state_load leaves a table of entries.
LEMMA MergeType ==
  ASSUME NEW t \in [Slot -> Entry], NEW f \in FileType
  PROVE  Merge(t, f) \in [Slot -> Entry]
BY FileTypeFacts DEF Merge

\* A persist, completed or cut short, leaves a file of rows.
LEMMA RowsType ==
  ASSUME NEW t \in [Slot -> Entry], NEW P \in SUBSET Slot
  PROVE  Rows(t) \in FileType /\ [s \in P |-> t[s]] \in FileType
BY FileTypeFacts DEF Rows

\* The zeroed static table holds entries.
LEMMA EmptyEntryType == EmptyEntry \in Entry
BY CtrTableAssumption DEF EmptyEntry, Entry, Ctr

-----------------------------------------------------------------------------

\* The counter a message starts at fits its field (uint32_t value).
LEMMA NextValueType ==
  ASSUME NEW e \in Entry, NEW s \in Slot
  PROVE  NextValue(e, s) \in Ctr
BY CtrStateAssumption, CtrTableAssumption DEF NextValue, NextCtr, Entry

\* A write cut short leaves first rows of the table, each still worth writing.
LEMMA CutShortType ==
  ASSUME table \in [Slot -> Entry], WriteCutShort
  PROVE  file' \in FileType /\ \A s \in DOMAIN file' : IsRow(file'[s])
<1>1. PICK P \in Prefixes(DOMAIN Rows(table)) :
        \/ file' = [s \in P |-> table[s]]
        \/ \E s \in P : \E high \in Shortened(table[s].high_in) :
             file' = [[x \in P |-> table[x]] EXCEPT ![s].high_in = high]
  BY DEF WriteCutShort
<1>2. P \subseteq Slot /\ \A s \in P : IsRow(table[s])
  BY DEF Prefixes, Rows
<1>3. CASE file' = [s \in P |-> table[s]]
  BY <1>2, <1>3, RowsType
<1>4. ASSUME NEW s \in P, NEW high \in Shortened(table[s].high_in),
             file' = [[x \in P |-> table[x]] EXCEPT ![s].high_in = high]
      PROVE  file' \in FileType /\ \A x \in DOMAIN file' : IsRow(file'[x])
  <2>1. high \in Ctr
    <3>1. table[s].high_in \in Ctr /\ high \in 1 .. table[s].high_in
      BY <1>2 DEF Shortened, Entry
    <3>. QED
      BY <3>1, CtrTableAssumption DEF Ctr
  <2>2. file' = [x \in P |-> IF x = s THEN [table[x] EXCEPT !.high_in = high] ELSE table[x]]
    BY <1>4
  <2>3. [table[s] EXCEPT !.high_in = high] \in Entry
    BY <1>2, <2>1 DEF Entry
  <2>4. DOMAIN file' = P /\ \A x \in P : file'[x] \in Entry
    BY <1>2, <2>2, <2>3
  <2>5. \A x \in P : IsRow(file'[x])
    BY <1>2, <2>2 DEF IsRow, Entry
  <2>6. file' = [x \in DOMAIN file' |-> file'[x]]
    BY <2>2
  <2>. QED
    BY <1>2, <2>4, <2>5, <2>6, FileTypeFacts
<1>. QED
  BY <1>1, <1>3, <1>4

-----------------------------------------------------------------------------

\* The call in progress is about a slot.
LEMMA CallSlot ==
  ASSUME TypeOK, call # NoCall
  PROVE  call.slot \in Slot
BY DEF TypeOK, Call

\* Only slots with a row can lose it.
LEMMA DamagedType == ASSUME NEW f PROVE Damaged(f) \subseteq Slot
BY DEF Damaged, Rows

\* A load merges rows of the file, and what it merges leaves a table of entries.
LEMMA LoadedType ==
  ASSUME NEW t \in [Slot -> Entry], file \in FileType, NEW P \in RowsRead
  PROVE  /\ P \subseteq DOMAIN file /\ P \subseteq Slot
         /\ [s \in P |-> file[s]] \in FileType
         /\ Merge(t, [s \in P |-> file[s]]) \in [Slot -> Entry]
<1>1. P \subseteq DOMAIN file /\ DOMAIN file \subseteq Slot
  BY FileTypeFacts DEF RowsRead, Prefixes
<1>2. \A s \in P : file[s] \in Entry
  BY <1>1, FileTypeFacts
<1>3. [s \in P |-> file[s]] \in FileType
  BY <1>1, <1>2, FileTypeFacts
<1>. QED
  BY <1>1, <1>3, MergeType

\* A program that has never run has typed state.
LEMMA TypeOKInit == Init => TypeOK
BY EmptyEntryType DEF Init, TypeOK, NoRows

\* Every call, crash and restart keeps the types (all of ctr_state.c).
LEMMA TypeOKStep == TypeOK /\ [Next]_vars => TypeOK'
<1>. SUFFICES ASSUME TypeOK, [Next]_vars
              PROVE  TypeOK'
  OBVIOUS
<1>. USE DEF TypeOK
<1>. file \in FileType
  BY DEF FileType
<1>. ASSUME file' \in FileType
     PROVE  DOMAIN file' \subseteq Slot /\ file' \in [DOMAIN file' -> Entry]
  BY DEF FileType
<1>1. ASSUME NEW s \in Slot, NEW len \in MsgLen, NextOutgoing(s, len)
      PROVE  TypeOK'
  <2>. DEFINE value == NextValue(table[s], s)
              next  == value + NumBlocks(len)
  <2>1. len \in Nat
    BY CtrStateAssumption, CtrTableAssumption
  <2>2. value \in Ctr
    BY NextValueType
  <2>3. Wrap(next) \in Ctr
    <3>1. value \in Nat
      BY <2>2, CtrStateAssumption, CtrTableAssumption DEF Ctr
    <3>2. NumBlocks(len) \in Nat
      BY <2>1, NumBlocksCoversKeystream
    <3>3. next \in Nat
      BY <3>1, <3>2
    <3>. QED
      BY <3>3, CtrModulo
  <2>4. table' = [table EXCEPT ![s].valid_out = TRUE, ![s].next_out = Wrap(next)]
    BY <1>1 DEF NextOutgoing
  <2>5. table' \in [Slot -> Entry]
    BY <2>3, <2>4, ZenonT(40) DEF Entry
  <2>6. call' = [op |-> "out", slot |-> s, value |-> value, len |-> len]
    BY <1>1 DEF NextOutgoing
  <2>7. call' \in Call /\ call' # NoCall
    BY <2>2, <2>6 DEF Call, NoCall
  <2>. QED
    BY <1>1, <2>5, <2>7 DEF NextOutgoing, GiveUp
<1>2. ASSUME NEW s \in Slot, NEW ctr \in InCtr, RejectIncoming(s, ctr)
      PROVE  TypeOK'
  BY <1>2 DEF RejectIncoming, vars
<1>3. ASSUME NEW s \in Slot, NEW ctr \in InCtr, AcceptRetry(s, ctr)
      PROVE  TypeOK'
  <2>1. ctr \in Ctr
    BY CtrStateAssumption, CtrTableAssumption
  <2>. QED
    BY <1>3, <2>1 DEF AcceptRetry, code
<1>4. ASSUME NEW s \in Slot, NEW ctr \in InCtr, AcceptFresh(s, ctr)
      PROVE  TypeOK'
  <2>1. ctr \in Ctr
    BY CtrStateAssumption, CtrTableAssumption
  <2>2. table' \in [Slot -> Entry]
    BY <1>4, <2>1, ZenonT(40) DEF AcceptFresh, Entry
  <2>3. call' \in Call /\ call' # NoCall
    BY <1>4, <2>1 DEF AcceptFresh, Call, NoCall
  <2>. QED
    BY <1>4, <2>2, <2>3 DEF AcceptFresh, GiveUp
<1>5. ASSUME NEW s \in Slot, Reset(s)
      PROVE  TypeOK'
  <2>1. table' \in [Slot -> Entry]
    BY <1>5, ZenonT(40) DEF Reset, Entry
  <2>2. call' \in Call /\ call' # NoCall
    BY <1>5 DEF Reset, Call, NoCall
  <2>. QED
    BY <1>5, <2>1, <2>2 DEF Reset, GiveUp
<1>6. CASE PersistOpen
  BY <1>6, FileTypeFacts DEF PersistOpen, NoRows
<1>7. CASE PersistOpenFails
  <2>1. call.slot \in Slot
    BY <1>7, CallSlot DEF PersistOpenFails
  <2>. QED
    BY <1>7, <2>1 DEF PersistOpenFails
<1>8. CASE PersistClose
  BY <1>8, RowsType DEF PersistClose
<1>9. CASE ReturnOutgoing
  <2>1. call \in [op : {"out"}, slot : Slot, value : Ctr, len : MsgLen]
    BY <1>9 DEF ReturnOutgoing, Call, NoCall
  <2>2. Keystream(call.value, call.len) \in SUBSET Nat
    BY <2>1, CtrStateAssumption, CtrTableAssumption DEF Keystream, Ctr
  <2>. QED
    BY <1>9, <2>1, <2>2 DEF ReturnOutgoing
<1>10. CASE ReturnIncoming
  <2>1. call \in [op : {"in"}, slot : Slot, value : Ctr]
    BY <1>10 DEF ReturnIncoming, Call, NoCall
  <2>. QED
    BY <1>10, <2>1 DEF ReturnIncoming
<1>11. CASE ReturnReset
  BY <1>11 DEF ReturnReset
<1>12. CASE Start
  <2>1. PICK P \in RowsRead : Loaded(P) /\ unread' = DOMAIN file \ P
    BY <1>12 DEF Start
  <2>2. table' \in [Slot -> Entry] /\ unread' \subseteq Slot
    BY <2>1, LoadedType DEF Loaded
  <2>. QED
    BY <1>12, <2>2 DEF Start
<1>13. CASE Reload
  <2>1. PICK P \in RowsRead : /\ Loaded(P)
                              /\ unread' = unread \ P
                              /\ stale' = stale \ P
                              /\ lost' = lost \cup (stale \cap P)
    BY <1>13 DEF Reload
  <2>2. table' \in [Slot -> Entry]
    BY <2>1, LoadedType DEF Loaded
  <2>. QED
    BY <1>13, <2>1, <2>2 DEF Reload
<1>14. CASE Crash
  BY <1>14, EmptyEntryType DEF Crash, Stopped
<1>15. CASE CrashWhileWriting
  <2>1. file' \in FileType
    BY <1>15, CutShortType DEF CrashWhileWriting
  <2>. QED
    BY <1>15, <2>1, EmptyEntryType, DamagedType DEF CrashWhileWriting, Stopped
<1>16. CASE PersistIncomplete
  <2>1. file' \in FileType
    BY <1>16, CutShortType DEF PersistIncomplete
  <2>. QED
    BY <1>16, <2>1, DamagedType DEF PersistIncomplete
<1>17. CASE UNCHANGED vars
  BY <1>17 DEF vars
<1>. QED
  BY <1>1, <1>2, <1>3, <1>4, <1>5, <1>6, <1>7, <1>8, <1>9, <1>10, <1>11,
     <1>12, <1>13, <1>14, <1>15, <1>16, <1>17 DEF Next

\* The table, the file, the call in progress and the histories keep their
\* types for every set of slaves, every counter width and every fault
\* (all of ctr_state.c).
THEOREM TypeCorrect == Spec => []TypeOK
BY TypeOKInit, TypeOKStep, PTL DEF Spec

-----------------------------------------------------------------------------

\* A row of the file stands for the slot's entry and nothing else: what a
\* completed persist leaves is, for every slot, worth what the table holds.
LEMMA RowsWorth ==
  ASSUME NEW t \in [Slot -> Entry], NEW s \in Slot
  PROVE  /\ s \in DOMAIN Rows(t) <=> IsRow(t[s])
         /\ s \in DOMAIN Rows(t) => Rows(t)[s] = t[s]
BY DEF Rows

\* What a completed persist leaves is the table, row by row.
LEMMA PersistedRows ==
  ASSUME table' \in [Slot -> Entry], file' = Rows(table'), NEW s \in Slot
  PROVE  SameRow(s)'
BY RowsWorth DEF SameRow

\* A write cut short leaves the row of every slot that is not damaged.
LEMMA CutShortRows ==
  ASSUME table \in [Slot -> Entry], WriteCutShort, NEW s \in Slot, s \notin Damaged(file')
  PROVE  /\ s \in DOMAIN file' <=> IsRow(table[s])
         /\ s \in DOMAIN file' => file'[s] = table[s]
<1>1. PICK P \in Prefixes(DOMAIN Rows(table)) :
        \/ file' = [x \in P |-> table[x]]
        \/ \E y \in P : \E high \in Shortened(table[y].high_in) :
             file' = [[x \in P |-> table[x]] EXCEPT ![y].high_in = high]
  BY DEF WriteCutShort
<1>2. DOMAIN file' = P /\ P \subseteq DOMAIN Rows(table)
  BY <1>1 DEF Prefixes
<1>3. DOMAIN Rows(table) = {x \in Slot : IsRow(table[x])}
  BY DEF Rows
<1>. QED
  BY <1>2, <1>3 DEF Damaged

\* A load gives the slots whose rows it reads these rows, and leaves the others.
LEMMA LoadedRows ==
  ASSUME file \in FileType, NEW P \in RowsRead, Loaded(P), NEW s \in Slot
  PROVE  /\ s \in P => s \in DOMAIN file /\ table'[s] = file[s]
         /\ s \notin P => table'[s] = table[s]
<1>1. P \subseteq DOMAIN file
  BY FileTypeFacts DEF RowsRead, Prefixes
<1>. QED
  BY <1>1 DEF Loaded, Merge

\* At first there is neither a table entry nor a row.
LEMMA DurableInit == Init => DurableInv
BY DEF Init, DurableInv, NoRows, SameRow, IsRow, EmptyEntry

\* Every step keeps each row the table's entry between calls, but for those a
\* persist did not write or a load did not get to (ctr_state_persist, ctr_state_load).
LEMMA DurableStep == TypeOK /\ TypeOK' /\ DurableInv /\ [Next]_vars => DurableInv'
<1>. SUFFICES ASSUME TypeOK, TypeOK', DurableInv, [Next]_vars
              PROVE  DurableInv'
  OBVIOUS
<1>. USE DEF DurableInv
<1>0. table \in [Slot -> Entry] /\ file \in FileType /\ table' \in [Slot -> Entry]
  BY DEF TypeOK, FileType
<1>1. ASSUME NEW s \in Slot, NEW len \in MsgLen, NextOutgoing(s, len)
      PROVE  DurableInv'
  <2>1. call'.slot = s /\ \A x \in Slot : x # s => table'[x] = table[x]
    BY <1>0, <1>1 DEF NextOutgoing
  <2>. QED
    BY <1>1, <2>1 DEF NextOutgoing, GiveUp, SameRow
<1>2. ASSUME NEW s \in Slot, NEW ctr \in InCtr,
             RejectIncoming(s, ctr) \/ AcceptRetry(s, ctr) \/ AcceptFresh(s, ctr)
      PROVE  DurableInv'
  <2>1. CASE RejectIncoming(s, ctr)
    BY <2>1 DEF RejectIncoming, vars, SameRow
  <2>2. CASE AcceptRetry(s, ctr)
    BY <2>2 DEF AcceptRetry, code, SameRow
  <2>3. CASE AcceptFresh(s, ctr)
    <3>1. call'.slot = s /\ \A x \in Slot : x # s => table'[x] = table[x]
      BY <1>0, <2>3 DEF AcceptFresh
    <3>. QED
      BY <2>3, <3>1 DEF AcceptFresh, GiveUp, SameRow
  <2>. QED
    BY <1>2, <2>1, <2>2, <2>3
<1>3. ASSUME NEW s \in Slot, Reset(s)
      PROVE  DurableInv'
  <2>1. call'.slot = s /\ \A x \in Slot : x # s => table'[x] = table[x]
    BY <1>0, <1>3 DEF Reset
  <2>. QED
    BY <1>3, <2>1 DEF Reset, GiveUp, SameRow
<1>4. CASE PersistOpen
  BY <1>4 DEF PersistOpen, NoRows
<1>5. CASE PersistOpenFails
  BY <1>5 DEF PersistOpenFails, SameRow
<1>6. CASE PersistClose
  <2>1. \A s \in Slot : SameRow(s)'
    BY <1>0, <1>6, PersistedRows DEF PersistClose
  <2>. QED
    BY <1>6, <2>1 DEF PersistClose, Rows
<1>7. CASE ReturnOutgoing \/ ReturnIncoming \/ ReturnReset
  BY <1>7 DEF ReturnOutgoing, ReturnIncoming, ReturnReset, SameRow
<1>8. CASE Start
  <2>1. PICK P \in RowsRead : Loaded(P) /\ unread' = DOMAIN file \ P
    BY <1>8 DEF Start
  <2>2. UNCHANGED <<file, stale>> /\ stage' = "idle"
        /\ table = [s \in Slot |-> EmptyEntry]
    BY <1>8 DEF Start
  <2>3. ~IsRow(EmptyEntry)
    BY DEF IsRow, EmptyEntry
  <2>4. \A s \in Slot : /\ s \in P => s \in DOMAIN file /\ table'[s] = file[s]
                        /\ s \notin P => table'[s] = EmptyEntry
    BY <1>0, <2>1, <2>2, LoadedRows
  <2>5. DOMAIN file \subseteq Slot
    BY DEF TypeOK
  <2>. QED
    BY <2>1, <2>2, <2>3, <2>4, <2>5 DEF SameRow
<1>9. CASE Reload
  <2>1. PICK P \in RowsRead : /\ Loaded(P)
                              /\ unread' = unread \ P
                              /\ stale' = stale \ P
    BY <1>9 DEF Reload
  <2>2. UNCHANGED <<file, stage>> /\ stage = "idle"
    BY <1>9 DEF Reload
  <2>3. \A s \in Slot : /\ s \in P => s \in DOMAIN file /\ table'[s] = file[s]
                        /\ s \notin P => table'[s] = table[s]
    BY <1>0, <2>1, LoadedRows
  <2>4. unread \subseteq Slot
    BY DEF TypeOK
  <2>. QED
    BY <2>1, <2>2, <2>3, <2>4 DEF SameRow
<1>10. CASE Crash
  BY <1>10 DEF Crash, Stopped
<1>11. CASE CrashWhileWriting
  BY <1>0, <1>11, CutShortType DEF CrashWhileWriting, Stopped
<1>12. CASE PersistIncomplete
  <2>1. \A s \in DOMAIN file' : IsRow(file'[s])
    BY <1>0, <1>12, CutShortType DEF PersistIncomplete
  <2>2. \A s \in Slot \ stale' : SameRow(s)'
    BY <1>0, <1>12, CutShortRows DEF PersistIncomplete, SameRow
  <2>. QED
    BY <1>12, <2>1, <2>2 DEF PersistIncomplete
<1>13. CASE UNCHANGED vars
  BY <1>13 DEF vars, SameRow
<1>. QED
  BY <1>1, <1>2, <1>3, <1>4, <1>5, <1>6, <1>7, <1>8, <1>9, <1>10, <1>11, <1>12,
     <1>13 DEF Next

\* A row is the table's entry between calls and at the return of one, but for
\* rows a persist did not write or a load did not get to, and a process starts from
\* nothing but the file, for every value of the constants (ctr_state_persist,
\* ctr_state_load).
THEOREM DurableCorrect == Spec => []DurableInv
BY DurableInit, DurableStep, TypeCorrect, PTL DEF Spec

\* Between calls the file holds exactly the valid slots of the table, but for the
\* rows that a failed persist did not write and those a failed load did not read,
\* for every number of slaves and directions and every fault (ctr_state_persist,
\* ctr_state_load).
THEOREM FileMatches == Spec => []FileMatchesTable
<1>1. DurableInv => FileMatchesTable
  BY DEF DurableInv, FileMatchesTable
<1>. QED
  BY <1>1, DurableCorrect, PTL

-----------------------------------------------------------------------------

\* A row that is the table's entry is worth what the entry is worth.
LEMMA RowWorth ==
  ASSUME NEW s \in Slot, SameRow(s)
  PROVE  /\ FileValue(s) = NextValue(table[s], s)
         /\ FileHigh(s) = High(table[s])
<1>1. CASE s \in DOMAIN file
  BY <1>1 DEF SameRow, FileValue, FileHigh
<1>2. CASE s \notin DOMAIN file
  <2>1. ~table[s].valid_out /\ ~table[s].valid_in
    BY <1>2 DEF SameRow, IsRow
  <2>. QED
    BY <1>2, <2>1 DEF FileValue, FileHigh, NextValue, NextCtr, High
<1>. QED
  BY <1>1, <1>2

\* The same of the file a persist leaves.
LEMMA RowWorthNext ==
  ASSUME NEW s \in Slot, SameRow(s)'
  PROVE  /\ FileValue(s)' = NextValue(table'[s], s)
         /\ FileHigh(s)' = High(table'[s])
<1>1. CASE s \in DOMAIN file'
  BY <1>1 DEF SameRow, FileValue, FileHigh
<1>2. CASE s \notin DOMAIN file'
  <2>1. ~table'[s].valid_out /\ ~table'[s].valid_in
    BY <1>2 DEF SameRow, IsRow
  <2>. QED
    BY <1>2, <2>1 DEF FileValue, FileHigh, NextValue, NextCtr, High
<1>. QED
  BY <1>1, <1>2

\* A write cut short leaves what the entries of the undamaged slots are worth.
LEMMA CutShortWorth ==
  ASSUME table \in [Slot -> Entry], WriteCutShort, NEW s \in Slot, s \notin Damaged(file')
  PROVE  /\ FileValue(s)' = NextValue(table[s], s)
         /\ FileHigh(s)' = High(table[s])
<1>1. /\ s \in DOMAIN file' <=> IsRow(table[s])
      /\ s \in DOMAIN file' => file'[s] = table[s]
  BY CutShortRows
<1>2. CASE s \in DOMAIN file'
  BY <1>1, <1>2 DEF FileValue, FileHigh
<1>3. CASE s \notin DOMAIN file'
  <2>1. ~table[s].valid_out /\ ~table[s].valid_in
    BY <1>1, <1>3 DEF IsRow
  <2>. QED
    BY <1>3, <2>1 DEF FileValue, FileHigh, NextValue, NextCtr, High
<1>. QED
  BY <1>2, <1>3

\* A load takes over what the rows it reads are worth.
LEMMA LoadWorth ==
  ASSUME file \in FileType, NEW P \in RowsRead, Loaded(P), NEW s \in P
  PROVE  /\ NextValue(table'[s], s) = FileValue(s)
         /\ High(table'[s]) = FileHigh(s)
<1>1. s \in Slot
  BY FileTypeFacts DEF RowsRead, Prefixes
<1>2. s \in DOMAIN file /\ table'[s] = file[s]
  BY <1>1, LoadedRows
<1>. QED
  BY <1>2 DEF FileValue, FileHigh

\* A fresh process takes over what a slot is worth that the file has no row for.
LEMMA FreshWorth ==
  ASSUME file \in FileType, NEW P \in RowsRead, Loaded(P), NEW s \in Slot,
         table = [x \in Slot |-> EmptyEntry], s \notin DOMAIN file
  PROVE  /\ NextValue(table'[s], s) = FileValue(s)
         /\ High(table'[s]) = FileHigh(s)
<1>1. table'[s] = EmptyEntry
  BY LoadedRows, FileTypeFacts DEF RowsRead, Prefixes
<1>2. ~EmptyEntry.valid_out /\ ~EmptyEntry.valid_in
  BY DEF EmptyEntry
<1>. QED
  BY <1>1, <1>2 DEF FileValue, FileHigh, NextValue, NextCtr, High

\* A reservation in progress names its slot, counter and length.
LEMMA OutCallType ==
  ASSUME TypeOK, call.op = "out"
  PROVE  call \in [op : {"out"}, slot : Slot, value : Ctr, len : MsgLen]
BY DEF TypeOK, Call, NoCall

\* Nothing has been consumed at first.
LEMMA CounterInit == Init => CounterInv
BY DEF Init, CounterInv, UsedBelowTable, UsedBelowFile, InFlightFresh,
       NoCounterReuse, NoCall

\* A reservation starts at or above everything consumed and moves the table's
\* counter past the message (ctr_state_next_outgoing).
LEMMA CounterNextOutgoing ==
  ASSUME TypeOK, DurableInv, CounterInv,
         NEW s \in Slot, NEW len \in MsgLen, NextOutgoing(s, len)
  PROVE  CounterInv'
<1>. DEFINE value == NextValue(table[s], s)
            next  == value + NumBlocks(len)
<1>0. /\ table \in [Slot -> Entry]
      /\ used \in [Slot -> SUBSET Nat]
  BY DEF TypeOK
<1>1. value \in Ctr /\ value \in Nat
  BY <1>0, NextValueType, CtrStateAssumption, CtrTableAssumption DEF Ctr
<1>2. NumBlocks(len) \in Nat \ {0}
  <2>1. len \in Nat
    BY CtrStateAssumption, CtrTableAssumption
  <2>. QED
    BY <2>1, <1>1, NumBlocksCoversKeystream
<1>3. /\ table' = [table EXCEPT ![s].valid_out = TRUE, ![s].next_out = Wrap(next)]
      /\ call' = [op |-> "out", slot |-> s, value |-> value, len |-> len]
      /\ stage = "idle" /\ stage' = "persist"
      /\ wrapped' = IF next >= CtrMod THEN wrapped \cup {s} ELSE wrapped
      /\ lost' = lost \cup unread /\ stale \subseteq stale'
      /\ UNCHANGED <<file, used, reused>>
  BY DEF NextOutgoing, GiveUp
<1>. HIDE DEF value
<1>4. Excused \subseteq Excused' /\ unread \subseteq Excused'
  BY <1>3 DEF Excused
<1>5. s \notin Excused' => NextValue(table'[s], s) = next
  <2>1. SUFFICES ASSUME s \notin Excused' PROVE NextValue(table'[s], s) = next
    OBVIOUS
  <2>2. next < CtrMod
    BY <1>1, <1>2, <1>3, <2>1, CtrStateAssumption, CtrTableAssumption DEF Excused
  <2>3. next \in Ctr
    BY <1>1, <1>2, <2>2, CtrStateAssumption, CtrTableAssumption DEF Ctr
  <2>4. Wrap(next) = next
    BY <2>3, CtrModulo
  <2>. QED
    BY <1>0, <1>3, <2>4 DEF NextValue, NextCtr, Entry
<1>6. \A x \in Slot : x # s => table'[x] = table[x]
  BY <1>0, <1>3
<1>7. \A x \in Slot \ (Excused \cup unread) : \A c \in used[x] : c < NextValue(table[x], x)
  BY <1>3 DEF CounterInv, UsedBelowTable
<1>8. s \notin Excused' => \A c \in used[s] : c < value
  BY <1>4, <1>7 DEF value
<1>9. UsedBelowTable'
  <2>1. SUFFICES ASSUME NEW x \in Slot, x \notin Excused', NEW c \in used[x]
                 PROVE  c < NextValue(table'[x], x)
    BY <1>3 DEF UsedBelowTable
  <2>2. CASE x = s
    <3>1. c \in Nat /\ c < value
      BY <1>0, <1>8, <2>1, <2>2
    <3>. QED
      BY <1>1, <1>2, <1>5, <2>1, <2>2, <3>1
  <2>3. CASE x # s
    BY <1>4, <1>6, <1>7, <2>1, <2>3
  <2>. QED
    BY <2>2, <2>3
<1>10. UsedBelowFile'
  BY <1>3, <1>4 DEF CounterInv, UsedBelowFile, FileValue
<1>11. InFlightFresh'
  <2>1. SUFFICES ASSUME s \notin Excused'
                 PROVE  /\ \A c \in used[s] : c < value
                        /\ next <= NextValue(table'[s], s)
    BY <1>3 DEF InFlightFresh
  <2>. QED
    BY <1>1, <1>2, <1>5, <1>8, <2>1
<1>12. NoCounterReuse'
  BY <1>3, <1>4 DEF CounterInv, NoCounterReuse, Excused
<1>. QED
  BY <1>9, <1>10, <1>11, <1>12 DEF CounterInv

\* The step the invariant is for: what the caller consumes lies above all that
\* was consumed before and below the counter that survives a crash.
LEMMA CounterReturnOutgoing ==
  ASSUME TypeOK, DurableInv, CounterInv, ReturnOutgoing
  PROVE  CounterInv'
<1>. DEFINE s      == call.slot
            blocks == Keystream(call.value, call.len)
<1>0. /\ table \in [Slot -> Entry]
      /\ used \in [Slot -> SUBSET Nat]
      /\ s \in Slot /\ call.value \in Nat /\ call.len \in Nat
  BY OutCallType, CtrStateAssumption, CtrTableAssumption DEF TypeOK, ReturnOutgoing, Ctr
<1>1. /\ stage = "return" /\ stage' = "idle" /\ call.op = "out" /\ call' = NoCall
      /\ unread = {} /\ UNCHANGED <<table, file, stale, unread, lost, wrapped>>
      /\ IF s \in wrapped \cup reused
         THEN UNCHANGED <<used, reused>>
         ELSE /\ used' = [used EXCEPT ![s] = @ \cup blocks]
              /\ reused' = IF used[s] \cap blocks = {} THEN reused ELSE reused \cup {s}
  BY DEF ReturnOutgoing, DurableInv
<1>2. \A c \in blocks : call.value <= c /\ c < call.value + NumBlocks(call.len)
  BY <1>0, NumBlocksCoversKeystream
<1>3. NumBlocks(call.len) \in Nat
  BY <1>0, NumBlocksCoversKeystream
<1>4. \A c \in blocks : c \in Nat
  BY <1>0 DEF Keystream
<1>5. \A x \in Slot \ Excused : NextValue(table[x], x) \in Nat
  BY <1>0, NextValueType, CtrStateAssumption, CtrTableAssumption DEF Ctr
<1>. HIDE DEF s, blocks
<1>6. s \notin Excused => /\ \A c \in used[s] : c < call.value
                          /\ call.value + NumBlocks(call.len) <= NextValue(table[s], s)
  BY <1>1 DEF CounterInv, InFlightFresh, s
<1>7. \A x \in Slot \ Excused : \A c \in used'[x] : c < NextValue(table[x], x)
  <2>1. SUFFICES ASSUME NEW x \in Slot, x \notin Excused, NEW c \in used'[x]
                 PROVE  c < NextValue(table[x], x)
    OBVIOUS
  <2>2. CASE c \in used[x]
    BY <1>1, <2>1, <2>2 DEF CounterInv, UsedBelowTable
  <2>3. CASE c \notin used[x]
    <3>1. x = s /\ c \in blocks
      BY <1>0, <1>1, <2>1, <2>3
    <3>2. NextValue(table[s], s) \in Nat
      BY <1>5, <2>1, <3>1
    <3>. QED
      BY <1>0, <1>2, <1>3, <1>4, <1>6, <2>1, <3>1, <3>2
  <2>. QED
    BY <2>2, <2>3
<1>8. UsedBelowTable'
  BY <1>1, <1>7 DEF UsedBelowTable, Excused
<1>9. UsedBelowFile'
  <2>1. SUFFICES ASSUME NEW x \in Slot, x \notin Excused, x \notin stale, NEW c \in used'[x]
                 PROVE  c < FileValue(x)
    BY <1>1 DEF UsedBelowFile, Excused, FileValue
  <2>2. SameRow(x)
    BY <1>1, <2>1 DEF DurableInv
  <2>. QED
    BY <1>7, <2>1, <2>2, RowWorth
<1>10. InFlightFresh'
  BY <1>1 DEF InFlightFresh, NoCall
<1>11. NoCounterReuse'
  <2>1. CASE s \in Excused
    BY <1>1, <2>1 DEF CounterInv, NoCounterReuse, Excused
  <2>2. CASE s \notin Excused
    <3>1. used[s] \cap blocks = {}
      <4>1. SUFFICES ASSUME NEW c \in used[s], c \in blocks PROVE FALSE
        OBVIOUS
      <4>2. c < call.value /\ call.value <= c /\ c \in Nat
        BY <1>2, <1>4, <1>6, <2>2, <4>1
      <4>. QED
        BY <1>0, <4>2
    <3>. QED
      BY <1>1, <3>1 DEF CounterInv, NoCounterReuse
  <2>. QED
    BY <2>1, <2>2
<1>. QED
  BY <1>8, <1>9, <1>10, <1>11 DEF CounterInv

\* A reset starts the slot's history afresh (ctr_state_reset).
LEMMA CounterReset ==
  ASSUME TypeOK, CounterInv, NEW s \in Slot, Reset(s)
  PROVE  CounterInv'
<1>0. /\ table \in [Slot -> Entry]
      /\ used \in [Slot -> SUBSET Nat]
  BY DEF TypeOK
<1>1. /\ used'[s] = {}
      /\ \A x \in Slot : x # s => used'[x] = used[x] /\ table'[x] = table[x]
      /\ \A x \in Slot : x # s => (x \in Excused \cup unread <=> x \in Excused')
  BY <1>0 DEF Reset, GiveUp, Excused
<1>2. stage = "idle" /\ stage' = "persist" /\ UNCHANGED file /\ stale \subseteq stale'
  BY DEF Reset, GiveUp
<1>3. UsedBelowTable'
  BY <1>1, <1>2 DEF CounterInv, UsedBelowTable
<1>4. UsedBelowFile'
  BY <1>1, <1>2 DEF CounterInv, UsedBelowFile, FileValue
<1>5. InFlightFresh'
  BY DEF Reset, InFlightFresh
<1>6. NoCounterReuse'
  BY DEF Reset, GiveUp, CounterInv, NoCounterReuse
<1>. QED
  BY <1>3, <1>4, <1>5, <1>6 DEF CounterInv

\* Steps that consume nothing and leave the table as it was.
LEMMA CounterFrame ==
  ASSUME CounterInv, UNCHANGED <<used, reused, wrapped, table, call>>,
         UNCHANGED <<lost, unread>>, stage # "down",
         stage' # "writing" => stage # "writing" /\ stale \subseteq stale' /\ UNCHANGED file
  PROVE  CounterInv'
BY DEF CounterInv, UsedBelowTable, UsedBelowFile, InFlightFresh,
       NoCounterReuse, Excused, FileValue

\* Every step keeps the counter half of the invariant.
LEMMA CounterStep ==
  TypeOK /\ TypeOK' /\ DurableInv /\ CounterInv /\ [Next]_vars => CounterInv'
<1>. SUFFICES ASSUME TypeOK, TypeOK', DurableInv, CounterInv, [Next]_vars
              PROVE  CounterInv'
  OBVIOUS
<1>0. /\ table \in [Slot -> Entry]
      /\ table' \in [Slot -> Entry]
      /\ file \in FileType
      /\ used \in [Slot -> SUBSET Nat]
  BY DEF TypeOK, FileType
<1>1. ASSUME NEW s \in Slot, NEW len \in MsgLen, NextOutgoing(s, len)
      PROVE  CounterInv'
  BY <1>1, CounterNextOutgoing
<1>2. ASSUME NEW s \in Slot, NEW ctr \in InCtr,
             RejectIncoming(s, ctr) \/ AcceptRetry(s, ctr)
      PROVE  CounterInv'
  <2>1. UNCHANGED <<used, reused, wrapped, lost, table, call, stage, stale, unread, file>>
    BY <1>2 DEF RejectIncoming, AcceptRetry, vars, code
  <2>. QED
    BY <2>1 DEF CounterInv, UsedBelowTable, UsedBelowFile, InFlightFresh,
                NoCounterReuse, Excused, FileValue
<1>3. ASSUME NEW s \in Slot, NEW ctr \in InCtr, AcceptFresh(s, ctr)
      PROVE  CounterInv'
  <2>1. \A x \in Slot : NextValue(table'[x], x) = NextValue(table[x], x)
    BY <1>0, <1>3 DEF AcceptFresh, NextValue, NextCtr, Entry
  <2>2. /\ UNCHANGED <<used, reused, wrapped, file>>
        /\ lost' = lost \cup unread /\ stale \subseteq stale'
        /\ stage = "idle" /\ stage' = "persist" /\ call'.op = "in"
    BY <1>3 DEF AcceptFresh, GiveUp
  <2>. QED
    BY <2>1, <2>2 DEF CounterInv, UsedBelowTable, UsedBelowFile, InFlightFresh,
                      NoCounterReuse, Excused, FileValue
<1>4. ASSUME NEW s \in Slot, Reset(s)
      PROVE  CounterInv'
  BY <1>4, CounterReset
<1>5. CASE PersistOpen \/ PersistOpenFails
  BY <1>5, CounterFrame DEF PersistOpen, PersistOpenFails
<1>6. CASE PersistClose
  <2>1. /\ file' = Rows(table') /\ stage = "writing" /\ stage' = "return"
        /\ UNCHANGED <<used, reused, wrapped, lost, unread, table, call>> /\ unread = {}
    BY <1>6 DEF PersistClose, DurableInv
  <2>2. \A s \in Slot : SameRow(s)'
    BY <1>0, <2>1, PersistedRows
  <2>3. \A s \in Slot : FileValue(s)' = NextValue(table[s], s)
    BY <2>1, <2>2, RowWorthNext
  <2>4. UsedBelowFile'
    BY <2>1, <2>3 DEF CounterInv, UsedBelowTable, UsedBelowFile, Excused
  <2>. QED
    BY <2>1, <2>4 DEF CounterInv, UsedBelowTable, InFlightFresh, NoCounterReuse, Excused
<1>7. CASE PersistIncomplete
  <2>1. /\ stale' = Damaged(file') /\ stage = "writing" /\ stage' = "return"
        /\ UNCHANGED <<used, reused, wrapped, lost, unread, table, call>> /\ unread = {}
        /\ WriteCutShort
    BY <1>7 DEF PersistIncomplete, DurableInv
  <2>2. \A s \in Slot \ stale' : FileValue(s)' = NextValue(table[s], s)
    BY <1>0, <2>1, CutShortWorth
  <2>3. UsedBelowFile'
    BY <2>1, <2>2 DEF CounterInv, UsedBelowTable, UsedBelowFile, Excused
  <2>. QED
    BY <2>1, <2>3 DEF CounterInv, UsedBelowTable, InFlightFresh, NoCounterReuse, Excused
<1>8. CASE ReturnOutgoing
  BY <1>8, CounterReturnOutgoing
<1>9. CASE ReturnIncoming \/ ReturnReset
  <2>1. /\ UNCHANGED <<used, reused, wrapped, lost, table, stale, unread, file>>
        /\ stage = "return" /\ stage' = "idle" /\ call'.op = "none"
    BY <1>9 DEF ReturnIncoming, ReturnReset, NoCall
  <2>. QED
    BY <2>1 DEF CounterInv, UsedBelowTable, UsedBelowFile, InFlightFresh,
                NoCounterReuse, Excused, FileValue
<1>10. CASE Start
  <2>1. PICK P \in RowsRead : Loaded(P) /\ unread' = DOMAIN file \ P
    BY <1>10 DEF Start
  <2>2. /\ UNCHANGED <<used, reused, wrapped, lost, stale, file, call>>
        /\ stage = "down" /\ stage' = "idle"
        /\ stale = {} /\ table = [s \in Slot |-> EmptyEntry] /\ call.op = "none"
    BY <1>10 DEF Start, DurableInv, TypeOK, NoCall
  <2>3. \A s \in Slot \ unread' : NextValue(table'[s], s) = FileValue(s)
    BY <1>0, <2>1, <2>2, LoadWorth, FreshWorth
  <2>4. UsedBelowTable'
    BY <2>2, <2>3 DEF CounterInv, UsedBelowTable, UsedBelowFile, Excused
  <2>. QED
    BY <2>2, <2>4 DEF CounterInv, UsedBelowFile, InFlightFresh, NoCounterReuse, Excused, FileValue
<1>11. CASE Reload
  <2>1. PICK P \in RowsRead : /\ Loaded(P)
                              /\ unread' = unread \ P
                              /\ stale' = stale \ P
                              /\ lost' = lost \cup (stale \cap P)
    BY <1>11 DEF Reload
  <2>2. /\ UNCHANGED <<used, reused, wrapped, file, call, stage>>
        /\ stage = "idle" /\ call.op = "none"
    BY <1>11 DEF Reload, TypeOK, NoCall
  <2>3. \A s \in P : NextValue(table'[s], s) = FileValue(s)
    BY <1>0, <2>1, LoadWorth
  <2>4. \A s \in Slot : s \notin P => table'[s] = table[s]
    BY <1>0, <2>1, LoadedRows
  <2>5. ASSUME NEW s \in Slot \ (Excused \cup unread)'
        PROVE  \A c \in used[s] : c < NextValue(table'[s], s)
    <3>1. CASE s \in P
      <4>1. s \notin Excused /\ s \notin stale
        BY <2>1, <2>2, <2>5, <3>1 DEF Excused
      <4>. QED
        BY <2>2, <2>3, <3>1, <4>1 DEF CounterInv, UsedBelowFile
    <3>2. CASE s \notin P
      <4>1. s \notin Excused /\ s \notin unread
        BY <2>1, <2>2, <2>5, <3>2 DEF Excused
      <4>. QED
        BY <2>2, <2>4, <3>2, <4>1 DEF CounterInv, UsedBelowTable
    <3>. QED
      BY <3>1, <3>2
  <2>6. UsedBelowTable'
    BY <2>2, <2>5 DEF UsedBelowTable
  <2>7. UsedBelowFile'
    BY <2>1, <2>2 DEF CounterInv, UsedBelowFile, Excused, FileValue
  <2>. QED
    BY <2>1, <2>2, <2>6, <2>7 DEF CounterInv, InFlightFresh, NoCounterReuse
<1>12. CASE Crash
  <2>1. /\ UNCHANGED <<used, reused, wrapped, file>> /\ lost' = lost \cup stale
        /\ stage # "writing" /\ stage' = "down" /\ call'.op = "none"
    BY <1>12 DEF Crash, Stopped, NoCall
  <2>. QED
    BY <2>1 DEF CounterInv, UsedBelowTable, UsedBelowFile, InFlightFresh,
                NoCounterReuse, Excused, FileValue
<1>13. CASE CrashWhileWriting
  <2>1. /\ UNCHANGED <<used, reused, wrapped>> /\ lost' = lost \cup Damaged(file')
        /\ stage = "writing" /\ stage' = "down" /\ call'.op = "none"
        /\ WriteCutShort /\ unread = {}
    BY <1>13 DEF CrashWhileWriting, Stopped, NoCall, DurableInv
  <2>2. \A s \in Slot \ lost' : FileValue(s)' = NextValue(table[s], s)
    BY <1>0, <2>1, CutShortWorth
  <2>3. UsedBelowFile'
    BY <2>1, <2>2 DEF CounterInv, UsedBelowTable, UsedBelowFile, Excused
  <2>. QED
    BY <2>1, <2>3 DEF CounterInv, UsedBelowTable, InFlightFresh, NoCounterReuse
<1>14. CASE UNCHANGED vars
  BY <1>14 DEF vars, CounterInv, UsedBelowTable, UsedBelowFile, InFlightFresh,
               NoCounterReuse, Excused, FileValue
<1>. QED
  BY <1>1, <1>2, <1>3, <1>4, <1>5, <1>6, <1>7, <1>8, <1>9, <1>10, <1>11, <1>12,
     <1>13, <1>14 DEF Next

\* What was consumed under a key lies below the counter that survives a crash,
\* for every value of the constants (ctr_state_next_outgoing persists before it
\* returns).
THEOREM CounterCorrect == Spec => []CounterInv
BY CounterInit, CounterStep, TypeCorrect, DurableCorrect, PTL DEF Spec

\* No keystream block is consumed twice under one key, across any calls,
\* crashes and restarts, for every counter width, set of slots and choice of
\* message lengths, unless the slot's own row was damaged, left behind by a
\* persist that failed, or not read before it was overwritten, or its counter
\* wrapped (ctr_state_next_outgoing, ctr_state_persist, ctr_state_load).
THEOREM CountersNeverReused == Spec => []NoCounterReuse
<1>1. CounterInv => NoCounterReuse
  BY DEF CounterInv
<1>. QED
  BY <1>1, CounterCorrect, PTL

-----------------------------------------------------------------------------

\* The high-water mark is a counter or none.
LEMMA HighType ==
  ASSUME NEW e \in Entry
  PROVE  High(e) \in Ctr \cup {-1}
BY DEF High, Entry

\* Nothing has been accepted at first.
LEMMA AcceptInit == Init => AcceptInv
BY DEF Init, AcceptInv, AcceptedBelowTable, AcceptedBelowFile, InFlightAccepted,
       FileHigh, High, EmptyEntry, NoRows, NoCall

\* Accepting a new counter raises the mark to it (ctr_state_validate_incoming).
LEMMA AcceptFreshStep ==
  ASSUME TypeOK, AcceptInv, NEW s \in Slot, NEW ctr \in InCtr, AcceptFresh(s, ctr)
  PROVE  AcceptInv'
<1>0. /\ table \in [Slot -> Entry]
      /\ lastAccepted \in [Slot -> Ctr \cup {-1}]
      /\ ctr \in Int /\ ctr > -1
  BY CtrStateAssumption, CtrTableAssumption DEF TypeOK, Ctr
<1>1. /\ stage = "idle" /\ stage' = "persist"
      /\ table' = [table EXCEPT ![s].valid_in = TRUE, ![s].high_in = ctr]
      /\ call' = [op |-> "in", slot |-> s, value |-> ctr]
      /\ UNCHANGED <<file, lastAccepted>>
      /\ lost' = lost \cup unread /\ stale \subseteq stale'
      /\ ~Replayed(s, ctr)
  BY DEF AcceptFresh, GiveUp
<1>2. /\ High(table'[s]) = ctr
      /\ \A x \in Slot : x # s => table'[x] = table[x]
  BY <1>0, <1>1 DEF High, Entry
<1>3. High(table[s]) <= ctr
  <2>1. CASE table[s].valid_in
    <3>1. table[s].high_in \in Ctr /\ ~(ctr < table[s].high_in)
      BY <1>0, <1>1, <2>1 DEF Replayed, Entry
    <3>. QED
      BY <1>0, <2>1, <3>1, CtrStateAssumption, CtrTableAssumption DEF High, Ctr
  <2>2. CASE ~table[s].valid_in
    BY <1>0, <2>2 DEF High
  <2>. QED
    BY <2>1, <2>2
<1>4. s \notin lost' => lastAccepted[s] <= ctr
  <2>1. High(table[s]) \in Int /\ lastAccepted[s] \in Int
    BY <1>0, HighType, CtrStateAssumption, CtrTableAssumption DEF Ctr
  <2>. QED
    BY <1>0, <1>1, <1>3, <2>1 DEF AcceptInv, AcceptedBelowTable
<1>5. AcceptedBelowTable'
  BY <1>1, <1>2, <1>4 DEF AcceptInv, AcceptedBelowTable
<1>6. AcceptedBelowFile'
  BY <1>1 DEF AcceptInv, AcceptedBelowFile, FileHigh
<1>7. InFlightAccepted'
  BY <1>0, <1>1, <1>2, <1>4 DEF InFlightAccepted
<1>. QED
  BY <1>5, <1>6, <1>7 DEF AcceptInv

\* A frame is only processed once its counter is the durable high-water mark.
LEMMA AcceptReturnStep ==
  ASSUME TypeOK, DurableInv, AcceptInv, ReturnIncoming
  PROVE  AcceptInv'
<1>0. /\ table \in [Slot -> Entry]
      /\ lastAccepted \in [Slot -> Ctr \cup {-1}]
      /\ call.slot \in Slot
  BY DEF TypeOK, ReturnIncoming, Call, NoCall
<1>1. /\ stage = "return" /\ stage' = "idle" /\ call.op = "in" /\ call'.op = "none"
      /\ lastAccepted' = [lastAccepted EXCEPT ![call.slot] = call.value]
      /\ UNCHANGED <<table, file, stale, unread, lost>> /\ unread = {}
  BY DEF ReturnIncoming, NoCall, DurableInv
<1>2. \A x \in Slot \ lost : lastAccepted'[x] <= High(table[x])
  BY <1>0, <1>1 DEF AcceptInv, AcceptedBelowTable, InFlightAccepted
<1>3. AcceptedBelowFile'
  <2>1. \A x \in Slot \ stale : SameRow(x)
    BY <1>1 DEF DurableInv
  <2>2. \A x \in Slot \ stale : FileHigh(x) = High(table[x])
    BY <2>1, RowWorth
  <2>. QED
    BY <1>1, <1>2, <2>2 DEF AcceptedBelowFile, FileHigh
<1>. QED
  BY <1>1, <1>2, <1>3 DEF AcceptInv, AcceptedBelowTable, InFlightAccepted

\* Every step keeps the receive half of the invariant.
LEMMA AcceptStep ==
  TypeOK /\ TypeOK' /\ DurableInv /\ AcceptInv /\ [Next]_vars => AcceptInv'
<1>. SUFFICES ASSUME TypeOK, TypeOK', DurableInv, AcceptInv, [Next]_vars
              PROVE  AcceptInv'
  OBVIOUS
<1>. USE DEF AcceptInv, AcceptedBelowTable, AcceptedBelowFile, InFlightAccepted
<1>0. /\ table \in [Slot -> Entry]
      /\ table' \in [Slot -> Entry]
      /\ file \in FileType
      /\ lastAccepted \in [Slot -> Ctr \cup {-1}]
  BY DEF TypeOK, FileType
<1>1. ASSUME NEW s \in Slot, NEW len \in MsgLen, NextOutgoing(s, len)
      PROVE  AcceptInv'
  <2>1. \A x \in Slot : High(table'[x]) = High(table[x])
    BY <1>0, <1>1 DEF NextOutgoing, High, Entry
  <2>2. /\ UNCHANGED <<lastAccepted, file>>
        /\ lost' = lost \cup unread /\ stale \subseteq stale'
        /\ stage = "idle" /\ stage' = "persist" /\ call'.op = "out"
    BY <1>1 DEF NextOutgoing, GiveUp
  <2>. QED
    BY <2>1, <2>2 DEF FileHigh
<1>2. ASSUME NEW s \in Slot, NEW ctr \in InCtr, RejectIncoming(s, ctr)
      PROVE  AcceptInv'
  BY <1>2 DEF RejectIncoming, vars, FileHigh
<1>3. ASSUME NEW s \in Slot, NEW ctr \in InCtr, AcceptRetry(s, ctr)
      PROVE  AcceptInv'
  <2>1. /\ UNCHANGED <<table, file, stage, call, stale, unread, lost>>
        /\ lastAccepted' = [lastAccepted EXCEPT ![s] = ctr]
        /\ stage = "idle" /\ table[s].valid_in /\ High(table[s]) = ctr /\ ctr \in Int
    BY <1>0, <1>3, CtrStateAssumption, CtrTableAssumption DEF AcceptRetry, Retried, code, High, Ctr
  <2>2. call.op = "none"
    BY <2>1 DEF TypeOK, NoCall
  <2>3. \A x \in Slot \ (lost \cup unread) : lastAccepted'[x] <= High(table[x])
    BY <1>0, <2>1
  <2>4. s \notin unread
    BY <2>1 DEF DurableInv, IsRow
  <2>5. s \notin stale => FileHigh(s) = High(table[s])
    BY <2>1, <2>4, RowWorth DEF DurableInv
  <2>6. ASSUME NEW x \in Slot \ (lost \cup stale) PROVE lastAccepted'[x] <= FileHigh(x)
    <3>1. CASE x = s
      BY <1>0, <2>1, <2>5, <3>1
    <3>2. CASE x # s
      BY <1>0, <2>1, <3>2
    <3>. QED
      BY <3>1, <3>2
  <2>. QED
    BY <2>1, <2>2, <2>3, <2>6 DEF FileHigh
<1>4. ASSUME NEW s \in Slot, NEW ctr \in InCtr, AcceptFresh(s, ctr)
      PROVE  AcceptInv'
  BY <1>4, AcceptFreshStep
<1>5. ASSUME NEW s \in Slot, Reset(s)
      PROVE  AcceptInv'
  <2>1. /\ \A x \in Slot : x # s => /\ lastAccepted'[x] = lastAccepted[x]
                                    /\ table'[x] = table[x]
                                    /\ x \in lost \cup unread <=> x \in lost'
        /\ lastAccepted'[s] = -1
        /\ High(table'[s]) = -1
    BY <1>0, <1>5 DEF Reset, GiveUp, High, Entry
  <2>2. /\ UNCHANGED file /\ stale \subseteq stale'
        /\ stage = "idle" /\ stage' = "persist" /\ call'.op = "reset"
    BY <1>5 DEF Reset, GiveUp
  <2>3. FileHigh(s) >= -1 /\ FileHigh(s) \in Int
    BY <1>0, FileTypeFacts, CtrStateAssumption, CtrTableAssumption, HighType DEF FileHigh, Ctr
  <2>. QED
    BY <2>1, <2>2, <2>3 DEF FileHigh
<1>6. CASE PersistOpen \/ PersistOpenFails
  BY <1>6 DEF PersistOpen, PersistOpenFails, FileHigh
<1>7. CASE PersistClose
  <2>1. /\ file' = Rows(table') /\ stage = "writing" /\ stage' = "return"
        /\ UNCHANGED <<lost, unread, lastAccepted, table, call>> /\ unread = {}
    BY <1>7 DEF PersistClose, DurableInv
  <2>2. \A s \in Slot : FileHigh(s)' = High(table[s])
    BY <1>0, <2>1, PersistedRows, RowWorthNext
  <2>. QED
    BY <2>1, <2>2
<1>14. CASE PersistIncomplete
  <2>1. /\ stale' = Damaged(file') /\ stage = "writing" /\ stage' = "return"
        /\ UNCHANGED <<lost, unread, lastAccepted, table, call>> /\ unread = {}
        /\ WriteCutShort
    BY <1>14 DEF PersistIncomplete, DurableInv
  <2>2. \A s \in Slot \ stale' : FileHigh(s)' = High(table[s])
    BY <1>0, <2>1, CutShortWorth
  <2>. QED
    BY <2>1, <2>2
<1>8. CASE ReturnIncoming
  BY <1>8, AcceptReturnStep
<1>9. CASE ReturnOutgoing \/ ReturnReset
  <2>1. /\ UNCHANGED <<lost, lastAccepted, table, stale, unread, file>>
        /\ stage = "return" /\ stage' = "idle" /\ call'.op = "none"
    BY <1>9 DEF ReturnOutgoing, ReturnReset, NoCall
  <2>. QED
    BY <2>1 DEF FileHigh
<1>10. CASE Start
  <2>1. PICK P \in RowsRead : Loaded(P) /\ unread' = DOMAIN file \ P
    BY <1>10 DEF Start
  <2>2. /\ UNCHANGED <<lost, lastAccepted, stale, file, call>>
        /\ stage = "down" /\ stage' = "idle"
        /\ stale = {} /\ table = [s \in Slot |-> EmptyEntry] /\ call.op = "none"
    BY <1>10 DEF Start, DurableInv, TypeOK, NoCall
  <2>3. \A s \in Slot \ unread' : High(table'[s]) = FileHigh(s)
    BY <1>0, <2>1, <2>2, LoadWorth, FreshWorth
  <2>. QED
    BY <2>2, <2>3 DEF FileHigh
<1>11. CASE Reload
  <2>1. PICK P \in RowsRead : /\ Loaded(P)
                              /\ unread' = unread \ P
                              /\ stale' = stale \ P
                              /\ lost' = lost \cup (stale \cap P)
    BY <1>11 DEF Reload
  <2>2. /\ UNCHANGED <<lastAccepted, file, call, stage>>
        /\ stage = "idle" /\ call.op = "none"
    BY <1>11 DEF Reload, TypeOK, NoCall
  <2>3. \A s \in P : High(table'[s]) = FileHigh(s)
    BY <1>0, <2>1, LoadWorth
  <2>4. \A s \in Slot : s \notin P => table'[s] = table[s]
    BY <1>0, <2>1, LoadedRows
  <2>5. ASSUME NEW s \in Slot \ (lost \cup unread)'
        PROVE  lastAccepted[s] <= High(table'[s])
    <3>1. CASE s \in P
      <4>1. s \notin lost /\ s \notin stale
        BY <2>1, <2>5, <3>1
      <4>. QED
        BY <2>2, <2>3, <3>1, <4>1
    <3>2. CASE s \notin P
      <4>1. s \notin lost /\ s \notin unread
        BY <2>1, <2>5, <3>2
      <4>. QED
        BY <2>2, <2>4, <3>2, <4>1
    <3>. QED
      BY <3>1, <3>2
  <2>6. AcceptedBelowTable'
    BY <2>2, <2>5
  <2>7. AcceptedBelowFile'
    BY <2>1, <2>2 DEF FileHigh
  <2>. QED
    BY <2>2, <2>6, <2>7
<1>12. CASE Crash
  <2>1. /\ UNCHANGED <<lastAccepted, file>> /\ lost' = lost \cup stale
        /\ stage # "writing" /\ stage' = "down" /\ call'.op = "none"
    BY <1>12 DEF Crash, Stopped, NoCall
  <2>. QED
    BY <2>1 DEF FileHigh
<1>15. CASE CrashWhileWriting
  <2>1. /\ UNCHANGED lastAccepted /\ lost' = lost \cup Damaged(file')
        /\ stage = "writing" /\ stage' = "down" /\ call'.op = "none"
        /\ WriteCutShort /\ unread = {}
    BY <1>15 DEF CrashWhileWriting, Stopped, NoCall, DurableInv
  <2>2. \A s \in Slot \ lost' : FileHigh(s)' = High(table[s])
    BY <1>0, <2>1, CutShortWorth
  <2>. QED
    BY <2>1, <2>2
<1>13. CASE UNCHANGED vars
  BY <1>13 DEF vars, FileHigh
<1>. QED
  BY <1>1, <1>2, <1>3, <1>4, <1>5, <1>6, <1>7, <1>8, <1>9, <1>10, <1>11, <1>12,
     <1>13, <1>14, <1>15 DEF Next

\* The strengthened invariant that the three properties of the module follow
\* from is an invariant for every value of the constants.
THEOREM InductiveInvariant == Spec => []IInv
<1>1. Spec => []AcceptInv
  BY AcceptInit, AcceptStep, TypeCorrect, DurableCorrect, PTL DEF Spec
<1>. QED
  BY <1>1, DurableCorrect, CounterCorrect, PTL DEF IInv

\* The action property, from the invariant: a step that accepts a counter
\* accepts one no lower than the last.
LEMMA AcceptedStep ==
  TypeOK /\ DurableInv /\ AcceptInv /\ [Next]_vars =>
    [\A s \in Slot \ lost' :
       lastAccepted'[s] >= lastAccepted[s] \/ lastAccepted'[s] = -1]_vars
<1>. SUFFICES ASSUME TypeOK, DurableInv, AcceptInv, Next, NEW x \in Slot, x \notin lost'
              PROVE  lastAccepted'[x] >= lastAccepted[x] \/ lastAccepted'[x] = -1
  OBVIOUS
<1>0. /\ lastAccepted \in [Slot -> Ctr \cup {-1}] /\ lastAccepted[x] \in Int
      /\ table \in [Slot -> Entry]
  BY CtrStateAssumption, CtrTableAssumption DEF TypeOK, Ctr
<1>1. CASE UNCHANGED lastAccepted
  BY <1>0, <1>1
<1>2. ASSUME NEW s \in Slot, NEW ctr \in InCtr, AcceptRetry(s, ctr)
      PROVE  lastAccepted'[x] >= lastAccepted[x]
  <2>1. /\ lastAccepted' = [lastAccepted EXCEPT ![s] = ctr]
        /\ ctr = High(table[s]) /\ ctr \in Int /\ lost' = lost /\ stage = "idle"
    BY <1>2, CtrStateAssumption, CtrTableAssumption DEF AcceptRetry, Retried, High, Ctr
  <2>2. s \notin unread
    BY <1>2 DEF AcceptRetry, Retried, DurableInv, IsRow
  <2>3. lastAccepted[s] <= ctr \/ s \in lost
    BY <2>1, <2>2 DEF AcceptInv, AcceptedBelowTable
  <2>. QED
    BY <1>0, <2>1, <2>3
<1>3. ASSUME NEW s \in Slot, Reset(s)
      PROVE  lastAccepted'[x] >= lastAccepted[x] \/ lastAccepted'[x] = -1
  BY <1>0, <1>3 DEF Reset
<1>4. CASE ReturnIncoming
  <2>1. /\ lastAccepted' = [lastAccepted EXCEPT ![call.slot] = call.value]
        /\ call.op = "in" /\ lost' = lost
        /\ call.slot \in Slot /\ call.value \in Int
    BY <1>4, CtrStateAssumption, CtrTableAssumption DEF ReturnIncoming, TypeOK, Call, NoCall, Ctr
  <2>2. lastAccepted[call.slot] <= call.value \/ call.slot \in lost
    BY <2>1 DEF AcceptInv, InFlightAccepted
  <2>. QED
    BY <1>0, <2>1, <2>2
<1>. QED
  BY <1>1, <1>2, <1>3, <1>4
     DEF Next, NextOutgoing, RejectIncoming, AcceptFresh, PersistOpen,
         PersistOpenFails, PersistClose, PersistIncomplete, ReturnOutgoing, ReturnReset, Start,
         Reload, Crash, CrashWhileWriting, Stopped, vars

\* The high-water mark of accepted counters never moves down, whatever is
\* presented and wherever the process is interrupted, unless the slot's own row
\* was damaged, left behind by a persist that failed, or not read before it was
\* overwritten (ctr_state_validate_incoming).
THEOREM ReplaysStayRejected == Spec => AcceptedNeverDecreases
<1>1. IInv => DurableInv /\ AcceptInv
  BY DEF IInv
<1>2. Spec => [][Next]_vars
  BY DEF Spec
<1>. QED
  BY <1>1, <1>2, AcceptedStep, TypeCorrect, InductiveInvariant, PTL
     DEF AcceptedNeverDecreases
=============================================================================
