------------------------- MODULE SecureDemo_proofs -------------------------
(***************************************************************************)
(* Proofs about SecureDemo, for every set of processes, directories, keys, *)
(* addresses and frame lengths, and every width of the counters.           *)
(***************************************************************************)
EXTENDS SecureDemo, TLAPS

-----------------------------------------------------------------------------
(* Counters, rows and merges *)

\* A reservation is at least one block long and at least as long as the
\* keystream the message consumes.
LEMMA NumBlocksCoversKeystream ==
  ASSUME NEW len \in Nat, NEW value \in Nat
  PROVE  /\ NumBlocks(len) \in Nat \ {0}
         /\ \A c \in Keystream(value, len) : value <= c /\ c < value + NumBlocks(len)
<1>1. NumBlocks(len) \in Nat \ {0}
  BY DEF NumBlocks
<1>2. ASSUME NEW c \in Keystream(value, len)
      PROVE  value <= c /\ c < value + NumBlocks(len)
  <2>1. c \in value .. value + len /\ 16 * (c - value) < len
    BY DEF Keystream
  <2>2. len > 0 /\ c - value < (len + 15) \div 16
    BY <2>1
  <2>3. NumBlocks(len) = (len + 15) \div 16
    BY <2>2 DEF NumBlocks
  <2>. QED
    BY <2>1, <2>2, <2>3
<1>. QED
  BY <1>1, <1>2

\* The uint32_t addition: exact as long as it does not pass CtrMod.
LEMMA CtrModulo ==
  /\ \A n \in Nat : Wrap(n) \in Ctr
  /\ \A n \in Ctr : Wrap(n) = n
BY CtrTableAssumption DEF Ctr, Wrap

\* The files a process can leave: rows for some of the slots.
FileType == UNION {[S -> Entry] : S \in SUBSET Slot}

\* A file is a function from the slots it has a row for to entries.
LEMMA FileTypeFacts ==
  ASSUME NEW f
  PROVE  f \in FileType <=> /\ DOMAIN f \subseteq Slot
                           /\ f = [s \in DOMAIN f |-> f[s]]
                           /\ \A s \in DOMAIN f : f[s] \in Entry
BY DEF FileType

\* ctr_state_load leaves a table of entries.
LEMMA MergeType ==
  ASSUME NEW t \in [Slot -> Entry], NEW f \in FileType
  PROVE  Merge(t, f) \in [Slot -> Entry]
BY FileTypeFacts DEF Merge

\* A persist, completed or cut short, leaves a file of rows.
LEMMA RowsType ==
  ASSUME NEW t \in [Slot -> Entry], NEW P \in SUBSET Slot
  PROVE  Rows(t) \in FileType /\ [s \in P |-> t[s]] \in FileType
BY FileTypeFacts DEF Rows

\* The zeroed static table holds entries.
LEMMA EmptyEntryType == EmptyEntry \in Entry
BY CtrTableAssumption DEF EmptyEntry, Entry, Ctr

-----------------------------------------------------------------------------

\* The constants, one by one.
LEMMA Constants ==
  ASSUME SecureDemoAssumption
  PROVE  /\ \A a \in Addr : <<a, M2S>> \in Slot /\ <<a, S2M>> \in Slot /\ <<a, M2S>> # <<a, S2M>>
         /\ "selftest" \in Options => TestAddr \in Addr
         /\ \A s \in FileKeys : s \in Slot /\ FileCtr[s] \in Ctr
         /\ \A len \in FrameLen : len \in Nat
         /\ \A a \in Addr : a # NoFrame.addr
BY CtrTableAssumption DEF SecureDemoAssumption, Slot, M2S, S2M, NoFrame

-----------------------------------------------------------------------------
(* One reservation, and the file after it *)

\* ctr_state_next_outgoing gives an entry whatever the counter was, and
\* touches no other slot.
LEMMA ReserveType ==
  ASSUME NEW t \in [Slot -> Entry], NEW s \in Slot, NEW seed \in Ctr, NEW len \in Nat
  PROVE  /\ Reserve(t, s, seed, len) \in [Slot -> Entry]
         /\ \A x \in Slot : x # s => Reserve(t, s, seed, len)[x] = t[x]
         /\ NextCtr(t[s], seed) \in Ctr
<1>1. NextCtr(t[s], seed) \in Ctr
  BY DEF NextCtr, Entry
<1>2. NextOut(t[s], seed, len) \in Nat
  BY <1>1, NumBlocksCoversKeystream, CtrTableAssumption DEF NextOut, Ctr
<1>3. Wrap(NextOut(t[s], seed, len)) \in Ctr
  BY <1>2, CtrModulo
<1>. DEFINE w == Wrap(NextOut(t[s], seed, len))
<1>. HIDE DEF w
<1>4. [t[s] EXCEPT !.valid_out = TRUE, !.next_out = w] \in Entry
  BY <1>3 DEF Entry, w
<1>5. Reserve(t, s, seed, len) =
        [t EXCEPT ![s] = [t[s] EXCEPT !.valid_out = TRUE, !.next_out = w]]
  BY DEF Reserve, w
<1>. QED
  BY <1>1, <1>4, <1>5

\* Short of the wrap the slot then stands right behind the message.
LEMMA Reserved ==
  ASSUME NEW t \in [Slot -> Entry], NEW s \in Slot, NEW seed \in Ctr, NEW len \in Nat,
         NextOut(t[s], seed, len) < CtrMod
  PROVE  LET e == Reserve(t, s, seed, len)[s]
         IN /\ e.valid_out
            /\ e.next_out = NextCtr(t[s], seed) + NumBlocks(len)
<1>1. NextCtr(t[s], seed) \in Ctr
  BY DEF NextCtr, Entry
<1>2. NextOut(t[s], seed, len) \in Ctr
  BY <1>1, NumBlocksCoversKeystream, CtrTableAssumption DEF NextOut, Ctr
<1>3. Wrap(NextOut(t[s], seed, len)) = NextCtr(t[s], seed) + NumBlocks(len)
  BY <1>2, CtrModulo DEF NextOut
<1>4. Reserve(t, s, seed, len)[s] =
        [t[s] EXCEPT !.valid_out = TRUE, !.next_out = Wrap(NextOut(t[s], seed, len))]
  BY DEF Reserve
<1>. QED
  BY <1>3, <1>4 DEF Entry

\* The keystream of such a message lies below the counter it leaves.
LEMMA SpentBelow ==
  ASSUME NEW v \in Ctr, NEW len \in Nat, v + NumBlocks(len) < CtrMod
  PROVE  \A c \in Keystream(v, len) : c \in Ctr /\ v <= c /\ c < v + NumBlocks(len)
<1>1. \A c \in Keystream(v, len) : c \in Int /\ v <= c /\ c < v + NumBlocks(len)
  BY NumBlocksCoversKeystream, CtrTableAssumption DEF Ctr, Keystream
<1>2. NumBlocks(len) \in Nat
  BY NumBlocksCoversKeystream, CtrTableAssumption DEF Ctr
<1>. QED
  BY <1>1, <1>2, CtrTableAssumption DEF Ctr

\* The state a loaded table is in: what the file has a row for it agrees on.
OnTop(t, f) == \A s \in DOMAIN f : t[s] = f[s]

\* ctr_state_load puts the table there.
LEMMA MergeOnTop ==
  ASSUME NEW t, NEW f \in FileType
  PROVE  OnTop(Merge(t, f), f)
BY FileTypeFacts DEF OnTop, Merge

\* Entry e is worth a row and at least as far as row f.
AtLeast(e, f) == IsRow(e) /\ (f.valid_out => e.valid_out /\ f.next_out <= e.next_out)

\* A table that has everything the file has, or is past it.
Covers(t, f) == \A s \in DOMAIN f : AtLeast(t[s], f[s])

\* A reservation only moves its slot forward.
LEMMA ReserveCovers ==
  ASSUME NEW t \in [Slot -> Entry], NEW s \in Slot, NEW seed \in Ctr, NEW len \in Nat,
         NextOut(t[s], seed, len) < CtrMod, NEW f \in FileType, Covers(t, f)
  PROVE  Covers(Reserve(t, s, seed, len), f)
<1>. DEFINE r == Reserve(t, s, seed, len)
<1>1. \A x \in Slot : x # s => r[x] = t[x]
  BY ReserveType
<1>2. r[s].valid_out /\ r[s].next_out = NextCtr(t[s], seed) + NumBlocks(len)
  BY Reserved
<1>. HIDE DEF r
<1>3. ASSUME s \in DOMAIN f
      PROVE  AtLeast(r[s], f[s])
  <2>1. f[s].valid_out => t[s].valid_out /\ f[s].next_out <= t[s].next_out
    BY <1>3 DEF Covers, AtLeast
  <2>2. f[s].next_out \in Nat /\ t[s].next_out \in Nat /\ NumBlocks(len) \in Nat
    BY <1>3, FileTypeFacts, NumBlocksCoversKeystream, CtrTableAssumption DEF Entry, Ctr
  <2>3. f[s].valid_out => f[s].next_out <= r[s].next_out
    BY <1>2, <2>1, <2>2 DEF NextCtr
  <2>. QED
    BY <1>2, <2>3 DEF AtLeast, IsRow
<1>4. \A x \in DOMAIN f : x \in Slot
  BY FileTypeFacts
<1>. QED
  BY <1>1, <1>3, <1>4 DEF Covers, r

-----------------------------------------------------------------------------
(* Types *)

\* keys.txt gives keys of its own slots only, the files hold rows, and a frame
\* no slave has verified is there.
KeysInv == \A p \in Proc, s \in Slot : keys[p][s] = "file" => s \in FileKeys
FilesTyped == files \in [Directory -> [Path -> FileType]]
UnreadInv == \A d \in unread : frame[d] # NoFrame
Typed == TypeOK /\ FilesTyped /\ KeysInv /\ UnreadInv

\* key_store_get_initial_ctr gives a counter.
LEMMA SeedType ==
  ASSUME SecureDemoAssumption, KeysInv, NEW p \in Proc, NEW s \in Slot
  PROVE  Seed(p, s) \in Ctr /\ (keys[p][s] = "file" => Seed(p, s) = FileCtr[s])
BY Constants, CtrTableAssumption DEF Seed, KeysInv, Ctr

\* main.c:286 loads a file into a table of entries.
LEMMA LoadedType ==
  ASSUME Typed, NEW p \in Proc
  PROVE  /\ ModePath(p) \in Path /\ cwd[p] \in Directory /\ table[p] \in [Slot -> Entry]
         /\ files[cwd[p]][ModePath(p)] \in FileType
         /\ Loaded(p) \in [Slot -> Entry]
         /\ OnTop(Loaded(p), files[cwd[p]][ModePath(p)])
<1>1. ModePath(p) \in Path /\ cwd[p] \in Directory /\ table[p] \in [Slot -> Entry]
  BY DEF Typed, TypeOK, ModePath, Path
<1>2. files[cwd[p]][ModePath(p)] \in FileType
  BY <1>1 DEF Typed, FilesTyped
<1>. QED
  BY <1>1, <1>2, MergeType, MergeOnTop DEF Loaded

\* A counter is reserved and the whole table written: what the table and the
\* files are afterwards (ctr_state.c:50-80).
LEMMA Persisted ==
  ASSUME SecureDemoAssumption, Typed, NEW p \in Proc, NEW t \in [Slot -> Entry],
         NEW s \in Slot, NEW len \in Nat, ReserveAndPersist(p, t, s, len)
  PROVE  LET e == table'[p][s]
             v == NextCtr(t[s], Seed(p, s))
         IN /\ table' \in [Proc -> [Slot -> Entry]]
            /\ \A q \in Proc : q # p => table'[q] = table[q]
            /\ \A x \in Slot : x # s => table'[p][x] = t[x]
            /\ e.valid_out /\ e.next_out = v + NumBlocks(len)
            /\ v \in Ctr /\ NumBlocks(len) \in Nat \ {0} /\ v + NumBlocks(len) < CtrMod
            /\ FilesTyped'
            /\ files'[cwd[p]][ModePath(p)] = Rows(table'[p])
            /\ \A d \in Directory, f \in Path :
                 <<d, f>> # <<cwd[p], ModePath(p)>> => files'[d][f] = files[d][f]
<1>. DEFINE r == Reserve(t, s, Seed(p, s), len)
<1>1. Seed(p, s) \in Ctr
  BY SeedType DEF Typed
<1>2. /\ NextOut(t[s], Seed(p, s), len) < CtrMod
      /\ table' = [table EXCEPT ![p] = r]
      /\ files' = [files EXCEPT ![cwd[p]][ModePath(p)] = Rows(table'[p])]
  BY DEF ReserveAndPersist
<1>3. /\ r \in [Slot -> Entry] /\ \A x \in Slot : x # s => r[x] = t[x]
      /\ NextCtr(t[s], Seed(p, s)) \in Ctr
  BY <1>1, ReserveType
<1>4. r[s].valid_out /\ r[s].next_out = NextCtr(t[s], Seed(p, s)) + NumBlocks(len)
  BY <1>1, <1>2, Reserved
<1>. HIDE DEF r
<1>5. table \in [Proc -> [Slot -> Entry]]
  BY DEF Typed, TypeOK
<1>6. /\ table' \in [Proc -> [Slot -> Entry]] /\ table'[p] = r
      /\ \A q \in Proc : q # p => table'[q] = table[q]
  BY <1>2, <1>3, <1>5
<1>7. Rows(table'[p]) \in FileType
  BY <1>3, <1>6, RowsType
<1>8. /\ FilesTyped'
      /\ files'[cwd[p]][ModePath(p)] = Rows(table'[p])
      /\ \A d \in Directory, f \in Path :
           <<d, f>> # <<cwd[p], ModePath(p)>> => files'[d][f] = files[d][f]
  <2>. DEFINE d == cwd[p]
              f == ModePath(p)
              F == Rows(table'[p])
  <2>1. d \in Directory /\ f \in Path /\ FilesTyped
    BY LoadedType DEF Typed
  <2>2. files' = [files EXCEPT ![d][f] = F] /\ F \in FileType
    BY <1>2, <1>7
  <2>. HIDE DEF d, f, F
  <2>3. /\ FilesTyped' /\ files'[d][f] = F
        /\ \A e \in Directory, g \in Path : <<e, g>> # <<d, f>> => files'[e][g] = files[e][g]
    BY <2>1, <2>2 DEF FilesTyped
  <2>. QED
    BY <2>3 DEF d, f, F
<1>9. NumBlocks(len) \in Nat \ {0}
  BY NumBlocksCoversKeystream, CtrTableAssumption DEF Ctr
<1>10. NextCtr(t[s], Seed(p, s)) + NumBlocks(len) < CtrMod
  BY <1>2 DEF NextOut
<1>. QED
  BY <1>3, <1>4, <1>6, <1>8, <1>9, <1>10

\* What an exchange may change of the program's own state keeps the types.
LEMMA TypedExchange ==
  ASSUME Typed, NEW p \in running, UNCHANGED <<menu, selfTest, habits>>,
         ranOnce' \in {ranOnce, ranOnce \cup {p}},
         path' \in {path, [path EXCEPT ![p] = ModePath(p)]},
         NEW g \in Stage, stage' \in {stage, [stage EXCEPT ![p] = g]},
         table' \in [Proc -> [Slot -> Entry]],
         \A q \in Proc : q # p => table'[q] = table[q],
         FilesTyped',
         frame' \in [Directory -> Frame \cup {NoFrame}], unread' \subseteq Directory,
         \A d \in unread' : frame'[d] # NoFrame,
         used' \in [Slot -> SUBSET Ctr], reused' \subseteq Slot,
         missed' \subseteq Addr, failed' \subseteq Addr
  PROVE  Typed'
<1>1. p \in Proc /\ ModePath(p) \in Path
  BY LoadedType DEF Typed, TypeOK
<1>2. KeysInv'
  BY DEF Typed, KeysInv, menu
<1>3. ranOnce' \subseteq running' /\ path' \in [Proc -> Path]
  BY ZenonT(30), <1>1 DEF Typed, TypeOK, menu
<1>4. stage' \in [Proc -> Stage] /\ \A q \in Proc \ running : stage'[q] = Menu
  <2>1. stage \in [Proc -> Stage] /\ \A q \in Proc \ running : stage[q] = Menu
    BY DEF Typed, TypeOK
  <2>. QED
    BY <1>1, <2>1
<1>5. \A q \in Proc \ running : table'[q] = Fresh /\ isMaster[q]
  BY DEF Typed, TypeOK
<1>6. \A d \in Directory, f \in Path :
        DOMAIN files'[d][f] \subseteq Slot /\ files'[d][f] \in [DOMAIN files'[d][f] -> Entry]
  <2>1. \A d \in Directory, f \in Path : files'[d][f] \in FileType
    BY DEF FilesTyped
  <2>2. \A F \in FileType : DOMAIN F \subseteq Slot /\ F \in [DOMAIN F -> Entry]
    BY FileTypeFacts
  <2>. QED
    BY <2>1, <2>2
<1>7. TypeOK'
  BY <1>3, <1>4, <1>5, <1>6 DEF Typed, TypeOK, menu
<1>8. UnreadInv'
  BY DEF UnreadInv
<1>. QED
  BY <1>2, <1>7, <1>8 DEF Typed

\* Encrypting spends blocks of the counter's width.
LEMMA EncryptsType ==
  ASSUME SecureDemoAssumption, Typed, NEW p \in Proc, NEW t \in [Slot -> Entry],
         NEW s \in Slot, NEW len \in Nat,
         ReserveAndPersist(p, t, s, len), Encrypts(p, t, s, len)
  PROVE  used' \in [Slot -> SUBSET Ctr] /\ reused' \subseteq Slot
<1>. DEFINE v == NextCtr(t[s], Seed(p, s))
            spent == Keystream(v, len)
<1>1. v \in Ctr /\ v + NumBlocks(len) < CtrMod
  BY Persisted
<1>2. spent \subseteq Ctr
  BY <1>1, SpentBelow
<1>3. \/ /\ used' = [used EXCEPT ![s] = @ \cup spent]
         /\ reused' = reused \/ reused' = reused \cup {s}
      \/ UNCHANGED <<used, reused>>
  BY DEF Encrypts
<1>. HIDE DEF spent
<1>4. used \in [Slot -> SUBSET Ctr] /\ reused \subseteq Slot
  BY DEF Typed, TypeOK
<1>5. used' \in [Slot -> SUBSET Ctr]
  <2>1. used[s] \cup spent \in SUBSET Ctr
    BY <1>2, <1>4
  <2>. QED
    BY <1>3, <1>4, <2>1
<1>6. reused' \subseteq Slot
  BY <1>3, <1>4
<1>. QED
  BY <1>5, <1>6

\* Only a running process is at its menu or waits.
LEMMA RunningFacts ==
  ASSUME Typed, NEW p \in Proc
  PROVE  /\ AtMenu(p) => p \in running
         /\ stage[p] # Menu => p \in running
BY DEF Typed, TypeOK, AtMenu

\* Starting and ending a program keeps the types.
LEMMA TypedStartEnd ==
  ASSUME SecureDemoAssumption, Typed, NEW p \in Proc, Launch(p) \/ Quit(p)
  PROVE  Typed'
<1>1. Fresh \in [Slot -> Entry] /\ [s \in Slot |-> "none"] \in [Slot -> {"none", "file", "test"}]
  BY EmptyEntryType DEF Fresh
<1>2. FilesTyped' /\ files' = files /\ UnreadInv'
  BY DEF Launch, Quit, Typed, FilesTyped, UnreadInv, history
<1>3. CASE Launch(p)
  <2>1. cwd' \in [Proc -> Directory]
    <3>1. PICK d \in Directory : cwd' = [cwd EXCEPT ![p] = d]
      BY <1>3 DEF Launch
    <3>2. cwd \in [Proc -> Directory]
      BY DEF Typed, TypeOK
    <3>. QED
      BY <3>1, <3>2
  <2>2. KeysInv'
    BY <1>3 DEF Launch, Typed, KeysInv
  <2>3. TypeOK'
    BY <1>3, <2>1 DEF Launch, Typed, TypeOK, history
  <2>. QED
    BY <1>2, <2>2, <2>3 DEF Typed
<1>4. CASE Quit(p)
  <2>1. KeysInv'
    BY <1>4 DEF Quit, Typed, TypeOK, KeysInv
  <2>2. /\ keys' \in [Proc -> [Slot -> {"none", "file", "test"}]]
        /\ table' \in [Proc -> [Slot -> Entry]]
        /\ path' \in [Proc -> Path] /\ stage' \in [Proc -> Stage]
    BY <1>1, <1>4 DEF Quit, Typed, TypeOK, Path, Stage
  <2>3. \A q \in Proc \ running' : stage'[q] = Menu /\ table'[q] = Fresh /\ isMaster'[q]
    BY <1>4 DEF Quit, Typed, TypeOK
  <2>4. TypeOK'
    BY <1>2, <1>4, <2>2, <2>3 DEF Quit, Typed, TypeOK, history
  <2>. QED
    BY <1>2, <2>1, <2>4 DEF Typed
<1>. QED
  BY <1>3, <1>4

\* So do the menu's options 1 to 3.
LEMMA TypedOptions ==
  ASSUME SecureDemoAssumption, Typed, NEW p \in Proc,
         SwitchMode(p) \/ KeyInit(p) \/ KeyInitFails(p) \/ SelfTest(p)
  PROVE  Typed'
<1>0. p \in running
  BY RunningFacts DEF SwitchMode, KeyInit, KeyInitFails, SelfTest
<1>1. CASE SwitchMode(p)
  BY <1>0, <1>1 DEF SwitchMode, Typed, TypeOK, FilesTyped, KeysInv, UnreadInv, history
<1>2. CASE KeyInit(p)
  <2>1. keys' \in [Proc -> [Slot -> {"none", "file", "test"}]] /\ KeysInv'
    BY <1>2 DEF KeyInit, Typed, TypeOK, KeysInv
  <2>2. FilesTyped' /\ UnreadInv' /\ TypeOK'
    BY <1>0, <1>2, <2>1 DEF KeyInit, Typed, TypeOK, FilesTyped, UnreadInv, history
  <2>. QED
    BY <2>1, <2>2 DEF Typed
<1>3. CASE KeyInitFails(p)
  BY <1>0, <1>3 DEF KeyInitFails, Typed, TypeOK, FilesTyped, KeysInv, UnreadInv, history
<1>4. CASE SelfTest(p)
  <2>. DEFINE out == <<TestAddr, M2S>>
              in  == <<TestAddr, S2M>>
              t1  == Cleared(table[p], out)
              t2  == Reserve(t1, out, 0, TestLen)
              t3  == Cleared(t2, in)
              t4  == Reserve(t3, in, 0, TestLen)
  <2>1. out \in Slot /\ in \in Slot
    BY <1>4, Constants DEF SelfTest
  <2>2. \A t \in [Slot -> Entry], s \in Slot : Cleared(t, s) \in [Slot -> Entry]
    BY DEF Cleared, Entry
  <2>3. \A t \in [Slot -> Entry], s \in Slot : Reserve(t, s, 0, TestLen) \in [Slot -> Entry]
    <3>1. 0 \in Ctr /\ TestLen \in Nat
      BY CtrTableAssumption DEF Ctr, TestLen
    <3>. QED
      BY <3>1, ReserveType
  <2>4. table[p] \in [Slot -> Entry]
    BY DEF Typed, TypeOK
  <2>. HIDE DEF out, in
  <2>5. t4 \in [Slot -> Entry]
    BY <2>1, <2>2, <2>3, <2>4
  <2>6. /\ keys' = [keys EXCEPT ![p] = Provisioned(Provisioned(@, out), in)]
        /\ table' = [table EXCEPT ![p] = t4]
        /\ files' = [files EXCEPT ![cwd[p]][path[p]] = Rows(t4)]
        /\ selfTest' \in {selfTest, "FAIL"} /\ habits' = habits \cup {"selftest"}
        /\ UNCHANGED <<running, cwd, isMaster, keysLoaded, ranOnce, path, stage, frame, unread,
                       used, reused, missed, failed>>
    BY <1>4 DEF SelfTest, out, in
  <2>. HIDE DEF t4
  <2>7. keys' \in [Proc -> [Slot -> {"none", "file", "test"}]] /\ KeysInv'
    BY <2>1, <2>6 DEF Provisioned, Typed, TypeOK, KeysInv
  <2>8. cwd[p] \in Directory /\ path[p] \in Path /\ Rows(t4) \in FileType
    BY <2>5, RowsType DEF Typed, TypeOK
  <2>9. FilesTyped'
    BY <2>6, <2>8 DEF Typed, FilesTyped
  <2>10. \A d \in Directory, f \in Path :
          DOMAIN files'[d][f] \subseteq Slot /\ files'[d][f] \in [DOMAIN files'[d][f] -> Entry]
    <3>1. \A d \in Directory, f \in Path : files'[d][f] \in FileType
      BY <2>9 DEF FilesTyped
    <3>2. \A F \in FileType : DOMAIN F \subseteq Slot /\ F \in [DOMAIN F -> Entry]
      BY FileTypeFacts
    <3>. QED
      BY <3>1, <3>2
  <2>11. table' \in [Proc -> [Slot -> Entry]] /\ \A q \in Proc \ running : table'[q] = Fresh
    BY <1>0, <2>5, <2>6 DEF Typed, TypeOK
  <2>12. TypeOK'
    BY <2>6, <2>7, <2>10, <2>11 DEF Typed, TypeOK
  <2>13. UnreadInv'
    BY <2>6 DEF Typed, UnreadInv
  <2>. QED
    BY <2>7, <2>9, <2>12, <2>13 DEF Typed
<1>. QED
  BY <1>1, <1>2, <1>3, <1>4

\* Option 5 begins with one path and one load.
LEMMA StartFacts ==
  ASSUME Typed, NEW p \in Proc, StartExchange(p)
  PROVE  /\ p \in running /\ UNCHANGED <<menu, selfTest, habits>>
         /\ ranOnce' = ranOnce \cup {p}
         /\ path' = [path EXCEPT ![p] = ModePath(p)]
BY RunningFacts DEF StartExchange

\* An exchange ends at the menu.
LEMMA EndFacts ==
  ASSUME Typed, NEW p \in Proc, stage[p] # Menu, BackToMenu(p)
  PROVE  /\ p \in running /\ UNCHANGED <<menu, selfTest, habits>>
         /\ Menu \in Stage /\ stage' = [stage EXCEPT ![p] = Menu]
         /\ UNCHANGED <<ranOnce, path, frame, unread, failed>>
BY RunningFacts DEF BackToMenu, Stage

\* The types of what no step of an exchange but a few touches.
LEMMA HistoryType ==
  ASSUME Typed
  PROVE  /\ frame \in [Directory -> Frame \cup {NoFrame}] /\ unread \subseteq Directory
         /\ \A d \in unread : frame[d] # NoFrame
         /\ used \in [Slot -> SUBSET Ctr] /\ reused \subseteq Slot
         /\ missed \subseteq Addr /\ failed \subseteq Addr
         /\ FilesTyped /\ table \in [Proc -> [Slot -> Entry]]
BY DEF Typed, TypeOK, UnreadInv

\* An exchange that only loads its file keeps the types.
LEMMA TypedOnlyLoaded ==
  ASSUME SecureDemoAssumption, Typed, NEW p \in Proc, NEW a \in Addr,
         MasterWithoutKey(p, a) \/ SlaveRejects(p, a) \/ SlaveListens(p, a)
  PROVE  Typed'
<1>1. StartExchange(p) /\ OnlyLoaded(p)
  BY DEF MasterWithoutKey, SlaveRejects, SlaveListens
<1>2. /\ table' \in [Proc -> [Slot -> Entry]]
      /\ \A q \in Proc : q # p => table'[q] = table[q]
  BY <1>1, LoadedType, HistoryType DEF OnlyLoaded
<1>3. /\ UNCHANGED <<files, frame, unread, used, reused, missed, failed>>
      /\ FilesTyped'
  BY <1>1, HistoryType DEF OnlyLoaded, FilesTyped
<1>4. stage' \in {stage, [stage EXCEPT ![p] = <<"request", a>>]} /\ <<"request", a>> \in Stage
  BY DEF MasterWithoutKey, SlaveRejects, SlaveListens, Stage
<1>. QED
  BY <1>1, <1>2, <1>3, <1>4, StartFacts, HistoryType, TypedExchange

\* A master that encrypts a request keeps the types.
LEMMA TypedMaster ==
  ASSUME SecureDemoAssumption, Typed, NEW p \in Proc, NEW a \in Addr, NEW len \in FrameLen,
         RunMaster(p, a, len) \/ MasterSends(p, a, len)
  PROVE  Typed'
<1>. DEFINE s == <<a, M2S>>
            t == Loaded(p)
            d == cwd[p]
<1>1. BuildRequest(p, a, len)
  BY DEF RunMaster, MasterSends
<1>2. /\ StartExchange(p) /\ failed' = failed /\ keys[p][s] # "none"
      /\ ReserveAndPersist(p, t, s, len) /\ Encrypts(p, t, s, len)
  BY <1>1 DEF BuildRequest
<1>3. s \in Slot /\ len \in Nat /\ t \in [Slot -> Entry] /\ d \in Directory
  BY Constants, LoadedType
<1>4. keys[p][s] \in {"file", "test"}
  BY <1>2, <1>3 DEF Typed, TypeOK
<1>. HIDE DEF s, t, d
<1>5. /\ used' \in [Slot -> SUBSET Ctr] /\ reused' \subseteq Slot
  BY <1>2, <1>3, EncryptsType
<1>6. /\ table' \in [Proc -> [Slot -> Entry]] /\ FilesTyped'
      /\ \A q \in Proc : q # p => table'[q] = table[q]
      /\ NextCtr(t[s], Seed(p, s)) \in Ctr
  BY <1>2, <1>3, Persisted
<1>7. /\ <<"reply", a>> \in Stage
      /\ stage' \in {stage, [stage EXCEPT ![p] = <<"reply", a>>]}
  BY DEF RunMaster, MasterSends, Stage
<1>8. [addr |-> a, key |-> keys[p][s], pos |-> NextCtr(t[s], Seed(p, s)), len |-> len] \in Frame
  BY <1>4, <1>6 DEF Frame
<1>9. /\ frame' \in [Directory -> Frame \cup {NoFrame}] /\ unread' \subseteq Directory
      /\ \A e \in unread' : frame'[e] # NoFrame
  <2>1. \/ UNCHANGED <<frame, unread>>
        \/ /\ frame' = [frame EXCEPT ![d] =
                [addr |-> a, key |-> keys[p][s], pos |-> NextCtr(t[s], Seed(p, s)), len |-> len]]
           /\ unread' = unread \cup {d}
    BY DEF RunMaster, MasterSends, s, t, d
  <2>2. \A f \in Frame : f # NoFrame
    BY Constants DEF Frame, NoFrame
  <2>. QED
    BY <1>3, <1>8, <2>1, <2>2, HistoryType
<1>10. missed' \subseteq Addr
  <2>1. d \in unread => frame[d] \in Frame
    BY <1>3, HistoryType
  <2>2. missed' \in {missed, missed \cup {a}}
         \/ (d \in unread /\ missed' = missed \cup {frame[d].addr})
    BY DEF RunMaster, MasterSends, s, t, d
  <2>3. d \in unread => frame[d].addr \in Addr
    BY <2>1 DEF Frame
  <2>. QED
    BY <2>2, <2>3, HistoryType
<1>. QED
  BY <1>2, <1>5, <1>6, <1>7, <1>9, <1>10, StartFacts, HistoryType, TypedExchange

\* A slave that verifies a frame of sent_frame.bin keeps the types.
LEMMA TypedSlave ==
  ASSUME SecureDemoAssumption, Typed, NEW p \in Proc, NEW a \in Addr, RunSlave(p, a)
  PROVE  Typed'
<1>. DEFINE s == <<a, M2S>>
            t == Loaded(p)
            f == frame[cwd[p]]
<1>1. /\ StartExchange(p)
      /\ f # NoFrame
      /\ ReserveAndPersist(p, t, s, f.len)
      /\ failed' \in {failed, failed \cup {a}} /\ missed' \in {missed, missed \cup {a}}
      /\ unread' \subseteq unread
      /\ UNCHANGED <<stage, frame, used, reused>>
  BY DEF RunSlave, Admits
<1>2. s \in Slot /\ t \in [Slot -> Entry] /\ f \in Frame
  BY <1>1, Constants, LoadedType, HistoryType
<1>3. f.len \in Nat
  BY <1>2, Constants DEF Frame
<1>. HIDE DEF s, t, f
<1>4. /\ table' \in [Proc -> [Slot -> Entry]] /\ FilesTyped'
      /\ \A q \in Proc : q # p => table'[q] = table[q]
  BY <1>1, <1>2, <1>3, Persisted
<1>5. /\ failed' \subseteq Addr /\ missed' \subseteq Addr /\ unread' \subseteq Directory
      /\ \A d \in unread' : frame'[d] # NoFrame
      /\ frame' \in [Directory -> Frame \cup {NoFrame}]
      /\ used' \in [Slot -> SUBSET Ctr] /\ reused' \subseteq Slot
  BY <1>1, HistoryType
<1>6. Menu \in Stage /\ stage' \in {stage, [stage EXCEPT ![p] = Menu]}
  BY <1>1 DEF Stage
<1>. QED
  BY <1>1, <1>4, <1>5, <1>6, StartFacts, TypedExchange

\* The end of a wait keeps the types, with a frame or without one.
LEMMA TypedEnd ==
  ASSUME SecureDemoAssumption, Typed, NEW p \in Proc,
         \/ StopWaiting(p)
         \/ \E a \in Addr, len \in FrameLen : TakeReply(p, a, len) \/ TakeRequest(p, a, len)
  PROVE  Typed'
<1>1. stage[p] # Menu /\ BackToMenu(p)
  <2>1. \A a : <<"reply", a>> # Menu /\ <<"request", a>> # Menu
    BY DEF Menu
  <2>2. CASE StopWaiting(p)
    BY <2>2 DEF StopWaiting
  <2>3. ASSUME NEW a \in Addr, NEW len \in FrameLen, TakeReply(p, a, len)
        PROVE  <1>1
    BY <2>1, <2>3 DEF TakeReply
  <2>4. ASSUME NEW a \in Addr, NEW len \in FrameLen, TakeRequest(p, a, len)
        PROVE  <1>1
    BY <2>1, <2>4 DEF TakeRequest
  <2>. QED
    BY <2>2, <2>3, <2>4
<1>2. /\ table' \in [Proc -> [Slot -> Entry]] /\ FilesTyped'
      /\ \A q \in Proc : q # p => table'[q] = table[q]
      /\ UNCHANGED <<used, reused>> /\ missed' \subseteq Addr
  <2>1. CASE StopWaiting(p)
    BY <2>1, HistoryType DEF StopWaiting, FilesTyped
  <2>2. ASSUME NEW a \in Addr, NEW len \in FrameLen,
               TakeReply(p, a, len) \/ TakeRequest(p, a, len)
        PROVE  <1>2
    <3>1. PICK s \in Slot : ReserveAndPersist(p, table[p], s, len)
      BY <2>2, Constants DEF TakeReply, TakeRequest
    <3>2. len \in Nat /\ table[p] \in [Slot -> Entry]
      BY Constants, HistoryType
    <3>3. UNCHANGED <<used, reused>> /\ missed' \in {missed, missed \cup {a}}
      BY <2>2 DEF TakeReply, TakeRequest
    <3>. QED
      BY <3>1, <3>2, <3>3, Persisted, HistoryType
  <2>. QED
    BY <2>1, <2>2
<1>. QED
  BY <1>1, <1>2, EndFacts, HistoryType, TypedExchange

\* What an answered request reserves: first the request, then the reply, and
\* neither slot is the other's (main.c:65-121).
LEMMA AnswerFacts ==
  ASSUME SecureDemoAssumption, Typed, NEW p \in Proc, NEW a \in Addr,
         NEW len \in FrameLen, NEW replyLen \in FrameLen, AnswerRequest(p, a, len, replyLen)
  PROVE  LET in  == <<a, M2S>>
             out == <<a, S2M>>
             t   == Reserve(table[p], in, Seed(p, in), len)
         IN /\ in \in Slot /\ out \in Slot /\ in # out
            /\ len \in Nat /\ replyLen \in Nat
            /\ Seed(p, in) \in Ctr /\ table[p] \in [Slot -> Entry]
            /\ NextOut(table[p][in], Seed(p, in), len) < CtrMod
            /\ t \in [Slot -> Entry]
            /\ \A x \in Slot : x # in => t[x] = table[p][x]
            /\ ReserveAndPersist(p, t, out, replyLen)
            /\ Encrypts(p, t, out, replyLen)
            /\ stage[p] = <<"request", a>> /\ stage[p] # Menu
            /\ BackToMenu(p) /\ missed' = missed \cup {a}
<1>. DEFINE in == <<a, M2S>>
            out == <<a, S2M>>
<1>1. in \in Slot /\ out \in Slot /\ in # out /\ len \in Nat /\ replyLen \in Nat
  BY Constants
<1>2. Seed(p, in) \in Ctr /\ table[p] \in [Slot -> Entry]
  BY <1>1, SeedType, HistoryType DEF Typed
<1>3. /\ Reserve(table[p], in, Seed(p, in), len) \in [Slot -> Entry]
      /\ \A x \in Slot : x # in => Reserve(table[p], in, Seed(p, in), len)[x] = table[p][x]
  BY ZenonT(30), <1>1, <1>2, ReserveType
<1>4. stage[p] = <<"request", a>> /\ stage[p] # Menu
  BY DEF AnswerRequest, Menu
<1>. QED
  BY <1>1, <1>2, <1>3, <1>4 DEF AnswerRequest

\* An answered request keeps the types.
LEMMA TypedAnswer ==
  ASSUME SecureDemoAssumption, Typed, NEW p \in Proc, NEW a \in Addr,
         NEW len \in FrameLen, NEW replyLen \in FrameLen, AnswerRequest(p, a, len, replyLen)
  PROVE  Typed'
<1>. DEFINE in  == <<a, M2S>>
            out == <<a, S2M>>
            t   == Reserve(table[p], in, Seed(p, in), len)
<1>1. /\ out \in Slot /\ replyLen \in Nat /\ t \in [Slot -> Entry]
      /\ ReserveAndPersist(p, t, out, replyLen) /\ Encrypts(p, t, out, replyLen)
      /\ stage[p] # Menu /\ BackToMenu(p) /\ missed' = missed \cup {a}
  BY AnswerFacts
<1>. HIDE DEF out, t
<1>2. /\ table' \in [Proc -> [Slot -> Entry]] /\ FilesTyped'
      /\ \A q \in Proc : q # p => table'[q] = table[q]
  BY <1>1, Persisted
<1>3. used' \in [Slot -> SUBSET Ctr] /\ reused' \subseteq Slot
  BY <1>1, EncryptsType
<1>4. /\ p \in running /\ UNCHANGED <<menu, selfTest, habits>>
      /\ Menu \in Stage /\ stage' = [stage EXCEPT ![p] = Menu]
      /\ UNCHANGED <<ranOnce, path, frame, unread, failed>>
  BY <1>1, EndFacts
<1>5. /\ frame' \in [Directory -> Frame \cup {NoFrame}] /\ unread' \subseteq Directory
      /\ \A d \in unread' : frame'[d] # NoFrame
      /\ missed' \subseteq Addr /\ failed' \subseteq Addr
  BY <1>1, <1>4, HistoryType
<1>. QED
  BY <1>2, <1>3, <1>4, <1>5, TypedExchange

\* Every step keeps the types.
LEMMA TypedStep ==
  ASSUME SecureDemoAssumption
  PROVE  Typed /\ [Next]_vars => Typed'
<1>. SUFFICES ASSUME Typed, [Next]_vars
              PROVE  Typed'
  OBVIOUS
<1>1. CASE UNCHANGED vars
  BY <1>1 DEF Typed, TypeOK, FilesTyped, KeysInv, UnreadInv, vars, procs, menu, history
<1>. QED
  BY <1>1, TypedStartEnd, TypedOptions, TypedOnlyLoaded, TypedMaster, TypedSlave, TypedEnd,
     TypedAnswer DEF Next

\* No program has been started: nothing is loaded and no file exists.
LEMMA TypedInit ==
  ASSUME SecureDemoAssumption
  PROVE  Init => Typed
<1>. SUFFICES ASSUME Init
              PROVE  Typed
  OBVIOUS
<1>1. Fresh \in [Slot -> Entry]
  BY EmptyEntryType DEF Fresh
<1>2. NoRows \in FileType /\ DOMAIN NoRows = {} /\ NoRows \in [{} -> Entry]
  BY FileTypeFacts DEF NoRows
<1>3. FilesTyped
  BY <1>2 DEF Init, FilesTyped
<1>4. KeysInv /\ UnreadInv
  BY DEF Init, KeysInv, UnreadInv
<1>5. \A d \in Directory, f \in Path : files[d][f] = NoRows
  BY DEF Init
<1>6. TypeOK
  BY <1>1, <1>2, <1>5 DEF Init, TypeOK, Path, Stage
<1>. QED
  BY <1>3, <1>4, <1>6 DEF Typed

\* Tables, files, frames and histories keep their types, and a process that is
\* not running has nothing (all of main.c's options, over any port).
THEOREM TypeCorrect ==
  ASSUME SecureDemoAssumption
  PROVE  Spec => []TypeOK
<1>1. Typed => TypeOK
  BY DEF Typed
<1>. QED
  BY <1>1, TypedInit, TypedStep, PTL DEF Spec

-----------------------------------------------------------------------------
(* Who waits, and on which file *)

\* Process p has its file to itself.
FileMine(p) ==
  \A q \in Proc \ {p} : stage[q] = Menu \/ path[q] # ModePath(p) \/ cwd[q] # cwd[p]

\* A process that waits for a frame has the table of its mode's file, which
\* nobody else waits on.
WaitInv ==
  \A p \in Proc : stage[p] # Menu =>
    /\ path[p] = ModePath(p)
    /\ isMaster[p] <=> stage[p][1] = "reply"
    /\ OnTop(table[p], files[cwd[p]][path[p]])
    /\ FileMine(p)

\* A step of an exchange of p that leaves others and their files alone, and in
\* which p does not wait on anything but the file it has just read or written.
LEMMA WaitStep ==
  ASSUME Typed, WaitInv, NEW p \in Proc, FileMine(p), UNCHANGED menu,
         \A q \in Proc : q # p =>
           stage'[q] = stage[q] /\ path'[q] = path[q] /\ table'[q] = table[q],
         \A d \in Directory, f \in Path :
           <<d, f>> # <<cwd[p], ModePath(p)>> => files'[d][f] = files[d][f],
         \/ stage'[p] = Menu
         \/ /\ path'[p] = ModePath(p)
            /\ isMaster[p] <=> stage'[p][1] = "reply"
            /\ OnTop(table'[p], files'[cwd[p]][ModePath(p)])
  PROVE  WaitInv'
<1>1. cwd' = cwd /\ \A q \in Proc : ModePath(q)' = ModePath(q)
  BY DEF menu, ModePath
<1>2. \A q \in Proc : cwd[q] \in Directory /\ path[q] \in Path
  BY DEF Typed, TypeOK
<1>3. ASSUME NEW q \in Proc, q # p, stage'[q] # Menu
      PROVE  /\ path'[q] = ModePath(q)
             /\ isMaster'[q] <=> stage'[q][1] = "reply"
             /\ OnTop(table'[q], files'[cwd[q]][path'[q]])
  <2>1. stage[q] # Menu /\ path'[q] = path[q] /\ table'[q] = table[q] /\ stage'[q] = stage[q]
    BY <1>3
  <2>2. <<cwd[q], path[q]>> # <<cwd[p], ModePath(p)>>
    BY <1>3, <2>1 DEF FileMine
  <2>3. files'[cwd[q]][path[q]] = files[cwd[q]][path[q]]
    BY <1>2, <2>2
  <2>. QED
    BY <2>1, <2>3 DEF WaitInv, menu
<1>4. ASSUME NEW q \in Proc, stage'[q] # Menu, NEW o \in Proc \ {q}
      PROVE  stage'[o] = Menu \/ path'[o] # ModePath(q) \/ cwd[o] # cwd[q]
  <2>1. CASE q = p
    BY <2>1 DEF FileMine
  <2>2. CASE q # p /\ o # p
    BY <1>4, <2>2 DEF WaitInv, FileMine
  <2>3. CASE q # p /\ o = p
    <3>1. stage[q] # Menu /\ path[q] = ModePath(q)
      BY <1>4, <2>3 DEF WaitInv
    <3>2. path[q] # ModePath(p) \/ cwd[q] # cwd[p]
      BY <2>3, <3>1 DEF FileMine
    <3>. QED
      BY <2>3, <3>1, <3>2
  <2>. QED
    BY <2>1, <2>2, <2>3
<1>5. \A q \in Proc : stage'[q] # Menu => FileMine(q)'
  BY <1>1, <1>4 DEF FileMine
<1>. QED
  BY <1>1, <1>3, <1>5 DEF WaitInv, menu

\* Unless exchanges overlap, one starts only on a free file; and who waits has
\* the file to himself.
LEMMA MineFacts ==
  ASSUME Typed, WaitInv, "overlap" \notin Options, NEW p \in Proc,
         StartExchange(p) \/ stage[p] # Menu
  PROVE  FileMine(p)
BY DEF StartExchange, FileIsFree, FileMine, WaitInv

\* Every row of a file is of a slot in use.
RowInv == \A d \in Directory, f \in Path : \A s \in DOMAIN files[d][f] : IsRow(files[d][f][s])

\* A persisted table agrees with its file.
LEMMA RowsOnTop ==
  ASSUME NEW t
  PROVE  /\ OnTop(t, Rows(t))
         /\ \A s \in DOMAIN Rows(t) : IsRow(Rows(t)[s])
         /\ \A s \in Slot : IsRow(t[s]) => s \in DOMAIN Rows(t) /\ Rows(t)[s] = t[s]
BY DEF OnTop, Rows

\* A table read from such a file covers it.
LEMMA OnTopCovers ==
  ASSUME Typed, RowInv, NEW d \in Directory, NEW f \in Path, NEW t, OnTop(t, files[d][f])
  PROVE  Covers(t, files[d][f])
<1>1. files[d][f] \in FileType
  BY DEF Typed, FilesTyped
<1>2. \A s \in DOMAIN files[d][f] : files[d][f][s].next_out \in Nat /\ t[s] = files[d][f][s]
  BY <1>1, FileTypeFacts, CtrTableAssumption DEF OnTop, Entry, Ctr
<1>. QED
  BY <1>2 DEF RowInv, Covers, AtLeast

\* The file a write leaves has the rows of the table, each worth its place.
LEMMA PersistedRows ==
  ASSUME SecureDemoAssumption, Typed, RowInv, NEW p \in Proc, NEW t \in [Slot -> Entry],
         NEW s \in Slot, NEW len \in Nat, ReserveAndPersist(p, t, s, len)
  PROVE  RowInv' /\ OnTop(table'[p], files'[cwd[p]][ModePath(p)])
<1>1. /\ files'[cwd[p]][ModePath(p)] = Rows(table'[p])
      /\ \A d \in Directory, f \in Path :
           <<d, f>> # <<cwd[p], ModePath(p)>> => files'[d][f] = files[d][f]
  BY Persisted
<1>. QED
  BY <1>1, RowsOnTop DEF RowInv

\* A counter of p's file is reserved, from the table p waited with or has just
\* loaded, and p does not wait on another file.
LEMMA WaitWrite ==
  ASSUME SecureDemoAssumption, Typed, WaitInv, RowInv, NEW p \in Proc,
         NEW t \in [Slot -> Entry], NEW s \in Slot, NEW len \in Nat,
         FileMine(p), ReserveAndPersist(p, t, s, len), UNCHANGED menu,
         path' \in {path, [path EXCEPT ![p] = ModePath(p)]},
         \/ stage' \in {stage, [stage EXCEPT ![p] = Menu]} /\ stage'[p] = Menu
         \/ /\ path' = [path EXCEPT ![p] = ModePath(p)] /\ isMaster[p]
            /\ \E a \in Addr : stage' = [stage EXCEPT ![p] = <<"reply", a>>]
  PROVE  WaitInv'
<1>1. stage \in [Proc -> Stage] /\ path \in [Proc -> Path]
  BY DEF Typed, TypeOK
<1>2. /\ \A q \in Proc : q # p => table'[q] = table[q]
      /\ \A d \in Directory, f \in Path :
           <<d, f>> # <<cwd[p], ModePath(p)>> => files'[d][f] = files[d][f]
  BY Persisted
<1>3. OnTop(table'[p], files'[cwd[p]][ModePath(p)])
  BY PersistedRows
<1>4. \A q \in Proc : q # p => stage'[q] = stage[q] /\ path'[q] = path[q]
  BY <1>1
<1>5. \/ stage'[p] = Menu
      \/ path'[p] = ModePath(p) /\ (isMaster[p] <=> stage'[p][1] = "reply")
  BY <1>1
<1>. QED
  BY <1>2, <1>3, <1>4, <1>5, WaitStep

\* The menu's other options and the end of a wait change no file.
LEMMA WaitMenu ==
  ASSUME Typed, WaitInv, NEW p \in Proc,
         \/ Launch(p) \/ Quit(p) \/ SwitchMode(p) \/ KeyInit(p) \/ KeyInitFails(p)
         \/ StopWaiting(p)
  PROVE  WaitInv' /\ UNCHANGED <<files, used, reused>>
<1>1. UNCHANGED <<files, used, reused>>
  BY DEF Launch, Quit, SwitchMode, KeyInit, KeyInitFails, StopWaiting, history
<1>2. \A q \in Proc : q # p =>
        /\ stage'[q] = stage[q] /\ path'[q] = path[q] /\ table'[q] = table[q]
        /\ cwd'[q] = cwd[q] /\ isMaster'[q] = isMaster[q]
  BY DEF Launch, Quit, SwitchMode, KeyInit, KeyInitFails, StopWaiting, BackToMenu, menu,
         Typed, TypeOK
<1>3. stage'[p] = Menu
  BY DEF Launch, Quit, SwitchMode, KeyInit, KeyInitFails, StopWaiting, BackToMenu, AtMenu,
         Typed, TypeOK
<1>4. \A q \in Proc : q # p => ModePath(q)' = ModePath(q)
  BY <1>2 DEF ModePath
<1>5. \A q \in Proc : stage'[q] # Menu => FileMine(q)'
  BY <1>2, <1>3, <1>4 DEF WaitInv, FileMine
<1>. QED
  BY <1>1, <1>2, <1>3, <1>4, <1>5 DEF WaitInv

\* An exchange that only loads leaves the files alone, and a slave that then
\* waits has loaded what is in its file.
LEMMA WaitOnlyLoaded ==
  ASSUME Typed, WaitInv, "overlap" \notin Options, NEW p \in Proc, NEW a \in Addr,
         MasterWithoutKey(p, a) \/ SlaveRejects(p, a) \/ SlaveListens(p, a)
  PROVE  WaitInv' /\ UNCHANGED <<files, used, reused>>
<1>1. StartExchange(p) /\ OnlyLoaded(p)
  BY DEF MasterWithoutKey, SlaveRejects, SlaveListens
<1>2. FileMine(p)
  BY <1>1, MineFacts
<1>3. /\ UNCHANGED menu /\ path' = [path EXCEPT ![p] = ModePath(p)]
      /\ stage[p] = Menu
  BY <1>1, StartFacts DEF StartExchange, AtMenu
<1>4. table' = [table EXCEPT ![p] = Loaded(p)] /\ UNCHANGED <<files, used, reused>>
  BY <1>1 DEF OnlyLoaded
<1>5. \/ stage' = stage
      \/ ~isMaster[p] /\ stage' = [stage EXCEPT ![p] = <<"request", a>>]
  BY DEF MasterWithoutKey, SlaveRejects, SlaveListens
<1>6. stage \in [Proc -> Stage] /\ path \in [Proc -> Path] /\ table \in [Proc -> [Slot -> Entry]]
  BY DEF Typed, TypeOK
<1>7. OnTop(table'[p], files'[cwd[p]][ModePath(p)])
  BY <1>4, <1>6, LoadedType
<1>8. \A q \in Proc : q # p => stage'[q] = stage[q] /\ path'[q] = path[q] /\ table'[q] = table[q]
  BY <1>3, <1>4, <1>5, <1>6
<1>9. \/ stage'[p] = Menu
      \/ path'[p] = ModePath(p) /\ (isMaster[p] <=> stage'[p][1] = "reply")
  BY <1>3, <1>5, <1>6
<1>. QED
  BY <1>2, <1>3, <1>4, <1>7, <1>8, <1>9, WaitStep

\* What holds whenever no exchange overlaps another and no self-test is run.
Orderly == Typed /\ WaitInv /\ RowInv

\* A table that an exchange may go on from: as far as its file.
LEMMA Current ==
  ASSUME Orderly, NEW p \in Proc
  PROVE  /\ Covers(Loaded(p), files[cwd[p]][ModePath(p)])
         /\ stage[p] # Menu => /\ OnTop(table[p], files[cwd[p]][ModePath(p)])
                               /\ Covers(table[p], files[cwd[p]][ModePath(p)])
<1>1. Covers(Loaded(p), files[cwd[p]][ModePath(p)])
  BY LoadedType, OnTopCovers DEF Orderly
<1>2. stage[p] # Menu => OnTop(table[p], files[cwd[p]][ModePath(p)])
  BY DEF Orderly, WaitInv
<1>. QED
  BY <1>1, <1>2, LoadedType, OnTopCovers DEF Orderly

\* A master's request (main.c:285-286, 141-146): loaded, reserved, persisted, encrypted.
LEMMA MasterFacts ==
  ASSUME SecureDemoAssumption, Orderly, "overlap" \notin Options, NEW p \in Proc,
         NEW a \in Addr, NEW len \in FrameLen, RunMaster(p, a, len) \/ MasterSends(p, a, len)
  PROVE  LET s == <<a, M2S>>
             t == Loaded(p)
         IN /\ s \in Slot /\ len \in Nat /\ t \in [Slot -> Entry]
            /\ FileMine(p) /\ isMaster[p] /\ keys[p][s] # "none"
            /\ ReserveAndPersist(p, t, s, len) /\ Encrypts(p, t, s, len)
            /\ UNCHANGED menu /\ failed' = failed /\ ranOnce' = ranOnce \cup {p}
            /\ path' = [path EXCEPT ![p] = ModePath(p)] /\ stage[p] = Menu
            /\ stage' \in {stage, [stage EXCEPT ![p] = <<"reply", a>>]}
<1>. DEFINE s == <<a, M2S>>
            t == Loaded(p)
<1>1. /\ StartExchange(p) /\ isMaster[p] /\ keys[p][s] # "none" /\ failed' = failed
      /\ ReserveAndPersist(p, t, s, len) /\ Encrypts(p, t, s, len)
  BY DEF RunMaster, MasterSends, BuildRequest
<1>2. s \in Slot /\ len \in Nat /\ t \in [Slot -> Entry]
  BY Constants, LoadedType DEF Orderly
<1>3. /\ UNCHANGED menu /\ ranOnce' = ranOnce \cup {p}
      /\ path' = [path EXCEPT ![p] = ModePath(p)] /\ stage[p] = Menu
  BY <1>1, StartFacts DEF StartExchange, AtMenu, Orderly
<1>4. stage' \in {stage, [stage EXCEPT ![p] = <<"reply", a>>]}
  BY DEF RunMaster, MasterSends
<1>5. FileMine(p)
  BY <1>1, MineFacts DEF Orderly
<1>. QED
  BY <1>1, <1>2, <1>3, <1>4, <1>5

\* A slave that reads sent_frame.bin (main.c:285-286, 65-84): loaded, reserved,
\* persisted, decrypted.
LEMMA SlaveFacts ==
  ASSUME SecureDemoAssumption, Orderly, "overlap" \notin Options, NEW p \in Proc,
         NEW a \in Addr, RunSlave(p, a)
  PROVE  LET s == <<a, M2S>>
             t == Loaded(p)
             f == frame[cwd[p]]
         IN /\ s \in Slot /\ f \in Frame /\ f.len \in Nat /\ t \in [Slot -> Entry]
            /\ FileMine(p) /\ ~isMaster[p] /\ f # NoFrame /\ f.addr = a /\ keys[p][s] = f.key
            /\ ReserveAndPersist(p, t, s, f.len) /\ UNCHANGED <<used, reused>>
            /\ UNCHANGED menu /\ ranOnce' = ranOnce \cup {p}
            /\ path' = [path EXCEPT ![p] = ModePath(p)] /\ stage[p] = Menu
            /\ stage' = stage
<1>. DEFINE s == <<a, M2S>>
            t == Loaded(p)
            f == frame[cwd[p]]
<1>1. /\ StartExchange(p) /\ ~isMaster[p] /\ f # NoFrame /\ f.addr = a /\ keys[p][s] = f.key
      /\ ReserveAndPersist(p, t, s, f.len) /\ UNCHANGED <<stage, used, reused>>
  BY DEF RunSlave, Admits
<1>2. s \in Slot /\ t \in [Slot -> Entry]
  BY Constants, LoadedType DEF Orderly
<1>3. f \in Frame /\ f.len \in Nat
  BY <1>1, Constants, LoadedType, HistoryType DEF Orderly, Frame
<1>4. /\ UNCHANGED menu /\ ranOnce' = ranOnce \cup {p}
      /\ path' = [path EXCEPT ![p] = ModePath(p)] /\ stage[p] = Menu
  BY <1>1, StartFacts DEF StartExchange, AtMenu, Orderly
<1>5. FileMine(p)
  BY <1>1, MineFacts DEF Orderly
<1>. QED
  BY <1>1, <1>2, <1>3, <1>4, <1>5

\* A reply, or a request that is not answered: reserved and persisted on the
\* table the process waited with.
LEMMA TakeFacts ==
  ASSUME SecureDemoAssumption, Orderly, "overlap" \notin Options, NEW p \in Proc,
         NEW a \in Addr, NEW len \in FrameLen, TakeReply(p, a, len) \/ TakeRequest(p, a, len)
  PROVE  /\ \E s \in Slot : /\ ReserveAndPersist(p, table[p], s, len)
                            /\ \/ s = <<a, S2M>> /\ missed' = missed
                               \/ s = <<a, M2S>> /\ missed' = missed \cup {a}
         /\ len \in Nat /\ table[p] \in [Slot -> Entry] /\ FileMine(p)
         /\ stage[p] # Menu /\ stage' = [stage EXCEPT ![p] = Menu] /\ stage'[p] = Menu
         /\ UNCHANGED <<menu, path, ranOnce, frame, unread, failed, used, reused>>
<1>1. stage[p] # Menu /\ BackToMenu(p) /\ UNCHANGED <<used, reused>>
  BY DEF TakeReply, TakeRequest, Menu
<1>2. \E s \in Slot : /\ ReserveAndPersist(p, table[p], s, len)
                      /\ \/ s = <<a, S2M>> /\ missed' = missed
                         \/ s = <<a, M2S>> /\ missed' = missed \cup {a}
  BY Constants DEF TakeReply, TakeRequest
<1>3. len \in Nat /\ table[p] \in [Slot -> Entry]
  BY Constants, HistoryType DEF Orderly
<1>4. FileMine(p)
  BY <1>1, MineFacts DEF Orderly
<1>5. stage' = [stage EXCEPT ![p] = Menu] /\ stage'[p] = Menu
  BY <1>1 DEF BackToMenu, Orderly, Typed, TypeOK
<1>. QED
  BY <1>1, <1>2, <1>3, <1>4, <1>5 DEF BackToMenu

\* An answered request moves two slots of the table the slave waited with
\* (main.c:65-121).
LEMMA AnswerCovers ==
  ASSUME SecureDemoAssumption, Orderly, "overlap" \notin Options, NEW p \in Proc,
         NEW a \in Addr, NEW len \in FrameLen, NEW replyLen \in FrameLen,
         AnswerRequest(p, a, len, replyLen)
  PROVE  LET in == <<a, M2S>>
             t  == Reserve(table[p], in, Seed(p, in), len)
         IN /\ Covers(t, files[cwd[p]][ModePath(p)]) /\ FileMine(p) /\ ~isMaster[p]
            /\ stage' = [stage EXCEPT ![p] = Menu] /\ stage'[p] = Menu
            /\ UNCHANGED <<menu, path, ranOnce, frame, unread, failed>>
<1>. DEFINE in == <<a, M2S>>
            F  == files[cwd[p]][ModePath(p)]
<1>1. /\ in \in Slot /\ len \in Nat /\ Seed(p, in) \in Ctr /\ table[p] \in [Slot -> Entry]
      /\ NextOut(table[p][in], Seed(p, in), len) < CtrMod
      /\ stage[p] = <<"request", a>> /\ stage[p] # Menu /\ BackToMenu(p)
  BY AnswerFacts DEF Orderly
<1>2. F \in FileType /\ Covers(table[p], F)
  BY <1>1, LoadedType, Current DEF Orderly
<1>3. FileMine(p)
  BY <1>1, MineFacts DEF Orderly
<1>4. stage' = [stage EXCEPT ![p] = Menu] /\ stage'[p] = Menu
  BY <1>1 DEF BackToMenu, Orderly, Typed, TypeOK
<1>5. ~isMaster[p]
  <2>1. isMaster[p] <=> stage[p][1] = "reply"
    BY <1>1 DEF Orderly, WaitInv
  <2>. QED
    BY <1>1, <2>1
<1>. HIDE DEF in, F
<1>6. Covers(Reserve(table[p], in, Seed(p, in), len), F)
  BY <1>1, <1>2, ReserveCovers
<1>. QED
  BY <1>1, <1>3, <1>4, <1>5, <1>6 DEF in, F, BackToMenu

\* No habit is forgotten; the self-test, and a change of the mode of an exchange,
\* leave theirs.
LEMMA HabitFacts ==
  /\ [Next]_vars => habits \subseteq habits'
  /\ \A p \in Proc : SelfTest(p) => "selftest" \in habits'
  /\ \A p \in Proc : SwitchMode(p) /\ p \in ranOnce => "reswitch" \in habits'
<1>1. \A p \in Proc : StartExchange(p) \/ BackToMenu(p) => habits' = habits
  BY DEF StartExchange, BackToMenu
<1>2. ASSUME NEW p \in Proc,
             \/ Launch(p) \/ Quit(p) \/ SwitchMode(p) \/ KeyInit(p) \/ KeyInitFails(p)
             \/ SelfTest(p)
      PROVE  habits \subseteq habits'
  BY <1>2 DEF Launch, Quit, SwitchMode, KeyInit, KeyInitFails, SelfTest, history
<1>3. ASSUME NEW p \in Proc, NEW a \in Addr,
             MasterWithoutKey(p, a) \/ SlaveRejects(p, a) \/ RunSlave(p, a) \/ SlaveListens(p, a)
      PROVE  habits' = habits
  BY <1>1, <1>3 DEF MasterWithoutKey, SlaveRejects, RunSlave, SlaveListens
<1>4. ASSUME NEW p \in Proc, NEW a \in Addr, NEW len \in FrameLen,
             RunMaster(p, a, len) \/ MasterSends(p, a, len)
      PROVE  habits' = habits
  BY <1>1, <1>4 DEF RunMaster, MasterSends, BuildRequest
<1>5. ASSUME NEW p \in Proc,
             \/ StopWaiting(p)
             \/ \E a \in Addr, len \in FrameLen :
                  \/ TakeReply(p, a, len) \/ TakeRequest(p, a, len)
                  \/ \E replyLen \in FrameLen : AnswerRequest(p, a, len, replyLen)
      PROVE  habits' = habits
  BY <1>1, <1>5 DEF StopWaiting, TakeReply, TakeRequest, AnswerRequest
<1>6. UNCHANGED vars => habits' = habits
  BY DEF vars, history
<1>7. [Next]_vars => habits \subseteq habits'
  BY <1>2, <1>3, <1>4, <1>5, <1>6 DEF Next
<1>8. \A p \in Proc : SelfTest(p) => "selftest" \in habits'
  BY DEF SelfTest
<1>9. \A p \in Proc : SwitchMode(p) /\ p \in ranOnce => "reswitch" \in habits'
  BY DEF SwitchMode
<1>. QED
  BY <1>7, <1>8, <1>9

\* Every step but a self-test keeps the order on the files.
LEMMA OrderlyStep ==
  ASSUME SecureDemoAssumption, "overlap" \notin Options, Orderly,
         "selftest" \notin habits', [Next]_vars
  PROVE  Orderly'
<1>1. Typed'
  BY TypedStep DEF Orderly
<1>2. ASSUME WaitInv', UNCHANGED files
      PROVE  Orderly'
  BY <1>1, <1>2 DEF Orderly, RowInv
<1>3. CASE UNCHANGED vars
  <2>1. WaitInv'
    BY <1>3 DEF Orderly, WaitInv, FileMine, OnTop, ModePath, vars, procs, menu
  <2>. QED
    BY <1>2, <1>3, <2>1 DEF vars
<1>4. ASSUME NEW p \in Proc,
             \/ Launch(p) \/ Quit(p) \/ SwitchMode(p) \/ KeyInit(p) \/ KeyInitFails(p)
             \/ StopWaiting(p)
      PROVE  Orderly'
  BY <1>2, <1>4, WaitMenu DEF Orderly
<1>5. ASSUME NEW p \in Proc, NEW a \in Addr,
             MasterWithoutKey(p, a) \/ SlaveRejects(p, a) \/ SlaveListens(p, a)
      PROVE  Orderly'
  BY <1>2, <1>5, WaitOnlyLoaded DEF Orderly
<1>. DEFINE Written(p, t, s, len) ==
       /\ p \in Proc /\ t \in [Slot -> Entry] /\ s \in Slot /\ len \in Nat
       /\ FileMine(p) /\ ReserveAndPersist(p, t, s, len) /\ UNCHANGED menu
       /\ path' \in {path, [path EXCEPT ![p] = ModePath(p)]}
       /\ \/ stage' \in {stage, [stage EXCEPT ![p] = Menu]} /\ stage'[p] = Menu
          \/ /\ path' = [path EXCEPT ![p] = ModePath(p)] /\ isMaster[p]
             /\ \E a \in Addr : stage' = [stage EXCEPT ![p] = <<"reply", a>>]
<1>6. ASSUME NEW p, NEW t, NEW s, NEW len, Written(p, t, s, len)
      PROVE  Orderly'
  <2>1. WaitInv'
    BY <1>6, WaitWrite DEF Orderly
  <2>2. RowInv'
    BY <1>6, PersistedRows DEF Orderly
  <2>. QED
    BY <1>1, <2>1, <2>2 DEF Orderly
<1>7. ASSUME NEW p \in Proc, NEW a \in Addr, NEW len \in FrameLen,
             RunMaster(p, a, len) \/ MasterSends(p, a, len)
      PROVE  Orderly'
  <2>1. Written(p, Loaded(p), <<a, M2S>>, len)
    BY <1>7, MasterFacts
  <2>. QED
    BY <1>6, <2>1
<1>8. ASSUME NEW p \in Proc, NEW a \in Addr, RunSlave(p, a)
      PROVE  Orderly'
  <2>1. Written(p, Loaded(p), <<a, M2S>>, frame[cwd[p]].len)
    BY <1>8, SlaveFacts
  <2>. QED
    BY <1>6, <2>1
<1>9. ASSUME NEW p \in Proc, NEW a \in Addr, NEW len \in FrameLen,
             TakeReply(p, a, len) \/ TakeRequest(p, a, len)
      PROVE  Orderly'
  <2>1. \E s \in Slot : Written(p, table[p], s, len)
    BY <1>9, TakeFacts
  <2>. QED
    BY <1>6, <2>1
<1>10. ASSUME NEW p \in Proc, NEW a \in Addr, NEW len \in FrameLen, NEW replyLen \in FrameLen,
              AnswerRequest(p, a, len, replyLen)
       PROVE  Orderly'
  <2>. DEFINE t == Reserve(table[p], <<a, M2S>>, Seed(p, <<a, M2S>>), len)
  <2>1. Written(p, t, <<a, S2M>>, replyLen)
    BY <1>10, AnswerFacts, AnswerCovers DEF Orderly
  <2>. QED
    BY <1>6, <2>1
<1>11. \A p \in Proc : ~SelfTest(p)
  BY HabitFacts
<1>. QED
  BY <1>3, <1>4, <1>5, <1>7, <1>8, <1>9, <1>10, <1>11 DEF Next

\* No program has been started.
LEMMA OrderlyInit ==
  ASSUME SecureDemoAssumption
  PROVE  Init => Orderly
<1>. SUFFICES ASSUME Init
              PROVE  Orderly
  OBVIOUS
<1>1. Typed
  BY TypedInit
<1>2. WaitInv
  BY DEF Init, WaitInv, Menu
<1>3. RowInv
  BY DEF Init, RowInv, NoRows
<1>. QED
  BY <1>1, <1>2, <1>3 DEF Orderly

-----------------------------------------------------------------------------
(* No block of keystream is consumed twice *)

\* One directory, as in an installation: all processes share its two files.
OneDirectory == \A d, e \in Directory : d = e

\* The file a slot's messages are encrypted on: masters encrypt requests, slaves
\* replies (main.c:285).
OwnPath(s) == IF s[2] = M2S THEN "ctr_state.dat" ELSE "ctr_state_recv.dat"

\* What was consumed of a slot lies below the counter its file has.
UsedInv ==
  \A d \in Directory, s \in Slot : \A c \in used[s] :
    LET F == files[d][OwnPath(s)]
    IN s \in DOMAIN F /\ F[s].valid_out /\ c < F[s].next_out

\* One written exchange consumes only what lies above the file, and what it
\* writes is above that.
LEMMA ReuseStep ==
  ASSUME SecureDemoAssumption, OneDirectory, Typed, RowInv, UsedInv, NoKeystreamReuse,
         NEW p \in Proc, NEW t \in [Slot -> Entry], NEW s \in Slot, NEW len \in Nat,
         Covers(t, files[cwd[p]][ModePath(p)]), ReserveAndPersist(p, t, s, len),
         \/ UNCHANGED <<used, reused>>
         \/ Encrypts(p, t, s, len) /\ OwnPath(s) = ModePath(p)
  PROVE  UsedInv' /\ NoKeystreamReuse'
<1>. DEFINE F == files[cwd[p]][ModePath(p)]
            G == files'[cwd[p]][ModePath(p)]
            T == table'[p]
            v == NextCtr(t[s], Seed(p, s))
            spent == Keystream(v, len)
<1>1. /\ \A x \in Slot : x # s => T[x] = t[x]
      /\ T[s].valid_out /\ T[s].next_out = v + NumBlocks(len)
      /\ v \in Ctr /\ NumBlocks(len) \in Nat \ {0} /\ v + NumBlocks(len) < CtrMod
      /\ G = Rows(T)
      /\ \A d \in Directory, f \in Path :
           <<d, f>> # <<cwd[p], ModePath(p)>> => files'[d][f] = files[d][f]
  BY Persisted
<1>2. /\ cwd[p] \in Directory /\ ModePath(p) \in Path /\ F \in FileType
      /\ \A x \in Slot : OwnPath(x) \in Path
  BY LoadedType DEF OwnPath, Path
<1>3. Seed(p, s) \in Ctr /\ NextOut(t[s], Seed(p, s), len) < CtrMod
  BY SeedType DEF Typed, ReserveAndPersist
<1>4. table'[p] = Reserve(t, s, Seed(p, s), len)
  BY DEF ReserveAndPersist, Typed, TypeOK
<1>5. Covers(T, F)
  BY <1>2, <1>3, <1>4, ReserveCovers
<1>6. \A c \in spent : c \in Ctr /\ v <= c /\ c < v + NumBlocks(len)
  BY <1>1, SpentBelow
<1>7. used \in [Slot -> SUBSET Ctr]
  BY DEF Typed, TypeOK
<1>8. T \in [Slot -> Entry]
  BY Persisted
<1>9. \A x \in Slot : IsRow(T[x]) => x \in DOMAIN G /\ G[x] = T[x]
  BY <1>1, RowsOnTop
<1>10. \A d \in Directory : d = cwd[p]
  BY <1>2 DEF OneDirectory
<1>11. \/ UNCHANGED <<used, reused>>
       \/ /\ OwnPath(s) = ModePath(p) /\ used' = [used EXCEPT ![s] = @ \cup spent]
          /\ reused' = IF used[s] \cap spent = {} THEN reused ELSE reused \cup {s}
  BY DEF Encrypts
<1>. HIDE DEF G, T, v, spent
<1>12. ASSUME NEW x \in Slot, OwnPath(x) = ModePath(p), NEW c \in used[x]
       PROVE  /\ x \in DOMAIN G /\ G[x].valid_out /\ c < G[x].next_out
              /\ t[x].valid_out /\ c < t[x].next_out
  <2>1. x \in DOMAIN F /\ F[x].valid_out /\ c < F[x].next_out
    BY <1>2, <1>12 DEF UsedInv
  <2>2. IsRow(T[x]) /\ T[x].valid_out /\ F[x].next_out <= T[x].next_out
    BY <1>5, <2>1 DEF Covers, AtLeast
  <2>3. t[x].valid_out /\ F[x].next_out <= t[x].next_out
    BY <2>1 DEF Covers, AtLeast
  <2>4. /\ c \in Int /\ F[x].next_out \in Int
        /\ T[x].next_out \in Int /\ t[x].next_out \in Int
    BY <1>2, <1>7, <1>8, <2>1, FileTypeFacts, CtrTableAssumption DEF Entry, Ctr
  <2>5. G[x] = T[x] /\ x \in DOMAIN G
    BY <1>9, <2>2
  <2>6. c < T[x].next_out /\ c < t[x].next_out
    BY <2>1, <2>2, <2>3, <2>4
  <2>. QED
    BY <2>2, <2>3, <2>5, <2>6
<1>13. ASSUME NEW c \in spent
       PROVE  s \in DOMAIN G /\ G[s].valid_out /\ c < G[s].next_out
  <2>1. IsRow(T[s])
    BY <1>1 DEF IsRow
  <2>. QED
    BY <1>1, <1>6, <1>9, <1>13, <2>1
<1>14. ASSUME OwnPath(s) = ModePath(p)
       PROVE  used[s] \cap spent = {}
  <2>1. SUFFICES ASSUME NEW c \in used[s], c \in spent
                 PROVE  FALSE
    OBVIOUS
  <2>2. t[s].valid_out /\ c < t[s].next_out
    BY <1>12, <1>14, <2>1
  <2>3. v = t[s].next_out
    BY <2>2 DEF NextCtr, v
  <2>4. c \in Int /\ v \in Int /\ v <= c
    BY <1>1, <1>6, <2>1, CtrTableAssumption DEF Ctr
  <2>. QED
    BY <2>2, <2>3, <2>4
<1>15. NoKeystreamReuse'
  BY <1>11, <1>14 DEF NoKeystreamReuse
<1>16. ASSUME NEW d \in Directory, NEW x \in Slot, NEW c \in used'[x]
       PROVE  LET H == files'[d][OwnPath(x)]
              IN x \in DOMAIN H /\ H[x].valid_out /\ c < H[x].next_out
  <2>1. d = cwd[p] /\ OwnPath(x) \in Path
    BY <1>2, <1>10
  <2>2. CASE OwnPath(x) = ModePath(p) /\ c \in used[x]
    BY <1>12, <2>1, <2>2 DEF G
  <2>3. CASE OwnPath(x) = ModePath(p) /\ c \notin used[x]
    <3>1. x = s /\ c \in spent
      BY <1>7, <1>11, <1>16, <2>3
    <3>. QED
      BY <1>13, <2>1, <2>3, <3>1 DEF G
  <2>4. CASE OwnPath(x) # ModePath(p)
    <3>1. c \in used[x]
      BY <1>7, <1>11, <1>16, <2>4
    <3>2. files'[d][OwnPath(x)] = files[d][OwnPath(x)]
      BY <1>1, <2>1, <2>4
    <3>. QED
      BY <3>1, <3>2 DEF UsedInv
  <2>. QED
    BY <2>2, <2>3, <2>4
<1>17. UsedInv'
  BY <1>16 DEF UsedInv
<1>. QED
  BY <1>15, <1>17

\* A master encrypts requests on ctr_state.dat, a slave replies on
\* ctr_state_recv.dat; and who only decrypts consumes nothing that the sender
\* has not consumed already.
LEMMA ReuseNext ==
  ASSUME SecureDemoAssumption, OneDirectory, "overlap" \notin Options,
         "selftest" \notin habits', Orderly, UsedInv, NoKeystreamReuse, [Next]_vars
  PROVE  UsedInv' /\ NoKeystreamReuse'
<1>1. ASSUME UNCHANGED <<files, used, reused>>
      PROVE  UsedInv' /\ NoKeystreamReuse'
  BY <1>1 DEF UsedInv, NoKeystreamReuse
<1>2. CASE UNCHANGED vars
  BY <1>1, <1>2 DEF vars, history
<1>3. ASSUME NEW p \in Proc,
             \/ Launch(p) \/ Quit(p) \/ SwitchMode(p) \/ KeyInit(p) \/ KeyInitFails(p)
             \/ StopWaiting(p)
      PROVE  UsedInv' /\ NoKeystreamReuse'
  BY <1>1, <1>3, WaitMenu DEF Orderly
<1>4. ASSUME NEW p \in Proc, NEW a \in Addr,
             MasterWithoutKey(p, a) \/ SlaveRejects(p, a) \/ SlaveListens(p, a)
      PROVE  UsedInv' /\ NoKeystreamReuse'
  BY <1>1, <1>4, WaitOnlyLoaded DEF Orderly
<1>. DEFINE Spends(p, t, s, len) ==
       /\ p \in Proc /\ t \in [Slot -> Entry] /\ s \in Slot /\ len \in Nat
       /\ Covers(t, files[cwd[p]][ModePath(p)]) /\ ReserveAndPersist(p, t, s, len)
       /\ \/ UNCHANGED <<used, reused>>
          \/ Encrypts(p, t, s, len) /\ OwnPath(s) = ModePath(p)
<1>5. ASSUME NEW p, NEW t, NEW s, NEW len, Spends(p, t, s, len)
      PROVE  UsedInv' /\ NoKeystreamReuse'
  BY <1>5, ReuseStep DEF Orderly
<1>6. ASSUME NEW p \in Proc, NEW a \in Addr, NEW len \in FrameLen,
             RunMaster(p, a, len) \/ MasterSends(p, a, len)
      PROVE  UsedInv' /\ NoKeystreamReuse'
  <2>1. isMaster[p]
    BY <1>6, MasterFacts
  <2>2. OwnPath(<<a, M2S>>) = ModePath(p)
    BY <2>1 DEF OwnPath, ModePath
  <2>3. Spends(p, Loaded(p), <<a, M2S>>, len)
    BY <1>6, <2>2, MasterFacts, Current
  <2>. QED
    BY <1>5, <2>3
<1>7. ASSUME NEW p \in Proc, NEW a \in Addr, RunSlave(p, a)
      PROVE  UsedInv' /\ NoKeystreamReuse'
  <2>1. Spends(p, Loaded(p), <<a, M2S>>, frame[cwd[p]].len)
    BY <1>7, SlaveFacts, Current
  <2>. QED
    BY <1>5, <2>1
<1>8. ASSUME NEW p \in Proc, NEW a \in Addr, NEW len \in FrameLen,
             TakeReply(p, a, len) \/ TakeRequest(p, a, len)
      PROVE  UsedInv' /\ NoKeystreamReuse'
  <2>1. \E s \in Slot : Spends(p, table[p], s, len)
    BY <1>8, TakeFacts, Current
  <2>. QED
    BY <1>5, <2>1
<1>9. ASSUME NEW p \in Proc, NEW a \in Addr, NEW len \in FrameLen, NEW replyLen \in FrameLen,
             AnswerRequest(p, a, len, replyLen)
      PROVE  UsedInv' /\ NoKeystreamReuse'
  <2>1. ~isMaster[p]
    BY <1>9, AnswerCovers
  <2>2. OwnPath(<<a, S2M>>) = ModePath(p)
    BY <2>1 DEF OwnPath, ModePath, M2S, S2M
  <2>. DEFINE t == Reserve(table[p], <<a, M2S>>, Seed(p, <<a, M2S>>), len)
  <2>3. Spends(p, t, <<a, S2M>>, replyLen)
    BY <1>9, <2>2, AnswerFacts, AnswerCovers DEF Orderly
  <2>. QED
    BY <1>5, <2>3
<1>10. \A p \in Proc : ~SelfTest(p)
  BY HabitFacts
<1>. QED
  BY <1>2, <1>3, <1>4, <1>6, <1>7, <1>8, <1>9, <1>10 DEF Next

\* In one directory, and without exchanges that overlap on a file, no master and
\* no slave consumes a block of keystream twice before somebody runs the
\* self-test: for every number of processes, over a port or not, however often
\* they are restarted or change their mode (ctr_state.h:1-2; main.c:285-286).
THEOREM KeystreamNeverReused ==
  ASSUME SecureDemoAssumption, OneDirectory, "overlap" \notin Options
  PROVE  Spec => []NoReuseBeforeSelfTest
<1>. DEFINE Inv == "selftest" \notin habits => Orderly /\ UsedInv /\ NoKeystreamReuse
<1>1. Init => Inv
  BY OrderlyInit DEF Init, UsedInv, NoKeystreamReuse
<1>2. Inv /\ [Next]_vars => Inv'
  <2>. SUFFICES ASSUME Inv, [Next]_vars, "selftest" \notin habits'
                PROVE  Orderly' /\ UsedInv' /\ NoKeystreamReuse'
    OBVIOUS
  <2>1. Orderly /\ UsedInv /\ NoKeystreamReuse
    BY HabitFacts
  <2>. QED
    BY <2>1, OrderlyStep, ReuseNext
<1>3. Inv => NoReuseBeforeSelfTest
  BY DEF NoReuseBeforeSelfTest
<1>. QED
  BY <1>1, <1>2, <1>3, PTL DEF Spec

-----------------------------------------------------------------------------
(* A frame the slave reads once verifies *)

\* No test key is installed, and no frame is encrypted under one.
FileKeysOnly ==
  /\ \A p \in Proc, s \in Slot : keys[p][s] # "test"
  /\ \A d \in Directory : frame[d] # NoFrame => frame[d].key = "file"

\* A process has counters only once it has run an exchange, and then they are
\* in its mode's file as well. Who waits has run one.
RanInv ==
  /\ \A p \in Proc : stage[p] # Menu => p \in ranOnce
  /\ \A p \in Proc, s \in Slot : table[p][s].valid_out =>
       p \in ranOnce /\ s \in DOMAIN files[cwd[p]][ModePath(p)]

\* Table t has no counter for slot s but the one of file f.
Exact(t, f, s) == IF s \in DOMAIN f THEN t[s] = f[s] ELSE ~t[s].valid_out

\* So have a table that was just loaded and one its process waits with.
LEMMA ExactFacts ==
  ASSUME Orderly, RanInv, NEW p \in Proc, NEW s \in Slot
  PROVE  LET F == files[cwd[p]][ModePath(p)]
         IN Exact(Loaded(p), F, s) /\ (stage[p] # Menu => Exact(table[p], F, s))
<1>1. OnTop(Loaded(p), files[cwd[p]][ModePath(p)])
  BY LoadedType DEF Orderly
<1>2. stage[p] # Menu => OnTop(table[p], files[cwd[p]][ModePath(p)])
  BY Current
<1>3. table[p][s].valid_out => s \in DOMAIN files[cwd[p]][ModePath(p)]
  BY DEF RanInv
<1>4. s \notin DOMAIN files[cwd[p]][ModePath(p)] => Loaded(p)[s] = table[p][s]
  BY DEF Loaded, Merge
<1>. QED
  BY <1>1, <1>2, <1>3, <1>4 DEF Exact, OnTop

\* The counter the next message of slot s starts at, for who loads file f.
Known(f, s) == IF s \in DOMAIN f THEN NextCtr(f[s], FileCtr[s]) ELSE FileCtr[s]

\* A write moves the counter of the slot it reserves, and no other the table
\* has from the file.
LEMMA KnownStep ==
  ASSUME SecureDemoAssumption, Typed, RowInv, NEW p \in Proc, NEW t \in [Slot -> Entry],
         NEW s \in Slot, NEW len \in Nat, ReserveAndPersist(p, t, s, len)
  PROVE  LET F == files[cwd[p]][ModePath(p)]
             G == files'[cwd[p]][ModePath(p)]
         IN /\ \A x \in Slot : x # s /\ Exact(t, F, x) => Known(G, x) = Known(F, x)
            /\ Known(G, s) = NextCtr(t[s], Seed(p, s)) + NumBlocks(len)
            /\ keys[p][s] = "file" /\ Exact(t, F, s) =>
                 NextCtr(t[s], Seed(p, s)) = Known(F, s)
<1>. DEFINE F == files[cwd[p]][ModePath(p)]
            G == files'[cwd[p]][ModePath(p)]
            T == table'[p]
<1>1. /\ \A x \in Slot : x # s => T[x] = t[x]
      /\ T[s].valid_out /\ T[s].next_out = NextCtr(t[s], Seed(p, s)) + NumBlocks(len)
      /\ G = Rows(T)
  BY Persisted
<1>2. F \in FileType /\ cwd[p] \in Directory /\ ModePath(p) \in Path
  BY LoadedType
<1>3. \A x \in DOMAIN F : IsRow(F[x])
  BY <1>2 DEF RowInv
<1>4. /\ \A x \in Slot : IsRow(T[x]) => x \in DOMAIN G /\ G[x] = T[x]
      /\ \A x \in DOMAIN G : G[x] = T[x]
  BY <1>1, RowsOnTop DEF OnTop
<1>5. keys[p][s] = "file" => Seed(p, s) = FileCtr[s]
  BY SeedType DEF Typed
<1>. HIDE DEF F, G, T
<1>6. ASSUME NEW x \in Slot, x # s, Exact(t, F, x)
      PROVE  Known(G, x) = Known(F, x)
  <2>1. T[x] = t[x]
    BY <1>1, <1>6
  <2>2. CASE x \in DOMAIN F
    BY <1>3, <1>4, <1>6, <2>1, <2>2 DEF Exact, Known
  <2>3. CASE x \notin DOMAIN F
    BY <1>4, <1>6, <2>1, <2>3 DEF Exact, Known, NextCtr
  <2>. QED
    BY <2>2, <2>3
<1>7. Known(G, s) = NextCtr(t[s], Seed(p, s)) + NumBlocks(len)
  BY <1>1, <1>4 DEF Known, NextCtr, IsRow
<1>8. keys[p][s] = "file" /\ Exact(t, F, s) => NextCtr(t[s], Seed(p, s)) = Known(F, s)
  BY <1>5 DEF Exact, Known, NextCtr
<1>. QED
  BY <1>6, <1>7, <1>8 DEF F, G

\* A write of p leaves every process with the rows it had.
LEMMA RanWrite ==
  ASSUME SecureDemoAssumption, Typed, RanInv, NEW p \in Proc, NEW t \in [Slot -> Entry],
         NEW s \in Slot, NEW len \in Nat, ReserveAndPersist(p, t, s, len),
         Covers(t, files[cwd[p]][ModePath(p)]), UNCHANGED menu,
         ranOnce' \in {ranOnce, ranOnce \cup {p}}, p \in ranOnce',
         \A q \in Proc : q # p => stage'[q] = stage[q]
  PROVE  RanInv'
<1>. DEFINE F == files[cwd[p]][ModePath(p)]
            G == files'[cwd[p]][ModePath(p)]
            T == table'[p]
<1>1. /\ \A q \in Proc : q # p => table'[q] = table[q]
      /\ G = Rows(T) /\ T \in [Slot -> Entry]
      /\ \A d \in Directory, f \in Path :
           <<d, f>> # <<cwd[p], ModePath(p)>> => files'[d][f] = files[d][f]
  BY Persisted
<1>2. F \in FileType /\ \A q \in Proc : cwd[q] \in Directory /\ ModePath(q) \in Path
  BY LoadedType
<1>3. cwd' = cwd /\ \A q \in Proc : ModePath(q)' = ModePath(q)
  BY DEF menu, ModePath
<1>4. Seed(p, s) \in Ctr /\ NextOut(t[s], Seed(p, s), len) < CtrMod
  BY SeedType DEF Typed, ReserveAndPersist
<1>5. T = Reserve(t, s, Seed(p, s), len)
  BY DEF ReserveAndPersist, Typed, TypeOK
<1>6. Covers(T, F)
  BY <1>2, <1>4, <1>5, ReserveCovers
<1>7. \A x \in Slot : IsRow(T[x]) => x \in DOMAIN G
  BY <1>1, RowsOnTop
<1>. HIDE DEF G, T
<1>8. \A x \in Slot : x \in DOMAIN F => x \in DOMAIN G
  BY <1>6, <1>7 DEF Covers, AtLeast
<1>. HIDE DEF F
<1>9. ASSUME NEW q \in Proc, NEW x \in Slot, table'[q][x].valid_out
      PROVE  q \in ranOnce' /\ x \in DOMAIN files'[cwd[q]][ModePath(q)]
  <2>1. CASE q = p
    BY <1>7, <1>9, <2>1 DEF G, T, IsRow
  <2>2. CASE q # p
    <3>1. q \in ranOnce /\ x \in DOMAIN files[cwd[q]][ModePath(q)]
      BY <1>1, <1>9, <2>2 DEF RanInv
    <3>2. CASE <<cwd[q], ModePath(q)>> = <<cwd[p], ModePath(p)>>
      BY <1>8, <3>1, <3>2 DEF F, G
    <3>3. CASE <<cwd[q], ModePath(q)>> # <<cwd[p], ModePath(p)>>
      BY <1>1, <1>2, <3>1, <3>3
    <3>. QED
      BY <3>1, <3>2, <3>3
  <2>. QED
    BY <2>1, <2>2
<1>10. \A q \in Proc : stage'[q] # Menu => q \in ranOnce'
  BY DEF RanInv
<1>. QED
  BY <1>3, <1>9, <1>10 DEF RanInv

\* Of an address no frame of which was missed, the master's file is as far as
\* the slave's, or ahead by the one frame that waits in the directory.
InStep(d, a) ==
  LET s  == <<a, M2S>>
      mc == Known(files[d]["ctr_state.dat"], s)
      rc == Known(files[d]["ctr_state_recv.dat"], s)
  IN IF d \in unread /\ frame[d].addr = a
     THEN frame[d].pos = rc /\ mc = rc + NumBlocks(frame[d].len)
     ELSE mc = rc

SyncInv ==
  \A d \in Directory : \A a \in Addr \ missed : <<a, M2S>> \in FileKeys => InStep(d, a)

\* The menu and the exchanges that only load leave the files, the frames and
\* what became of them alone.
LEMMA QuietSteps ==
  ASSUME SecureDemoAssumption, Orderly, FileKeysOnly, RanInv, SyncInv, RoundTripVerifies,
         "overlap" \notin Options, "reswitch" \notin habits', NEW p \in Proc,
         \/ Launch(p) \/ Quit(p) \/ SwitchMode(p) \/ KeyInit(p) \/ KeyInitFails(p)
         \/ StopWaiting(p)
         \/ \E a \in Addr : MasterWithoutKey(p, a) \/ SlaveRejects(p, a) \/ SlaveListens(p, a)
  PROVE  FileKeysOnly' /\ RanInv' /\ SyncInv' /\ RoundTripVerifies'
<1>. DEFINE Options123 == \/ Launch(p) \/ Quit(p) \/ SwitchMode(p) \/ KeyInit(p)
                          \/ KeyInitFails(p) \/ StopWaiting(p)
            Loads == \E a \in Addr :
                       MasterWithoutKey(p, a) \/ SlaveRejects(p, a) \/ SlaveListens(p, a)
<1>1. UNCHANGED <<files, frame, unread, missed, failed>>
  BY DEF Launch, Quit, SwitchMode, KeyInit, KeyInitFails, StopWaiting, BackToMenu, history,
         MasterWithoutKey, SlaveRejects, SlaveListens, OnlyLoaded
<1>2. SyncInv' /\ RoundTripVerifies'
  BY <1>1 DEF SyncInv, InStep, RoundTripVerifies
<1>3. FileKeysOnly'
  <2>1. \A q \in Proc, s \in Slot : keys'[q][s] \in {keys[q][s], "none", "file"}
    <3>1. keys \in [Proc -> [Slot -> {"none", "file", "test"}]]
      BY DEF Orderly, Typed, TypeOK
    <3>2. CASE Quit(p)
      BY <3>1, <3>2 DEF Quit
    <3>3. CASE KeyInit(p)
      BY <3>1, <3>3 DEF KeyInit
    <3>4. CASE Launch(p) \/ SwitchMode(p) \/ KeyInitFails(p) \/ StopWaiting(p) \/ Loads
      <4>1. keys' = keys
        BY <3>4 DEF Launch, SwitchMode, KeyInitFails, StopWaiting, BackToMenu, menu,
                    MasterWithoutKey, SlaveRejects, SlaveListens, StartExchange
      <4>. QED
        BY <4>1
    <3>. QED
      BY <3>2, <3>3, <3>4
  <2>. QED
    BY <1>1, <2>1 DEF FileKeysOnly
<1>4. ASSUME Options123
      PROVE  RanInv'
  <2>1. \A q \in Proc : q # p =>
          /\ stage'[q] = stage[q] /\ table'[q] = table[q]
          /\ cwd'[q] = cwd[q] /\ isMaster'[q] = isMaster[q]
          /\ (q \in ranOnce' <=> q \in ranOnce)
    BY <1>4 DEF Launch, Quit, SwitchMode, KeyInit, KeyInitFails, StopWaiting, BackToMenu, menu,
                Orderly, Typed, TypeOK
  <2>2. stage'[p] = Menu
    BY <1>4, WaitMenu DEF Launch, Quit, SwitchMode, KeyInit, KeyInitFails, StopWaiting,
           BackToMenu, AtMenu, Orderly, Typed, TypeOK
  <2>3. \/ \A s \in Slot : ~table'[p][s].valid_out
        \/ /\ table'[p] = table[p] /\ cwd'[p] = cwd[p] /\ isMaster'[p] = isMaster[p]
           /\ (p \in ranOnce' <=> p \in ranOnce)
    <3>1. CASE Launch(p) \/ Quit(p)
      <4>1. table'[p] = Fresh
        BY <3>1 DEF Launch, Quit, Orderly, Typed, TypeOK
      <4>. QED
        BY <4>1 DEF Fresh, EmptyEntry
    <3>2. CASE SwitchMode(p)
      <4>1. p \notin ranOnce /\ table'[p] = table[p]
        BY <3>2, HabitFacts DEF SwitchMode
      <4>. QED
        BY <4>1 DEF RanInv
    <3>3. CASE KeyInit(p) \/ KeyInitFails(p) \/ StopWaiting(p)
      BY <3>3 DEF KeyInit, KeyInitFails, StopWaiting, BackToMenu, menu
    <3>. QED
      BY <1>4, <3>1, <3>2, <3>3
  <2>4. \A q \in Proc : stage'[q] # Menu => q \in ranOnce'
    BY <2>1, <2>2 DEF RanInv
  <2>5. ASSUME NEW q \in Proc, NEW s \in Slot, table'[q][s].valid_out
        PROVE  q \in ranOnce' /\ s \in DOMAIN files'[cwd'[q]][ModePath(q)']
    BY <1>1, <2>1, <2>3, <2>5 DEF RanInv, ModePath
  <2>. QED
    BY <2>4, <2>5 DEF RanInv
<1>5. ASSUME Loads
      PROVE  RanInv'
  <2>1. StartExchange(p) /\ table' = [table EXCEPT ![p] = Loaded(p)]
    BY <1>5 DEF MasterWithoutKey, SlaveRejects, SlaveListens, OnlyLoaded
  <2>2. ranOnce' = ranOnce \cup {p} /\ UNCHANGED menu
    BY <2>1, StartFacts DEF Orderly
  <2>3. \A q \in Proc : q # p => stage'[q] = stage[q]
    BY <1>5 DEF MasterWithoutKey, SlaveRejects, SlaveListens, Orderly, Typed, TypeOK
  <2>4. table'[p] = Loaded(p) /\ \A q \in Proc : q # p => table'[q] = table[q]
    BY <2>1 DEF Orderly, Typed, TypeOK
  <2>5. \A s \in Slot : Loaded(p)[s].valid_out => s \in DOMAIN files[cwd[p]][ModePath(p)]
    BY ExactFacts DEF Exact
  <2>6. \A q \in Proc : stage'[q] # Menu => q \in ranOnce'
    BY <2>2, <2>3 DEF RanInv
  <2>7. \A q \in Proc, s \in Slot : table'[q][s].valid_out =>
          q \in ranOnce' /\ s \in DOMAIN files[cwd[q]][ModePath(q)]
    BY <2>2, <2>4, <2>5 DEF RanInv
  <2>. QED
    BY <1>1, <2>2, <2>6, <2>7 DEF RanInv, ModePath, menu
<1>. QED
  BY <1>2, <1>3, <1>4, <1>5

\* Of a directory and an address a write does not concern, nothing changes.
LEMMA InStepKept ==
  ASSUME SecureDemoAssumption, Orderly, NEW p \in Proc, NEW t \in [Slot -> Entry],
         NEW s \in Slot, NEW len \in Nat, ReserveAndPersist(p, t, s, len),
         NEW d \in Directory, NEW a \in Addr, s # <<a, M2S>> \/ d # cwd[p],
         Exact(t, files[cwd[p]][ModePath(p)], <<a, M2S>>),
         (d \in unread' /\ frame'[d].addr = a) <=> (d \in unread /\ frame[d].addr = a),
         d \in unread /\ frame[d].addr = a => frame'[d] = frame[d],
         InStep(d, a)
  PROVE  InStep(d, a)'
<1>. DEFINE x == <<a, M2S>>
<1>1. x \in Slot
  BY Constants
<1>2. \A f \in Path : Known(files'[d][f], x) = Known(files[d][f], x)
  <2>1. ASSUME NEW f \in Path
        PROVE  Known(files'[d][f], x) = Known(files[d][f], x)
    <3>1. CASE d = cwd[p] /\ f = ModePath(p)
      BY <1>1, <3>1, KnownStep DEF Orderly
    <3>2. CASE <<d, f>> # <<cwd[p], ModePath(p)>>
      <4>1. files'[d][f] = files[d][f]
        BY <3>2, Persisted DEF Orderly
      <4>. QED
        BY <4>1
    <3>. QED
      BY <3>1, <3>2
  <2>. QED
    BY <2>1
<1>3. /\ Known(files'[d]["ctr_state.dat"], x) = Known(files[d]["ctr_state.dat"], x)
      /\ Known(files'[d]["ctr_state_recv.dat"], x) = Known(files[d]["ctr_state_recv.dat"], x)
  BY <1>2 DEF Path
<1>. QED
  BY <1>3 DEF InStep, Known

\* What a frame that is left in the directory by a master says.
FrameOf(p, a, len) ==
  LET s == <<a, M2S>>
  IN [addr |-> a, key |-> keys[p][s], pos |-> NextCtr(Loaded(p)[s], Seed(p, s)), len |-> len]

\* A master moves its file ahead by the frame it leaves; if it leaves none, or
\* overwrites one, that is a frame missed.
LEMMA MasterInStep ==
  ASSUME SecureDemoAssumption, Orderly, FileKeysOnly, RanInv, SyncInv, RoundTripVerifies,
         "overlap" \notin Options, NEW p \in Proc, NEW a \in Addr, NEW len \in FrameLen,
         RunMaster(p, a, len) \/ MasterSends(p, a, len)
  PROVE  FileKeysOnly' /\ RanInv' /\ SyncInv' /\ RoundTripVerifies'
<1>. DEFINE s == <<a, M2S>>
            t == Loaded(p)
            d == cwd[p]
            m == "ctr_state.dat"
            r == "ctr_state_recv.dat"
            v == NextCtr(t[s], Seed(p, s))
            new == FrameOf(p, a, len)
<1>1. /\ s \in Slot /\ len \in Nat /\ t \in [Slot -> Entry]
      /\ isMaster[p] /\ keys[p][s] # "none"
      /\ ReserveAndPersist(p, t, s, len) /\ Encrypts(p, t, s, len)
      /\ UNCHANGED menu /\ failed' = failed /\ ranOnce' = ranOnce \cup {p}
      /\ stage' \in {stage, [stage EXCEPT ![p] = <<"reply", a>>]}
  BY MasterFacts
<1>2. /\ d \in Directory /\ keys[p][s] = "file"
      /\ frame \in [Directory -> Frame \cup {NoFrame}]
  BY <1>1, LoadedType, HistoryType DEF Orderly, FileKeysOnly, Typed, TypeOK
<1>3. s \in FileKeys
  BY <1>1, <1>2 DEF Orderly, Typed, KeysInv
<1>4. ModePath(p) = m /\ m # r /\ m \in Path /\ r \in Path
  BY <1>1 DEF ModePath, Path
<1>5. \A x \in Slot : Exact(t, files[d][m], x)
  BY <1>4, ExactFacts
<1>6. /\ v = Known(files[d][m], s) /\ Known(files'[d][m], s) = v + NumBlocks(len)
      /\ files'[d][r] = files[d][r]
  <2>1. v = Known(files[d][m], s) /\ Known(files'[d][m], s) = v + NumBlocks(len)
    BY <1>1, <1>2, <1>4, <1>5, KnownStep DEF Orderly
  <2>2. files'[d][r] = files[d][r]
    BY SMTT(30), <1>1, <1>2, <1>4, Persisted DEF Orderly
  <2>. QED
    BY <2>1, <2>2
<1>7. RanInv'
  <2>1. \A q \in Proc : q # p => stage'[q] = stage[q]
    BY <1>1 DEF Orderly, Typed, TypeOK
  <2>2. Covers(t, files[cwd[p]][ModePath(p)])
    BY Current
  <2>. QED
    BY <1>1, <2>1, <2>2, RanWrite DEF Orderly
<1>. DEFINE Left == /\ frame' = [frame EXCEPT ![d] = new] /\ unread' = unread \cup {d}
                    /\ missed' = IF d \in unread THEN missed \cup {frame[d].addr} ELSE missed
            Lost == missed' = missed \cup {a} /\ UNCHANGED <<frame, unread>>
<1>8. Left \/ Lost
  BY DEF RunMaster, MasterSends, FrameOf
<1>9. RoundTripVerifies'
  BY <1>1, <1>8 DEF RoundTripVerifies
<1>10. /\ new # NoFrame /\ new.addr = a /\ new.key = "file" /\ new.pos = v /\ new.len = len
  BY <1>2, Constants DEF FrameOf, NoFrame
<1>11. FileKeysOnly'
  <2>1. \A e \in Directory : frame'[e] \in {frame[e], new}
    BY <1>2, <1>8
  <2>2. keys' = keys
    BY <1>1 DEF menu
  <2>. QED
    BY <1>10, <2>1, <2>2 DEF FileKeysOnly
<1>. HIDE DEF s, t, d, m, r, v, new
<1>12. ASSUME NEW e \in Directory, NEW b \in Addr \ missed', <<b, M2S>> \in FileKeys
       PROVE  InStep(e, b)'
  <2>1. InStep(e, b) /\ b \notin missed
    BY <1>8, <1>12 DEF SyncInv
  <2>2. CASE e = d /\ b = a
    <3>1. Left /\ ~(d \in unread /\ frame[d].addr = a)
      BY <1>8, <1>12, <2>2
    <3>2. v = Known(files[d][r], s)
      BY <1>6, <2>1, <2>2, <3>1 DEF InStep, s, m, r
    <3>3. d \in unread' /\ frame'[d] = new
      BY <1>2, <3>1
    <3>4. Known(files'[d][m], s) = Known(files'[d][r], s) + NumBlocks(len)
      BY <1>6, <3>2
    <3>. QED
      BY <1>6, <1>10, <2>2, <3>2, <3>3, <3>4 DEF InStep, Known, s, m, r
  <2>3. CASE e # d \/ b # a
    <3>1. /\ (e \in unread' /\ frame'[e].addr = b) <=> (e \in unread /\ frame[e].addr = b)
          /\ e \in unread /\ frame[e].addr = b => frame'[e] = frame[e]
      <4>1. CASE Lost
        BY <4>1
      <4>2. CASE Left /\ e # d
        BY <1>2, <4>2
      <4>3. CASE Left /\ e = d
        <5>1. b # a /\ ~(d \in unread /\ frame[d].addr = b)
          BY <1>12, <2>3, <4>3
        <5>2. frame'[d] = new
          BY <1>2, <4>3
        <5>. QED
          BY <1>10, <4>3, <5>1, <5>2
      <4>. QED
        BY <1>8, <4>1, <4>2, <4>3
    <3>2. s # <<b, M2S>> \/ e # d
      BY <2>3 DEF s
    <3>3. Exact(t, files[cwd[p]][ModePath(p)], <<b, M2S>>)
      BY <1>4, <1>5, Constants DEF d
    <3>. QED
      BY <1>1, <2>1, <3>1, <3>2, <3>3, InStepKept DEF d
  <2>. QED
    BY <2>2, <2>3
<1>13. SyncInv'
  BY <1>12 DEF SyncInv
<1>. QED
  BY <1>7, <1>9, <1>11, <1>13

\* A slave that has missed no frame is where the frame was made: it verifies,
\* and then both files are in step again.
LEMMA SlaveInStep ==
  ASSUME SecureDemoAssumption, Orderly, FileKeysOnly, RanInv, SyncInv, RoundTripVerifies,
         "overlap" \notin Options, NEW p \in Proc, NEW a \in Addr, RunSlave(p, a)
  PROVE  FileKeysOnly' /\ RanInv' /\ SyncInv' /\ RoundTripVerifies'
<1>. DEFINE s == <<a, M2S>>
            t == Loaded(p)
            d == cwd[p]
            f == frame[d]
            m == "ctr_state.dat"
            r == "ctr_state_recv.dat"
            v == NextCtr(t[s], Seed(p, s))
<1>1. /\ s \in Slot /\ t \in [Slot -> Entry] /\ f \in Frame /\ f.len \in Nat
      /\ ~isMaster[p] /\ f # NoFrame /\ f.addr = a /\ keys[p][s] = f.key
      /\ ReserveAndPersist(p, t, s, f.len)
      /\ UNCHANGED menu /\ ranOnce' = ranOnce \cup {p} /\ stage' = stage
  BY SlaveFacts
<1>2. d \in Directory /\ keys[p][s] = "file"
  BY <1>1, LoadedType DEF Orderly, FileKeysOnly
<1>3. s \in FileKeys
  BY <1>1, <1>2 DEF Orderly, Typed, KeysInv
<1>4. ModePath(p) = r /\ m # r /\ m \in Path /\ r \in Path
  BY <1>1 DEF ModePath, Path
<1>5. \A x \in Slot : Exact(t, files[d][r], x)
  BY <1>4, ExactFacts
<1>6. /\ v = Known(files[d][r], s) /\ Known(files'[d][r], s) = v + NumBlocks(f.len)
      /\ files'[d][m] = files[d][m]
  <2>1. v = Known(files[d][r], s) /\ Known(files'[d][r], s) = v + NumBlocks(f.len)
    BY <1>1, <1>2, <1>4, <1>5, KnownStep DEF Orderly
  <2>2. files'[d][m] = files[d][m]
    BY <1>1, <1>2, <1>4, Persisted DEF Orderly
  <2>. QED
    BY <2>1, <2>2
<1>7. RanInv'
  <2>1. Covers(t, files[cwd[p]][ModePath(p)])
    BY Current
  <2>. QED
    BY <1>1, <2>1, RanWrite DEF Orderly
<1>8. /\ failed' = IF v = f.pos THEN failed ELSE failed \cup {a}
      /\ missed' = IF d \in unread THEN missed ELSE missed \cup {a}
      /\ unread' = unread \ {d} /\ frame' = frame
  BY DEF RunSlave
<1>9. FileKeysOnly'
  BY <1>1, <1>8 DEF FileKeysOnly, menu
<1>. HIDE DEF s, t, d, f, m, r, v
<1>10. ASSUME a \notin missed'
       PROVE  /\ d \in unread /\ f.pos = v
              /\ Known(files[d][m], s) = v + NumBlocks(f.len)
  <2>1. d \in unread /\ a \in Addr \ missed
    BY <1>8, <1>10
  <2>2. InStep(d, a)
    BY <1>2, <1>3, <2>1 DEF SyncInv, s
  <2>. QED
    BY <1>1, <1>6, <2>1, <2>2 DEF InStep, s, m, r, f
<1>11. RoundTripVerifies'
  BY <1>8, <1>10 DEF RoundTripVerifies
<1>12. ASSUME NEW e \in Directory, NEW b \in Addr \ missed', <<b, M2S>> \in FileKeys
       PROVE  InStep(e, b)'
  <2>1. InStep(e, b) /\ b \notin missed
    BY <1>8, <1>12 DEF SyncInv
  <2>2. CASE e = d /\ b = a
    <3>1. Known(files'[d][m], s) = Known(files'[d][r], s)
      BY <1>6, <1>10, <1>12, <2>2
    <3>. QED
      BY <1>8, <2>2, <3>1 DEF InStep, Known, s, m, r
  <2>3. CASE e # d \/ b # a
    <3>1. (e \in unread' /\ frame'[e].addr = b) <=> (e \in unread /\ frame[e].addr = b)
      BY <1>1, <1>8, <2>3 DEF f
    <3>2. s # <<b, M2S>> \/ e # d
      BY <2>3 DEF s
    <3>3. Exact(t, files[cwd[p]][ModePath(p)], <<b, M2S>>)
      BY <1>4, <1>5, Constants DEF d
    <3>. QED
      BY <1>1, <1>8, <2>1, <3>1, <3>2, <3>3, InStepKept DEF d
  <2>. QED
    BY <2>2, <2>3
<1>13. SyncInv'
  BY <1>12 DEF SyncInv
<1>. QED
  BY <1>7, <1>9, <1>11, <1>13

\* Of the slots of requests, t has moved and s is only one of a missed address.
OnlyMissed(p, t, s) ==
  \A b \in Addr : b \notin missed' => s # <<b, M2S>> /\ t[<<b, M2S>>] = table[p][<<b, M2S>>]

\* The frames of a line are not the directory's: with one that is taken, only
\* its own address is out of step.
LEMMA WaitedInStep ==
  ASSUME SecureDemoAssumption, Orderly, FileKeysOnly, RanInv, SyncInv, RoundTripVerifies,
         NEW p \in Proc, NEW t \in [Slot -> Entry], NEW s \in Slot, NEW len \in Nat,
         ReserveAndPersist(p, t, s, len),
         Covers(t, files[cwd[p]][ModePath(p)]), stage[p] # Menu,
         OnlyMissed(p, t, s),
         missed \subseteq missed', stage' = [stage EXCEPT ![p] = Menu],
         UNCHANGED <<menu, ranOnce, frame, unread, failed>>
  PROVE  FileKeysOnly' /\ RanInv' /\ SyncInv' /\ RoundTripVerifies'
<1>1. RanInv'
  <2>1. \A q \in Proc : q # p => stage'[q] = stage[q]
    BY DEF Orderly, Typed, TypeOK
  <2>2. p \in ranOnce'
    BY DEF RanInv
  <2>. QED
    BY <2>1, <2>2, RanWrite DEF Orderly
<1>2. FileKeysOnly' /\ RoundTripVerifies'
  BY DEF FileKeysOnly, RoundTripVerifies, menu
<1>3. ASSUME NEW e \in Directory, NEW b \in Addr \ missed', <<b, M2S>> \in FileKeys
      PROVE  InStep(e, b)'
  <2>1. InStep(e, b)
    BY <1>3 DEF SyncInv
  <2>2. Exact(table[p], files[cwd[p]][ModePath(p)], <<b, M2S>>)
    BY Constants, ExactFacts
  <2>3. s # <<b, M2S>> /\ Exact(t, files[cwd[p]][ModePath(p)], <<b, M2S>>)
    BY <1>3, <2>2 DEF Exact, OnlyMissed
  <2>. QED
    BY <1>3, <2>1, <2>3, InStepKept
<1>4. SyncInv'
  BY <1>3 DEF SyncInv
<1>. QED
  BY <1>1, <1>2, <1>4

\* Every step keeps the files in step.
LEMMA InStepNext ==
  ASSUME SecureDemoAssumption, "overlap" \notin Options, "selftest" \notin habits',
         "reswitch" \notin habits', Orderly, FileKeysOnly, RanInv, SyncInv, RoundTripVerifies,
         [Next]_vars
  PROVE  FileKeysOnly' /\ RanInv' /\ SyncInv' /\ RoundTripVerifies'
<1>. DEFINE Good == FileKeysOnly' /\ RanInv' /\ SyncInv' /\ RoundTripVerifies'
<1>1. ASSUME UNCHANGED vars
      PROVE  Good
  BY <1>1 DEF FileKeysOnly, RanInv, SyncInv, InStep, RoundTripVerifies, ModePath, vars, procs,
              menu, history
<1>2. ASSUME NEW p \in Proc, NEW a \in Addr, NEW len \in FrameLen,
             TakeReply(p, a, len) \/ TakeRequest(p, a, len)
      PROVE  Good
  <2>1. PICK s \in Slot : /\ ReserveAndPersist(p, table[p], s, len)
                          /\ \/ s = <<a, S2M>> /\ missed' = missed
                             \/ s = <<a, M2S>> /\ missed' = missed \cup {a}
    BY <1>2, TakeFacts
  <2>2. /\ len \in Nat /\ table[p] \in [Slot -> Entry]
        /\ stage[p] # Menu /\ stage' = [stage EXCEPT ![p] = Menu]
        /\ UNCHANGED <<menu, ranOnce, frame, unread, failed>>
    BY <1>2, TakeFacts
  <2>3. OnlyMissed(p, table[p], s)
    BY <2>1 DEF OnlyMissed, M2S, S2M
  <2>4. missed \subseteq missed' /\ Covers(table[p], files[cwd[p]][ModePath(p)])
    BY <2>1, <2>2, Current
  <2>. QED
    BY <1>2, <2>1, <2>2, <2>3, <2>4, WaitedInStep
<1>3. ASSUME NEW p \in Proc, NEW a \in Addr, NEW len \in FrameLen, NEW replyLen \in FrameLen,
             AnswerRequest(p, a, len, replyLen)
      PROVE  Good
  <2>. DEFINE in  == <<a, M2S>>
              out == <<a, S2M>>
              t   == Reserve(table[p], in, Seed(p, in), len)
  <2>1. /\ out \in Slot /\ replyLen \in Nat /\ t \in [Slot -> Entry]
        /\ \A x \in Slot : x # in => t[x] = table[p][x]
        /\ ReserveAndPersist(p, t, out, replyLen)
        /\ stage[p] # Menu /\ missed' = missed \cup {a}
    BY <1>3, AnswerFacts DEF Orderly
  <2>2. /\ Covers(t, files[cwd[p]][ModePath(p)])
        /\ stage' = [stage EXCEPT ![p] = Menu]
        /\ UNCHANGED <<menu, ranOnce, frame, unread, failed>>
    BY <1>3, AnswerCovers
  <2>. HIDE DEF in, out, t
  <2>3. OnlyMissed(p, t, out)
    BY <2>1, Constants DEF OnlyMissed, in, out, M2S, S2M
  <2>4. missed \subseteq missed'
    BY <2>1
  <2>. QED
    BY <1>3, <2>1, <2>2, <2>3, <2>4, WaitedInStep
<1>4. ASSUME NEW p \in Proc,
             \/ Launch(p) \/ Quit(p) \/ SwitchMode(p) \/ KeyInit(p) \/ KeyInitFails(p)
             \/ StopWaiting(p)
             \/ \E a \in Addr : MasterWithoutKey(p, a) \/ SlaveRejects(p, a) \/ SlaveListens(p, a)
      PROVE  Good
  BY <1>4, QuietSteps
<1>5. ASSUME NEW p \in Proc, NEW a \in Addr, NEW len \in FrameLen,
             RunMaster(p, a, len) \/ MasterSends(p, a, len)
      PROVE  Good
  BY <1>5, MasterInStep
<1>6. ASSUME NEW p \in Proc, NEW a \in Addr, RunSlave(p, a)
      PROVE  Good
  BY <1>6, SlaveInStep
<1>7. \A p \in Proc : ~SelfTest(p)
  BY HabitFacts
<1>. HIDE DEF Good
<1>8. Good
  BY <1>1, <1>2, <1>3, <1>4, <1>5, <1>6, <1>7 DEF Next
<1>. QED
  BY <1>8 DEF Good

\* Without exchanges that overlap on a file, and before somebody runs the
\* self-test or takes a process that has run an exchange to the other mode, every
\* frame of an address verifies as long as the slave has run once for every frame
\* the masters left: for every number of processes and directories
\* (MANUAL.md:624-625; main.c:285-286).
THEOREM FramesVerify ==
  ASSUME SecureDemoAssumption, "overlap" \notin Options
  PROVE  Spec => []FramesVerifyInOneMode
<1>. DEFINE Tidy == Orderly /\ FileKeysOnly /\ RanInv /\ SyncInv /\ RoundTripVerifies
            Inv == habits = {} => Tidy
<1>1. Init => Inv
  <2>. SUFFICES ASSUME Init
                PROVE  Tidy
    OBVIOUS
  <2>1. FileKeysOnly /\ RoundTripVerifies
    BY DEF Init, FileKeysOnly, RoundTripVerifies
  <2>2. RanInv
    BY DEF Init, RanInv, Menu, Fresh, EmptyEntry
  <2>3. \A d \in Directory, f \in Path : DOMAIN files[d][f] = {}
    BY DEF Init, NoRows
  <2>4. SyncInv
    BY <2>3 DEF Init, SyncInv, InStep, Known, Path
  <2>. QED
    BY <2>1, <2>2, <2>4, OrderlyInit
<1>2. Inv /\ [Next]_vars => Inv'
  <2>. SUFFICES ASSUME Inv, [Next]_vars, habits' = {}
                PROVE  Tidy'
    OBVIOUS
  <2>1. Tidy
    BY HabitFacts
  <2>. QED
    BY <2>1, OrderlyStep, InStepNext
<1>3. Inv => FramesVerifyInOneMode
  BY DEF FramesVerifyInOneMode
<1>. QED
  BY <1>1, <1>2, <1>3, PTL DEF Spec

-----------------------------------------------------------------------------
(* The self-test *)

\* Option 3 starts both directions of its address at counter 0 whatever the
\* table was (main.c:301-460): it passes however often it is run, in every mode
\* and beside every exchange.
THEOREM SelfTestPasses ==
  ASSUME SecureDemoAssumption
  PROVE  Spec => []SelfTestAlwaysPasses
<1>. DEFINE Inv == Typed /\ SelfTestAlwaysPasses
<1>1. Init => Inv
  BY TypedInit DEF Init, SelfTestAlwaysPasses
<1>2. Inv /\ [Next]_vars => Inv'
  <2>. SUFFICES ASSUME Typed, SelfTestAlwaysPasses, [Next]_vars
                PROVE  SelfTestAlwaysPasses'
    BY TypedStep
  <2>1. ASSUME NEW p \in Proc, SelfTest(p)
        PROVE  selfTest' = selfTest
    <3>. DEFINE out == <<TestAddr, M2S>>
                in  == <<TestAddr, S2M>>
                t1  == Cleared(table[p], out)
                t2  == Reserve(t1, out, 0, TestLen)
                t3  == Cleared(t2, in)
    <3>1. out \in Slot /\ in \in Slot /\ 0 \in Ctr /\ TestLen \in Nat
      BY <2>1, Constants, CtrTableAssumption DEF SelfTest, Ctr, TestLen
    <3>2. \A t \in [Slot -> Entry], s \in Slot :
            Cleared(t, s) \in [Slot -> Entry] /\ ~Cleared(t, s)[s].valid_out
      BY ZenonT(30) DEF Cleared, Entry
    <3>3. t1 \in [Slot -> Entry] /\ ~t1[out].valid_out
      BY <3>1, <3>2, HistoryType
    <3>4. t2 \in [Slot -> Entry]
      BY <3>1, <3>3, ReserveType
    <3>5. ~t3[in].valid_out
      BY <3>1, <3>2, <3>4
    <3>6. NextCtr(t1[out], 0) = 0 /\ NextCtr(t3[in], 0) = 0
      BY <3>3, <3>5 DEF NextCtr
    <3>. QED
      BY <2>1, <3>6 DEF SelfTest
  <2>2. CASE UNCHANGED vars
    BY <2>2 DEF vars, history, SelfTestAlwaysPasses
  <2>3. ASSUME NEW p \in Proc,
               \/ Launch(p) \/ Quit(p) \/ SwitchMode(p) \/ KeyInit(p) \/ KeyInitFails(p)
        PROVE  selfTest' = selfTest
    BY <2>3 DEF Launch, Quit, SwitchMode, KeyInit, KeyInitFails, history
  <2>4. \A p \in Proc : StartExchange(p) \/ BackToMenu(p) => selfTest' = selfTest
    BY DEF StartExchange, BackToMenu
  <2>5. ASSUME NEW p \in Proc, NEW a \in Addr,
               MasterWithoutKey(p, a) \/ SlaveRejects(p, a) \/ RunSlave(p, a) \/ SlaveListens(p, a)
        PROVE  selfTest' = selfTest
    BY <2>4, <2>5 DEF MasterWithoutKey, SlaveRejects, RunSlave, SlaveListens
  <2>6. ASSUME NEW p \in Proc, NEW a \in Addr, NEW len \in FrameLen,
               RunMaster(p, a, len) \/ MasterSends(p, a, len)
        PROVE  selfTest' = selfTest
    BY <2>4, <2>6 DEF RunMaster, MasterSends, BuildRequest
  <2>7. ASSUME NEW p \in Proc,
               \/ StopWaiting(p)
               \/ \E a \in Addr, len \in FrameLen :
                    \/ TakeReply(p, a, len) \/ TakeRequest(p, a, len)
                    \/ \E replyLen \in FrameLen : AnswerRequest(p, a, len, replyLen)
        PROVE  selfTest' = selfTest
    BY <2>4, <2>7 DEF StopWaiting, TakeReply, TakeRequest, AnswerRequest
  <2>. QED
    BY <2>1, <2>2, <2>3, <2>5, <2>6, <2>7 DEF Next, SelfTestAlwaysPasses
<1>. QED
  BY <1>1, <1>2, PTL DEF Spec, SelfTestAlwaysPasses
=============================================================================
