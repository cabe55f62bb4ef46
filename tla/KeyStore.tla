------------------------------ MODULE KeyStore ------------------------------
(***************************************************************************)
(* The key table of src/keymgmt/key_store.c and how demo_load_keys of      *)
(* src/demo/key_paths.c fills it: five places are tried for a keys.txt,    *)
(* each is read line by line with fgets and sscanf, and the first file     *)
(* that yields a row is the last one tried.  Between two loads the files   *)
(* may be edited and the self-test may provision keys of its own.          *)
(*                                                                         *)
(* A word of a file is a piece of a text, [text, from, to]: the buffer of  *)
(* fgets and the field widths of sscanf cut words by length, and what a    *)
(* word says depends on whether it is whole.  Words are one blank apart.   *)
(***************************************************************************)
EXTENDS Integers, Sequences, FiniteSets, SequencesExt

CONSTANTS
    Addrs,       \* the addresses looked at, a subset of 0..247
    Places,     \* the paths below at which there may be a keys.txt
    Contents,   \* the contents it may have: sequences of lines
    Argv0,      \* "null", "bare" (no slash), "dir", or "long" (over 512)
    TextLen,    \* text -> its length
    Comments,   \* the texts that begin with '#'
    Number,     \* text -> its value as a decimal number
    Hex,        \* text -> its value as strtoul(, 16) reads it
    CtrMod,     \* 2^32 in the code: the counter is a uint32_t
    MaxLoads,   \* bound: how often demo_load_keys is called
    MaxEdits,   \* bound: how often a file is changed
    MaxFaults   \* bound: how many reads of a file fail

Paths == {"./keys.txt", "exe/keys.txt", "keymgmt/keys.txt",
          "security/keymgmt/keys.txt", "../keymgmt/keys.txt"}

KeyStoreAssumption ==
    /\ Places \subseteq Paths
    /\ Addrs \subseteq 0..247
    /\ Argv0 \subseteq {"null", "bare", "dir", "long"}

KEY_SIZE == 16
LineSize == 256                        \* char line[256]
Dirs == {0, 1, 2}
DirNames == [m2s |-> 0, s2m |-> 1, bc |-> 2]

NoFile == [exists |-> FALSE, lines |-> <<>>]
File(c) == [exists |-> TRUE, lines |-> c]

NotValid == [valid |-> FALSE]

VARIABLES
    files,    \* path -> [lines, exists]
    argv0,
    table,    \* slot -> entry
    pc,       \* "idle", "open" (about to open a path) or "reading" it
    tried,    \* paths tried so far by this demo_load_keys
    rest,     \* what is left of the file being read: lines, the first perhaps
              \* in part
    loaded,   \* rows taken from this file
    result,   \* what the last demo_load_keys returned
    before,   \* history: the table when it was called
    cut,      \* history: paths of which it did not read everything
    loads, edits, faults

vars == <<files, argv0, table, pc, tried, rest, loaded, result, before, cut, loads, edits, faults>>

-----------------------------------------------------------------------------
(* Words and lines *)

Whole(t) == [text |-> t, from |-> 1, to |-> TextLen[t]]
IsWhole(w) == w = Whole(w.text)
WordLen(w) == w.to - w.from + 1
Cut(w, n) == [w EXCEPT !.to = w.from + n - 1]
Uncut(w, n) == [w EXCEPT !.from = w.from + n]

\* The words before and after the first n characters of a line.
SplitAt(ws, n) ==
    LET step(acc, w) ==
            IF acc.left <= 0 THEN [acc EXCEPT !.post = Append(@, w)]
            ELSE IF WordLen(w) <= acc.left
                 THEN [acc EXCEPT !.pre = Append(@, w), !.left = @ - WordLen(w) - 1]
                 ELSE [pre |-> Append(acc.pre, Cut(w, acc.left)), left |-> 0,
                       post |-> <<Uncut(w, acc.left)>>]
    IN FoldLeft(step, [pre |-> <<>>, post |-> <<>>, left |-> n], ws)

\* Wrong: the keys are read with their own length as the field's width.
Scan_tight(ws) ==
    LET step(acc, width) ==
            IF acc.ws = <<>> THEN acc
            ELSE LET w == Head(acc.ws)
                 IN IF WordLen(w) <= width
                    THEN [ws |-> Tail(acc.ws), got |-> Append(acc.got, w)]
                    ELSE [ws |-> <<Uncut(w, width)>> \o Tail(acc.ws),
                          got |-> Append(acc.got, Cut(w, width))]
    IN FoldLeft(step, [ws |-> ws, got |-> <<>>], <<255, 7, 16, 16, 15>>).got

\* The conversions sscanf makes of "%u %7s %23s %23s %15s".
Scan(ws) ==
    LET step(acc, width) ==
            IF acc.ws = <<>> THEN acc
            ELSE LET w == Head(acc.ws)
                 IN IF WordLen(w) <= width
                    THEN [ws |-> Tail(acc.ws), got |-> Append(acc.got, w)]
                    ELSE [ws |-> <<Uncut(w, width)>> \o Tail(acc.ws),
                          got |-> Append(acc.got, Cut(w, width))]
    IN FoldLeft(step, [ws |-> ws, got |-> <<>>], <<255, 7, 23, 23, 15>>).got

parse_dir(w) == IsWhole(w) /\ w.text \in DOMAIN DirNames

\* The line is neither blank nor a comment, and its five fields say a row.
IsRow(ws) ==
    /\ ws # <<>> /\ ~(Head(ws).text \in Comments /\ Head(ws).from = 1)
    /\ LET f == Scan(ws)
       IN /\ Len(f) = 5
          /\ IsWhole(f[1]) /\ f[1].text \in DOMAIN Number /\ Number[f[1].text] <= 247
          /\ WordLen(f[3]) = KEY_SIZE /\ WordLen(f[4]) = KEY_SIZE
          /\ parse_dir(f[2])

SlotOf(ws) == <<Number[Scan(ws)[1].text], DirNames[Scan(ws)[2].text]>>

EntryOf(ws) ==
    LET f == Scan(ws)
    IN [valid |-> TRUE, enc |-> f[3], mac |-> f[4],
        initial_ctr |-> IF f[5].text \in DOMAIN Hex THEN Hex[f[5].text] % CtrMod ELSE 0]

-----------------------------------------------------------------------------
(* Looking up and provisioning *)

Slots == Addrs \X Dirs

Store(t, s, e) == [t EXCEPT ![s] = e]

\* key_store_lookup, key_store_get_initial_ctr
Lookup(t, addr, dir) ==
    IF addr > 247 \/ dir \notin Dirs THEN NotValid ELSE t[addr, dir]

TestWord == [text |-> "test", from |-> 1, to |-> KEY_SIZE]
TestKey == [valid |-> TRUE, enc |-> TestWord, mac |-> TestWord, initial_ctr |-> 0]

\* key_store_provision, by the self-test
Provision ==
    /\ pc = "idle"
    /\ \E a \in Addrs, d \in {0, 1} : table' = Store(table, <<a, d>>, TestKey)
    /\ UNCHANGED <<files, argv0, pc, tried, rest, loaded, result, before, cut, loads, edits, faults>>

-----------------------------------------------------------------------------
(* demo_load_keys *)

\* exe_relative_path: a path that does not fit, or has no directory, is the
\* bare file name.
exe_relative_path == IF argv0 = "dir" THEN "exe/keys.txt" ELSE "./keys.txt"

Candidates ==
    <<"./keys.txt">> \o (IF argv0 = "null" THEN <<>> ELSE <<exe_relative_path>>)
    \o <<"keymgmt/keys.txt", "security/keymgmt/keys.txt", "../keymgmt/keys.txt">>

Call ==
    /\ pc = "idle" /\ loads < MaxLoads
    /\ loads' = loads + 1
    /\ pc' = "open" /\ tried' = 0 /\ cut' = {}
    /\ before' = table
    /\ UNCHANGED <<files, argv0, table, rest, loaded, result, edits, faults>>

\* key_store_load_file returns n: a file with rows, or the last one, decides.
Answer(n) ==
    /\ tried' = tried + 1
    /\ IF n > 0 \/ tried + 1 = Len(Candidates)
       THEN pc' = "idle" /\ result' = n
       ELSE pc' = "open" /\ UNCHANGED result

\* fopen
Open ==
    /\ pc = "open"
    /\ LET f == files[Candidates[tried + 1]]
       IN IF f.exists
          THEN pc' = "reading" /\ rest' = f.lines /\ loaded' = 0 /\ UNCHANGED <<tried, result>>
          ELSE Answer(-1) /\ UNCHANGED <<rest, loaded>>
    /\ UNCHANGED <<files, argv0, table, before, cut, loads, edits, faults>>

\* fgets takes a line, or what fits the buffer of one that is too long: the
\* rest comes with the next call.
ReadLine ==
    /\ pc = "reading" /\ rest # <<>>
    /\ LET s == SplitAt(Head(rest), LineSize - 1)
       IN /\ rest' = (IF s.post = <<>> THEN <<>> ELSE <<s.post>>) \o Tail(rest)
          /\ IF IsRow(s.pre)
             THEN /\ table' = Store(table, SlotOf(s.pre), EntryOf(s.pre))
                  /\ loaded' = loaded + 1
             ELSE UNCHANGED <<table, loaded>>
    /\ UNCHANGED <<files, argv0, pc, tried, result, before, cut, loads, edits, faults>>

EndOfFile ==
    /\ pc = "reading" /\ rest = <<>>
    /\ Answer(loaded)
    /\ UNCHANGED <<files, argv0, table, rest, loaded, before, cut, loads, edits, faults>>

\* A read that fails looks to fgets' caller like the end of the file.
ReadFails ==
    /\ pc = "reading" /\ rest # <<>> /\ faults < MaxFaults
    /\ faults' = faults + 1
    /\ cut' = cut \cup {tried + 1}
    /\ rest' = <<>>
    /\ UNCHANGED <<files, argv0, table, pc, tried, loaded, result, before, loads, edits>>

\* Somebody changes one of the files.
Edit ==
    /\ pc = "idle" /\ loads < MaxLoads /\ edits < MaxEdits
    /\ edits' = edits + 1
    /\ \E p \in Places, f \in {NoFile} \cup {File(c) : c \in Contents} :
          files' = [files EXCEPT ![p] = f]
    /\ UNCHANGED <<argv0, table, pc, tried, rest, loaded, result, before, cut, loads, faults>>

Init ==
    /\ files = [p \in Paths |-> NoFile]
    /\ argv0 \in Argv0
    /\ table = [s \in Slots |-> NotValid]
    /\ pc = "idle" /\ tried = 0 /\ rest = <<>> /\ loaded = 0 /\ result = 0
    /\ before = table /\ cut = {}
    /\ loads = 0 /\ edits = 0 /\ faults = 0

Next == Provision \/ Call \/ Open \/ ReadLine \/ EndOfFile \/ ReadFails \/ Edit

Spec == Init /\ [][Next]_vars

-----------------------------------------------------------------------------
(* Properties *)

\* A row as key_store.h describes it, read as whole words of a whole line.
Row(ws) ==
    /\ Len(ws) >= 5 /\ \A i \in 1..5 : IsWhole(ws[i])
    /\ ws[1].text \in DOMAIN Number /\ Number[ws[1].text] <= 247
    /\ ws[2].text \in DOMAIN DirNames
    /\ WordLen(ws[3]) = KEY_SIZE /\ WordLen(ws[4]) = KEY_SIZE

RowFor(ws, s) == Row(ws) /\ s = <<Number[ws[1].text], DirNames[ws[2].text]>>

\* What the lines say of slot s: the last row for it, else what was there.
Said(lines, s) ==
    LET at == {i \in DOMAIN lines : RowFor(lines[i], s)}
    IN IF at = {} THEN before[s]
       ELSE LET ws == lines[CHOOSE i \in at : \A j \in at : j <= i]
            IN [valid |-> TRUE, enc |-> ws[3], mac |-> ws[4],
                initial_ctr |-> IF ws[5].text \in DOMAIN Hex THEN Hex[ws[5].text] % CtrMod ELSE 0]

Rows(lines) == Cardinality({i \in DOMAIN lines : Row(lines[i])})

\* The lines read of candidate i: all, unless a read failed.
ReadOf(i) ==
    LET all == files[Candidates[i]].lines
    IN IF i \in cut THEN {SubSeq(all, 1, n) : n \in 0..Len(all)} ELSE {all}

\* demo_load_keys takes its keys from one file, the first that has a row: each
\* slot then has the last row the file has for it, keys and counter together,
\* the other slots keep what they had, and nothing at all changes when no
\* file has one (key_paths.c 27-54, key_store.c 85-140).
FirstFileWins ==
    [][pc # "idle" /\ pc' = "idle" =>
        /\ \A i \in 1..tried' - 1 : \E lines \in ReadOf(i) : Rows(lines) = 0
        /\ \E lines \in ReadOf(tried') :
              /\ result' = (IF files[Candidates[tried']].exists THEN Rows(lines) ELSE -1)
              /\ result' <= 0 => tried' = Len(Candidates)
              /\ \A addr \in Addrs \cup {248}, dir \in 0..3 :
                    Lookup(table', addr, dir) =
                        IF <<addr, dir>> \in Slots THEN Said(lines, <<addr, dir>>) ELSE NotValid]_vars

\* Keys of 16 characters and 32-bit counters are all the table ever holds.
TypeOK ==
    /\ \A s \in Slots : table[s] = NotValid \/ table[s] = TestKey
                         \/ /\ WordLen(table[s].enc) = KEY_SIZE
                            /\ WordLen(table[s].mac) = KEY_SIZE
                            /\ table[s].initial_ctr \in 0..CtrMod - 1
    /\ pc \in {"idle", "open", "reading"} /\ tried \in 0..Len(Candidates)
    /\ loaded \in Nat /\ result \in Nat \cup {-1}
=============================================================================
