----------------------------- MODULE SecureDemo -----------------------------
(***************************************************************************)
(* demo/main.c: processes of the interactive program, each with its own    *)
(* key and counter tables. Those started in one directory share its counter*)
(* files ctr_state.dat (masters) and ctr_state_recv.dat (slaves) and, with *)
(* no port configured, the frame in its sent_frame.bin. The keys are found *)
(* from any directory (next to the executable).                            *)
(*                                                                         *)
(* Without a port no menu option waits for anything, so an option is one   *)
(* step. With a port a master waits for its reply, and a slave for its     *)
(* request, on the table it loaded before. What a crash does inside        *)
(* ctr_state_persist is CtrState's subject, what a serial line does to a   *)
(* frame is SecureLink's: here the line brings any frame, or none.         *)
(***************************************************************************)
EXTENDS CtrTable

CONSTANTS
  Proc,        \* processes
  Directory,   \* directories a process may be started in
  FileKeys,    \* slots keys.txt has a key for
  FileCtr,     \* their initial_ctr
  FrameLen,    \* lengths of the request ADU, in bytes
  Options      \* menu habits the model admits, see the actions

M2S == 0
S2M == 1
TestAddr == 240
TestLen == 8   \* addr, 5 bytes of PDU, CRC

SecureDemoAssumption ==
  /\ "selftest" \in Options => TestAddr \in Addr
  /\ {M2S, S2M} \subseteq Dir
  /\ FileKeys \subseteq Slot
  /\ FileCtr \in [FileKeys -> Ctr]
  /\ FrameLen \subseteq Nat
  /\ Options \subseteq {"selftest", "reswitch", "port", "overlap"}

VARIABLES
  running,    \* processes that have been started and not ended
  cwd,        \* the directory each was started in
  isMaster,   \* is_master
  keysLoaded, \* keys_loaded
  ranOnce,    \* processes that have run an exchange
  keys,       \* key_store.c's table: "none", "file" or "test", per process, slot
  path,       \* state_path, per process
  stage,      \* the menu, or what the process waits for at a port
  table,      \* ctr_state.c's table, per process
  files,      \* rows of the counter files, per directory and path
  frame,      \* the frame in sent_frame.bin, per directory
  unread,     \* history: directories whose frame no slave has verified yet
  used,       \* history: blocks consumed to encrypt under a key of keys.txt
  reused,     \* history: slots a block of which was consumed twice
  missed,     \* history: addresses a frame of which no slave read, or read twice
  failed,     \* history: addresses a frame of which failed its CRC
  selfTest,   \* history: "PASS" or "FAIL"
  habits      \* history: what users have done that the files do not survive:
              \* "selftest", or "reswitch" from the mode of an exchange

menu == <<running, cwd, isMaster, keysLoaded, keys>>
procs == <<menu, ranOnce, path, stage, table>>
history == <<unread, used, reused, missed, failed, selfTest, habits>>
vars == <<procs, files, frame, history>>

Menu == <<"menu">>
Stage == {Menu} \cup ({"reply", "request"} \X Addr)

Path == {"ctr_state.dat", "ctr_state_recv.dat"}
NoFrame == [addr |-> -1]
Frame == [addr : Addr, key : {"file", "test"}, pos : Ctr, len : FrameLen]

(***************************************************************************)
(* The tables.                                                             *)
(***************************************************************************)

\* key_store_get_initial_ctr; key_store_provision installs a key at 0.
Seed(p, s) == IF keys[p][s] = "file" THEN FileCtr[s] ELSE 0

Provisioned(k, s) == [k EXCEPT ![s] = "test"]

NextOut(e, seed, len) == NextCtr(e, seed) + NumBlocks(len)

\* Wrong: counts bytes instead of blocks, and past the width of the counter.
Reserve_bytes(t, s, seed, len) ==
  [t EXCEPT ![s].valid_out = TRUE, ![s].next_out = NextCtr(t[s], seed) + len]

Reserve(t, s, seed, len) ==
  [t EXCEPT ![s].valid_out = TRUE, ![s].next_out = Wrap(NextOut(t[s], seed, len))]

\* Wrong: the slot goes on from where the last self-test left it.
Cleared_not(t, s) == t

\* ctr_state_reset, up to its persist.
Cleared(t, s) == [t EXCEPT ![s].valid_out = FALSE, ![s].valid_in = FALSE]

(***************************************************************************)
(* Starting and ending.                                                    *)
(***************************************************************************)
Fresh == [s \in Slot |-> EmptyEntry]

Init ==
  /\ running = {} /\ keysLoaded = {} /\ ranOnce = {}
  /\ cwd \in [Proc -> Directory]
  /\ isMaster = [p \in Proc |-> TRUE]
  /\ keys = [p \in Proc |-> [s \in Slot |-> "none"]]
  /\ path = [p \in Proc |-> "ctr_state.dat"]
  /\ stage = [p \in Proc |-> Menu]
  /\ table = [p \in Proc |-> Fresh]
  /\ files = [d \in Directory |-> [f \in Path |-> NoRows]]
  /\ frame = [d \in Directory |-> NoFrame]
  /\ unread = {}
  /\ used = [s \in Slot |-> {}]
  /\ reused = {} /\ missed = {} /\ failed = {}
  /\ selfTest = "PASS" /\ habits = {}

Launch(p) ==
  /\ p \notin running
  /\ running' = running \cup {p}
  /\ cwd' \in {[cwd EXCEPT ![p] = d] : d \in Directory}
  /\ UNCHANGED <<isMaster, keysLoaded, ranOnce, keys, path, stage, table, files, frame, history>>

\* Option 6, or the end of the process anywhere: all but the files is gone.
Quit(p) ==
  /\ p \in running
  /\ running' = running \ {p}
  /\ keysLoaded' = keysLoaded \ {p}
  /\ ranOnce' = ranOnce \ {p}
  /\ isMaster' = [isMaster EXCEPT ![p] = TRUE]
  /\ keys' = [keys EXCEPT ![p] = [s \in Slot |-> "none"]]
  /\ path' = [path EXCEPT ![p] = "ctr_state.dat"]
  /\ stage' = [stage EXCEPT ![p] = Menu]
  /\ table' = [table EXCEPT ![p] = Fresh]
  /\ UNCHANGED <<cwd, files, frame, history>>

(***************************************************************************)
(* Options 1 and 2.                                                        *)
(***************************************************************************)

AtMenu(p) == p \in running /\ stage[p] = Menu

\* Without "reswitch" a process keeps its mode once it has run an exchange.
SwitchMode(p) ==
  /\ AtMenu(p)
  /\ "reswitch" \in Options \/ p \notin ranOnce
  /\ isMaster' = [isMaster EXCEPT ![p] = ~@]
  /\ habits' = habits \cup (IF p \in ranOnce THEN {"reswitch"} ELSE {})
  /\ UNCHANGED <<running, cwd, keysLoaded, ranOnce, keys, path, stage, table, files, frame,
                 unread, used, reused, missed, failed, selfTest>>

KeyInit(p) ==
  /\ AtMenu(p)
  /\ keys' = [keys EXCEPT ![p] = [s \in Slot |-> IF s \in FileKeys THEN "file" ELSE @[s]]]
  /\ keysLoaded' = keysLoaded \cup {p}
  /\ UNCHANGED <<running, cwd, isMaster, ranOnce, path, stage, table, files, frame, history>>

KeyInitFails(p) ==
  /\ AtMenu(p)
  /\ keysLoaded' = keysLoaded \ {p}
  /\ UNCHANGED <<running, cwd, isMaster, ranOnce, keys, path, stage, table, files, frame, history>>

(***************************************************************************)
(* Option 3: reset, provision and use both directions of the test address. *)
(* The frames are checked, or made, by hand for counter 0. Every change of *)
(* the table is persisted to whatever state_path is.                       *)
(***************************************************************************)
SelfTest(p) ==
  LET out == <<TestAddr, M2S>>
      in  == <<TestAddr, S2M>>
      t1  == Cleared(table[p], out)
      t2  == Reserve(t1, out, 0, TestLen)
      t3  == Cleared(t2, in)
      t4  == Reserve(t3, in, 0, TestLen)
  IN /\ "selftest" \in Options
     /\ AtMenu(p)
     /\ keys' = [keys EXCEPT ![p] = Provisioned(Provisioned(@, out), in)]
     /\ table' = [table EXCEPT ![p] = t4]
     /\ files' = [files EXCEPT ![cwd[p]][path[p]] = Rows(t4)]
     /\ selfTest' = IF NextCtr(t1[out], 0) = 0 /\ NextCtr(t3[in], 0) = 0
                    THEN selfTest ELSE "FAIL"
     /\ habits' = habits \cup {"selftest"}
     /\ UNCHANGED <<running, cwd, isMaster, keysLoaded, ranOnce, path, stage, frame, unread,
                    used, reused, missed, failed>>

(***************************************************************************)
(* Option 5. Both modes first point state_path at their file and load it,  *)
(* over the table as it is.                                                *)
(***************************************************************************)
\* Wrong: one file for both modes.
ModePath_one(p) == "ctr_state.dat"

ModePath(p) == IF isMaster[p] THEN "ctr_state.dat" ELSE "ctr_state_recv.dat"

\* Wrong: the file is read before the first exchange of a process only.
Loaded_once(p) == IF p \in ranOnce THEN table[p] ELSE Merge(table[p], files[cwd[p]][ModePath(p)])

Loaded(p) == Merge(table[p], files[cwd[p]][ModePath(p)])

\* Without "overlap" no process starts while another waits on the same file.
FileIsFree(p) ==
  \/ "overlap" \in Options
  \/ \A q \in Proc \ {p} : stage[q] = Menu \/ path[q] # ModePath(p) \/ cwd[q] # cwd[p]

StartExchange(p) ==
  /\ AtMenu(p) /\ FileIsFree(p)
  /\ p \in keysLoaded
  /\ path' = [path EXCEPT ![p] = ModePath(p)]
  /\ ranOnce' = ranOnce \cup {p}
  /\ UNCHANGED <<menu, selfTest, habits>>

\* The state after ctr_state_next_outgoing for slot s on table t; bound: no
\* counter wraps.
ReserveAndPersist(p, t, s, len) ==
  /\ NextOut(t[s], Seed(p, s), len) < CtrMod
  /\ table' = [table EXCEPT ![p] = Reserve(t, s, Seed(p, s), len)]
  /\ files' = [files EXCEPT ![cwd[p]][ModePath(p)] = Rows(table'[p])]

\* A message of slot s is encrypted at the counter of table t.
Encrypts(p, t, s, len) ==
  LET spent == Keystream(NextCtr(t[s], Seed(p, s)), len)
  IN IF keys[p][s] = "file"
     THEN /\ used' = [used EXCEPT ![s] = @ \cup spent]
          /\ reused' = IF used[s] \cap spent = {} THEN reused ELSE reused \cup {s}
     ELSE UNCHANGED <<used, reused>>

\* Nothing is encrypted or authenticated: only the load has happened.
OnlyLoaded(p) ==
  /\ table' = [table EXCEPT ![p] = Loaded(p)]
  /\ UNCHANGED <<files, frame, unread, used, reused, missed, failed>>

MasterWithoutKey(p, a) ==
  /\ StartExchange(p)
  /\ isMaster[p]
  /\ keys[p][<<a, M2S>>] = "none"
  /\ OnlyLoaded(p)
  /\ UNCHANGED stage

\* run_as_master to address a, up to its frame: the counter is spent whatever
\* becomes of it.
BuildRequest(p, a, len) ==
  /\ StartExchange(p)
  /\ isMaster[p]
  /\ keys[p][<<a, M2S>>] # "none"
  /\ ReserveAndPersist(p, Loaded(p), <<a, M2S>>, len)
  /\ Encrypts(p, Loaded(p), <<a, M2S>>, len)
  /\ UNCHANGED failed

\* No port: the frame is written to sent_frame.bin, or cannot be.
RunMaster(p, a, len) ==
  LET s == <<a, M2S>>
      d == cwd[p]
  IN /\ BuildRequest(p, a, len)
     /\ \/ /\ frame' = [frame EXCEPT ![d] =
                         [addr |-> a, key |-> keys[p][s],
                          pos |-> NextCtr(Loaded(p)[s], Seed(p, s)), len |-> len]]
           /\ unread' = unread \cup {d}
           /\ missed' = IF d \in unread THEN missed \cup {frame[d].addr} ELSE missed
        \/ /\ missed' = missed \cup {a}
           /\ UNCHANGED <<frame, unread>>
     /\ UNCHANGED stage

\* The port is opened and the frame written, or not.
MasterSends(p, a, len) ==
  /\ "port" \in Options
  /\ BuildRequest(p, a, len)
  /\ stage' \in {stage, [stage EXCEPT ![p] = <<"reply", a>>]}
  /\ missed' = missed \cup {a}
  /\ UNCHANGED <<frame, unread>>

\* run_as_slave with the configured address a, by what becomes of the frame:
\* there is none, it is for another slave, there is no key, or its HMAC is
\* under another key.
Admits(p, a) ==
  LET f == frame[cwd[p]]
  IN f # NoFrame /\ f.addr = a /\ keys[p][<<a, M2S>>] = f.key

SlaveRejects(p, a) ==
  /\ StartExchange(p)
  /\ ~isMaster[p]
  /\ ~Admits(p, a)
  /\ OnlyLoaded(p)
  /\ UNCHANGED stage

RunSlave(p, a) ==
  LET s == <<a, M2S>>
      d == cwd[p]
  IN /\ StartExchange(p)
     /\ ~isMaster[p]
     /\ Admits(p, a)
     /\ ReserveAndPersist(p, Loaded(p), s, frame[d].len)
     /\ failed' = IF NextCtr(Loaded(p)[s], Seed(p, s)) = frame[d].pos
                  THEN failed ELSE failed \cup {a}
     /\ missed' = IF d \in unread THEN missed ELSE missed \cup {a}
     /\ unread' = unread \ {d}
     /\ UNCHANGED <<stage, frame, used, reused>>

SlaveListens(p, a) ==
  /\ "port" \in Options
  /\ StartExchange(p)
  /\ ~isMaster[p]
  /\ OnlyLoaded(p)
  /\ stage' = [stage EXCEPT ![p] = <<"request", a>>]

(***************************************************************************)
(* The waiting ends: with an authentic frame, or without one. The counters *)
(* move on in the table that was loaded before, and the whole of it goes   *)
(* into the file.                                                          *)
(***************************************************************************)
BackToMenu(p) ==
  /\ stage' = [stage EXCEPT ![p] = Menu]
  /\ UNCHANGED <<menu, ranOnce, path, frame, unread, failed, selfTest, habits>>

\* Timeout, I/O error, a frame that is malformed, for others or not authentic.
StopWaiting(p) ==
  /\ stage[p] # Menu
  /\ BackToMenu(p)
  /\ UNCHANGED <<table, files, used, reused, missed>>

\* The reply is decrypted, or fails its CRC; its counter is spent either way.
TakeReply(p, a, len) ==
  /\ stage[p] = <<"reply", a>>
  /\ keys[p][<<a, S2M>>] # "none"
  /\ ReserveAndPersist(p, table[p], <<a, S2M>>, len)
  /\ BackToMenu(p)
  /\ UNCHANGED <<used, reused, missed>>

\* The request fails its CRC, or there is no key to answer it with.
TakeRequest(p, a, len) ==
  /\ stage[p] = <<"request", a>>
  /\ keys[p][<<a, M2S>>] # "none"
  /\ ReserveAndPersist(p, table[p], <<a, M2S>>, len)
  /\ missed' = missed \cup {a}
  /\ BackToMenu(p)
  /\ UNCHANGED <<used, reused>>

\* The request is executed and answered, with a reply of another length.
AnswerRequest(p, a, len, replyLen) ==
  LET in  == <<a, M2S>>
      out == <<a, S2M>>
      t   == Reserve(table[p], in, Seed(p, in), len)
  IN /\ stage[p] = <<"request", a>>
     /\ keys[p][in] # "none" /\ keys[p][out] # "none"
     /\ NextOut(table[p][in], Seed(p, in), len) < CtrMod
     /\ ReserveAndPersist(p, t, out, replyLen)
     /\ Encrypts(p, t, out, replyLen)
     /\ missed' = missed \cup {a}
     /\ BackToMenu(p)

Next ==
  \E p \in Proc :
    \/ Launch(p) \/ Quit(p) \/ SwitchMode(p) \/ KeyInit(p) \/ KeyInitFails(p)
    \/ SelfTest(p)
    \/ \E a \in Addr :
         \/ MasterWithoutKey(p, a) \/ SlaveRejects(p, a) \/ RunSlave(p, a)
         \/ SlaveListens(p, a)
         \/ \E len \in FrameLen :
              \/ RunMaster(p, a, len) \/ MasterSends(p, a, len)
              \/ TakeReply(p, a, len) \/ TakeRequest(p, a, len)
              \/ \E replyLen \in FrameLen : AnswerRequest(p, a, len, replyLen)
    \/ StopWaiting(p)

Spec == Init /\ [][Next]_vars

(***************************************************************************)
(* Properties.                                                             *)
(***************************************************************************)

\* Every variable has its type, and a process that is not running has nothing.
TypeOK ==
  /\ running \subseteq Proc /\ keysLoaded \subseteq running /\ ranOnce \subseteq running
  /\ isMaster \in [Proc -> BOOLEAN]
  /\ keys \in [Proc -> [Slot -> {"none", "file", "test"}]]
  /\ path \in [Proc -> Path]
  /\ stage \in [Proc -> Stage] /\ \A p \in Proc \ running : stage[p] = Menu
  /\ table \in [Proc -> [Slot -> Entry]]
  /\ \A p \in Proc \ running : table[p] = Fresh /\ isMaster[p]
  /\ cwd \in [Proc -> Directory]
  /\ \A d \in Directory, f \in Path :
       DOMAIN files[d][f] \subseteq Slot /\ files[d][f] \in [DOMAIN files[d][f] -> Entry]
  /\ frame \in [Directory -> Frame \cup {NoFrame}]
  /\ unread \subseteq Directory
  /\ used \in [Slot -> SUBSET Ctr]
  /\ reused \subseteq Slot /\ missed \subseteq Addr /\ failed \subseteq Addr
  /\ selfTest \in {"PASS", "FAIL"} /\ habits \subseteq {"selftest", "reswitch"}

\* No master, and no slave that answers, consumes a keystream block of
\* keys.txt twice, whichever process it is, however often it is restarted or
\* changes its mode (ctr_state.h:1-2; main.c:285-286 loads the file of the
\* mode before every exchange).
NoKeystreamReuse == reused = {}

\* That holds until somebody runs the self-test, which writes a table it has
\* not loaded (main.c:333).
NoReuseBeforeSelfTest == "selftest" \notin habits => NoKeystreamReuse

\* As long as the slave runs once for every frame the master leaves in
\* sent_frame.bin, every frame of an address verifies (MANUAL.md:624-625).
RoundTripVerifies == failed \subseteq missed

\* That holds until a self-test, or until a terminal leaves the mode of its
\* exchanges, which takes that mode's counters along (main.c:286).
FramesVerifyInOneMode == habits = {} => RoundTripVerifies

\* The self-test passes however often it is run, before and after any exchange
\* in either mode (main.c:330-332, MANUAL.md:618).
SelfTestAlwaysPasses == selfTest = "PASS"
=============================================================================
