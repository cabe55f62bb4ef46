# Verification of the secure Modbus RTU link

This directory holds TLA+ models of the program in `src/`: a Modbus RTU master and slave that
encrypt each frame with LEA-CTR, authenticate it with HMAC-LSH-256 and never send the counter they
encrypted at. TLC checks the models on small instances, and TLAPS proves what matters most about
them for all instances. `PROJECT.json` lists the components, runs, mutants, findings, hazards
and theorems; its `map` gives the source lines each definition stands for.

## 1. The system

A frame on the wire is `address | ciphertext of (address, PDU, CRC-16) | HMAC-LSH-256 tag`. Both ends
keep a counter per slave address and direction (m2s, s2m, bc). Both advance it by the frame's 16-byte
blocks, and because it is not transmitted, *every* property of the link comes down to the two counters
staying level and never going back.

| component | state it keeps | operations | what makes it correct |
|---|---|---|---|
| `keymgmt/ctr_state.c` | `table[248][3]` of `{valid_out, next_out, valid_in, high_in}`; a text file, one row per valid slot | `next_outgoing`, `validate_incoming`, `reset`, `load`, `persist`, `set_path` | a counter used under a key is never used again, reboots included; an accepted counter never decreases; no call loses another slot's row |
| `keymgmt/key_store.c`, `demo/key_paths.c` | keys and `initial_ctr` per slot | `load_file`, `lookup`, `provision`, `get_initial_ctr`; five paths tried in order | keys and seeds of a slot come from one row of one file; a bad row is skipped |
| `framing/secure_frame.c` | none of its own | `parse`, `build`, `encrypt_and_build`, `verify_and_decrypt` | checks in the right order; a counter is spent only for an authentic frame; every length fits its buffer |
| `demo/secure_send_demo.c`, `run_as_master` in `demo/main.c` | one exchange at a time; the run's index and tallies | build, open the port, write, wait up to 30 s, verify; or write a file | a success is a round trip of this request; exit code 0 is a run without a failure |
| `demo/secure_recv_demo.c`, `run_as_slave` in `demo/main.c` | the frame it works on, coils and registers | read, verify, drain, execute, reply | requests are executed in order, once, none skipped |
| `demo/main.c` | mode, settings, loaded keys, the tables above, `sent_frame.bin` | the menu: mode, keys, self-test, settings, exchange, quit | any order of options and restarts keeps the counters safe; every setting is the answer to its question |
| `demo/serial_port.c` | the tty's buffer | open (flush), read until an idle gap of T3.5, write, drain | one read returns one frame when frames are apart; every read ends; no descriptor leaks |
| `modbus/modbus_pdu.c` | 4 tables of 128 coils or registers, filled at first use | `build_request`, `build_response` for 8 function codes | an exception leaves the tables alone; each answer is one atomic step on the tables; replies fit |
| `modbus/modbus_pdu_selftest.c` | none: it runs on the tables the slave serves | 24 cases | it passes whenever the tables are as it expects them |
| `crypto/lea.c`, `lea_ctr.c`, `hmac_lsh.c` | none | wrappers | keystream consumed = blocks reserved |
| `crypto/lea_ref` | round keys; the context of an online operation | key schedule, block cipher, modes, messages in pieces | decryption undoes encryption; pieces give what one call gives |
| `crypto/lsh_ref` | chaining value, the block that is not full | LSH-224 to LSH-512-512, HMAC, pieces of any number of bits | the hash is that of the whole message; the tag is HMAC by definition |
| `demo/demo_log.c`, `demo/rs485_probe.c` | none | output, two ioctls | - |

**How they interact.** A master calls `encrypt_and_build`, which calls `next_outgoing`, which
persists the whole table before it returns; only then is the port opened and the frame written.
Stations on the RS-485 bus all hear the frame. A slave's `verify_and_decrypt` parses, filters the
address, looks up the key, compares the tag, and only then reserves *its* counter (also with
`next_outgoing`: the reserved value is the one it decrypts at); the CRC inside the ciphertext tells
whether the two were level. The reply goes the same way under the s2m keys. In `main.c` two
terminals share counter files, and `sent_frame.bin` when no port is configured.

**What is hard here.** A crash or a failed write between table, file and use of a counter; the
receiver's counter after a frame that was lost, damaged, joined with another or rejected; late
replies read by the next exchange; slaves that stop between taking, executing and answering a
request; menu options in an order nobody ran; two processes on one file, one of which waits; the wrap of
a 32-bit counter; frames told apart by silence alone; lines and rows longer than their buffers; unrolled
rounds and hand-indexed permutations; messages cut into pieces at every point. `hazards` in
`PROJECT.json` lists each at its line, with the properties that would catch it.

## 2. The modules

| module | models | composes |
|---|---|---|
| `CtrTable` | the stateless part of `ctr_state.c`: entries, block arithmetic, rows of the file | - |
| `CtrState` | `ctr_state.c`, one process, its file, crashes | `CtrTable` |
| `CtrState_proofs` | theorems about `CtrState` | `CtrState` |
| `RequestLog` | what the link promises: a station takes the issued requests in order, once, none skipped | - |
| `SecureLink` | master, stations and bus: `secure_send_demo`, `secure_recv_demo`, `run_as_master`, `run_as_slave`, the checks of `secure_frame.c` | implements `RequestLog` |
| `SecureLink_proofs` | theorems about `SecureLink` | `SecureLink` |
| `SecureDemo` | `main.c`: processes, modes, key and counter tables, counter files, `sent_frame.bin`, exchanges over a port | `CtrTable` |
| `SecureDemo_proofs` | theorems about `SecureDemo` | `SecureDemo` |
| `EnvConfig` | `main.c`'s console: the menu and the questions of option 4, line by line | - |
| `DataModel` | what a Modbus device promises: each answer one atomic step on four tables | - |
| `ModbusPdu` | `modbus_pdu.c`: both operations, eight function codes | implements `DataModel` |
| `ModbusSelfTest` | `modbus_pdu_selftest.c` on the slave's tables | `ModbusPdu` |
| `DemoRuns` | `main` of `secure_send_demo.c` and `secure_recv_demo.c`: runs of many frames, to files or over a port | `ModbusPdu` |
| `DemoRuns_proofs` | theorems about `ModbusPdu` and `DemoRuns` | `DemoRuns` |
| `SerialPort` | `serial_port.c`, POSIX and Windows: open, write, read by T3.5, drain | - |
| `SerialPort_proofs` | theorems about `SerialPort` | `SerialPort` |
| `KeyStore` | `key_store.c` and `key_paths.c`: the file search, lines, rows, lookups | - |
| `SecureFrame` | `secure_frame.c` and the crypto wrappers byte by byte | - |
| `SecureFrame_proofs` | theorems about `SecureFrame` | `SecureFrame` |
| `Lea`, `LeaLaws`, `Lea_proofs` | `lea_core.c`: key schedule, both directions of the cipher; what is asked of words; theorems | - |
| `LeaModes`, `LeaOnline` | ECB, CBC, CTR, OFB, CFB; `lea_online.c`, a message in pieces | `LeaOnline` uses `LeaModes` |
| `LeaOnline_proofs` | theorems about `LeaModes` and `LeaOnline` | `LeaOnline` |
| `LshWords`, `LshCompress`, `Lsh256`, `Lsh512` | the words, compression and tables of the two hash families | in that order |
| `LshBuffer`, `LshStream` | the calls of `lsh.c`: types, pieces, bits, padding; a caller of them | `LshStream` uses `LshBuffer` |
| `Hmac` | `hmac.c` and `hmac_lsh.c` | `LshBuffer` |
| `MCCtrState`, `MCSecureLink`, `MCSecureDemo`, `MCModbusPdu`, `MCKeyFiles`, `MCSweeps` | constants of the runs | the module of that name; `MCSweeps` is of `DemoRuns` |
| `MCDemoHabits` | one component under several sets of constants | `SecureDemo` |
| `MCLine`, `MCPrograms`, `MCCipher`, `MCHash`, `MCCrypto` | several components, one at a time | those of section 3; `MCCrypto` has the parts of `MCCipher` and `MCHash` |

A module of the last two kinds has a variable (`habit`, `part`) that `Init` chooses and nothing changes: it
says which instance a behaviour belongs to. The instances share no step, so one run checks each as it would alone,
and a property is the conjunction of what it says of each. A property that speaks of variables all of them
share (`TypeOK`, `WholeFrames`, `NoReuseBeforeSelfTest`) is checked in every one. `MCCtrState` does the same with `both`, which narrows the calls that are looked at.

Conventions: history variables (marked so) record what happened and no action's guard reads them,
except the bounds named below. An operator with an underscore in its name, commented
"Wrong:", is a plausible bug in the definition after it; `mutants` pairs each with a property that
must catch it.

### CtrState

`table` and `file` are the code's table and the rows of the file. One call is up to four steps,
because a process can die between any two system calls: the table changes (`persist` next), `fopen(..., "w")`
truncates (`writing`), `fclose` completes the rows (`return`), the caller uses the
counter. A crash while rows are in flight, or a full disk, leaves a prefix of the rows in their written
order (address, then direction), the last of which may have lost digits of its last number and still scan
(`WriteCutShort`; `Radix` is the base of the numbers, 10 in the code). `fopen`, `fprintf` and `fclose`
may fail; no caller looks at the result, and the process goes on. A restart
starts from an empty table and merges the file's rows into it; `Reload` is the same load in a running
process, as `main.c:286` does before each exchange. A load may fail as well: its `fopen` yields no row, a read error in
its loop only the first rows (`RowsRead`), and `main.c:286`, `secure_send_demo.c:147` and `secure_recv_demo.c:159` go on
with what they have; the next call that persists then writes over the rows that were not read (`GiveUp`). `Reset` is used as its header says, when the slot
gets a new key, so it ends the slot's history. `InitialCtr` is the seed of `key_store_get_initial_ctr`.
The text of a row is abstracted to slot and entry. The file has one writer here; several processes are `SecureDemo`'s subject.

History variables: `used` (keystream blocks consumed per slot), `reused`, `lastAccepted`, and four sets of
slots that record what happened to a slot's own row: `stale` (a persist did not write it), `unread` (the last load did
not get to it), `lost` (the slot's counters came from a stale or damaged row, or were made anew though the file had one)
and `wrapped` (the 32-bit counter went round). The properties excuse these slots only: a row that was cut
short excuses no other slot.

`ctr_state_validate_incoming` is modelled because `ctr_state.h` offers it, but no program calls it (`ctr_state.h:18`,
MANUAL.md:59: the receivers keep their counters in step with the master's instead). So `AcceptedNeverDecreases` is a
property of an operation that is not in use yet, and the receive columns of the file are 0 in practice.

### SecureLink

A frame is an address, the direction whose keys made it, the counter it was encrypted at, its length in
blocks, a request number (history) and whether its bytes are `intact`, `altered` (parses, wrong
tag) or `short` (does not parse). The tag is uninterpreted: it matches exactly when the bytes are intact
and the receiver looks under the direction that made it. The CRC matches exactly when the frame was
encrypted at the receiver's counter; a 2^-16 collision is not modelled. Counters are naturals, as their
wrap and their durability are `CtrState`'s: here they survive `SlaveStops` and a killed master.

Each station has one input buffer (`rx`, `mrx`). A read returns all of it (the largest frame
the program builds, 288 bytes, is one less than the buffer, so two frames in a buffer always
come out as one): `Joined` makes one `altered` frame of two. `SlaveReads`, the verdict
(`SlaveRejects`, `SlaveMisdecrypts`, `SlaveDecrypts`), `SlaveExecutes`, `SlaveBuildsReply` and
`SlaveReplies` are separate steps because frames arrive, and processes die, between them.
`secure_recv_demo` (a station in `AnyAddr`) takes frames of any address and reads on, draining
the port after a bad frame; `run_as_slave` takes its own address and closes the port after one frame.
The master is `idle`, has `built` a frame (its counter is spent), or is `waiting` with the port open.
Stations start listening, as `README.md` has the slave started first.

`Faults` selects what may go wrong: `loss` (a bus write reaches some of the stations), `damage`, `noise`
(a read ends on bytes that are no frame: a glitch, or the first part of a frame whose rest is late),
`send_fails` (open or write fails, or the master is killed), `gives_up` (the wait ends although a
reply is coming, or a success is not recorded), `slave_stops`. Without `gives_up` the master's 30 s are
taken to outlast the milliseconds a slave works (`Quiet`).

### SecureDemo

Processes of the interactive program, each started in some `Directory` (`cwd`), whose counter files and
`sent_frame.bin` it uses. Without a port no option waits for anything, so an option is one step. With a port an
exchange is two (`stage`): a master loads its file, spends the request's counter and waits for a reply
(`MasterSends`, then `TakeReply` or `StopWaiting`), a slave loads its file and waits for a request
(`SlaveListens`, then `TakeRequest`, `AnswerRequest` or `StopWaiting`). What arrives is any frame, or none. The
second step moves the counter of the table *loaded in the first* and writes the whole of it.

Key slots hold `none`, the `file` key, or the self-test's `test` key. `used` counts only blocks under
keys of `keys.txt`, as every self-test makes its key anew from the test vectors and encrypts test data.
`missed` records addresses whose frame no slave read, or read twice, the proviso of `RoundTripVerifies`. `habits` records that somebody
has run the self-test, or has changed the mode of a process after an exchange: the two things whose effect on the files outlasts them.
What the code promises on its own, `NoKeystreamReuse` and `RoundTripVerifies`, it does not keep (`demo_wipe`, `demo_switch`);
`NoReuseBeforeSelfTest` and `FramesVerifyInOneMode` say the same up to the first of those, of every order of all other options.
`Options` selects what processes do: `selftest`, `reswitch` (change the mode after an exchange), `port`, and
`overlap` (an exchange starts while another process waits on the same file; without it `FileIsFree` forbids this).
`SelfTestAlwaysPasses` is about the cryptographic part of option 3; its Modbus part is `ModbusSelfTest`'s.

### EnvConfig

One line of input is the pieces `fgets` takes it in; `stdin` holds what was typed and not read. `wanted` is
the last answer each question admits (history). The menu reads a number and drops the line; after the end of
input it spins (`MenuSpins`), as the code does.

### ModbusPdu, DataModel, ModbusSelfTest

A PDU is its function code and the bytes after it; `body[i]` is `pdu[i]`. `Malformed` and `Reply` follow the code's
checks in their order. A byte has `Width` bits, so that a small instance still has coils that fill a byte, spill into the next, and
quantities past the table's end and past the protocol's limit. `Carried` is what a request does to the tables;
`EnsureTables` fills them at first use. `DataModel` says nothing of PDUs: a read returns the named entries, a write
changes exactly those, a refusal changes nothing. `DeviceKept` is the refinement: each `Answer` is one step of it.
`ModbusSelfTest` has the 24 cases as data, run one after the other between exchanges.

### DemoRuns

One exchange is one step: built and lost, rejected, or executed with the reply heard or not. The tables, the
counters of both ends, the tallies and the files are state; `Regs` is the code's integer division and `SweepPdu` its PDU.
A reply is never late here (that is `SecureLink`'s finding), and `fwrite` may be cut short without anybody noticing.
`SweepFits` is what a sweep takes for granted of the slave: its 123 registers are within the slave's limit and table, and no value
it writes is wider than a word.

### SerialPort

Bytes travel from the writer's transmit queue over the wire into the reader's buffer, in ticks of time. A
read is the code's loop: `select`, then `read`, then `select` again with the idle interval (`SelectReady`,
`ReadSome`, `SelectTimeout`), or a single `ReadFile` under `COMMTIMEOUTS`. A `read` of 0 bytes, which a terminal gives when the line
hangs up, ends the read with what has arrived (`ReadNone`). A short `write` is continued, a `WriteFile` that its total timeout
ends early is given up (`WriteEnds`). Signals, failing calls, a
late reader, a buffer smaller than the frame and the flush at open are actions or bounds. `gone`, `lost` and
`cut` (the last bytes of reads that the total timeout of `ReadFile` or a `read` of 0 bytes ended) are history.

### KeyStore, SecureFrame

`KeyStore` has files as sequences of lines and lines as words with lengths; `fgets`'s 256 bytes and the
field widths of `sscanf` cut them (`SplitAt`, `Scan`). Files may be edited between two loads and a read may fail.
`SecureFrame` computes every byte, length and CRC; the keystream (`Pad`), HMAC and exclusive or are constants
(the run's stand-ins for the first two differ in every argument; the third is the real one). `Damage` cuts, lengthens, doubles or changes a frame on
the wire. `SecureFrameAssumption`, `ExorUndoes` and `NoForgery` say what the properties take for granted of the constants.

### The cipher and the hash

`Lea` runs one round key and one round per step; the code's 144 to 192 unrolled assignments follow one rule,
which the module states. Words are abstract, with the laws of `LeaLaws`; `MCCipher` gives it real ones too. `trace` keeps the
block before each round (history). `LeaOnline` gives the context after a piece and what was written; the reference is `LeaModes`
on the whole message. `LshCompress` is one algorithm for both families; the step constants are given by the recurrence that makes the code's
table (checked equal to it), the initial values by the code's tables *and* the code's general initialisation. `LshBuffer` keeps the bytes
that earlier blocks left in the buffer, since the padding must overwrite them. `Hmac` runs the outer hash in the context of the inner one.

## 3. The runs

| run | shows | bounds, and why they suffice |
|---|---|---|
| `ctr_slots` | One slot with every length, incoming counter and failure of the file, and two slots whose rows share the file: no keystream block is used twice and no accepted counter falls, through crashes at every step of a persist, loads and writes that fail or end early included, unless the counter wrapped or the slot's own row was damaged, left behind by a failed persist, or not read before it was overwritten. | slot 1 with messages of 0 and 17 bytes (one and two blocks), incoming counters 1 and 3, and every fault of a write or a load; or two slots with one length and no `fopen` that fails for writing, enough for one to lose the row of the other, or to be read without it. A counter of 6 values wraps within three messages. Rows interact only through the file, so a third slot adds nothing |
| `ctr_header` | *violation*: A persist whose fopen fails is not noticed: after a restart the counter is used again. | the same with one length and `fopen` as the only failure |
| `link_faults` | One station, three requests, every fault of the line and of both ends: requests are taken in order and without gaps, executed at most once, a lost one stops all later ones, and a reported success was executed. | 1 station, 3 requests, frames of 1 and 2 blocks (being behind by one frame differs from being behind by another), all faults. Stations share no counters, so one suffices for these properties |
| `link_good` | Two stations on a bus without faults, one of which cannot answer: between exchanges the counters of both ends agree, every request to the other one is confirmed, and by its own reply. | 2 stations: `secure_recv_demo` and `run_as_slave` side by side, the latter without a key to answer with; 2 requests per address, frames of 1 and 2 blocks, so that a request, a reply and those of the other address differ in length; no faults |
| `link_stale` | *violation*: One read of the master that ends on noise is enough: the reply to the request before makes the next one a success. | 1 station, 2 requests, noise only |
| `demo_modes` | Two processes of secure_demo with one counter file for each mode, used by file, over a port or for the self-test, each with restarts and changes of mode: until a self-test no counter is used twice, until that or a change of mode every file is verified, and every self-test passes. | `modes`: 2 terminals change their mode, one key, lengths 16 and 17, counter below 6; `files`: each keeps its mode, keys for both addresses, below 8; `ports`: both directions have keys, 1 address, a port, below 4; `selftest`: 1 terminal, self-tests and mode changes, below 5 |
| `demo_wipe` | *violation*: A self-test in a fresh process rewrites ctr_state.dat without the rows that were never loaded, and the next exchange starts again at initial_ctr. | 1 terminal, self-tests |
| `demo_switch` | *violation*: Master, then option 1, then slave in one process: with no ctr_state_recv.dat the slave keeps the master's counter and the frame fails its CRC. | 1 terminal that changes its mode |
| `programs` | The parts that run on their own: the slave's application layer against the abstract device, the self-test, the search for keys, the settings of option 4, and the bytes of a frame, intact and damaged. | `device`: bytes of 3 bits, tables of 3 entries, limits on both sides of the table; addresses and quantities at 0, the ends, the limits and the largest word; requests cut, lengthened or changed in a byte. `selftest`: the code's sizes; exchanges that keep off the entries the self-test looks at. `keys`: 3 of the 5 places, 4 contents, 2 loads, 2 edits, 1 failing read. `menu`: answers on both sides of every range, 2 settings away from their defaults. `frame`: PDUs of 0, 14 (the limit) and 15 bytes, the real CRC, 2 frames, 2 reads |
| `sweeps` | Sweeps of the two one-shot programs with the sizes of the code, over a port and to files one after the other: exit code 0 means that the last frame is in the slave's registers, or that the files are a sweep a slave can follow. | the code's sizes; runs of 1 and 3 frames (first, middle and last of a sweep), 2 runs of the sender, over the port or to files in any order, any of the receiver |
| `line` | Both builds of the serial port, with partial writes, signals, a line that hangs up and every failure of opening: frames come whole, or in the parts WholeFrames names, bytes in order, no descriptor is lost, and every read ends. Two stations on a line that loses and damages frames, with ports that fail and stations that stop: every exchange ends, and a success is the reply to that very request. | `posix`, `win32`: 2 frames (the first longer than the buffer, so that what a short write leaves of it may fit), ticks of 10 ms at 9600 baud, silences that outlast a reader that comes up to two ticks late, one failure, and on POSIX one signal. `bus`: 2 stations running `run_as_slave`, one without a key to answer with, 2 requests per address, frames of 1 block, loss, damage, failing sends, stopping slaves |
| `crypto` | The cipher on all blocks of a small word size and on the published vectors, its online interface in every cut of a message, both hash families on vectors with their real words and tables, the buffering of pieces of any number of bits, and HMAC over them. | `blocks`: words of 2 bits, all 256 blocks, one key of each length, in every order. `words`: 32 bits, the published vector of each length. `online`: blocks of 2 bytes of 3 bits, messages of up to 5 bytes (they span every edge of a block twice) in all cuts. `lsh256`, `lsh512`: real words, "abc" and a block that is full but for its last byte, every type with a table and one without (values published or taken from the compiled library). `bits`, `tag`: bytes of 3 bits, blocks of 2 and 3 bytes, messages of up to 11 bits (more than a block of either family) under an injective compression, keys of 0, 2, 3 and 4 bytes |

Named bounds: `MaxRequests` (`SecureLink!Build`), `MaxChanged` (`EnvConfig`: settings away from their defaults at a time), `CtrMod` (`CtrState`: the wrap itself; `SecureDemo`:
`ReserveAndPersist` stops before it, since only `CtrState` studies the wrap; `KeyStore`: the width of `initial_ctr`), `MaxRuns`
(`DemoRuns!StartSender`), `MaxLoads`, `MaxEdits`, `MaxFaults` (`KeyStore`), `MaxSent`, `MaxReads` (`SecureFrame`), `MaxBusy`,
`MaxEintr`, `MaxFaults` (`SerialPort`), `MaxFed` (`LeaOnline`, `Hmac`), `MaxBits` (`LshStream`).
Deadlock is checked except in `link_faults`, `link_stale` and `sweeps`, which really stop when all their requests or runs are over.
In `link_good` and `programs` it is: a bus that has dealt with all its requests (`AllServed`) and a receiver that has read all its frames
(`FramesDone`) are given a step, and any other state without one is an error.

**Fairness.** `SecureLink!FairSpec` has weak fairness of `MasterStep` (send, time out, reject, take
the reply) and of `SlaveStep(s)`: a started exchange waits for no user, each step is straight-line
code or a `select` with a timeout. `SerialPort!Fairness` has it for time, for the delivery of bytes that were written,
for a `write` that makes progress and for the steps inside a read; nothing is assumed of the caller, of
signals (`MaxEintr` of them) or of failures. `MCLine` restates both, each for its own part, and `MCSecureLink!GoodSpec` that of the link. Nothing is assumed of `Build` and `SlaveOpens` (a user starts an
exchange, or a slave) nor of any fault.

### Findings

1. `ctr_state_next_outgoing` ignores a failed persist and hands out a counter no file remembers (`ctr_header`).
2. A reply is matched to nothing but its address and counter: a late one makes the next request a success (`link_stale`).
3. `do_self_test` persists a table that was never loaded, so the README's own order of options
   (2, 3, then 5) makes the next exchange start again at `initial_ctr` under the same key (`demo_wipe`).
4. `ctr_state_load` leaves the table alone when there is no file, so the mode switch the manual
   describes decrypts at the other mode's counter (`demo_switch`).

Smaller disagreements met on the way, which no run is spent on: MANUAL.md:338 gives `SECURE_FRAME_MAX_WIRE_LEN` as
288, `secure_frame.h:23-24` adds up to 289; the check of padding in `lea_online.c` (`i > 0x16`) admits a last byte of 0 and of 17 to 22
(`LeaOnline` has `PadLimit` for it); `hmac_lsh_init` refused for its type leaves the key pads written over an old context;
`secure_send_demo` counts an authentic exception reply as a success (harmless: no request of its sweep is refused, which
`ExitMeansWritten` includes); the two demos default to different speeds, 115200 and 9600 baud.
Some of them take a behaviour that the runs' constants leave out, and the models have it:

* a master that waited for its reply writes the rows it had loaded over those another process advanced meanwhile
  (`SecureDemo` with the option `overlap`, two processes and one block: a counter is used again);
* the interactive program finds its keys next to the executable and its counters in the current directory: started elsewhere it has
  the one without the other and begins again at `initial_ctr` (`SecureDemo` with `TwoDirectories`);
* option 3 runs on the slave's tables: after one exchange with the default settings the self-test fails (`ModbusSelfTest` with a
  request to write the first registers in `Requests`);
* a frame ends where `select` times out, not where the line was silent: a late reader joins two frames (`SerialPort` with a
  `MaxBusy` that breaks `GoodLine`); and the 30 s of the Windows build bound the whole read, not the wait for the first byte, and can cut a
  frame (`cut` records it, as it does a `read` of 0 bytes; `WholeFrames` excuses no other cut);
* the tail of a comment longer than the line buffer of 256 bytes is read as a row of its own (`KeyStore` with such a comment in
  `Contents`), and a device path longer than the buffer of option 4 is cut and its tail becomes the baud rate (`EnvConfig` with a line of
  two pieces).

## 4. The proofs

`CtrState_proofs` proves, for every set of slots, counter width, seed, message length and fault
(assuming only `CtrTableAssumption` and `CtrStateAssumption`):

* `TypeCorrect`: `Spec => []TypeOK`;
* `FileMatches`: between calls the file is the table's valid rows, except for rows that a persist did not write or a load did not read;
* `CountersNeverReused`: `Spec => []NoCounterReuse`;
* `ReplaysStayRejected`: the action property `AcceptedNeverDecreases`;
* `InductiveInvariant`: `Spec => []IInv`, on which the rest stands.

`NoCounterReuse` is not inductive: it speaks of what has happened, not of what the table and file will
hand out next. `IInv` adds that all consumed blocks of a slot that has no excuse lie below the table's
next counter while the process runs (`UsedBelowTable`), below the *file's* next counter whenever a crash
would leave the file as the only copy (`UsedBelowFile`), and below the value in flight, which with its
blocks lies below the table's next (`InFlightFresh`); and the same three for accepted counters. `DurableInv`
links table and file between calls, slot by slot. It lets a row differ for two reasons: the slot is `stale`, then the table is ahead and
`UsedBelowTable` still holds, but not `UsedBelowFile`; or it is `unread`, then the table has no entry and it is the other way round, until
a call persists and the slot is `lost`. The proof goes variable by variable: lemmas say what each action does to
the pair (table, file), and each conjunct has one step per action that can disturb it. The facts that do not depend on the process (a message's
keystream fits the blocks reserved for it, a merge puts the file's rows on top, counters wrap into their range) are lemmas about `CtrTable`,
which `SecureDemo_proofs` has too.

`SecureLink_proofs` proves, for every set of stations, keys, frame lengths, number of requests and fault
(assuming only `SecureLinkAssumption`):

* `TypeCorrect`: `Spec => []TypeOK`;
* `StepInvCorrect`: `Spec => []StepInv`, on which the rest stands;
* `LinkImplementsLog`: `Spec => RequestsInOrder`, the refinement of `RequestLog`;
* `ExecutedOnce`: `Spec => []AppliedOnce`.

That requests are taken without gaps (`GaplessInv`) is not inductive: it does not say why a frame that
decrypts is the next request. `StepInv` adds that a station's request counter is never *ahead* of a frame
on its way to it and is *level* with one only if that frame is the next request (`BehindInv`), that of two
frames on their way the later built one lies past the earlier (`OrderInv`), and that only the master makes
requests (`MadeInv`). Two steps disturb it. When the station spends an authentic frame (`LinkVerify`),
both its counter and the positions of the frames still on their way are past that frame's blocks; if the station
was strictly behind, it stays so. When the master builds a frame (`LinkBuild`), the frame starts at the
master's counter, for which `BehindInv` makes the same claim. All other steps move no request counter and
put no new request on its way (`CalmStep`, `FewerFrames`). `LinkImplementsLog` then needs only that a frame
that decrypts carries request `Len(taken) + 1` (`NextTaken`); `ExecutedOnce` adds `AppliedInv`, that the request in
hand after the verdict is the last one taken and later than all executed ones.

* `LossForGood`: the action property `LossIsFinal`. A frame that decrypts is the next request (`NextTaken` again), and that one is on its
  way to the station no more; no step brings it back, as only the master makes requests and makes each once.

The other three need `OneAnswer`: of the stations that take the frames of an address, at most one has a key to answer them with. On a bus a
`secure_recv_demo` takes every address, so this excludes a second copy of it, or one beside the station whose keys it shares. It is no convenience:
with two stations that answer TLC finds two requests of one block each where the second station's reply to the first passes for the reply to
the second, and with three requests of one and two blocks one reply that counts for two.

* `SuccessesEarned`: `OneAnswer => (Spec => []SuccessIsEarned)`, with every fault. `EarnedInv` adds where each reply comes from: a station
  works on the last request it took (`WorkInv`), a reply under way was made for a request that has been executed and that its station is past
  (`ReplyInv`), and lies later than every reply already counted (`PastInv`), so none counts twice.
* `SuccessesAreRoundTrips`: if besides no wait ends early (`"gives_up"`) and no read ends on a piece of a frame (`"noise"`),
  `Spec => []SuccessMeansRoundTrip`. `RoundInv` says that whatever a station is busy with or has yet to read is the request
  the master waits with. With `"noise"` it is false, which is the finding of `link_stale`.
* `TablesAgree`: if besides there is no fault at all, `Spec => []CountersInStep`. In the middle of an exchange the tables differ; `TablesInv`
  says by how much: by the request on its way (`Ahead`), by the reply on its way back (`Owed`), by nothing otherwise (`Resting`).

`DemoRuns_proofs` proves of `ModbusPdu`, for tables and limits of any size and any bytes a request carries
(assuming only `ModbusAssumption` and `EntriesAreAddressed`, that a word can name every entry):

* `TablesTyped` and `TypeCorrect`: `Spec => []IInv` and `Spec => []TypeOK`, every entry stays a bit or a word and every byte of a
  reply a byte;
* `SlaveImplementsDevice`: `Spec => DeviceKept`, the refinement of `DataModel`;
* `RepliesFit`: `Spec => []ReplyFits`;
* `BuiltIsCarriedOut`: `Spec => []BuiltIsDone`.

The argument: a request that passes the checks names entries that exist (`Accepted`), what the reply packs is what the
tables hold there (`WordsRead`, `BitsRead`), and a refusal is seen as one (`RefusalSeen`); so each answer is one step of the device.
For `BuiltIsCarriedOut` the same is done from the other end: what a builder lays out in bytes (`HeadBytes`, `WriteLayout`) is what the slave unpacks
(`RegistersBuilt`, with `WordsWritten` for the tables).

`Lea_proofs` proves, for every word size, key table, key and block that satisfy the laws of `LeaLaws` (addition
undone by subtraction, exclusive or by itself, rotations by each other, none of which the 32-bit words of C fail):

* `CipherTyped`: `Spec => []IInv`, every round key in use has been written by the schedule;
* `DecryptionIsInverse`: `Spec => []DecryptUndoesEncrypt`;
* `RoundsAgree`: `Spec => []RoundsMatchSchedule`, the unrolled code runs exactly the rounds the schedule announced (proved only;
  no run lists it, as it is one step of the argument for the theorem above).

One round undoes one round (`RoundUndone`). That decryption ends where encryption began is not inductive;
`Chain` adds that while decryption runs, the block before round r is the one `trace` kept there.

`LeaOnline_proofs` proves, for every block cipher, length of a block, initial value, message and cut (assuming only `LeaOnlineAssumption`: the cipher
has an inverse on blocks, exclusive or of bytes commutes and undoes itself, bytes are 0 to some largest, and the length of a block is a byte, as that of LEA, 16, is):

* `OnlineTypeCorrect`: `Spec => []TypeOK`;
* `PiecesMakeWhole`: `Spec => []PiecesAreOneMessage`;
* `EndedComesBack`: `Spec => []EndedTurnsBack`.

The five modes in both directions are eight functions, some recursive. Each is shown once to be a register that every block moves (`StepOf`) and a block of
output made of the register and the block (`OutOf`): `CryptIs`. Two facts about registers then hold in every mode: what two calls give, the second
with the chaining value the first returned, is what one call gives (`CryptSplit`), if the first message ends on a block; and the other direction
undoes it (`CryptBack`), in the stream modes with a short last block too. `PiecesAreOneMessage` is not inductive: it does not say what the chaining value is. `PieceInv`
adds it: the whole blocks of the message have gone through one call, `iv` is what that call returned, and the rest is held. Two steps disturb it:
an update that fills the held block and processes it with those that follow (`UpdateStep`), and the end of a message, where `PieceInv` becomes
`EndedInv` (`FinalStep`): what is held is processed short, or padded, or decrypted and unpadded.

`SecureDemo_proofs` proves, for any number of processes, directories, addresses and lengths (assuming `SecureDemoAssumption`, and of
`Options` what each theorem names):

* `TypeCorrect`: `Spec => []TypeOK`, with every option;
* `SelfTestPasses`: `Spec => []SelfTestAlwaysPasses`, with every option: the self-test clears its slots and makes its counters anew, whatever was there;
* `KeystreamNeverReused`: `Spec => []NoReuseBeforeSelfTest`, with one directory and without `"overlap"`;
* `FramesVerify`: `Spec => []FramesVerifyInOneMode`, without `"overlap"`, in any number of directories.

Each exclusion, in a hypothesis or in the property, stands for a hazard of the code that the model has and that breaks the property: the self-test's write of
a table that was never loaded (`demo_wipe`), a change of mode between exchanges (`demo_switch`), another start directory (`TwoDirectories`), and two exchanges on
one file (`Overlap`; TLC then finds a counter used twice and, with a second address, a frame that fails). The last two are hypotheses; the other two are
habits, and end what the property says from then on (`HabitFacts`: a habit is never taken back). The common invariant is
`Orderly`: who waits for a frame has the table of its file and nobody else waits on that file (`WaitInv`), and the files hold only rows of slots in use
(`RowInv`). `UsedInv` then puts all that was consumed below the counter the *file* has, so a process that loads before it reserves cannot go
back. `FramesVerify` relates two files: of every address no frame of which was missed, the master's file is level with the slave's, or ahead
by exactly the frame in the directory (`SyncInv`), and nobody has counters its file lacks (`RanInv`).

`SerialPort_proofs` proves (assuming `SerialPortAssumption`), for both builds, every baud rate, number and length of frames, buffer, signals and failures:

* `PortTyped` and `TypeCorrect`: `Spec => [](Typed /\ Paper)` and `Spec => []TypeOK`;
* `NoLeak`: `Spec => []NoDescriptorLeaks`;
* `NoByteLost`: `Spec => []StreamIntact`;
* `FramesAreWhole`: `GoodLine => (Spec => []WholeFrames)`. On a good line the bytes of a frame come closer than the interval T3.5, and the silence after it
  outlasts `MaxFaults + 1` absences of the reader and `MaxEintr + 1` waits. `WholeFrames` excuses the frames that `cut` records;
* `PosixReadsToTheEnd`: in the POSIX build, on a good line, `Spec => [](faults = 0 => ReadsToTheEnd)`: as long as no call has failed, a read that gives
  bytes gives them up to the end of a frame, or a full buffer. No timeout of the loop cuts a frame on a line on which it need not. The proof is
  `FramesAreWhole` and a second invariant, `Flawless`: without a failing call `cut` is empty and every finished write has taken its whole frame.

`GoodLine` asks no more than it must: TLC finds a frame that is cut or joined when either bound is missed by one. The invariant has two halves. `HeldInv` says
which bytes of the current frame are where: taken by the reader, waiting for it, in the transmit queue, three pieces that follow one another and of
which the first begins at the frame's beginning, or after a byte that was lost. `TimeInv` is a budget: the silence so far, the
wait that is running, and what faults and signals may still add stay below the silence that separates frames; so no byte of the next frame comes before
this one is returned. Facts about `FlattenSeq` over any number of frames need induction; `SetInduction` gets it
from the least element of a set (`WFMin` of the library), without an operator as a parameter. A byte at which a total
timeout or a `read` of 0 bytes cut a frame counts like a lost one: the next read may begin after it (`Founded`).

`SecureFrame_proofs` proves, for every set of keys, PDUs of any size, every keystream and every damage (assuming `SecureFrameAssumption` and
`PrimitiveLaws`: exclusive or stays in its width and undoes itself, keystream and tag are bytes of the right number):

* `WholeIsAccepted`: `Spec => Accepted`, an action property: a frame that arrives as it was built, at the counter it was built at, passes every check and gives back
  its PDU, and the counters are level again. That is the CRC and lengths agreeing at both ends, whatever the cryptography is worth;
* `TripIsRound`: `NoForgery => (Spec => RoundTrip)`: and nothing else is accepted, and no damaged frame moves a counter;
* `FramesTyped`: `NoForgery => (Spec => []TypeOK)`: every frame fits its buffers, and the length of a decrypted PDU, a difference of two lengths, never wraps.

`NoForgery`, that no damaged frame carries the tag of its bytes, is what the program trusts HMAC for; it is a property of the key and the frames built,
and false for a hash with collisions among them. TLC evaluates it for the stand-in, as it does `ExorUndoes`; `PrimitiveLaws` ranges over all counters and messages, so TLC
cannot evaluate it, and the stand-ins satisfy it by how they are defined. The CRC is a recursive function: `StepsExist` and `StepsStay` say, by `SetInduction`
again, that such a function exists and stays in its range, and that is all the proof needs of it. The invariant is that the two counters are words (`Counters`) and that
what is on the wire is a frame built at the counter recorded with it (`OnWire`).

`DemoRuns_proofs` proves of `DemoRuns`, for runs of any length (assuming `DemoRunsAssumption` and `SweepFits`):

* `SweepsAreServed`: `RunSpec => [](RunsInv /\ NoneRefused)`;
* `ExitIsWritten`: `RunSpec => []ExitMeansWritten`;
* `FilesHoldSweep`: `RunSpec => []FilesAreSweep`, for runs of at most 123 frames; longer ones repeat a size, which the property excludes.

The integer division of a sweep stays between 1 and 123, reaches both and, in runs of at most 123 frames, grows at every step (`RegsRange`, `RegsGrow`). So every
frame is one that the slave carries out (`SweepFrame`, `SweepCarried`, both from the lemmas on `ModbusPdu`). `FilesInv` says of a run
under way that its files so far follow each other's counters and that the master's counter is where the last one ends.

Not proved, and only model-checked:

* liveness and `ENABLED`, which are out of the prover's reach: `ExchangeEnds`, `EveryRequestConfirmed`, `ReadEnds`;
* what is computed by recursion over data or by bits: `HashesAgree`, `HashOfWhole` and `TagIsHmac` of the hash and HMAC,
  `FirstFileWins` of `KeyStore`. Their definitions are recursive, or folds, and
  what a fold returns for every input takes an induction that must be made by hand, as was done for the CRC, for `FlattenSeq` and for the modes of `LeaModes`;
* `PublishedVectors` and the 24 cases of `SelfTestPasses`, which are values of fixed tables: TLC evaluates them;
* `AnswersKept` of `EnvConfig`: it does not hold for every constant, as a line of two pieces answers two questions (section 3).

The hypotheses about the constants of `SecureDemo`, `SerialPort`, `DemoRuns`, `SecureFrame` and `LeaOnline`, and those of `KeyStore` and `EnvConfig`, are operators, because a run module has
several instances of them; `MCPrograms`, `MCDemoHabits`, `MCSweeps`, `MCCipher` and `MCLine` assert them of each instance.

## 5. Not modelled

* CCM, CMAC and GCM of `lea_ref` (`lea_cmac.h`, `lea_gcm.h`, and their tables): nothing in `src/` calls them.
* The NEON code, the block-parallel headers and the choice of CPU in `lea_base.c`: the same rounds on several blocks.
* The one-call digests of `lsh_ref`: init, update and final in a row.
* `demo_log.c`, `rs485_probe.c`: output and two ioctls. Log text everywhere.
* That HMAC and the keystream are secure: tags and pads are functions here, and a 2^-16 collision of the CRC
  is left out of `SecureLink`.
* A frame that the line delivers twice, or much later: `SecureLink` loses, damages and delays frames only. `SecureFrame` reads one frame
  more than once, which moves the receiver's counter, but what a second reading gives is not a property: the CRC may agree by chance.
* A request that the master cannot build (`main.c:134-140`): it returns before it reserves a counter, so `SecureDemo` has no step for it.
* What the compiler makes of `modbus_t35_us(0)`, a conversion of infinity to `long`; the rate 0 is refused a moment later.

## 6. Plan

What is left, in order:

1. Theorems: `AnswersKept` of `EnvConfig` for lines of one piece; that `FirstFileWins` needs no more of `KeyStore` than the order of
   its places; `HashOfWhole`, whose recursion over blocks `SetInduction` can reach as it does the registers of `LeaModes`.
2. `SecureLink` with a `SerialPort` in place of its one-frame buffers, if the state space allows.
3. CMAC and GCM, should anything begin to call them.
