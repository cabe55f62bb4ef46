------------------------------ MODULE DemoRuns ------------------------------
(***************************************************************************)
(* main of secure_send_demo.c and main of secure_recv_demo.c: runs of      *)
(* count frames of growing size, to files or over a port, and what the     *)
(* slave's registers and the two exit codes say afterwards.                *)
(*                                                                         *)
(* One exchange is one step here: the sender sleeps and waits longer than  *)
(* the receiver works, and what may happen inside an exchange is           *)
(* SecureLink's subject. Counters are in blocks and outlast the programs,  *)
(* which keep them in files (CtrState). Both programs have both keys.      *)
(***************************************************************************)
EXTENDS ModbusPdu

CONSTANTS
  Counts,       \* values of the argument count
  Ports,        \* whether the sender may be given a port, or none
  MaxRuns       \* bound on the runs of the sender

DemoRunsAssumption == Counts \subseteq Int /\ Ports \subseteq BOOLEAN /\ MaxRuns \in Nat

VARIABLES
  sender,       \* the run of secure_send_demo, and how many there were
  receiver,     \* the run of secure_recv_demo
  master, slave,  \* counters of the two ends: m2s and s2m
  sentFiles     \* sent_frame.bin and sent_frame_%d.bin

runVars == <<vars, sender, receiver, master, slave, sentFiles>>

MaxRegisters == 123
StartRegister == 1

\* What a sweep takes for granted of the slave and of the width of a word: its
\* largest frame is one the slave accepts, and no value wraps. In the code 123
\* registers are the limit, the tables have 128, and a word has 16 bits.
SweepFits ==
  /\ MaxRegisters <= MaxWriteRegs /\ StartRegister + MaxRegisters <= TableSize
  /\ \A n \in Counts \cup {1} : n + MaxRegisters - 2 < Base * Base

\* Wrong: the sweep is divided by the number of frames, not of steps.
Regs_short(count, i) ==
  IF count > 1 THEN 1 + (i * (MaxRegisters - 1)) \div count ELSE MaxRegisters

\* The registers of frame i: from 1 to MaxRegisters, or at once MaxRegisters.
Regs(count, i) ==
  IF count > 1 THEN 1 + (i * (MaxRegisters - 1)) \div (count - 1) ELSE MaxRegisters

SweepPdu(count, i) ==
  LET n == Regs(count, i)
  IN [func |-> WriteRegisters,
      body |-> PutU16(StartRegister) \o PutU16(n) \o <<2 * n>>
               \o PackWords([r \in 0 .. n - 1 |-> (r + i) % (Base * Base)], n)]

\* Blocks of the ADU: address, function code, body and CRC.
Blocks(pdu) == (Len(pdu.body) + 4 + 15) \div 16

\* A count below 1 is taken as 1.
NewRun(arg) == [at |-> "running", count |-> IF arg < 1 THEN 1 ELSE arg,
                i |-> 0, ok |-> 0, failed |-> 0]
NoRun == [at |-> "off", count |-> 1, i |-> 0, ok |-> 0, failed |-> 0]

\* A run after one more frame.
Counted(run, good) ==
  [run EXCEPT !.i = @ + 1,
              !.ok = IF good THEN @ + 1 ELSE @,
              !.failed = IF good THEN @ ELSE @ + 1,
              !.at = IF run.i + 1 = run.count THEN "ended" ELSE @]

RunInit ==
  /\ Init
  /\ sender = [run |-> NoRun, port |-> FALSE, runs |-> 0]
  /\ receiver = NoRun
  /\ master = [m2s |-> 0, s2m |-> 0] /\ slave = [m2s |-> 0, s2m |-> 0]
  /\ sentFiles = [name \in {} |-> 0]

(***************************************************************************)
(* The sender. A frame's counter is spent when it is built, whatever       *)
(* becomes of it.                                                          *)
(***************************************************************************)
StartSender(arg, port) ==
  /\ sender.run.at # "running"
  /\ sender.runs < MaxRuns
  /\ sender' = [run |-> NewRun(arg), port |-> port, runs |-> sender.runs + 1]
  /\ UNCHANGED <<vars, receiver, master, slave, sentFiles>>

Tallied(good) == sender' = [sender EXCEPT !.run = Counted(@, good)]

ThisPdu == SweepPdu(sender.run.count, sender.run.i)

BuildsFrame == sender.run.at = "running"

\* Wrong: every frame goes to sent_frame.bin.
FileIndex_one(count, i) == -1

\* sent_frame_%d.bin, and -1 for sent_frame.bin, which holds a single frame.
FileIndex(count, i) == IF count > 1 THEN i ELSE -1

\* No port was given. fopen fails, or the file gets the frame, whole or cut
\* where the disk is full: nobody looks at what fwrite and fclose return.
FrameToFile(opened, whole) ==
  LET name == FileIndex(sender.run.count, sender.run.i)
      file == [pos |-> master.m2s, pdu |-> ThisPdu, whole |-> whole]
  IN /\ BuildsFrame /\ ~sender.port
     /\ master' = [master EXCEPT !.m2s = @ + Blocks(ThisPdu)]
     /\ sentFiles' =
          IF opened
          THEN [x \in DOMAIN sentFiles \cup {name} |-> IF x = name THEN file ELSE sentFiles[x]]
          ELSE sentFiles
     /\ Tallied(opened)
     /\ UNCHANGED <<vars, receiver, slave>>

\* The port cannot be opened or written, the frame is lost, or nobody listens.
FrameLost ==
  /\ BuildsFrame /\ sender.port
  /\ master' = [master EXCEPT !.m2s = @ + Blocks(ThisPdu)]
  /\ Tallied(FALSE)
  /\ exchange' = Idle
  /\ UNCHANGED <<tables, ready, receiver, slave, sentFiles>>

\* The receiver gets a damaged frame, or one it is out of step with: the
\* latter is authentic, and spends its counter.
FrameRejected(damaged) ==
  /\ BuildsFrame /\ sender.port
  /\ receiver.at = "running"
  /\ damaged \/ slave.m2s # master.m2s
  /\ master' = [master EXCEPT !.m2s = @ + Blocks(ThisPdu)]
  /\ slave' = IF damaged THEN slave ELSE [slave EXCEPT !.m2s = @ + Blocks(ThisPdu)]
  /\ receiver' = Counted(receiver, FALSE)
  /\ Tallied(FALSE)
  /\ exchange' = Idle
  /\ UNCHANGED <<tables, ready, sentFiles>>

\* The receiver executes the frame and answers; the reply arrives or is lost.
FrameExecuted(heard) ==
  LET reply == Reply(EnsureTables, ThisPdu)
  IN /\ BuildsFrame /\ sender.port
     /\ receiver.at = "running"
     /\ slave.m2s = master.m2s
     /\ tables' = Carried(EnsureTables, ThisPdu)
     /\ ready' = TRUE
     /\ exchange' = [stage |-> "answered", request |-> ThisPdu, reply |-> reply]
     /\ slave' = [m2s |-> slave.m2s + Blocks(ThisPdu), s2m |-> slave.s2m + Blocks(reply)]
     /\ master' = [m2s |-> master.m2s + Blocks(ThisPdu),
                   s2m |-> IF heard THEN master.s2m + Blocks(reply) ELSE master.s2m]
     /\ receiver' = Counted(receiver, TRUE)
     /\ Tallied(heard /\ master.s2m = slave.s2m)
     /\ UNCHANGED sentFiles

SenderStops ==
  /\ sender.run.at = "running"
  /\ sender' = [sender EXCEPT !.run = NoRun, !.port = FALSE]
  /\ UNCHANGED <<vars, receiver, master, slave, sentFiles>>

(***************************************************************************)
(* The receiver: its tables are those of a new process.                    *)
(***************************************************************************)
StartReceiver(arg) ==
  /\ receiver.at # "running"
  /\ receiver' = NewRun(arg)
  /\ tables' = ZeroTables /\ ready' = FALSE /\ exchange' = Idle
  /\ UNCHANGED <<sender, master, slave, sentFiles>>

\* 30 s without a frame, an I/O error, or the end of the process.
ReceiverStops ==
  /\ receiver.at = "running"
  /\ receiver' = NoRun
  /\ UNCHANGED <<vars, sender, master, slave, sentFiles>>

RunNext ==
  \/ \E arg \in Counts : StartReceiver(arg) \/ \E port \in Ports : StartSender(arg, port)
  \/ \E b \in BOOLEAN : FrameRejected(b) \/ FrameExecuted(b)
  \/ \E opened, whole \in BOOLEAN : FrameToFile(opened, whole)
  \/ FrameLost \/ SenderStops \/ ReceiverStops

RunSpec == RunInit /\ [][RunNext]_runVars

-----------------------------------------------------------------------------
ExitCode == IF sender.run.failed = 0 THEN 0 ELSE 1
Ended == sender.run.at = "ended"

\* Type correctness: a run has counted the frames before frame i, no more.
RunTypeOK ==
  /\ \A run \in {sender.run, receiver} :
       /\ run.at \in {"off", "running", "ended"}
       /\ {run.count, run.i, run.ok, run.failed} \subseteq Nat
       /\ run.i <= run.count /\ run.ok + run.failed = run.i
  /\ sender.run.at = "running" => sender.run.i < sender.run.count
  /\ sender.port \in BOOLEAN /\ sender.runs \in 0 .. MaxRuns
  /\ {master.m2s, master.s2m, slave.m2s, slave.s2m} \subseteq Nat
  /\ DOMAIN sentFiles \subseteq Nat \cup {-1}

\* Every frame of a sweep is one the slave carries out, whatever its size: it
\* never answers with an exception, which the sender would count as a success
\* (secure_send_demo.c:98-102; MANUAL.md:570).
NoneRefused ==
  exchange.stage = "answered" => exchange.reply.func = WriteRegisters

\* A run over a port that exits with 0 has left all of its last frame in the
\* slave's registers (secure_send_demo.c:4, 37-39), whatever was lost or
\* restarted before: every reply it counted is that of its own frame. That
\* replies are not late is a proviso here; SecureLink is about late ones.
ExitMeansWritten ==
  Ended /\ sender.port /\ ExitCode = 0 /\ ready =>
    \A r \in 0 .. MaxRegisters - 1 :
      tables.holding[StartRegister + r] = r + sender.run.count - 1

\* A run that writes its frames to files and exits with 0 leaves one file for
\* each, of growing size up to the largest, at counters a slave that reads
\* them in order can follow (secure_send_demo.c:14-15; secure_recv_demo.c:11),
\* unless the disk was full.
FilesAreSweep ==
  LET n == sender.run.count
      File(i) == sentFiles[FileIndex(n, i)]
  IN Ended /\ ~sender.port /\ ExitCode = 0 =>
       /\ \A i \in 0 .. n - 1 : FileIndex(n, i) \in DOMAIN sentFiles
       /\ (\A i \in 0 .. n - 1 : File(i).whole) =>
            /\ Qty(File(n - 1).pdu) = MaxRegisters
            /\ n > 1 => Qty(File(0).pdu) = 1
            /\ \A i \in 1 .. n - 1 :
                 /\ Qty(File(i).pdu) > Qty(File(i - 1).pdu)
                 /\ File(i).pos = File(i - 1).pos + Blocks(File(i - 1).pdu)
=============================================================================
