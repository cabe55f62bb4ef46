----------------------------- MODULE SecureLink -----------------------------
(***************************************************************************)
(* A master (demo/secure_send_demo.c, run_as_master in demo/main.c) and    *)
(* slaves (demo/secure_recv_demo.c, run_as_slave) on one RS-485 bus, with  *)
(* the frames of framing/secure_frame.c between them.                      *)
(*                                                                         *)
(* Counters are not transmitted: each end keeps its own and advances it by *)
(* the blocks of every frame it encrypts or authenticates. What decides how*)
(* a frame is received is its address, the direction whose keys made it,   *)
(* the counter it was encrypted at, its length in blocks and whether its   *)
(* bytes arrive intact. Counters are the durable ones of CtrState: they    *)
(* survive the end of a process, and their wrap is studied there.          *)
(***************************************************************************)
EXTENDS Integers, Sequences

CONSTANTS
  Slaves,      \* slave addresses, each a station on the bus
  AnyAddr,     \* stations running secure_recv_demo; the others run run_as_slave
  Keys,        \* <<address, direction>> pairs of keys.txt, the same everywhere
  Blocks,      \* lengths of frames, in 16-byte blocks
  MaxRequests, \* bound: requests the master builds per address
  Faults       \* what may go wrong, see the actions

M2S == 0
S2M == 1
Dirs == {M2S, S2M}

ASSUME SecureLinkAssumption ==
  /\ AnyAddr \subseteq Slaves
  /\ Keys \subseteq Slaves \X Dirs
  /\ Blocks \subseteq Nat \ {0}
  /\ MaxRequests \in Nat
  /\ Faults \subseteq {"loss", "damage", "noise", "send_fails", "gives_up", "slave_stops"}

VARIABLES
  mpc,      \* master: "idle", "built" (frame encrypted), "waiting" (for a reply)
  mframe,   \* the request it has built and, while waiting, sent
  mctr,     \* its counters, per address and direction
  mrx,      \* what a read of its port would return
  spc,      \* slave: "closed", "listening", "got", "verified", "executed",
            \* "replying"
  sframe,   \* the frame it is working on
  sctr,     \* its counters, per address and direction
  rx,       \* what a read of its port would return
  sent,     \* history: number of requests built per address
  taken,    \* history: requests a counter was consumed for, per slave, address
  applied,  \* history: requests executed, per slave and address
  confirmed \* history: [addr, req, rep]: request req counted as a success on
            \* the slave's reply to request rep

master == <<mpc, mframe, mctr, mrx>>
slaves == <<spc, sframe, sctr, rx>>
history == <<sent, taken, applied, confirmed>>
vars == <<master, slaves, history>>

Frame == [addr : Slaves, dir : Dirs, pos : Nat, blocks : Blocks, req : Nat,
          wire : {"intact", "short", "altered"}]
NoFrame == [wire |-> "none"]

(***************************************************************************)
(* secure_frame_verify_and_decrypt, check by check. A frame that fails one *)
(* of the first four leaves every counter alone; one that passes them      *)
(* advances the counter whether it then decrypts or not.                   *)
(***************************************************************************)
Parses(f) == f.wire # "short"
AddressedTo(f, s) == s \in AnyAddr \/ f.addr = s
HasKey(f, dir) == <<f.addr, dir>> \in Keys
Authentic(f, dir) == f.wire = "intact" /\ f.dir = dir

SlaveAdmits(s, f) ==
  Parses(f) /\ AddressedTo(f, s) /\ HasKey(f, M2S) /\ Authentic(f, M2S)

\* Wrong: the reply is checked with the keys of the request's direction.
MasterAdmits_m2s(f) ==
  Parses(f) /\ f.addr = mframe.addr /\ HasKey(f, M2S) /\ Authentic(f, M2S)

MasterAdmits(f) ==
  Parses(f) /\ f.addr = mframe.addr /\ HasKey(f, S2M) /\ Authentic(f, S2M)

\* Wrong: the CRC is not looked at, or a counter that is behind catches up.
Decrypts_any(f, ctr) == TRUE

Decrypts_ahead(f, ctr) == f.pos >= ctr

\* The CRC inside the ciphertext matches when it was decrypted at the counter
\* it was encrypted at.
Decrypts(f, ctr) == f.pos = ctr

Init ==
  /\ mpc = "idle" /\ mframe = NoFrame /\ mrx = NoFrame
  /\ mctr = [a \in Slaves |-> [d \in Dirs |-> 0]]
  /\ spc = [s \in Slaves |-> "listening"]
  /\ sframe = [s \in Slaves |-> NoFrame]
  /\ sctr = [s \in Slaves |-> [a \in Slaves |-> [d \in Dirs |-> 0]]]
  /\ rx = [s \in Slaves |-> NoFrame]
  /\ sent = [a \in Slaves |-> 0]
  /\ taken = [s \in Slaves |-> [a \in Slaves |-> <<>>]]
  /\ applied = [s \in Slaves |-> [a \in Slaves |-> <<>>]]
  /\ confirmed = {}

(***************************************************************************)
(* The bus: every station with an open port hears what another one sends.  *)
(* A read returns all that is in the input buffer: what comes in on top of *)
(* an unread frame makes one frame of both, and the two are lost.          *)
(***************************************************************************)
Joined(unread, f) ==
  IF unread = NoFrame THEN f ELSE [unread EXCEPT !.wire = "altered"]

\* The slaves with an open port hear f; a lossy bus picks which of them do.
Hear(from, f) ==
  LET open == {s \in Slaves \ from : spc[s] # "closed"}
  IN \E To \in IF "loss" \in Faults THEN SUBSET open ELSE {open} :
       rx' = [s \in Slaves |-> IF s \in To THEN Joined(rx[s], f) ELSE rx[s]]

\* Bytes are lost or changed: the frame becomes too short to parse, or fails
\* its HMAC.
Damage ==
  /\ "damage" \in Faults
  /\ \E w \in {"short", "altered"} :
       \/ /\ \E s \in Slaves : rx[s].wire = "intact" /\ rx' = [rx EXCEPT ![s].wire = w]
          /\ UNCHANGED mrx
       \/ /\ mrx.wire = "intact" /\ mrx' = [mrx EXCEPT !.wire = w]
          /\ UNCHANGED rx
  /\ UNCHANGED <<mpc, mframe, mctr, spc, sframe, sctr, history>>

\* A read ends at the first idle gap: bytes that are no frame, or the first part
\* of one whose rest is late, are returned by it as a frame of their own.
Noise ==
  /\ "noise" \in Faults
  /\ \E a \in Slaves, b \in Blocks :
       LET f == [addr |-> a, dir |-> M2S, pos |-> 0, blocks |-> b, req |-> 0,
                 wire |-> "short"]
       IN \/ /\ mpc = "waiting" /\ mrx' = Joined(mrx, f)
             /\ UNCHANGED rx
          \/ /\ \E s \in Slaves :
                  spc[s] # "closed" /\ rx' = [rx EXCEPT ![s] = Joined(@, f)]
             /\ UNCHANGED mrx
  /\ UNCHANGED <<mpc, mframe, mctr, spc, sframe, sctr, history>>

(***************************************************************************)
(* The master: one exchange is build, open and write, wait, verify.        *)
(***************************************************************************)

\* The counter is reserved (and persisted) before the port is even opened.
Build(a, b) ==
  /\ mpc = "idle"
  /\ sent[a] < MaxRequests
  /\ <<a, M2S>> \in Keys
  /\ mframe' = [addr |-> a, dir |-> M2S, pos |-> mctr[a][M2S], blocks |-> b,
                req |-> sent[a] + 1, wire |-> "intact"]
  /\ mctr' = [mctr EXCEPT ![a][M2S] = @ + b]
  /\ sent' = [sent EXCEPT ![a] = @ + 1]
  /\ mpc' = "built"
  /\ UNCHANGED <<mrx, slaves, taken, applied, confirmed>>

\* Opening the port flushes what it had received.
Send ==
  /\ mpc = "built"
  /\ Hear({}, mframe)
  /\ mrx' = NoFrame
  /\ mpc' = "waiting"
  /\ UNCHANGED <<mframe, mctr, spc, sframe, sctr, history>>

EndExchange == mpc' = "idle" /\ mframe' = NoFrame /\ mrx' = NoFrame

\* Wrong: a request that could not be sent gives its counter back.
SendFails_rollback ==
  /\ "send_fails" \in Faults
  /\ mpc = "built"
  /\ mctr' = [mctr EXCEPT ![mframe.addr][M2S] = mframe.pos]
  /\ EndExchange
  /\ UNCHANGED <<slaves, history>>

\* serial_port_open or serial_port_write fails, or the process is killed.
SendFails ==
  /\ "send_fails" \in Faults
  /\ mpc = "built"
  /\ EndExchange
  /\ UNCHANGED <<mctr, slaves, history>>

\* Every station has answered, or will not.
Quiet ==
  \A s \in Slaves : spc[s] = "closed" \/ (spc[s] = "listening" /\ rx[s] = NoFrame)

\* Wrong: no timeout, or one shorter than the time a slave works on a frame.
Expired_never == "gives_up" \in Faults

Expired_short == mrx = NoFrame

\* 30 s pass without a byte. A slave answers within that time if it does at
\* all, unless the master may give up: a slower slave, a read that fails, a
\* master that is killed.
Expired == "gives_up" \in Faults \/ (Quiet /\ mrx = NoFrame)

MasterTimesOut ==
  /\ mpc = "waiting"
  /\ Expired
  /\ EndExchange
  /\ UNCHANGED <<mctr, slaves, history>>

RejectReply ==
  /\ mpc = "waiting" /\ mrx # NoFrame
  /\ ~MasterAdmits(mrx)
  /\ EndExchange
  /\ UNCHANGED <<mctr, slaves, history>>

\* The reply is authentic: the counter advances, and the exchange is a success
\* if it decrypts. What request the reply answers is not looked at.
TakeReply ==
  LET a == mrx.addr
  IN /\ mpc = "waiting" /\ mrx # NoFrame
     /\ MasterAdmits(mrx)
     /\ mctr' = [mctr EXCEPT ![a][S2M] = @ + mrx.blocks]
     /\ \/ /\ Decrypts(mrx, mctr[a][S2M])
           /\ confirmed' = confirmed \cup {[addr |-> a, req |-> mframe.req, rep |-> mrx.req]}
        \/ /\ ~Decrypts(mrx, mctr[a][S2M]) \/ "gives_up" \in Faults
           /\ UNCHANGED confirmed
     /\ EndExchange
     /\ UNCHANGED <<slaves, sent, taken, applied>>

(***************************************************************************)
(* A slave: open the port, then read one frame after another.              *)
(***************************************************************************)

\* run_as_slave closes the port after one frame, secure_recv_demo reads on.
Done(s) == spc' = [spc EXCEPT ![s] = IF s \in AnyAddr THEN "listening" ELSE "closed"]

SlaveOpens(s) ==
  /\ spc[s] = "closed"
  /\ spc' = [spc EXCEPT ![s] = "listening"]
  /\ rx' = [rx EXCEPT ![s] = NoFrame]
  /\ UNCHANGED <<master, sframe, sctr, history>>

SlaveReads(s) ==
  /\ spc[s] = "listening" /\ rx[s] # NoFrame
  /\ sframe' = [sframe EXCEPT ![s] = rx[s]]
  /\ rx' = [rx EXCEPT ![s] = NoFrame]
  /\ spc' = [spc EXCEPT ![s] = "got"]
  /\ UNCHANGED <<master, sctr, history>>

\* Wrong: the rejected frame is kept.
Dropped_kept(s) ==
  /\ rx' = [rx EXCEPT ![s] = NoFrame]
  /\ Done(s)
  /\ UNCHANGED <<master, sframe, history>>

\* A frame that is not taken: secure_recv_demo drains the input, and with it
\* whatever has come in since the read; run_as_slave closes the port.
Dropped(s) ==
  /\ sframe' = [sframe EXCEPT ![s] = NoFrame]
  /\ rx' = [rx EXCEPT ![s] = NoFrame]
  /\ Done(s)
  /\ UNCHANGED <<master, history>>

\* Malformed, not for this slave, no key, or HMAC mismatch.
SlaveRejects(s) ==
  /\ spc[s] = "got"
  /\ ~SlaveAdmits(s, sframe[s])
  /\ Dropped(s)
  /\ UNCHANGED sctr

\* Authentic, but out of step: the counter advances all the same.
SlaveMisdecrypts(s) ==
  LET f == sframe[s]
  IN /\ spc[s] = "got"
     /\ SlaveAdmits(s, f)
     /\ ~Decrypts(f, sctr[s][f.addr][M2S])
     /\ sctr' = [sctr EXCEPT ![s][f.addr][M2S] = @ + f.blocks]
     /\ Dropped(s)

SlaveDecrypts(s) ==
  LET f == sframe[s]
  IN /\ spc[s] = "got"
     /\ SlaveAdmits(s, f)
     /\ Decrypts(f, sctr[s][f.addr][M2S])
     /\ sctr' = [sctr EXCEPT ![s][f.addr][M2S] = @ + f.blocks]
     /\ taken' = [taken EXCEPT ![s][f.addr] = Append(@, f.req)]
     /\ spc' = [spc EXCEPT ![s] = "verified"]
     /\ UNCHANGED <<master, sframe, rx, sent, applied, confirmed>>

\* Wrong: a request is executed again until its reply is out.
ToExecute_again(s) == spc[s] \in {"verified", "executed"}

ToExecute(s) == spc[s] = "verified"

\* modbus_build_response applies the request to the coils and registers.
SlaveExecutes(s) ==
  /\ ToExecute(s)
  /\ applied' = [applied EXCEPT ![s][sframe[s].addr] = Append(@, sframe[s].req)]
  /\ spc' = [spc EXCEPT ![s] = "executed"]
  /\ UNCHANGED <<master, sframe, sctr, rx, sent, taken, confirmed>>

\* Wrong: the reply may be made before the request is executed.
ToReply_early(s) == spc[s] \in {"verified", "executed"}

ToReply(s) == spc[s] = "executed"

\* The reply is encrypted at the s2m counter.
SlaveBuildsReply(s, b) ==
  LET f == sframe[s]
  IN /\ ToReply(s)
     /\ HasKey(f, S2M)
     /\ sframe' = [sframe EXCEPT ![s] = [f EXCEPT !.dir = S2M, !.blocks = b,
                                                  !.pos = sctr[s][f.addr][S2M]]]
     /\ sctr' = [sctr EXCEPT ![s][f.addr][S2M] = @ + b]
     /\ spc' = [spc EXCEPT ![s] = "replying"]
     /\ UNCHANGED <<master, rx, history>>

\* Without a key of the s2m direction there is no reply, and no error to the
\* master either.
SlaveCannotReply(s) ==
  /\ ToReply(s)
  /\ ~HasKey(sframe[s], S2M)
  /\ sframe' = [sframe EXCEPT ![s] = NoFrame]
  /\ Done(s)
  /\ UNCHANGED <<master, sctr, rx, history>>

\* The reply reaches the master only while its port is open.
SlaveReplies(s) ==
  /\ spc[s] = "replying"
  /\ Hear({s}, sframe[s])
  /\ \/ mpc = "waiting" /\ mrx' = Joined(mrx, sframe[s])
     \/ (mpc # "waiting" \/ "loss" \in Faults) /\ UNCHANGED mrx
  /\ sframe' = [sframe EXCEPT ![s] = NoFrame]
  /\ Done(s)
  /\ UNCHANGED <<mpc, mframe, mctr, sctr, history>>

\* The port is closed: the read timed out or failed, the count of frames was
\* reached, the write of the reply failed, or the process was killed.
SlaveStops(s) ==
  /\ "slave_stops" \in Faults
  /\ spc[s] # "closed"
  /\ spc' = [spc EXCEPT ![s] = "closed"]
  /\ sframe' = [sframe EXCEPT ![s] = NoFrame]
  /\ UNCHANGED <<master, sctr, rx, history>>

MasterStep == Send \/ MasterTimesOut \/ RejectReply \/ TakeReply

SlaveStep(s) ==
  \/ SlaveReads(s) \/ SlaveRejects(s) \/ SlaveMisdecrypts(s) \/ SlaveDecrypts(s)
  \/ SlaveExecutes(s) \/ SlaveCannotReply(s) \/ SlaveReplies(s)
  \/ \E b \in Blocks : SlaveBuildsReply(s, b)

Next ==
  \/ \E a \in Slaves, b \in Blocks : Build(a, b)
  \/ MasterStep \/ SendFails
  \/ \E s \in Slaves : SlaveOpens(s) \/ SlaveStep(s) \/ SlaveStops(s)
  \/ Damage \/ Noise

Spec == Init /\ [][Next]_vars

\* A program that is running goes on: no step of an exchange waits for a user.
\* Requests are built, and a closed port is opened again, only when one does.
FairSpec == Spec /\ WF_vars(MasterStep) /\ \A s \in Slaves : WF_vars(SlaveStep(s))

(***************************************************************************)
(* Properties.                                                             *)
(***************************************************************************)

\* Every variable has its type, and a station, or the master, has a frame in
\* hand exactly while it is working on one.
TypeOK ==
  /\ mpc \in {"idle", "built", "waiting"}
  /\ mframe \in Frame \cup {NoFrame}
  /\ mpc = "idle" <=> mframe = NoFrame
  /\ mctr \in [Slaves -> [Dirs -> Nat]]
  /\ mrx \in Frame \cup {NoFrame}
  /\ spc \in [Slaves -> {"closed", "listening", "got", "verified", "executed", "replying"}]
  /\ sframe \in [Slaves -> Frame \cup {NoFrame}]
  /\ \A s \in Slaves : spc[s] \in {"closed", "listening"} <=> sframe[s] = NoFrame
  /\ sctr \in [Slaves -> [Slaves -> [Dirs -> Nat]]]
  /\ rx \in [Slaves -> Frame \cup {NoFrame}]
  /\ sent \in [Slaves -> Nat]
  /\ taken \in [Slaves -> [Slaves -> Seq(Nat)]]
  /\ applied \in [Slaves -> [Slaves -> Seq(Nat)]]
  /\ confirmed \subseteq [addr : Slaves, req : Nat, rep : Nat]

(***************************************************************************)
(* The inductive invariant: a station's request counter is never ahead of  *)
(* a frame still on its way to it, and is level with one only if it has    *)
(* missed nothing before it. Once a frame is missed the counter stays      *)
(* strictly behind for good: it advances by a later frame's blocks, and the*)
(* master's has advanced by those and the missing one's.                   *)
(***************************************************************************)
Request(f) == f # NoFrame /\ f.wire = "intact" /\ f.dir = M2S

\* The requests on their way to station s, the one it is verifying included.
Built == IF mpc = "built" THEN {mframe} ELSE {}
Unread(s) == {f \in {rx[s]} : Request(f)}
Unverified(s) == {f \in {sframe[s]} : spc[s] = "got" /\ Request(f)}
OnTheWay(s) == Unverified(s) \cup Unread(s) \cup Built

\* A counter with n requests taken has not gone past position pos, and is
\* there only if request req is the next one.
Behind(ctr, n, pos, req) == ctr <= pos /\ (ctr = pos => req = n + 1)

\* Frame g was built after frame f.
Follows(f, g) == f.addr = g.addr => Behind(f.pos + f.blocks, f.req, g.pos, g.req)

GaplessInv ==
  \A s, a \in Slaves : \A i \in DOMAIN taken[s][a] : taken[s][a][i] = i

BehindInv ==
  \A s, a \in Slaves :
    LET ctr == sctr[s][a][M2S]
        n   == Len(taken[s][a])
    IN /\ Behind(ctr, n, mctr[a][M2S], sent[a] + 1)
       /\ \A f \in OnTheWay(s) : f.addr = a => Behind(ctr, n, f.pos, f.req)

OrderInv ==
  /\ \A s \in Slaves :
       /\ \A f \in OnTheWay(s) :
            /\ Behind(f.pos + f.blocks, f.req, mctr[f.addr][M2S], sent[f.addr] + 1)
            /\ f.req <= sent[f.addr]
       /\ \A f \in Unverified(s), g \in Unread(s) \cup Built : Follows(f, g)
       /\ \A f \in Unread(s), g \in Built : Follows(f, g)

\* What is about to be sent is a request of the master, a reply of a station.
MadeInv ==
  /\ mpc = "built" => Request(mframe)
  /\ \A s \in Slaves : spc[s] = "replying" => sframe[s].dir = S2M

StepInv == GaplessInv /\ BehindInv /\ OrderInv /\ MadeInv

\* Whatever the bus loses, damages or joins and whoever stops when, a station
\* consumes counters only for the requests of an address in the order they
\* were built, each once, none skipped (secure_recv_demo.c:9-11): the taken
\* requests are a log that lags the master's.
Issued == [a \in Slaves |-> [i \in 1 .. sent[a] |-> i]]
Log == INSTANCE RequestLog WITH
  Addresses <- Slaves, Stations <- Slaves, Requests <- 1 .. MaxRequests,
  log <- Issued, delivered <- taken
RequestsInOrder == Log!Spec

\* A request that was lost on the way to a station is never made up for: the
\* station takes no later request of that address, although nothing else goes
\* wrong (secure_recv_demo.c:11, verify_and_decrypt's CRC check).
Lost(s, a) ==
  LET next == Len(taken[s][a]) + 1
  IN next <= sent[a] /\ ~\E f \in OnTheWay(s) : f.addr = a /\ f.req = next
LossIsFinal ==
  [][\A s, a \in Slaves :
       Lost(s, a) => taken'[s][a] = taken[s][a] /\ Lost(s, a)']_vars

\* A station executes a request at most once and only after every earlier one
\* it executes, even when it stops between the steps of a frame and the master
\* sends again (secure_recv_demo.c:100).
AppliedOnce ==
  \A s, a \in Slaves :
    LET done == applied[s][a]
    IN /\ \A i, j \in DOMAIN done : i < j => done[i] < done[j]
       /\ \A i \in DOMAIN done : done[i] <= Len(taken[s][a])

\* Inductive with StepInv: the request a station is about to execute is the
\* last one it took, and later than any it has executed.
AppliedInv ==
  /\ AppliedOnce
  /\ \A s \in Slaves : spc[s] = "verified" =>
       LET f == sframe[s]
       IN /\ f.req = Len(taken[s][f.addr])
          /\ \A i \in DOMAIN applied[s][f.addr] : applied[s][f.addr][i] < f.req

\* A success the master reports rests on a request its slave has executed, no
\* later than the one reported, and no reply counts for two requests
\* (secure_send_demo.c:36-39), late replies and lost counters included.
SuccessIsEarned ==
  \A c \in confirmed :
    /\ c.rep <= c.req
    /\ \E s \in Slaves : \E i \in DOMAIN applied[s][c.addr] : applied[s][c.addr][i] = c.rep
    /\ \A d \in confirmed : d.addr = c.addr /\ d.rep = c.rep => d = c

\* At most one of the stations that take the frames of an address has a key to
\* answer them with.
Serves(s, a) == s \in AnyAddr \/ s = a
OneAnswer ==
  \A a, s, t \in Slaves : <<a, S2M>> \in Keys /\ Serves(s, a) /\ Serves(t, a) => s = t

\* Inductive with StepInv, with one answer per address: a station has one
\* request in work at a time, the last it took. Its reply is to an executed
\* request, later than any that was confirmed before, and only one of its
\* replies is unread.
Reply(f) == f # NoFrame /\ f.wire = "intact" /\ f.dir = S2M
Working(s) == spc[s] \in {"verified", "executed", "replying"}
Executed(s, a, r) == \E i \in DOMAIN applied[s][a] : applied[s][a][i] = r
Past(s, a, r) ==
  /\ r <= Len(taken[s][a])
  /\ Working(s) /\ sframe[s].addr = a => r < sframe[s].req

CurrentInv == mpc # "idle" => mframe.req = sent[mframe.addr]

LagInv == \A s, a \in Slaves : Len(taken[s][a]) <= sent[a]

WorkInv ==
  \A s \in Slaves : Working(s) =>
    LET f == sframe[s]
    IN /\ Serves(s, f.addr) /\ f.req = Len(taken[s][f.addr])
       /\ spc[s] # "verified" => Executed(s, f.addr, f.req)

ReplyInv ==
  Reply(mrx) =>
    \E s \in Slaves :
      /\ Serves(s, mrx.addr) /\ Executed(s, mrx.addr, mrx.req) /\ Past(s, mrx.addr, mrx.req)

PastInv ==
  \A c \in confirmed :
    /\ \A s \in Slaves : Serves(s, c.addr) => Past(s, c.addr, c.rep)
    /\ Reply(mrx) /\ mrx.addr = c.addr => c.rep < mrx.req

EarnedInv == SuccessIsEarned /\ CurrentInv /\ LagInv /\ WorkInv /\ ReplyInv /\ PastInv

\* The reply that makes a request a success is the reply to that request
\* (secure_send_demo.c:36-39), while a slave that answers does so within the
\* master's 30 s and no read of the master ends on bytes that are no frame.
SuccessMeansRoundTrip == \A c \in confirmed : c.rep = c.req

\* Inductive with MadeInv, with one answer per address and a master that waits
\* it out: what any station is busy with, or has yet to read, is the request the
\* master waits with, and nobody has one any more once something has come back.
Asks(s, f) == Request(f) /\ Serves(s, f.addr)
Busy(s) == Working(s) \/ (spc[s] = "got" /\ Asks(s, sframe[s]))
Queued(s) == spc[s] # "closed" /\ Asks(s, rx[s])
ThisOne(f) == mpc = "waiting" /\ f.addr = mframe.addr /\ f.req = mframe.req

RoundInv ==
  /\ SuccessMeansRoundTrip
  /\ \A s \in Slaves :
       /\ Busy(s) => ThisOne(sframe[s]) /\ Serves(s, sframe[s].addr) /\ ~Queued(s)
       /\ Queued(s) => ThisOne(rx[s])
       /\ spc[s] = "replying" => HasKey(sframe[s], S2M)
  /\ Reply(mrx) => ThisOne(mrx)
  /\ mrx # NoFrame => \A s \in Slaves : ~Busy(s) /\ ~Queued(s)

\* Between exchanges on a bus that loses nothing, the two ends agree on both
\* counters of every address, replies that could not be made included
\* (secure_frame.c:105 and 168 reserve the same number of blocks).
CountersInStep == mpc = "idle" /\ Quiet => \A s \in AnyAddr : sctr[s] = mctr

\* Inductive without faults and with one answer per address: the master's table
\* is ahead of a station's by the request on its way there, and behind it by the
\* reply on its way back.
Ahead(s) ==
  /\ mframe.pos = sctr[s][mframe.addr][M2S]
  /\ mctr = [sctr[s] EXCEPT ![mframe.addr][M2S] = @ + mframe.blocks]
Owed(s, f) ==
  /\ Reply(f) /\ HasKey(f, S2M) /\ f.addr = mframe.addr
  /\ f.pos = mctr[f.addr][S2M]
  /\ sctr[s] = [mctr EXCEPT ![f.addr][S2M] = @ + f.blocks]
Resting(s) == spc[s] = "listening" /\ rx[s] = NoFrame

Asked(s) ==
  /\ mrx = NoFrame /\ Ahead(s)
  /\ \/ spc[s] = "listening" /\ rx[s] = mframe
     \/ spc[s] = "got" /\ rx[s] = NoFrame /\ sframe[s] = mframe
Answering(s) ==
  /\ mrx = NoFrame /\ rx[s] = NoFrame
  /\ \/ /\ spc[s] \in {"verified", "executed"} /\ sctr[s] = mctr
        /\ sframe[s].addr = mframe.addr /\ sframe[s].wire = "intact"
     \/ spc[s] = "replying" /\ Owed(s, sframe[s])
Answered(s) == Resting(s) /\ (IF mrx = NoFrame THEN sctr[s] = mctr ELSE Owed(s, mrx))

TableInv(s) ==
  \/ mpc = "idle" /\ Resting(s) /\ sctr[s] = mctr
  \/ mpc = "built" /\ Resting(s) /\ Ahead(s)
  \/ mpc = "waiting" /\ (Asked(s) \/ Answering(s) \/ Answered(s))

TablesInv ==
  /\ mpc # "idle" => Request(mframe) /\ HasKey(mframe, M2S)
  /\ \A s \in Slaves :
       /\ Working(s) => Serves(s, sframe[s].addr)
       /\ spc[s] = "replying" => HasKey(sframe[s], S2M)
  /\ \A s \in AnyAddr : TableInv(s)

\* The master never waits for ever: a reply, a rejected frame or the timeout
\* ends every exchange (serial_port.c:262-317).
ExchangeEnds == mpc = "waiting" ~> mpc = "idle"

\* On a bus that loses nothing, every request to a slave with both keys is
\* confirmed by its own reply.
EveryRequestConfirmed ==
  \A a \in Slaves : \A r \in 1 .. MaxRequests :
    {a} \X Dirs \subseteq Keys =>
      (sent[a] = r ~> [addr |-> a, req |-> r, rep |-> r] \in confirmed)
=============================================================================
