----------------------------- MODULE SerialPort -----------------------------
(***************************************************************************)
(* src/demo/serial_port.c: opening a port, writing a frame, and telling    *)
(* frames apart by the silence between them.                               *)
(*                                                                         *)
(* One station writes frames with serial_port_write; another one calls     *)
(* serial_port_read again and again and drains the port when what it read  *)
(* is not a frame, as the callers do (secure_recv_demo.c 42-83).  Between  *)
(* them are the writer's transmit queue, the wire, which carries one byte  *)
(* at a time, and the reader's receive buffer.  The queue, the wire and    *)
(* the buffer, select(), read(), write() and ReadFile() are the kernel's   *)
(* and are modelled by what serial_port.c relies on.                       *)
(*                                                                         *)
(* Time passes in ticks of TickUs microseconds.  A process that can run    *)
(* runs before the next tick; what may take time is named by a constant.   *)
(***************************************************************************)
EXTENDS Integers, Sequences, SequencesExt

CONSTANTS
    Platform,      \* "posix" or "win32": which half of the #ifdef is built
    Baud,          \* the rate the port is opened with
    TickUs,        \* microseconds per tick
    FirstWait,     \* ticks in the 30 seconds a read waits for a first byte
    FrameLen,      \* the lengths of the frames that are written, in order
    MaxLen,        \* max_len of a read: the size of the caller's buffer
    ByteGap,       \* the longest silence inside a frame, in ticks
    FrameGap,      \* the shortest silence between two frames, in ticks
    MaxBusy,       \* ticks a reader may spend between two reads
    MaxEintr,      \* bound: how many system calls a signal interrupts
    MaxFaults      \* bound: how many system calls fail

VARIABLES
    port,      \* the reader's port: "closed", a step of opening it, or "open"
    fds,       \* file descriptors the reader holds
    pc,        \* the reader: "busy" elsewhere, "waiting" for input, "reading"
               \* it, or "failed" to open the port
    busy,      \* ticks it has been elsewhere
    buf,       \* the caller's buffer, filled up to total
    have_first_byte,
    timer,     \* ticks left of the select (or of ReadIntervalTimeout)
    deadline,  \* ticks left of ReadTotalTimeoutConstant
    result,    \* history: what the last read gave its caller
    frame,     \* the frame being written
    written,   \* history: how much of each frame write() accepted
    tx,        \* the writer's transmit queue
    quiet,     \* ticks since the last byte on the wire
    rx,        \* the reader's receive buffer
    gone,      \* history: bytes that have left the receive buffer for good
    lost,      \* history: those of them no caller was given
    cut,       \* history: the last bytes of reads that ReadTotalTimeout ended,
               \* or a read() that had nothing to give
    eintr, faults

opening == <<port, fds>>
reading == <<buf, have_first_byte, timer, deadline, result>>
writer == <<frame, written, tx>>
counts == <<cut, eintr, faults>>
vars == <<opening, pc, busy, reading, writer, quiet, rx, gone, lost, counts>>

Frames == DOMAIN FrameLen
NoBytes == <<>>
\* The first n bytes of frame f; a byte is named by its frame and position.
BytesOf(f, n) == [i \in 1..n |-> <<f, i>>]

-----------------------------------------------------------------------------
(* Opening *)

\* modbus_t35_us: 3.5 characters of 11 bits, and never under 20 ms.
modbus_t35_us(baud) ==
    LET t35 == IF baud > 19200 THEN 1750 ELSE 38500000 \div baud
    IN IF t35 > 20000 THEN t35 ELSE 20000

Interval == modbus_t35_us(Baud) \div TickUs

\* What is asked of the constants: a platform, and numbers.
SerialPortAssumption ==
    /\ Platform \in {"posix", "win32"}
    /\ Baud \in Nat \ {0} /\ TickUs \in Nat \ {0}
    /\ FirstWait \in Nat /\ MaxLen \in Nat \ {0}
    /\ FrameLen \in Seq(Nat \ {0})
    /\ {ByteGap, FrameGap, MaxBusy, MaxEintr, MaxFaults} \subseteq Nat

\* Good conditions: no two bytes of a frame are as far apart as the interval
\* that ends it, and the silence between frames outlasts a reader that comes
\* late, whose reads fail and whose wait every signal starts again.
GoodLine ==
    /\ ByteGap < Interval
    /\ (MaxFaults + 1) * MaxBusy + (MaxEintr + 1) * Interval < FrameGap

baud_to_speed == {1200, 2400, 4800, 9600, 19200, 38400, 57600, 115200, 230400}

Failure == faults < MaxFaults /\ faults' = faults + 1 /\ UNCHANGED eintr
Fault == Failure /\ UNCHANGED cut
Signal == eintr < MaxEintr /\ eintr' = eintr + 1 /\ UNCHANGED <<cut, faults>>

\* The receive buffer is emptied: tcflush, PurgeComm.
Flush ==
    /\ rx' = NoBytes
    /\ gone' = gone \o rx
    /\ lost' = lost \cup ToSet(rx)

\* open(), CreateFileA()
OpenFd ==
    /\ port = "closed" /\ pc = "busy"
    /\ \/ port' = "settings" /\ fds' = fds + 1 /\ UNCHANGED <<pc, counts>>
       \/ Fault /\ pc' = "failed" /\ UNCHANGED opening
    /\ UNCHANGED <<busy, reading, writer, quiet, rx, gone, lost>>

\* Wrong: the error path of the line settings leaves the descriptor open.
OpenSettings_leak ==
    /\ port = "settings"
    /\ \/ /\ Platform = "posix" => Baud \in baud_to_speed
          /\ port' = "open"
          /\ Flush
          /\ UNCHANGED <<fds, pc, counts>>
       \/ /\ (Platform = "posix" /\ Baud \notin baud_to_speed /\ UNCHANGED counts) \/ Fault
          /\ port' = "closed"
          /\ pc' = "failed"
          /\ UNCHANGED <<fds, rx, gone, lost>>
    /\ UNCHANGED <<busy, reading, writer, quiet>>

\* The rate, the line settings and the timeouts.  Each failure closes the
\* descriptor; success flushes what the kernel had buffered.
OpenSettings ==
    /\ port = "settings"
    /\ \/ /\ Platform = "posix" => Baud \in baud_to_speed
          /\ port' = "open"
          /\ Flush
          /\ UNCHANGED <<fds, pc, counts>>
       \/ /\ (Platform = "posix" /\ Baud \notin baud_to_speed /\ UNCHANGED counts) \/ Fault
          /\ port' = "closed" /\ fds' = fds - 1
          /\ pc' = "failed"
          /\ UNCHANGED <<rx, gone, lost>>
    /\ UNCHANGED <<busy, reading, writer, quiet>>

\* serial_port_close, between two reads; the caller may open again.
Close ==
    /\ port = "open" /\ pc = "busy"
    /\ port' = "closed" /\ fds' = fds - 1
    /\ UNCHANGED <<pc, busy, reading, writer, quiet, rx, gone, lost, counts>>

-----------------------------------------------------------------------------
(* Writing: serial_port_write of one frame after the other *)

\* No write is running.
Between == IF frame = 0 THEN TRUE ELSE written[frame].done

\* A caller starts the next frame when the bus has been silent.
StartWrite ==
    /\ Between /\ frame < Len(FrameLen)
    /\ tx = NoBytes /\ quiet >= FrameGap
    /\ frame' = frame + 1
    /\ UNCHANGED <<opening, pc, busy, reading, written, tx, quiet, rx, gone, lost, counts>>

\* The write is over once it has taken w bytes of the frame: the POSIX loop goes
\* on until none is left, the Win32 half calls WriteFile only once and gives up
\* (-1) what has not been sent after WriteTotalTimeoutConstant.
WriteEnds(w) == w = FrameLen[frame] \/ Platform = "win32"

\* Wrong: after a short write the loop starts again at the beginning of the
\* buffer.
WriteSome_restart ==
    /\ ~Between
    /\ \E n \in 1..(FrameLen[frame] - written[frame].n) :
          LET w == written[frame].n + n
          IN /\ tx' = tx \o BytesOf(frame, n)
             /\ written' = [written EXCEPT ![frame] = [n |-> w, done |-> WriteEnds(w)]]
    /\ UNCHANGED <<opening, pc, busy, reading, frame, quiet, rx, gone, lost, counts>>

\* write() or WriteFile() takes some of the bytes that are left, or all of them.
WriteSome ==
    /\ ~Between
    /\ \E n \in 1..(FrameLen[frame] - written[frame].n) :
          LET w == written[frame].n + n
          IN /\ tx' = tx \o SubSeq(BytesOf(frame, w), written[frame].n + 1, w)
             /\ written' = [written EXCEPT ![frame] = [n |-> w, done |-> WriteEnds(w)]]
    /\ UNCHANGED <<opening, pc, busy, reading, frame, quiet, rx, gone, lost, counts>>

\* EINTR continues the loop.
WriteEintr ==
    /\ ~Between /\ Platform = "posix" /\ Signal
    /\ UNCHANGED <<opening, pc, busy, reading, writer, quiet, rx, gone, lost>>

\* Any other error ends the write; what was accepted is on its way.
WriteFails ==
    /\ ~Between /\ Fault
    /\ written' = [written EXCEPT ![frame].done = TRUE]
    /\ UNCHANGED <<opening, pc, busy, reading, frame, tx, quiet, rx, gone, lost>>

\* The next byte crosses the wire.
Arrive ==
    /\ tx # NoBytes
    /\ rx' = Append(rx, Head(tx)) /\ tx' = Tail(tx)
    /\ quiet' = 0
    /\ UNCHANGED <<opening, pc, busy, reading, frame, written, gone, lost, counts>>

-----------------------------------------------------------------------------
(* Reading *)

\* The read returns: its caller gets bytes, and takes its time.
Return(bytes) ==
    /\ result' = bytes
    /\ gone' = gone \o bytes
    /\ pc' = "busy" /\ busy' = 0
    /\ timer' = 0 /\ deadline' = 0
    /\ buf' = NoBytes /\ have_first_byte' = FALSE

Rejected == result # NoBytes /\ \A f \in Frames : result # BytesOf(f, FrameLen[f])

\* A caller that was given something that is not a frame drains the port.
Drain ==
    /\ pc = "busy" /\ port = "open" /\ Rejected
    /\ Flush
    /\ result' = NoBytes
    /\ UNCHANGED <<opening, pc, busy, buf, have_first_byte, timer, deadline, writer, quiet, counts>>

ReadBegins ==
    /\ pc = "busy" /\ port = "open" /\ ~Rejected
    /\ pc' = "waiting"
    /\ result' = NoBytes
    /\ timer' = IF Platform = "posix" THEN FirstWait ELSE 0
    /\ deadline' = IF Platform = "win32" THEN FirstWait ELSE 0
    /\ UNCHANGED <<opening, busy, buf, have_first_byte, writer, quiet, rx, gone, lost, counts>>

\* select() sees a byte.
SelectReady ==
    /\ Platform = "posix" /\ pc = "waiting" /\ rx # NoBytes
    /\ pc' = "reading"
    /\ UNCHANGED <<opening, busy, reading, writer, quiet, rx, gone, lost, counts>>

\* Wrong: a timeout before the first byte waits again instead of returning 0.
SelectTimeout_again ==
    /\ Platform = "posix" /\ pc = "waiting" /\ rx = NoBytes /\ timer = 0
    /\ IF have_first_byte
         THEN Return(buf)
         ELSE timer' = FirstWait /\ UNCHANGED <<pc, busy, buf, have_first_byte, deadline, result, gone>>
    /\ UNCHANGED <<opening, writer, quiet, rx, lost, counts>>

\* select() times out: the frame has ended, or nothing came.
SelectTimeout ==
    /\ Platform = "posix" /\ pc = "waiting" /\ rx = NoBytes /\ timer = 0
    /\ Return(buf)
    /\ UNCHANGED <<opening, writer, quiet, rx, lost, counts>>

\* Wrong: the whole seconds of the interval, without its microseconds.
NextWait_seconds(have) == IF have THEN modbus_t35_us(Baud) \div 1000000 ELSE FirstWait

\* The timeout the next turn of the loop passes to select().
NextWait(have) == IF have THEN Interval ELSE FirstWait

\* A signal interrupts select() or read(): the loop starts its wait again.
ReadEintr ==
    /\ Platform = "posix" /\ pc \in {"waiting", "reading"} /\ Signal
    /\ pc' = "waiting"
    /\ timer' = NextWait(have_first_byte)
    /\ UNCHANGED <<opening, busy, buf, have_first_byte, deadline, result, writer, quiet, rx,
                   gone, lost>>

\* select(), read() or ReadFile() fails: -1, and what had arrived is lost.
ReadFails ==
    /\ pc \in {"waiting", "reading"} /\ Fault
    /\ pc' = "busy" /\ busy' = 0
    /\ result' = NoBytes
    /\ gone' = gone \o buf /\ lost' = lost \cup ToSet(buf)
    /\ timer' = 0 /\ deadline' = 0
    /\ buf' = NoBytes /\ have_first_byte' = FALSE
    /\ UNCHANGED <<opening, writer, quiet, rx>>

\* The last byte of a read that gives any.
EndOf(bytes) == {bytes[i] : i \in {Len(bytes)} \ {0}}

\* select() announces input and read() gives 0, as it does when the line hangs
\* up: the read ends, also inside a frame, with what has arrived of it.
ReadNone ==
    /\ Platform = "posix" /\ pc \in {"waiting", "reading"}
    /\ Failure
    /\ Return(buf)
    /\ cut' = cut \cup EndOf(buf)
    /\ UNCHANGED <<opening, writer, quiet, rx, lost>>

\* What read() takes: what is there, as far as the caller's buffer has room.
Taken == SubSeq(rx, 1, IF Len(rx) < MaxLen - Len(buf) THEN Len(rx) ELSE MaxLen - Len(buf))

\* read(), and the end of the loop if the buffer is full.
ReadSome ==
    /\ Platform = "posix" /\ pc = "reading"
    /\ rx' = SubSeq(rx, Len(Taken) + 1, Len(rx))
    /\ IF Len(buf \o Taken) >= MaxLen
         THEN Return(buf \o Taken)
         ELSE /\ buf' = buf \o Taken
              /\ have_first_byte' = TRUE
              /\ timer' = NextWait(TRUE)
              /\ pc' = "waiting"
              /\ UNCHANGED <<busy, deadline, result, gone>>
    /\ UNCHANGED <<opening, writer, quiet, lost, counts>>

\* ReadFile(): the driver collects bytes until the buffer is full, until
\* two bytes are ReadIntervalTimeout apart (whole milliseconds, which the
\* floor of modbus_t35_us already is), or until ReadTotalTimeoutConstant has
\* passed since the call.
ReadFile ==
    /\ Platform = "win32" /\ pc = "waiting"
    /\ rx' = SubSeq(rx, Len(Taken) + 1, Len(rx))
    /\ \/ /\ rx # NoBytes /\ deadline > 0 /\ Len(buf \o Taken) < MaxLen
          /\ buf' = buf \o Taken /\ have_first_byte' = TRUE
          /\ timer' = Interval
          /\ UNCHANGED <<pc, busy, deadline, result, gone, cut>>
       \/ /\ \/ deadline = 0
             \/ rx # NoBytes /\ Len(buf \o Taken) >= MaxLen
             \/ rx = NoBytes /\ have_first_byte /\ timer = 0
          /\ Return(buf \o Taken)
          /\ cut' = cut \cup (IF deadline = 0 THEN EndOf(buf \o Taken) ELSE {})
    /\ UNCHANGED <<opening, writer, quiet, lost, eintr, faults>>

-----------------------------------------------------------------------------
(* Time *)

\* The reader is blocked, or elsewhere for as long as it may be.
ReaderIdle ==
    CASE pc = "reading" -> FALSE
      [] pc = "waiting" -> /\ rx = NoBytes
                           /\ Platform = "posix" => timer > 0
                           /\ Platform = "win32" => deadline > 0 /\ (have_first_byte => timer > 0)
      [] pc = "busy"    -> port # "settings" /\ (port = "open" => busy < MaxBusy)
      [] pc = "failed"  -> TRUE

InsideFrame == ~Between \/ tx # NoBytes

Minus1(n) == IF n > 0 THEN n - 1 ELSE 0

Tick ==
    /\ ReaderIdle
    /\ InsideFrame => quiet < ByteGap
    /\ timer' = Minus1(timer)
    /\ deadline' = Minus1(deadline)
    /\ busy' = IF busy < MaxBusy THEN busy + 1 ELSE busy
    /\ quiet' = IF quiet < FrameGap THEN quiet + 1 ELSE quiet
    /\ UNCHANGED <<opening, pc, buf, have_first_byte, result, writer, rx, gone, lost, counts>>

-----------------------------------------------------------------------------
Init ==
    /\ port = "closed" /\ fds = 0
    /\ pc = "busy" /\ busy = 0
    /\ buf = NoBytes /\ have_first_byte = FALSE
    /\ timer = 0 /\ deadline = 0
    /\ result = NoBytes
    /\ frame = 0
    /\ written = [f \in Frames |-> [n |-> 0, done |-> FALSE]]
    /\ tx = NoBytes
    /\ quiet = FrameGap
    /\ rx = NoBytes
    /\ gone = NoBytes /\ lost = {} /\ cut = {}
    /\ eintr = 0 /\ faults = 0

Opens == OpenFd \/ OpenSettings \/ Close
Writes == StartWrite \/ WriteSome \/ WriteEintr \/ WriteFails
Reads == \/ ReadBegins \/ SelectReady \/ SelectTimeout \/ ReadEintr \/ ReadSome
         \/ ReadNone \/ ReadFails \/ ReadFile \/ Drain

ReadGoesOn == SelectReady \/ SelectTimeout \/ ReadSome \/ ReadFile

Next == Opens \/ Writes \/ Arrive \/ Reads \/ Tick

\* Time passes, the kernel delivers what was written, a process inside
\* serial_port_write or serial_port_read goes on.
Fairness ==
    /\ WF_vars(Tick)
    /\ WF_vars(Arrive)
    /\ WF_vars(WriteSome)
    /\ WF_vars(ReadGoesOn)

Spec == Init /\ [][Next]_vars /\ Fairness

-----------------------------------------------------------------------------
(* Properties *)

\* The bytes of the frames that are written.
Bytes == UNION {{f} \X (1..FrameLen[f]) : f \in Frames}

TypeOK ==
    /\ port \in {"closed", "settings", "open"} /\ fds \in 0..1
    /\ pc \in {"busy", "waiting", "reading", "failed"} /\ busy \in 0..MaxBusy
    /\ Len(buf) <= MaxLen /\ Len(result) <= MaxLen
    /\ have_first_byte = (buf # NoBytes)
    /\ timer \in 0..FirstWait \cup 0..Interval /\ deadline \in 0..FirstWait
    /\ pc \in {"waiting", "reading"} => port = "open"
    /\ ToSet(rx) \cup ToSet(tx) \cup ToSet(result) \cup lost \cup cut \subseteq Bytes
    /\ quiet \in 0..FrameGap /\ frame \in 0..Len(FrameLen)

\* A frame whose bytes are never ByteGap apart, on a bus that is silent for
\* more than the interval between frames, is what one read returns: whole,
\* and alone.  Only a frame that lost its beginning (a flush at open, a
\* failed read), that a write gave up, that does not fit the buffer, or that
\* ReadFile's total timeout or a read() of 0 bytes cuts in two, is seen in part
\* (serial_port.h: the idle interval is the frame boundary; 77-98, 242-317).
WholeFrames ==
    result # NoBytes =>
        \E f \in Frames : \E k \in 1..FrameLen[f] : \E n \in k..FrameLen[f] :
            /\ result = SubSeq(BytesOf(f, FrameLen[f]), k, n)
            /\ FrameLen[f] <= MaxLen =>
                 /\ k = 1 \/ <<f, k - 1>> \in lost \cup cut
                 /\ <<f, n>> \in cut \/ (written[f].done /\ n = written[f].n)

\* What write() accepted reaches the reader's side once and in order: short
\* writes, interrupted calls and reads in pieces neither repeat nor skip a
\* byte (242-260, 297-311).
StreamIntact ==
    gone \o buf \o rx \o tx = FlattenSeq([f \in Frames |-> BytesOf(f, written[f].n)])

\* The port is held exactly while it is open: no failure of opening leaks
\* the descriptor (157-198, 23-65).
NoDescriptorLeaks == fds = (IF port = "closed" THEN 0 ELSE 1)

\* Every read comes back to its caller, also when nothing arrives
\* (serial_port.h: at most 30 seconds for the first byte).
ReadEnds == pc \in {"waiting", "reading"} ~> pc = "busy"

=============================================================================
