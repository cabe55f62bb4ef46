------------------------------- MODULE MCLine -------------------------------
(***************************************************************************)
(* The line, one part at a time:                                           *)
(*   posix   SerialPort at 9600 baud with ticks of 10 ms, as the POSIX     *)
(*   win32   half of the file and as its Win32 half: the frame interval is *)
(*           two ticks, and a byte follows the previous one within a tick, *)
(*           which covers a character (1.1 ms) and a driver that wakes the *)
(*           reader late.  The first frame is longer than the buffer;      *)
(*   bus     SecureLink with two stations on a line that loses and damages *)
(*           frames, with ports that fail and stations that stop.  The     *)
(*           address of station 2 has no s2m key.                          *)
(*                                                                         *)
(* Of the ports the line is what GoodLine asks for.                        *)
(***************************************************************************)
EXTENDS SerialPort

VARIABLES
  part,
  mpc, mframe, mctr, mrx, spc, sframe, sctr, srx,
  sent, taken, applied, confirmed                   \* SecureLink

link == <<mpc, mframe, mctr, mrx, spc, sframe, sctr, srx, sent, taken, applied, confirmed>>

Lengths == <<4, 2>>

Posix == INSTANCE SerialPort WITH
  Platform <- "posix", FirstWait <- 5, FrameGap <- 9, MaxEintr <- 1

Win32 == INSTANCE SerialPort WITH
  Platform <- "win32", FirstWait <- 8, FrameGap <- 7, MaxEintr <- 0

ASSUME PortsAreConfigured ==
  /\ Posix!SerialPortAssumption /\ Posix!GoodLine
  /\ Win32!SerialPortAssumption /\ Win32!GoodLine

Bus == INSTANCE SecureLink WITH
  Slaves <- {1, 2}, AnyAddr <- {}, Keys <- {<<1, 0>>, <<1, 1>>, <<2, 0>>}, Blocks <- {1},
  MaxRequests <- 2, Faults <- {"loss", "damage", "send_fails", "slave_stops"}, rx <- srx

OnPosix == part = "posix" /\ UNCHANGED <<part, link>>
OnWin32 == part = "win32" /\ UNCHANGED <<part, link>>
OnBus == part = "bus" /\ UNCHANGED <<part, vars>>

-----------------------------------------------------------------------------
Unused == "unused"
NoLink == /\ mpc = Unused /\ mframe = Unused /\ mctr = Unused /\ mrx = Unused
          /\ spc = Unused /\ sframe = Unused /\ sctr = Unused /\ srx = Unused
          /\ sent = Unused /\ taken = Unused /\ applied = Unused /\ confirmed = {}

LineInit ==
  \/ part = "posix" /\ Posix!Init /\ NoLink
  \/ part = "win32" /\ Win32!Init /\ NoLink
  \/ part = "bus" /\ Bus!Init /\ Init

LineNext ==
  \/ OnPosix /\ Posix!Opens
  \/ OnPosix /\ Posix!Writes
  \/ OnPosix /\ Posix!Arrive
  \/ OnPosix /\ Posix!Reads
  \/ OnPosix /\ Posix!Tick
  \/ OnWin32 /\ Win32!Opens
  \/ OnWin32 /\ Win32!Writes
  \/ OnWin32 /\ Win32!Arrive
  \/ OnWin32 /\ Win32!Reads
  \/ OnWin32 /\ Win32!Tick
  \/ OnBus /\ Bus!Next

all == <<part, vars, link>>

LineFairness ==
  /\ WF_all(OnPosix /\ Posix!Tick) /\ WF_all(OnWin32 /\ Win32!Tick)
  /\ WF_all(OnPosix /\ Posix!Arrive) /\ WF_all(OnWin32 /\ Win32!Arrive)
  /\ WF_all(OnPosix /\ Posix!WriteSome) /\ WF_all(OnWin32 /\ Win32!WriteSome)
  /\ WF_all(OnPosix /\ Posix!ReadGoesOn) /\ WF_all(OnWin32 /\ Win32!ReadGoesOn)
  /\ WF_all(OnBus /\ Bus!MasterStep)
  /\ \A s \in {1, 2} : WF_all(OnBus /\ Bus!SlaveStep(s))

LineSpec == LineInit /\ [][LineNext]_all /\ LineFairness

-----------------------------------------------------------------------------
\* Every exchange ends, whatever the line does to its frames and whichever
\* station stops, and a success is the reply to that very request
\* (SecureLink!ExchangeEnds and SuccessMeansRoundTrip).
ExchangeEnds ==
  /\ Bus!ExchangeEnds
  /\ [](part = "bus" => Bus!SuccessMeansRoundTrip)
=============================================================================
