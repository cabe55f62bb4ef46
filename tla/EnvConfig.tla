----------------------------- MODULE EnvConfig ------------------------------
(***************************************************************************)
(* The console of src/demo/main.c: the menu, which reads a number with     *)
(* scanf and drops the rest of the line, and option 4, do_env_config,      *)
(* which asks for the settings of an exchange one after the other, each    *)
(* with fgets into a buffer of 64 bytes. The other options do not touch    *)
(* the settings and are SecureDemo's subject.                              *)
(*                                                                         *)
(* A line of input is the sequence of pieces fgets takes it in: one piece  *)
(* when it has less than 63 characters. A piece is "", "-" or some text.   *)
(***************************************************************************)
EXTENDS Integers, Sequences, FiniteSets

CONSTANTS
  Piece,       \* texts of a piece
  Line,        \* lines a user may type, sequences of pieces
  Number,      \* what strtol makes of a piece: 0 when it is no number
  MaxChanged   \* bound: settings that differ from their defaults

EnvConfigAssumption ==
  /\ Line \subseteq Seq(Piece) \ {<<>>}
  /\ Number \in [Piece -> Int]
  /\ MaxChanged \in Nat

VARIABLES
  at,          \* "off", "menu", or the question that waits for an answer
  isMaster,    \* is_master
  config,      \* config_port, config_baud, ...
  stdin,       \* pieces typed and not read
  eof,         \* stdin has ended
  wanted       \* history: the last answer each question admits

vars == <<at, isMaster, config, stdin, eof, wanted>>

Question == {"port", "baud", "addr", "func", "start", "value"}
Supported == 1 .. 6 \cup {15, 16}
Defaults == [port |-> <<>>, baud |-> 115200, addr |-> 1, func |-> 16, start |-> 1, value |-> 2]

Init ==
  /\ at = "menu" /\ isMaster = TRUE
  /\ config = Defaults /\ wanted = Defaults
  /\ stdin = <<>> /\ eof = FALSE

Accepted(q, v) ==
  CASE q = "baud" -> TRUE
    [] q = "addr" -> v \in 1 .. 247
    [] q = "func" -> v \in Supported
    [] OTHER -> v \in 0 .. 65535

\* Wrong: an empty answer is a number too.
Answered_blank(c, q, piece) ==
  IF q = "port" THEN [c EXCEPT !.port = IF piece = "-" THEN <<>> ELSE <<piece>>]
  ELSE IF ~Accepted(q, Number[piece]) THEN c
  ELSE [c EXCEPT ![q] = Number[piece]]

\* The settings after a piece was read as the answer to question q.
Answered(c, q, piece) ==
  IF piece = "" THEN c
  ELSE IF q = "port" THEN [c EXCEPT !.port = IF piece = "-" THEN <<>> ELSE <<piece>>]
  ELSE IF ~Accepted(q, Number[piece]) THEN c
  ELSE [c EXCEPT ![q] = Number[piece]]

\* A slave is asked for nothing beyond its address.
NextQuestion(q) ==
  CASE q = "port" -> "baud"
    [] q = "baud" -> "addr"
    [] q = "addr" -> IF isMaster THEN "func" ELSE "menu"
    [] q = "func" -> "start"
    [] q = "start" -> "value"
    [] q = "value" -> "menu"

\* What MANUAL.md:560 and the prompts say of a line typed as an answer.
Means(q, line) ==
  CASE line = <<"">> -> wanted[q]
    [] q = "port" -> IF line = <<"-">> THEN <<>> ELSE line
    [] q = "baud" -> Number[line[1]]
    [] q = "addr" -> IF Number[line[1]] \in 1 .. 247 THEN Number[line[1]] ELSE wanted[q]
    [] q = "func" -> IF Number[line[1]] \in Supported THEN Number[line[1]] ELSE wanted[q]
    [] OTHER -> IF Number[line[1]] \in 0 .. 65535 THEN Number[line[1]] ELSE wanted[q]

(***************************************************************************)
(* The user, who answers what the screen asks.                             *)
(***************************************************************************)
Types(line) ==
  /\ at # "off" /\ stdin = <<>> /\ ~eof
  /\ stdin' = line
  /\ wanted' = IF at \in Question THEN [wanted EXCEPT ![at] = Means(at, line)] ELSE wanted
  /\ Cardinality({q \in Question : wanted'[q] # Defaults[q]}) <= MaxChanged
  /\ UNCHANGED <<at, isMaster, config, eof>>

InputEnds ==
  /\ at # "off" /\ stdin = <<>> /\ ~eof
  /\ eof' = TRUE
  /\ UNCHANGED <<at, isMaster, config, stdin, wanted>>

(***************************************************************************)
(* The menu.                                                               *)
(***************************************************************************)
Chooses ==
  /\ at = "menu" /\ stdin # <<>> /\ Head(stdin) # ""
  /\ stdin' = <<>>
  /\ isMaster' = IF Number[Head(stdin)] = 1 THEN ~isMaster ELSE isMaster
  /\ at' = CASE Number[Head(stdin)] = 4 -> "port"
             [] Number[Head(stdin)] = 6 -> "off"
             [] OTHER -> "menu"
  /\ UNCHANGED <<config, eof, wanted>>

\* scanf skips an empty line and waits on.
SkipsBlank ==
  /\ at = "menu" /\ stdin # <<>> /\ Head(stdin) = ""
  /\ stdin' = Tail(stdin)
  /\ UNCHANGED <<at, isMaster, config, eof, wanted>>

\* After the end of input scanf fails for ever, and the menu is shown again.
MenuSpins ==
  /\ at = "menu" /\ stdin = <<>> /\ eof
  /\ UNCHANGED vars

StartsAgain ==
  /\ at = "off"
  /\ at' = "menu" /\ isMaster' = TRUE
  /\ config' = Defaults /\ wanted' = Defaults
  /\ stdin' = <<>> /\ eof' = FALSE

(***************************************************************************)
(* Option 4.                                                               *)
(***************************************************************************)
ReadsAnswer ==
  /\ at \in Question /\ stdin # <<>>
  /\ config' = Answered(config, at, Head(stdin))
  /\ stdin' = Tail(stdin)
  /\ at' = NextQuestion(at)
  /\ UNCHANGED <<isMaster, eof, wanted>>

ReadsNothing ==
  /\ at \in Question /\ stdin = <<>> /\ eof
  /\ at' = NextQuestion(at)
  /\ UNCHANGED <<isMaster, config, stdin, eof, wanted>>

Next ==
  \/ \E line \in Line : Types(line)
  \/ InputEnds \/ Chooses \/ SkipsBlank \/ MenuSpins \/ StartsAgain
  \/ ReadsAnswer \/ ReadsNothing

Spec == Init /\ [][Next]_vars

-----------------------------------------------------------------------------
\* Type correctness: whatever was typed, the settings are ones an exchange can
\* use (main.c:492, 509, 523, 537).
TypeOK ==
  /\ at \in Question \cup {"off", "menu"}
  /\ {isMaster, eof} \subseteq BOOLEAN
  /\ stdin \in Seq(Piece)
  /\ config.port \in Seq(Piece) /\ Len(config.port) <= 1
  /\ config.baud \in Int
  /\ config.addr \in 1 .. 247
  /\ config.func \in Supported
  /\ {config.start, config.value} \subseteq 0 .. 65535

\* Once its answer has been read, every setting is the last answer that was
\* typed at its own question and that it admits (MANUAL.md:560; main.c
\* 462-553): blank and refused answers, a menu choice, the questions a slave
\* is not asked, and the end of input change nothing.
AnswersKept == stdin = <<>> => config = wanted
=============================================================================
