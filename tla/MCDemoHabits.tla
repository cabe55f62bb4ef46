---------------------------- MODULE MCDemoHabits ----------------------------
(***************************************************************************)
(* Terminals with one counter file for each mode.  How they are used is    *)
(* chosen at the start, as habit, and narrows the constants:               *)
(*   modes     they change their mode, even after an exchange;             *)
(*   files     each keeps its mode; keys.txt has keys for both addresses;  *)
(*   ports     over a port, one exchange on a file at a time; with changes *)
(*             of mode;                                                    *)
(*   selftest  one terminal at a time, which runs self-tests in both modes *)
(*             between its exchanges.                                      *)
(***************************************************************************)
EXTENDS SecureDemo, FiniteSets, TLC

CONSTANTS p, q   \* the terminals

VARIABLE habit

Terminals == {p, q}
Swapped == Permutations(Terminals)
BothAddr == {1, 240}
Directions == {0, 1}
Home == {"home"}
OneKey == {<<1, 0>>}
AllKeys == {<<1, 0>>, <<240, 0>>, <<240, 1>>}
BothWays == {<<1, 0>>, <<1, 1>>}
AnyKeys == AllKeys \cup BothWays
Seeds == [s \in FileKeys |-> IF s[1] = 1 THEN 1 ELSE 2]
Lengths == {16, 17}
AnyOption == {"port", "reswitch", "selftest"}

Modes == INSTANCE SecureDemo WITH
  CtrMod <- 6, FileKeys <- OneKey, FileCtr <- [s \in OneKey |-> 1], Options <- {"reswitch"}

Files == INSTANCE SecureDemo WITH
  CtrMod <- 8, FileKeys <- AllKeys, FileCtr <- [s \in AllKeys |-> Seeds[s]],
  FrameLen <- {17}, Options <- {}

Ports == INSTANCE SecureDemo WITH
  CtrMod <- 4, FileKeys <- BothWays, FileCtr <- [s \in BothWays |-> 1], FrameLen <- {16},
  Options <- {"port", "reswitch"}

SelfTests == INSTANCE SecureDemo WITH
  CtrMod <- 5, FileKeys <- AllKeys, FileCtr <- [s \in AllKeys |-> Seeds[s]],
  FrameLen <- {17}, Options <- {"selftest", "reswitch"}

ASSUME /\ SecureDemoAssumption
       /\ Modes!SecureDemoAssumption /\ Files!SecureDemoAssumption
       /\ Ports!SecureDemoAssumption /\ SelfTests!SecureDemoAssumption

HabitInit == Init /\ habit \in {"modes", "files", "ports", "selftest"}

HabitNext ==
  /\ UNCHANGED habit
  /\ \/ habit = "modes" /\ Modes!Next
     \/ habit = "files" /\ Files!Next
     \/ habit = "ports" /\ Ports!Next
     \/ habit = "selftest" /\ SelfTests!Next /\ Cardinality(running') <= 1

HabitSpec == HabitInit /\ [][HabitNext]_<<vars, habit>>
=============================================================================
