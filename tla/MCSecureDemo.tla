---------------------------- MODULE MCSecureDemo ----------------------------
(***************************************************************************)
(* Small instances of SecureDemo: an address keys.txt has a key for, the   *)
(* address of the self-test, and one terminal or two.                      *)
(***************************************************************************)
EXTENDS SecureDemo

MCAddr == {1, 240}
MCDir == {0, 1}
OneDirectory == {"home"}
TwoDirectories == {"home", "elsewhere"}
MCProc == {"p", "q"}
OneProc == {"p"}
OneKey == {<<1, 0>>}
MCFileCtr == [s \in FileKeys |-> 1]
OneLength == {17}
OneBlock == {16}
Reswitch == {"reswitch"}
SelfTests == {"selftest"}
OneAddr == {1}
BothWays == {<<1, 0>>, <<1, 1>>}
Overlap == {"port", "overlap"}
=============================================================================
