---------------------------- MODULE MCSecureLink ----------------------------
(***************************************************************************)
(* Small instances of SecureLink: one station carries all the faults, two  *)
(* share a bus without any.  Of the two, station 1 runs secure_recv_demo   *)
(* and takes frames of any address, station 2 run_as_slave, and its        *)
(* address has no s2m key, so that it cannot be answered.  Frames of one   *)
(* and two blocks tell a counter that is out of step from one that is not. *)
(* A bus with two stations and faults is a part of MCLine.                 *)
(***************************************************************************)
EXTENDS SecureLink

OneSlave == {1}
TwoSlaves == {1, 2}
OneAnyAddr == {1}
AllKeys == Slaves \X Dirs
NoReplyKey == {<<1, M2S>>, <<1, S2M>>, <<2, M2S>>}
OneTwoBlocks == {1, 2}
OneBlock == {1}
AllFaults == {"loss", "damage", "noise", "send_fails", "gives_up", "slave_stops"}
NoiseOnly == {"noise"}
NoFaults == {}

\* The bus rests when all requests have been sent and dealt with.
AllServed ==
  /\ mpc = "idle" /\ \A s \in Slaves : sent[s] = MaxRequests /\ spc[s] \in {"closed", "listening"}
  /\ UNCHANGED vars

GoodSpec ==
  /\ Init /\ [][Next \/ AllServed]_vars
  /\ WF_vars(MasterStep) /\ \A s \in Slaves : WF_vars(SlaveStep(s))
=============================================================================
