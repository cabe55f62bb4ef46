----------------------------- MODULE RequestLog -----------------------------
(***************************************************************************)
(* What the secure link promises about one direction of one slave address: *)
(* the requests a station takes are the requests the master issued, each   *)
(* once, in the order issued and with none left out. A station may stop    *)
(* taking them for good; it never skips one.                               *)
(***************************************************************************)
EXTENDS Naturals, Sequences

CONSTANTS Addresses, Stations, Requests

VARIABLES
  log,        \* per address, the requests issued
  delivered   \* per station and address, the requests taken

Init ==
  /\ log = [a \in Addresses |-> <<>>]
  /\ delivered = [s \in Stations |-> [a \in Addresses |-> <<>>]]

Issue(a) ==
  /\ \E r \in Requests : log' = [log EXCEPT ![a] = Append(@, r)]
  /\ UNCHANGED delivered

Take(s, a) ==
  /\ Len(delivered[s][a]) < Len(log[a])
  /\ delivered' = [delivered EXCEPT ![s][a] = Append(@, log[a][Len(@) + 1])]
  /\ UNCHANGED log

Next == \E a \in Addresses : Issue(a) \/ \E s \in Stations : Take(s, a)

Spec == Init /\ [][Next]_<<log, delivered>>
=============================================================================
