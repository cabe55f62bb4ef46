------------------------------ MODULE MCSweeps ------------------------------
(***************************************************************************)
(* DemoRuns with the sizes of the code: runs of one frame and of three,    *)
(* over a port and to files, one after the other on the same counters; a   *)
(* count of zero is taken as one.                                          *)
(***************************************************************************)
EXTENDS DemoRuns

ASSUME DemoRunsAssumption /\ SweepFits
=============================================================================
