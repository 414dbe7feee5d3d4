---------------------------- MODULE MCDaemonStart ----------------------------
(* Instances of DaemonStart for TLC. *)
EXTENDS DaemonStart, TLC

CONSTANTS l1, l2, l3, d1, d2, d3, d4

TwoLaunchers == {l1, l2}
ThreeLaunchers == {l1, l2, l3}
FourDaemons == {d1, d2, d3, d4}
=============================================================================
