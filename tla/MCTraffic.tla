----------------------------- MODULE MCTraffic -----------------------------
(* Instances of Traffic for TLC.  The memory run uses one kind of packet   *)
(* and affords three of them; the time run uses two protocol stacks that   *)
(* share a name on one level, and two sizes.                               *)
EXTENDS Traffic

MCNode == {1, 2}
TwoLevels == {<<"IP", "TCP">>}
TwoStacks == {<<"IP", "TCP">>, <<"IP">>}
=============================================================================
