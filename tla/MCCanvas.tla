------------------------------ MODULE MCCanvas ------------------------------
(* Instances of Canvas for TLC. *)
EXTENDS Canvas

OneLink == {<<1, 2>>}
OneStack == {<<"IP">>}
Started(limit, still, center) == [node_limit |-> limit, stationary |-> still, center_node |-> center]
MCOptions == {Started(-1, FALSE, 0), Started(1, FALSE, 1), Started(-1, TRUE, 0)}
=============================================================================
