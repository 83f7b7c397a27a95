------------------------------ MODULE MCWindows ------------------------------
(* Values of the constants of module Windows. *)
EXTENDS Windows

OneLink == {<<1, 2>>}
=============================================================================
