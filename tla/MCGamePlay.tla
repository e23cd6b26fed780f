------------------------------ MODULE MCGamePlay ------------------------------
(* GamePlay on small instances. *)
EXTENDS GamePlay

MCSide == [gravity |-> 4, classic |-> 3]
MCLine == [gravity |-> 3, classic |-> 3]
=============================================================================
