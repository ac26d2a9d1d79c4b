------------------------------ MODULE MCConsole ------------------------------
(* A window that shrinks in either direction, and grows again. *)
EXTENDS Console

MCSizes == {<<2, 2>>, <<1, 2>>, <<2, 1>>}
=============================================================================
