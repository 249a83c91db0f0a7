--------------------------- MODULE MCInputStream ---------------------------
(* InputStream as TLC checks it: every bound is a CONSTANT of the .cfg. *)
EXTENDS InputStream
===========================================================================
