------------------------------ MODULE MCWindow ------------------------------
(* The window on rings of four and five bytes, with two byte values. *)
EXTENDS Window
=============================================================================
