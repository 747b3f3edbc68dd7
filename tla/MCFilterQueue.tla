--------------------------- MODULE MCFilterQueue ---------------------------
(* Members of up to five bytes with up to three filter records. *)
EXTENDS FilterQueue
=============================================================================
