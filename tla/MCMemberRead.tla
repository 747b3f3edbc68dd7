---------------------------- MODULE MCMemberRead ----------------------------
(* Small members for TLC: cipher and hash blocks of two bytes, two leaves. *)
EXTENDS MemberRead
=============================================================================
