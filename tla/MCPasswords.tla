---------------------------- MODULE MCPasswords -----------------------------
(* The passwords are interchangeable. *)
EXTENDS Passwords, TLC

SecretSymmetry == Permutations(Secret)
=============================================================================
