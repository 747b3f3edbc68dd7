--------------------------- MODULE MCVolumeChain ---------------------------
(* Model-checking instances of VolumeChain.                                  *)
EXTENDS VolumeChain, TLC

CloserSymmetry == Permutations(Closers)
=============================================================================
