---------------------------- MODULE MCTraversal ----------------------------
(* Model-checking instances of Traversal. RAR 1.5-4.x members are stored and *)
(* number their volumes at the end, so late starts and missing volumes are   *)
(* tried there, and sizes, compression and solid runs with RAR5.             *)
EXTENDS Traversal

Narrow(sizes, empty) ==
  [sizes |-> sizes, listings |-> {FALSE}, starts |-> {0}, skipped |-> 0,
   stagedEmpty |-> empty]

BothFormats ==
  [rar5 |-> Narrow({0, 2}, FALSE),
   rar4 |-> [sizes |-> {1}, listings |-> BOOLEAN, starts |-> {0, 1}, skipped |-> 1,
             stagedEmpty |-> TRUE]]
StagedEmptyRar5 == [rar5 |-> Narrow({2}, TRUE)]
OneSizeRar5 == [rar5 |-> Narrow({1}, FALSE)]
=============================================================================
