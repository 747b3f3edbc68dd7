-------------------------- MODULE MCBlockPipeline --------------------------
EXTENDS BlockPipeline, TLC

CloserSymmetry == Permutations(Closers)

(* Each way a block can end, on the path that tells it apart: in a worker,  *)
(* in the overflow of a job's items, and inline.                            *)
EveryEnd == {<<"fits", "ok">>, <<"fits", "cut">>, <<"fits", "bad">>,
             <<"overflow", "ok">>, <<"big", "cut">>, <<"big", "bad">>}

(* The block the workers take; what it holds does not matter to a stop. *)
Plain == {<<"fits", "ok">>}
=============================================================================
