-------------------------- MODULE MCBatchExecutor --------------------------
(* Four sites on three hosts; the first two share one. *)
EXTENDS BatchExecutor

MCHostOf == <<"h1", "h1", "h2", "h3">>
MCConcurrencies == {-1, 1, 2}
=============================================================================
